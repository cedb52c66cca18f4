------------------------- MODULE AuditSandbox_proofs -------------------------
(***************************************************************************)
(* What holds of an audit in a sandbox for every number of tools, calls,   *)
(* processes and requests: what the gateway notes and records, what the    *)
(* trace attributes to which phase, and what is left on the machine.       *)
(***************************************************************************)
EXTENDS AuditSandbox, FiniteSetTheorems, SequenceTheorems, WellFoundedInduction, TLAPS

Resources == {"tmp", "network", "volume", "gateway", "target"}

Stages == Resources \union {"boot", "connect", "handshake", "tell", "read", "ask",
                            "snapshot", "cleanup", "ended"}

Stations == {"unsent", "body", "refused", "answered", "unresolved", "upstream",
             "answering", "failed", "broken", "left"}

Request == [st : Stations, due : SUBSET Nat, at : Nat, noted : BOOLEAN, settled : BOOLEAN]

Line == [no : Nat, pid : Pids, half : {"whole", "front", "back"}]

Segment == [phase : Nat, lines : Seq(Line), from : Nat, upto : Nat]

GatewayTyped ==
  /\ mode \in {"record", "replay"}
  /\ gate \in Nat
  /\ reqs \in [Requests -> Request]
  /\ tape \in Seq(Requests)

TraceTyped ==
  /\ file \in Seq(Line) /\ written \in Nat /\ touched \in BOOLEAN
  /\ phase \in Nat /\ seen \in Nat
  /\ carried \in Seq(Line) /\ segments \in Seq(Segment) /\ tail \in Seq(Line)
  /\ shrank \in BOOLEAN

AuditTyped ==
  /\ exists \subseteq Resources /\ present \subseteq Resources
  /\ untold \subseteq {"tmp", "network", "volume"}
  /\ at \in Stages /\ next \in Nat /\ todo \in Seq(Resources)
  /\ gaps \subseteq {"trace", "gateway"} /\ hindered \in BOOLEAN
  /\ verdict \in {"none", "unavailable", "error", "report"}
  /\ told \subseteq Resources /\ faults \in Nat

SandboxTyped == GatewayTyped /\ TraceTyped /\ AuditTyped

-----------------------------------------------------------------------------
\* Where a request is says whether it has its entry: `settled`, but for one
\* the server has given up, which gets it with the upstream's error.
RequestInv(r) ==
  /\ reqs[r].st = "unsent" => ~reqs[r].noted
  /\ reqs[r].st \in {"unsent", "body", "refused", "upstream", "unresolved"} => ~reqs[r].settled
  /\ reqs[r].st \in {"answering", "broken", "failed"} => reqs[r].settled
  /\ reqs[r].st = "answered" /\ mode = "record" => reqs[r].settled

IsTaped(r) == \E i \in DOMAIN tape : tape[i] = r

HasEntry(r) ==
  /\ mode = "record"
  /\ \/ reqs[r].st \in {"answered", "failed", "unresolved"}
     \/ reqs[r].st = "left" /\ reqs[r].settled

GatewayInv ==
  /\ \A r \in Requests : RequestInv(r) /\ (IsTaped(r) <=> HasEntry(r))
  /\ \A i, j \in DOMAIN tape : tape[i] = tape[j] => i = j

-----------------------------------------------------------------------------
\* The gateway is a phase ahead of the trace between the telling and the
\* reading of a mark, and nowhere else.
PhaseInv ==
  "gateway" \notin gaps =>
    /\ gate = IF at = "read" THEN next ELSE phase
    /\ \A r \in Requests : reqs[r].st # "unsent" => reqs[r].at \in reqs[r].due

-----------------------------------------------------------------------------
\* Of what the clean-up has gone past nothing is there, unless docker failed.
PastInv ==
  \E n \in 0..5 :
    /\ Len(todo) = 5 - n
    /\ \A i \in 1..(5 - n) : todo[i] = CleanupOrder[n + i]
    /\ ~hindered => \A i \in 1..n : CleanupOrder[i] \notin exists \intersect present

ResourceInv ==
  /\ verdict # "none" => at \in {"cleanup", "ended"}
  /\ exists \subseteq present \union untold
  /\ at \in {"connect", "handshake"} => "target" \in present
  /\ at = "cleanup" => PastInv
  /\ NothingLeftUnsaid

-----------------------------------------------------------------------------
ReadSoFar == Attached \o carried

\* Whatever is left to read is younger than what was read.
FileInv ==
  /\ \A i, j \in DOMAIN file : i < j => file[i].no < file[j].no
  /\ \A i \in DOMAIN file : file[i].no <= written
  /\ \A x \in DOMAIN ReadSoFar : ReadSoFar[x].no <= written
  /\ \A x \in DOMAIN ReadSoFar, i \in DOMAIN file : seen < i => ReadSoFar[x].no < file[i].no

WholeInv ==
  ~touched =>
    /\ Len(file) = written /\ seen <= written
    /\ \A i \in DOMAIN file : file[i].no = i
    /\ ReadSoFar = SubSeq(file, 1, seen)

TraceInv ==
  /\ FileInv /\ WholeInv
  /\ TraceIsWhole
  /\ at \notin {"cleanup", "ended"} => tail = <<>>

-----------------------------------------------------------------------------
\* A first half has its end, or is the last its process wrote.
CallInv ==
  \A i \in DOMAIN file :
    file[i].half = "front" =>
      \/ \E j \in DOMAIN file : Answers(file, i, j)
      \/ \A k \in DOMAIN file : i < k => file[k].pid # file[i].pid

Taken(k) == {segments[k].lines[x].no : x \in DOMAIN segments[k].lines}

SegmentInv(k) ==
  /\ segments[k].upto <= Len(file) /\ Taken(k) \subseteq DOMAIN file
  /\ \A i \in DOMAIN file :
       file[i].half = "front" /\ i \in Taken(k) =>
         /\ segments[k].from < i => \E j \in DOMAIN file : j \in Taken(k) /\ Answers(file, i, j)
         /\ \A j \in DOMAIN file : Answers(file, i, j) /\ j \notin Taken(k)
              => segments[k].upto < j

HalvesInv == ~touched => CallInv /\ \A k \in DOMAIN segments : SegmentInv(k)

SandboxInv ==
  /\ SandboxTyped
  /\ GatewayInv /\ PhaseInv
  /\ ResourceInv
  /\ TraceInv /\ HalvesInv

-----------------------------------------------------------------------------
(* A step of the audit touches the gateway by sending it a request, or is  *)
(* one of its own, or leaves what it holds of the requests alone.          *)
LEMMA StepOfGateway ==
  ASSUME [Next]_vars
  PROVE  \/ \E r \in Requests : Arrive(r, Due)
         \/ GatewayStep
         \/ UNCHANGED <<mode, reqs, tape>>
BY DEF Next, AuditStep, ServerStep, vars, gatewayVars, Make, StartFails, MadeUntold, Boot,
       SessionRefused, Launch, Connected, ConnectFails, Tell, TellFails, Read, ReadFails,
       Listed, CallEnds, CallBreaks, Close, AskFails, Asked, Snapshot, SnapshotFails,
       BaselineFails, Skip, Removes, RemoveRefused, RemoveFails, CleanedUp,
       ServerTraces, ServerShortens, ServerAsks, GatewayWorks

LEMMA DueTyped ==
  ASSUME AuditTyped, phase \in Nat
  PROVE  Due \in SUBSET Nat
BY DEF AuditTyped, Due

(* What the gateway does to a request keeps its type.                      *)
LEMMA GatewayTypedNext ==
  ASSUME GatewayTyped, NEW due \in SUBSET Nat,
         \/ \E r \in Requests : Arrive(r, due)
         \/ GatewayStep
         \/ UNCHANGED <<mode, reqs, tape>>
  PROVE  /\ mode' \in {"record", "replay"}
         /\ reqs' \in [Requests -> Request]
         /\ tape' \in Seq(Requests)
<1> USE DEF GatewayTyped
<1>1. CASE UNCHANGED <<mode, reqs, tape>>
  BY <1>1
<1>2. ASSUME NEW r \in Requests, Arrive(r, due)
      PROVE  /\ mode' \in {"record", "replay"}
             /\ reqs' \in [Requests -> Request]
             /\ tape' \in Seq(Requests)
  <2> DEFINE new == [reqs[r] EXCEPT !.st = "body", !.due = due, !.at = gate]
  <2>1. new \in Request
    BY DEF Request, Stations
  <2>2. reqs' = [reqs EXCEPT ![r] = new]
    BY <1>2 DEF Arrive, Request
  <2> HIDE DEF new
  <2>3. reqs' \in [Requests -> Request]
    BY <2>1, <2>2
  <2> QED  BY <1>2, <2>3 DEF Arrive
<1>3. ASSUME NEW r \in Requests,
             \/ BodyBreaks(r) \/ Refuse(r) \/ Replay(r) \/ LookupFails(r) \/ Forward(r)
             \/ UpstreamAnswers(r) \/ AnswerEnds(r) \/ UpstreamError(r) \/ ClientLeaves(r)
      PROVE  /\ mode' \in {"record", "replay"}
             /\ reqs' \in [Requests -> Request]
             /\ tape' \in Seq(Requests)
  <2>1. mode' = mode
    BY <1>3 DEF BodyBreaks, Refuse, Replay, LookupFails, Forward,
                UpstreamAnswers, AnswerEnds, UpstreamError, ClientLeaves
  <2>2. tape' \in {tape, Append(tape, r)}
    BY <1>3 DEF BodyBreaks, Refuse, Replay, LookupFails, Forward, Taped,
                UpstreamAnswers, AnswerEnds, UpstreamError, ClientLeaves
  <2>3. PICK new \in Request : reqs' = [reqs EXCEPT ![r] = new]
    <3>1. ASSUME NEW st \in Stations, reqs' = [reqs EXCEPT ![r].st = st]
          PROVE  \E new \in Request : reqs' = [reqs EXCEPT ![r] = new]
      <4>1. [reqs[r] EXCEPT !.st = st] \in Request
        BY DEF Request
      <4> QED  BY <3>1, <4>1
    <3>2. ASSUME NEW st \in Stations, reqs' = [reqs EXCEPT ![r].st = st, ![r].noted = TRUE]
          PROVE  \E new \in Request : reqs' = [reqs EXCEPT ![r] = new]
      <4>1. [reqs[r] EXCEPT !.st = st, !.noted = TRUE] \in Request
        BY DEF Request
      <4>2. reqs' = [reqs EXCEPT ![r] = [reqs[r] EXCEPT !.st = st, !.noted = TRUE]]
        BY <3>2 DEF Request
      <4> QED  BY <4>1, <4>2
    <3>3. ASSUME NEW st \in Stations, \/ reqs' = [reqs EXCEPT ![r].settled = TRUE, ![r].st = st]
                                       \/ reqs' = [reqs EXCEPT ![r].st = st, ![r].settled = TRUE]
          PROVE  \E new \in Request : reqs' = [reqs EXCEPT ![r] = new]
      <4>1. [reqs[r] EXCEPT !.settled = TRUE, !.st = st] \in Request
        BY DEF Request
      <4>2. reqs' = [reqs EXCEPT ![r] = [reqs[r] EXCEPT !.settled = TRUE, !.st = st]]
        BY <3>3 DEF Request
      <4> QED  BY <4>1, <4>2
    <3>4. CASE BodyBreaks(r) \/ AnswerEnds(r)
      BY <3>1, <3>4 DEF BodyBreaks, AnswerEnds, Stations
    <3>5. CASE Refuse(r) \/ Replay(r) \/ LookupFails(r) \/ Forward(r)
      BY <3>2, <3>5 DEF Refuse, Replay, LookupFails, Forward, Stations
    <3>6. CASE UpstreamAnswers(r)
      BY <3>3, <3>6 DEF UpstreamAnswers, Stations
    <3>7. CASE ClientLeaves(r)
      <4>1. reqs' = [reqs EXCEPT ![r].st = IF reqs[r].st = "upstream" THEN "left" ELSE "broken"]
        BY <3>7 DEF ClientLeaves
      <4> QED  BY <3>1, <4>1 DEF Stations
    <3>8. CASE UpstreamError(r)
      <4> DEFINE new == CASE reqs[r].st = "upstream"  -> "failed"
                          [] reqs[r].st = "answering" -> "broken"
                          [] OTHER                    -> reqs[r].st
      <4>1. new \in Stations
        BY DEF Request, Stations
      <4>2. reqs' = [reqs EXCEPT ![r].settled = TRUE, ![r].st = new]
        BY <3>8 DEF UpstreamError, Request
      <4> HIDE DEF new
      <4> QED  BY <3>3, <4>1, <4>2
    <3> QED  BY <1>3, <3>4, <3>5, <3>6, <3>7, <3>8
  <2>4. reqs' \in [Requests -> Request]
    BY <2>3
  <2> QED  BY <2>1, <2>2, <2>4
<1> QED  BY <1>1, <1>2, <1>3 DEF GatewayStep

-----------------------------------------------------------------------------
\* What a step does to one request, and to the tape.
OneMoves(r) ==
  /\ mode' = mode
  /\ \A q \in Requests \ {r} : reqs'[q] = reqs[q]
  /\ tape' \in {tape, Append(tape, r)}
  /\ tape' # tape => ~HasEntry(r)
  /\ (HasEntry(r))' <=> HasEntry(r) \/ tape' # tape

(* A request is put on the tape when, and only when, that becomes due.     *)
LEMMA RequestStep ==
  ASSUME GatewayTyped, GatewayInv, NEW due \in SUBSET Nat, NEW r \in Requests,
         \/ Arrive(r, due)
         \/ BodyBreaks(r) \/ Refuse(r) \/ Replay(r) \/ LookupFails(r) \/ Forward(r)
         \/ UpstreamAnswers(r) \/ AnswerEnds(r) \/ UpstreamError(r) \/ ClientLeaves(r)
  PROVE  OneMoves(r) /\ RequestInv(r)'
<1> USE DEF GatewayTyped, Request, Stations, OneMoves, RequestInv, HasEntry
<1>0. /\ RequestInv(r)
      /\ Append(tape, r) # tape
  <2>1. Len(Append(tape, r)) = Len(tape) + 1 /\ Len(tape) \in Nat
    OBVIOUS
  <2> QED  BY <2>1 DEF GatewayInv
<1>1. CASE Arrive(r, due)
  BY <1>0, <1>1 DEF Arrive
<1>2. CASE BodyBreaks(r)
  BY <1>0, <1>2 DEF BodyBreaks
<1>3. CASE Refuse(r)
  BY <1>0, <1>3 DEF Refuse
<1>4. CASE Replay(r)
  BY <1>0, <1>4 DEF Replay
<1>5. CASE LookupFails(r)
  BY <1>0, <1>5 DEF LookupFails, Taped
<1>6. CASE Forward(r)
  BY <1>0, <1>6 DEF Forward
<1>7. CASE UpstreamAnswers(r)
  BY <1>0, <1>7 DEF UpstreamAnswers
<1>8. CASE AnswerEnds(r)
  BY <1>0, <1>8 DEF AnswerEnds, Taped
<1>9. CASE UpstreamError(r)
  BY <1>0, <1>9 DEF UpstreamError, Taped, IsNews, Dialled
<1>10. CASE ClientLeaves(r)
  BY <1>0, <1>10 DEF ClientLeaves
<1> QED  BY <1>1, <1>2, <1>3, <1>4, <1>5, <1>6, <1>7, <1>8, <1>9, <1>10

(* So no request is taped twice, or missed.                                *)
LEMMA GatewayInvNext ==
  ASSUME GatewayTyped, GatewayInv, NEW due \in SUBSET Nat,
         \/ \E r \in Requests : Arrive(r, due)
         \/ GatewayStep
         \/ UNCHANGED <<mode, reqs, tape>>
  PROVE  GatewayInv'
<1>1. CASE UNCHANGED <<mode, reqs, tape>>
  BY <1>1 DEF GatewayInv, RequestInv, IsTaped, HasEntry
<1>2. ASSUME NEW r \in Requests, OneMoves(r), RequestInv(r)'
      PROVE  GatewayInv'
  <2>1. \A q \in Requests : RequestInv(q)'
    BY <1>2 DEF OneMoves, GatewayInv, RequestInv
  <2>2. CASE tape' = tape
    <3>1. \A q \in Requests : (HasEntry(q))' <=> HasEntry(q)
      BY <1>2, <2>2 DEF OneMoves, HasEntry
    <3>2. \A q \in Requests : (IsTaped(q))' <=> IsTaped(q)
      BY <2>2 DEF IsTaped
    <3>3. \A i, j \in DOMAIN tape' : tape'[i] = tape'[j] => i = j
      BY <2>2 DEF GatewayInv
    <3> QED  BY <2>1, <3>1, <3>2, <3>3 DEF GatewayInv
  <2>3. CASE tape' # tape
    <3>1. /\ tape' = Append(tape, r) /\ Len(tape) \in Nat
          /\ DOMAIN tape' = DOMAIN tape \union {Len(tape) + 1}
          /\ Len(tape) + 1 \notin DOMAIN tape
          /\ tape'[Len(tape) + 1] = r
          /\ \A i \in DOMAIN tape : tape'[i] = tape[i]
      <4>1. tape' = Append(tape, r) /\ tape \in Seq(Requests)
        BY <1>2, <2>3 DEF OneMoves, GatewayTyped
      <4> DEFINE t == Append(tape, r)
      <4>2. /\ Len(tape) \in Nat /\ DOMAIN tape = 1..Len(tape)
            /\ t \in Seq(Requests) /\ Len(t) = Len(tape) + 1
            /\ DOMAIN t = 1..Len(t)
            /\ t[Len(tape) + 1] = r
            /\ \A i \in 1..Len(tape) : t[i] = tape[i]
        BY <4>1, AppendProperties, LenProperties
      <4> HIDE DEF t
      <4>3. DOMAIN t = DOMAIN tape \union {Len(tape) + 1} /\ Len(tape) + 1 \notin DOMAIN tape
        BY <4>2
      <4> QED  BY <4>1, <4>2, <4>3 DEF t
    <3>2. ~IsTaped(r)
      BY <1>2, <2>3 DEF OneMoves, GatewayInv
    <3>3. \A i, j \in DOMAIN tape' : tape'[i] = tape'[j] => i = j
      BY <3>1, <3>2 DEF IsTaped, GatewayInv
    <3>4. \A q \in Requests : (IsTaped(q))' <=> IsTaped(q) \/ q = r
      BY <3>1 DEF IsTaped
    <3>5. \A q \in Requests \ {r} : (HasEntry(q))' <=> HasEntry(q)
      BY <1>2 DEF OneMoves, HasEntry
    <3>6. (HasEntry(r))'
      BY <1>2, <2>3 DEF OneMoves
    <3> QED  BY <2>1, <3>3, <3>4, <3>5, <3>6 DEF GatewayInv
  <2> QED  BY <2>2, <2>3
<1> QED  BY <1>1, <1>2, RequestStep DEF GatewayStep

(* The entries of a request, counted.                                      *)
LEMMA OnceIsCounted ==
  GatewayTyped /\ GatewayInv => RecordedOnce
<1> SUFFICES ASSUME GatewayTyped, GatewayInv, NEW r \in Requests
             PROVE  LET taped == Cardinality({i \in DOMAIN tape : tape[i] = r})
                    IN  /\ taped <= 1
                        /\ mode = "record" /\ reqs[r].st \in {"answered", "failed", "unresolved"}
                             => taped = 1
                        /\ reqs[r].st \in {"refused", "broken"} => taped = 0
  BY DEF RecordedOnce
<1> DEFINE Where == {i \in DOMAIN tape : tape[i] = r}
<1>1. IsTaped(r) <=> HasEntry(r)
  BY DEF GatewayInv
<1>2. CASE IsTaped(r)
  <2>1. PICK i \in DOMAIN tape : tape[i] = r
    BY <1>2 DEF IsTaped
  <2>2. Where = {i}
    BY <2>1 DEF GatewayInv
  <2>3. Cardinality(Where) = 1
    BY <2>2, FS_Singleton
  <2> QED  BY <1>1, <1>2, <2>3 DEF HasEntry
<1>3. CASE ~IsTaped(r)
  <2>1. Where = {}
    BY <1>3 DEF IsTaped
  <2>2. Cardinality(Where) = 0
    BY <2>1, FS_EmptySet
  <2> QED  BY <1>1, <1>3, <2>2 DEF HasEntry
<1> QED  BY <1>2, <1>3

-----------------------------------------------------------------------------
(* A set of numbers has a least one, and one with a bound a greatest one.  *)
LEMMA LeastNat ==
  ASSUME NEW T, T \subseteq Nat, T # {}
  PROVE  \E x \in T : \A y \in T : x <= y
<1>1. PICK x \in T : \A y \in T : ~(<<y, x>> \in OpToRel(<, Nat))
  BY NatLessThanWellFounded, WFMin
<1>2. \A y \in T : ~(y < x)
  BY <1>1 DEF OpToRel
<1> QED  BY <1>2

LEMMA GreatestNat ==
  ASSUME NEW n \in Nat, NEW T, T \subseteq 0..n, T # {}
  PROVE  \E x \in T : \A y \in T : y <= x
<1> DEFINE U == {k \in 0..n : n - k \in T}
<1>1. U \subseteq Nat /\ U # {}
  <2>1. PICK x \in T : TRUE
    OBVIOUS
  <2>2. n - x \in 0..n /\ n - (n - x) = x
    BY <2>1
  <2>3. n - x \in U
    BY <2>1, <2>2
  <2>4. U \subseteq 0..n /\ 0..n \subseteq Nat
    OBVIOUS
  <2> HIDE DEF U
  <2> QED  BY <2>3, <2>4
<1>2. PICK k \in U : \A j \in U : k <= j
  BY <1>1, LeastNat
<1>3. ASSUME NEW y \in T
      PROVE  y <= n - k
  <2>1. y \in 0..n /\ n - y \in 0..n /\ n - (n - y) = y
    OBVIOUS
  <2>2. n - y \in U
    BY <2>1
  <2>3. k \in 0..n /\ k <= n - y
    BY <1>2, <2>2
  <2> QED  BY <2>1, <2>3
<1> QED  BY <1>2, <1>3

-----------------------------------------------------------------------------
\* f holds the concatenations of the first 1, 2, ... n sequences of ss.
Concatenates(f, ss, n) == f = [i \in 1..n |-> IF i = 1 THEN ss[i] ELSE f[i - 1] \o ss[i]]

LEMMA PrefixesAt ==
  ASSUME NEW f, NEW ss, NEW n, Concatenates(f, ss, n), NEW k \in 1..n
  PROVE  f[k] = IF k = 1 THEN ss[k] ELSE f[k - 1] \o ss[k]
<1> DEFINE F(i) == IF i = 1 THEN ss[i] ELSE f[i - 1] \o ss[i]
<1>1. f = [i \in 1..n |-> F(i)]
  BY DEF Concatenates
<1> HIDE DEF F
<1>2. f[k] = F(k)
  BY <1>1
<1> QED  BY <1>2 DEF F

(* They are determined by the sequences they concatenate.                  *)
LEMMA PrefixesAgree ==
  ASSUME NEW n \in Nat, NEW m \in Nat, n <= m, NEW ss, NEW tt, NEW f, NEW g,
         \A i \in 1..n : ss[i] = tt[i],
         Concatenates(f, ss, n), Concatenates(g, tt, m)
  PROVE  \A i \in 1..n : f[i] = g[i]
<1> SUFFICES ASSUME \E i \in 1..n : f[i] # g[i]
             PROVE  FALSE
  OBVIOUS
<1> DEFINE T == {i \in 1..n : f[i] # g[i]}
<1>1. PICK i \in T : \A j \in T : i <= j
  <2>1. T \subseteq Nat /\ T # {}
    OBVIOUS
  <2> QED  BY <2>1, LeastNat
<1>2. \A k \in 1..n : /\ f[k] = IF k = 1 THEN ss[k] ELSE f[k - 1] \o ss[k]
                      /\ g[k] = IF k = 1 THEN ss[k] ELSE g[k - 1] \o ss[k]
  <2> TAKE k \in 1..n
  <2>1. k \in 1..m
    OBVIOUS
  <2> QED  BY <2>1, PrefixesAt
<1>3. CASE i = 1
  BY <1>2, <1>3
<1>4. CASE i # 1
  <2>1. i - 1 \in 1..n /\ ~(i <= i - 1)
    BY <1>4
  <2>2. i - 1 \notin T
    BY <1>1, <2>1
  <2>3. f[i - 1] = g[i - 1]
    BY <2>1, <2>2
  <2> QED  BY <1>2, <1>4, <2>3
<1> QED  BY <1>3, <1>4

LEMMA PrefixesExist ==
  ASSUME NEW ss, NEW n \in Nat
  PROVE  \E f : Concatenates(f, ss, n)
<1> SUFFICES ASSUME ~\E f : Concatenates(f, ss, n)
             PROVE  FALSE
  OBVIOUS
<1> DEFINE T == {k \in Nat : ~\E f : Concatenates(f, ss, k)}
<1>1. PICK k \in T : \A j \in T : k <= j
  <2>1. T \subseteq Nat /\ n \in T
    OBVIOUS
  <2> HIDE DEF T
  <2> QED  BY <2>1, LeastNat
<1>2. k # 0
  <2>1. Concatenates([i \in 1..0 |-> {}], ss, 0)
    BY DEF Concatenates
  <2> QED  BY <2>1
<1>3. k - 1 \in Nat /\ k - 1 \notin T
  BY <1>1, <1>2
<1>4. PICK f : Concatenates(f, ss, k - 1)
  BY <1>3
<1> DEFINE g == [i \in 1..k |-> IF i = k THEN IF k = 1 THEN ss[i] ELSE f[i - 1] \o ss[i] ELSE f[i]]
<1>5. ASSUME NEW i \in 1..k
      PROVE  g[i] = IF i = 1 THEN ss[i] ELSE g[i - 1] \o ss[i]
  <2>1. \A j \in 1..(k - 1) : f[j] = IF j = 1 THEN ss[j] ELSE f[j - 1] \o ss[j]
    BY <1>4 DEF Concatenates
  <2>2. i # 1 => i - 1 \in 1..k /\ i - 1 # k
    BY <1>1
  <2>3. i # 1 => g[i - 1] = f[i - 1]
    BY <2>2
  <2>4. i # k => i \in 1..(k - 1)
    BY <1>1
  <2>5. CASE i = k
    BY <2>3, <2>5
  <2>6. CASE i # k
    BY <2>1, <2>3, <2>4, <2>6
  <2> QED  BY <2>5, <2>6
<1>6. g = [i \in 1..k |-> IF i = 1 THEN ss[i] ELSE g[i - 1] \o ss[i]]
  BY <1>5
<1>7. Concatenates(g, ss, k)
  BY <1>6 DEF Concatenates
<1> QED  BY <1>1, <1>7

(* FlattenSeq is the last of them.                                         *)
LEMMA FlattenIsLast ==
  ASSUME NEW ss, Len(ss) \in Nat, Len(ss) # 0, NEW f, Concatenates(f, ss, Len(ss))
  PROVE  FlattenSeq(ss) = f[Len(ss)]
<1> DEFINE n == Len(ss)
           g == CHOOSE g : g = [i \in 1..n |-> IF i = 1 THEN ss[i] ELSE g[i - 1] \o ss[i]]
<1>1. FlattenSeq(ss) = g[n]
  BY DEF FlattenSeq
<1>2. Concatenates(g, ss, n)
  BY DEF Concatenates
<1>3. n \in Nat /\ n \in 1..n /\ n <= n
  OBVIOUS
<1> HIDE DEF n, g
<1>4. Concatenates(f, ss, n)
  BY DEF n
<1>5. g[n] = f[n]
  BY <1>2, <1>3, <1>4, PrefixesAgree
<1> QED  BY <1>1, <1>5 DEF n

(* What is attached is a sequence of lines, and grows by what is appended. *)
LEMMA FlattenTyped ==
  ASSUME NEW S, NEW ss \in Seq(Seq(S))
  PROVE  FlattenSeq(ss) \in Seq(S)
<1> DEFINE n == Len(ss)
<1>0. n \in Nat /\ \A i \in 1..n : ss[i] \in Seq(S)
  OBVIOUS
<1>1. CASE n = 0
  BY <1>1 DEF FlattenSeq
<1>2. CASE n # 0
  <2>1. PICK f : Concatenates(f, ss, n)
    BY <1>0, PrefixesExist
  <2>2. FlattenSeq(ss) = f[n]
    BY <1>0, <1>2, <2>1, FlattenIsLast
  <2> DEFINE T == {i \in 1..n : f[i] \notin Seq(S)}
  <2>3. ASSUME T # {}
        PROVE  FALSE
    <3>1. PICK i \in T : \A j \in T : i <= j
      <4>1. T \subseteq Nat
        BY <1>0
      <4> QED  BY <2>3, <4>1, LeastNat
    <3>2. f[i] = IF i = 1 THEN ss[i] ELSE f[i - 1] \o ss[i]
      BY <2>1 DEF Concatenates
    <3>3. i # 1 => i - 1 \in 1..n /\ ~(i <= i - 1)
      BY <1>0
    <3>4. i # 1 => f[i - 1] \in Seq(S)
      BY <3>1, <3>3
    <3>5. f[i] \in Seq(S)
      <4>1. ss[i] \in Seq(S)
        BY <1>0
      <4> QED  BY <3>2, <3>4, <4>1, ConcatProperties
    <3> QED  BY <3>5
  <2>4. n \in 1..n
    BY <1>0, <1>2
  <2> QED  BY <2>2, <2>3, <2>4
<1> QED  BY <1>1, <1>2

LEMMA FlattenAppend ==
  ASSUME NEW S, NEW ss \in Seq(Seq(S)), NEW s \in Seq(S)
  PROVE  FlattenSeq(Append(ss, s)) = FlattenSeq(ss) \o s
<1> DEFINE n == Len(ss)
           tt == Append(ss, s)
<1>1. /\ n \in Nat /\ n + 1 \in Nat /\ Len(tt) = n + 1 /\ tt[n + 1] = s
      /\ \A i \in 1..n : tt[i] = ss[i]
  BY AppendProperties
<1> HIDE DEF tt
<1>2. PICK f : Concatenates(f, tt, n + 1)
  BY <1>1, PrefixesExist
<1>3. FlattenSeq(tt) = f[n + 1]
  BY <1>1, <1>2, FlattenIsLast
<1>4. \A k \in 1..(n + 1) : f[k] = IF k = 1 THEN tt[k] ELSE f[k - 1] \o tt[k]
  <2> HIDE DEF n
  <2> QED  BY <1>2, PrefixesAt
<1>5. CASE n = 0
  <2>1. FlattenSeq(ss) = <<>>
    BY <1>5 DEF FlattenSeq
  <2>2. FlattenSeq(tt) = s
    <3>1. n + 1 = 1 /\ 1 \in 1..(n + 1) /\ f[1] = tt[1]
      BY <1>4, <1>5
    <3> QED  BY <1>1, <1>3, <3>1
  <2> QED  BY <2>1, <2>2, ConcatEmptySeq DEF tt
<1>6. CASE n # 0
  <2>1. PICK g : Concatenates(g, ss, n)
    BY <1>1, PrefixesExist
  <2>2. FlattenSeq(ss) = g[n]
    BY <1>1, <1>6, <2>1, FlattenIsLast
  <2>3. g[n] = f[n]
    <3>1. n \in 1..n /\ n + 1 \in Nat /\ n <= n + 1 /\ \A i \in 1..n : ss[i] = tt[i]
      BY <1>1, <1>6
    <3> HIDE DEF n
    <3>2. \A i \in 1..n : g[i] = f[i]
      BY <1>1, <1>2, <2>1, <3>1, PrefixesAgree
    <3> QED  BY <3>1, <3>2
  <2>4. f[n + 1] = f[n] \o tt[n + 1]
    <3>1. PICK k \in 1..(n + 1) : k = n + 1
      BY <1>1
    <3>2. k # 1 /\ k - 1 = n
      BY <1>1, <1>6, <3>1
    <3> HIDE DEF n
    <3>3. f[k] = f[k - 1] \o tt[k]
      BY <1>4, <3>2
    <3> QED  BY <3>1, <3>2, <3>3
  <2>5. FlattenSeq(tt) = f[n] \o s
    BY <1>1, <1>3, <1>4, <2>4
  <2> QED  BY <2>2, <2>3, <2>5 DEF tt
<1> QED  BY <1>5, <1>6

-----------------------------------------------------------------------------
(* There is always a cut: nothing at all divides no pair and releases no   *)
(* half.  So the mark takes the largest one.                               *)
LEMMA CutExists ==
  ASSUME NEW pool \in Seq(Line), NEW released \in Nat
  PROVE  LET cut == Attachable(pool, released)
         IN  /\ cut \in 0..Len(pool)
             /\ CutsNoPair(pool, cut)
             /\ \A i \in Waiting(pool) : i > released => cut < i
<1> DEFINE Fits(c) == CutsNoPair(pool, c) /\ \A i \in Waiting(pool) : i > released => c < i
           T == {c \in 0..Len(pool) : Fits(c)}
           Largest(c) == Fits(c) /\ \A d \in (c + 1)..Len(pool) : ~Fits(d)
<1>1. Len(pool) \in Nat /\ DOMAIN pool = 1..Len(pool)
  OBVIOUS
<1>2. Fits(0)
  <2>1. CutsNoPair(pool, 0)
    BY <1>1 DEF CutsNoPair, Pairs
  <2>2. \A i \in Waiting(pool) : 0 < i
    BY <1>1 DEF Waiting
  <2> QED  BY <1>1, <2>1, <2>2
<1>3. Attachable(pool, released) = CHOOSE c \in 0..Len(pool) : Largest(c)
  BY DEF Attachable
<1> HIDE DEF Fits
<1>4. 0 \in T /\ T \subseteq 0..Len(pool)
  BY <1>1, <1>2
<1>5. PICK c \in T : \A d \in T : d <= c
  <2> HIDE DEF T
  <2> QED  BY <1>1, <1>4, GreatestNat
<1>6. c \in 0..Len(pool) /\ Largest(c)
  <2>1. ASSUME NEW d \in (c + 1)..Len(pool), Fits(d)
        PROVE  FALSE
    <3>1. d \in 0..Len(pool) /\ ~(d <= c)
      BY <1>1
    <3>2. d \in T
      BY <2>1, <3>1
    <3> QED  BY <1>5, <3>1, <3>2
  <2> QED  BY <1>5, <2>1
<1>7. /\ Attachable(pool, released) \in 0..Len(pool)
      /\ Fits(Attachable(pool, released))
  BY <1>3, <1>6
<1> QED  BY <1>7 DEF Fits

-----------------------------------------------------------------------------
(* The steps that touch the file or what was read of it.                   *)
LEMMA StepOfTrace ==
  ASSUME [Next]_vars
  PROVE  \/ (Trace \/ Shorten) /\ UNCHANGED <<marksVars, at>>
         \/ /\ (ReadMark(next) \/ MissMark(next)) /\ UNCHANGED fileVars
            /\ at = "read" /\ at' \in {"snapshot", "ask"}
         \/ /\ (ReadTail \/ MissTail) /\ UNCHANGED fileVars
            /\ at = "snapshot" /\ at' = "cleanup"
         \/ /\ UNCHANGED <<fileVars, marksVars>>
            /\ at \in {"cleanup", "ended"} => at' \in {"cleanup", "ended"}
BY Zenon DEF Next, AuditStep, ServerStep, vars, auditVars, EndAs, Mark, Marked, Removing,
       Make, After, StartFails, MadeUntold, Boot,
       SessionRefused, Launch, Connected, ConnectFails, Tell, TellFails, Read, ReadFails,
       Listed, CallEnds, CallBreaks, Close, AskFails, Asked, Snapshot, SnapshotFails,
       BaselineFails, Skip, Removes, RemoveRefused, RemoveFails, CleanedUp,
       ServerTraces, ServerShortens, ServerAsks, GatewayWorks

-----------------------------------------------------------------------------
LEMMA SegmentTyped ==
  ASSUME TraceTyped
  PROVE  /\ segments \in Seq(Segment)
         /\ Len(segments) \in Nat /\ DOMAIN segments = 1..Len(segments)
         /\ \A k \in 1..Len(segments) :
              /\ segments[k] \in Segment
              /\ segments[k].lines \in Seq(Line)
              /\ segments[k].from \in Nat /\ segments[k].upto \in Nat
<1>1. segments \in Seq(Segment)
  BY DEF TraceTyped
<1>2. \A k \in 1..Len(segments) : segments[k] \in Segment
  BY <1>1, ElementOfSeq
<1>3. \A g \in Segment : g.lines \in Seq(Line) /\ g.from \in Nat /\ g.upto \in Nat
  BY DEF Segment
<1> QED  BY <1>1, <1>2, <1>3

LEMMA AttachedTyped ==
  ASSUME TraceTyped
  PROVE  Attached \in Seq(Line) /\ ReadSoFar \in Seq(Line)
<1> DEFINE ss == [k \in DOMAIN segments |-> segments[k].lines]
<1>1. ss \in Seq(Seq(Line))
  BY SegmentTyped
<1> HIDE DEF ss
<1>2. Attached \in Seq(Line)
  BY <1>1, FlattenTyped DEF Attached, ss
<1> QED  BY <1>2, ConcatProperties DEF ReadSoFar, TraceTyped

\* The new lines, as they stand in the file.
LEMMA NewLines ==
  ASSUME TraceTyped
  PROVE  /\ New \in Seq(Line)
         /\ \A y \in DOMAIN New : seen + y \in DOMAIN file /\ New[y] = file[seen + y]
         /\ seen <= Len(file) => Len(New) = Len(file) - seen
<1>1. /\ Len(file) \in Nat /\ seen \in Nat /\ DOMAIN file = 1..Len(file)
      /\ \A i \in 1..Len(file) : file[i] \in Line
  BY DEF TraceTyped
<1>2. \A i \in (seen + 1)..Len(file) : file[i] \in Line
  BY <1>1
<1> DEFINE m == seen + 1
           n == Len(file)
<1>3. /\ New \in Seq(Line)
      /\ Len(New) = IF m <= n THEN n - m + 1 ELSE 0
      /\ \A i \in 1..(n - m + 1) : New[i] = file[m + i - 1]
  <2>1. m \in Int /\ n \in Int
    BY <1>1
  <2> QED  BY <1>2, <2>1, SubSeqProperties DEF New
<1>4. DOMAIN New = 1..Len(New)
  BY <1>3
<1>5. n \in Nat /\ m \in Nat /\ m = seen + 1 /\ seen \in Nat
  BY <1>1
<1> HIDE DEF m, n
<1>6. Len(New) = IF seen < n THEN n - seen ELSE 0
  BY <1>3, <1>5
<1>7. ASSUME NEW y \in 1..Len(New)
      PROVE  seen + y \in 1..n /\ New[y] = file[seen + y]
  <2>1. y \in 1..(n - m + 1) /\ m + y - 1 = seen + y /\ seen + y \in 1..n
    BY <1>5, <1>6
  <2> QED  BY <1>3, <2>1
<1>8. \A y \in DOMAIN New : seen + y \in DOMAIN file /\ New[y] = file[seen + y]
  <2>1. DOMAIN file = 1..n
    BY <1>1 DEF n
  <2> QED  BY <1>4, <1>7, <2>1
<1>9. seen <= n => Len(New) = n - seen
  BY <1>5, <1>6
<1> QED  BY <1>3, <1>8, <1>9 DEF n

(* A mark adds the new lines to what was read, wherever it cuts.           *)
LEMMA MarkReadsOn ==
  ASSUME TraceTyped, NEW p, ReadMark(p)
  PROVE  /\ ReadSoFar' = ReadSoFar \o New
         /\ carried' \in Seq(Line)
         /\ segments' \in Seq([phase : Nat, lines : Seq(Line), from : Nat, upto : Nat])
         /\ \E s \in Seq(Line) : Attached' = Attached \o s
<1> DEFINE pool == carried \o New
           cut == Attachable(pool, Len(carried))
           lines == SubSeq(pool, 1, cut)
           rest == SubSeq(pool, cut + 1, Len(pool))
           new == [phase |-> phase, lines |-> lines, from |-> seen, upto |-> Len(file)]
           ss == [k \in DOMAIN segments |-> segments[k].lines]
<1>1. pool \in Seq(Line) /\ Len(carried) \in Nat
  BY NewLines, ConcatProperties DEF TraceTyped
<1>2. cut \in 0..Len(pool)
  <2> HIDE DEF pool
  <2> QED  BY <1>1, CutExists
<1>3. /\ segments' = IF cut = 0 THEN segments ELSE Append(segments, new)
      /\ carried' = rest
  BY DEF ReadMark
<1> HIDE DEF pool, cut
<1>4. Len(pool) \in Nat /\ \A i \in 1..Len(pool) : pool[i] \in Line
  BY <1>1
<1>5. lines \in Seq(Line) /\ rest \in Seq(Line)
  <2>1. \A i \in 1..cut : pool[i] \in Line
    BY <1>2, <1>4
  <2>2. \A i \in (cut + 1)..Len(pool) : pool[i] \in Line
    BY <1>2, <1>4
  <2>3. cut \in Int /\ cut + 1 \in Int /\ Len(pool) \in Int /\ 1 \in Int
    BY <1>2, <1>4
  <2> QED  BY <2>1, <2>2, <2>3, SubSeqProperties
<1>6. lines \o rest = pool
  <2>1. 1 \in 1..(Len(pool) + 1) /\ cut \in (1 - 1)..Len(pool) /\ Len(pool) \in cut..Len(pool)
    BY <1>2, <1>4
  <2>2. lines \o rest = SubSeq(pool, 1, Len(pool))
    BY <1>1, <2>1, ConcatAdjacentSubSeq
  <2> QED  BY <1>1, <2>2, SubSeqFull
<1> HIDE DEF lines, rest
<1>7. new \in Segment
  BY <1>5 DEF TraceTyped, Segment
<1>8. segments' \in Seq(Segment)
  BY <1>3, <1>7 DEF TraceTyped
<1>9. ss \in Seq(Seq(Line))
  BY SegmentTyped
<1>10. Attached \in Seq(Line)
  BY AttachedTyped
<1>11. Attached' = Attached \o lines
  <2>1. CASE cut = 0
    <3>1. lines = <<>>
      BY <2>1, SubSeqEmpty DEF lines
    <3>2. Attached' = Attached
      BY <1>3, <2>1 DEF Attached
    <3> QED  BY <1>10, <3>1, <3>2, ConcatEmptySeq
  <2>2. CASE cut # 0
    <3>1. segments' = Append(segments, new) /\ segments \in Seq(Segment)
      BY <1>3, <2>2 DEF TraceTyped
    <3> DEFINE tt == [k \in DOMAIN segments' |-> segments'[k].lines]
    <3>2. tt = Append(ss, lines)
      <4>1. /\ Len(segments) \in Nat /\ DOMAIN segments = 1..Len(segments)
            /\ DOMAIN segments' = 1..(Len(segments) + 1)
            /\ segments'[Len(segments) + 1] = new
            /\ \A k \in 1..Len(segments) : segments'[k] = segments[k]
        BY <1>7, <3>1, AppendProperties, LenProperties
      <4>2. new.lines = lines
        OBVIOUS
      <4>3. Len(ss) = Len(segments)
        BY <4>1
      <4> HIDE DEF new
      <4>4. tt \in Seq(Seq(Line)) /\ Len(tt) = Len(ss) + 1
        <5>1. \A k \in 1..(Len(segments) + 1) : segments'[k].lines \in Seq(Line)
          BY <1>5, <4>1, <4>2, SegmentTyped
        <5> QED  BY <4>1, <4>3, <5>1
      <4>5. \A k \in 1..Len(tt) : tt[k] = Append(ss, lines)[k]
        <5>1. /\ \A k \in 1..Len(ss) : Append(ss, lines)[k] = ss[k]
              /\ Append(ss, lines)[Len(ss) + 1] = lines
          BY <1>5, <1>9, AppendProperties
        <5> QED  BY <4>1, <4>2, <4>3, <4>4, <5>1
      <4>6. Append(ss, lines) \in Seq(Seq(Line)) /\ Len(Append(ss, lines)) = Len(ss) + 1
        BY <1>5, <1>9, AppendProperties
      <4> HIDE DEF tt, ss
      <4> QED  BY <4>4, <4>5, <4>6, SeqEqual
    <3>3. Attached' = FlattenSeq(tt) /\ Attached = FlattenSeq(ss)
      BY DEF Attached
    <3> HIDE DEF tt, ss
    <3> QED  BY <1>5, <1>9, <3>2, <3>3, FlattenAppend
  <2> QED  BY <2>1, <2>2
<1>12. ReadSoFar' = ReadSoFar \o New
  <2>1. New \in Seq(Line) /\ carried \in Seq(Line)
    BY NewLines DEF TraceTyped
  <2>2. ReadSoFar' = (Attached \o lines) \o rest
    BY <1>3, <1>11 DEF ReadSoFar
  <2>3. (Attached \o lines) \o rest = Attached \o (lines \o rest)
    BY <1>5, <1>10, ConcatAssociative
  <2>4. Attached \o (carried \o New) = (Attached \o carried) \o New
    BY <1>10, <2>1, ConcatAssociative
  <2> QED  BY <1>6, <2>2, <2>3, <2>4 DEF ReadSoFar, pool
<1> QED  BY <1>3, <1>5, <1>8, <1>11, <1>12 DEF Segment

-----------------------------------------------------------------------------
LEMMA FileAppended ==
  ASSUME TraceTyped, NEW line \in Line, file' = Append(file, line)
  PROVE  /\ file' \in Seq(Line)
         /\ Len(file) \in Nat /\ DOMAIN file = 1..Len(file)
         /\ Len(file') = Len(file) + 1 /\ DOMAIN file' = 1..(Len(file) + 1)
         /\ file'[Len(file) + 1] = line
         /\ \A i \in 1..Len(file) : file'[i] = file[i]
<1> DEFINE new == Append(file, line)
<1>1. file \in Seq(Line)
  BY DEF TraceTyped
<1>2. /\ new \in Seq(Line)
      /\ Len(new) = Len(file) + 1
      /\ new[Len(file) + 1] = line
      /\ \A i \in 1..Len(file) : new[i] = file[i]
  BY <1>1, AppendProperties
<1>3. file' = new
  OBVIOUS
<1> HIDE DEF new
<1>4. /\ Len(file) \in Nat /\ DOMAIN file = 1..Len(file) /\ DOMAIN file' = 1..Len(file')
  BY <1>1, <1>2, <1>3, LenProperties
<1> QED  BY <1>2, <1>3, <1>4

LEMMA FileShortened ==
  ASSUME TraceTyped, NEW n \in 0..(Len(file) - 1), file' = SubSeq(file, 1, n)
  PROVE  /\ file' \in Seq(Line)
         /\ Len(file) \in Nat /\ DOMAIN file = 1..Len(file)
         /\ DOMAIN file' = 1..n /\ n \in Nat /\ n < Len(file)
         /\ \A i \in 1..n : file'[i] = file[i]
<1> DEFINE new == SubSeq(file, 1, n)
<1>1. /\ file \in Seq(Line) /\ Len(file) \in Nat /\ DOMAIN file = 1..Len(file)
      /\ \A i \in 1..Len(file) : file[i] \in Line
  BY LenProperties, ElementOfSeq DEF TraceTyped
<1>2. n \in Nat /\ n < Len(file) /\ 1 \in Int /\ n \in Int /\ \A i \in 1..n : file[i] \in Line
  BY <1>1
<1>3. /\ new \in Seq(Line)
      /\ Len(new) = IF 1 <= n THEN n - 1 + 1 ELSE 0
      /\ \A i \in 1..(n - 1 + 1) : new[i] = file[1 + i - 1]
  BY <1>2, SubSeqProperties
<1>4. file' = new
  OBVIOUS
<1> HIDE DEF new
<1>5. Len(new) = n /\ \A i \in 1..n : new[i] = file[i]
  BY <1>2, <1>3
<1>6. DOMAIN new = 1..n
  BY <1>3, <1>5, LenProperties
<1> QED  BY <1>1, <1>2, <1>3, <1>4, <1>5, <1>6

LEMMA TraceTypedNext ==
  ASSUME TraceTyped, next \in Nat, [Next]_vars
  PROVE  TraceTyped'
<1>1. CASE Trace /\ UNCHANGED marksVars
  <2>1. PICK pid \in Pids, half \in {"whole", "front", "back"} : file' = Append(file, LineOf(pid, half))
    BY <1>1 DEF Trace
  <2>2. LineOf(pid, half) \in Line
    BY DEF LineOf, Line, TraceTyped
  <2>3. file' \in Seq(Line)
    BY <2>1, <2>2, FileAppended
  <2> QED  BY <1>1, <2>3 DEF Trace, TraceTyped, marksVars
<1>2. CASE Shorten /\ UNCHANGED marksVars
  <2>1. file' \in Seq(Line)
    BY <1>2, FileShortened DEF Shorten
  <2> QED  BY <1>2, <2>1 DEF Shorten, TraceTyped, marksVars
<1>3. CASE ReadMark(next) /\ UNCHANGED fileVars
  <2>1. carried' \in Seq(Line) /\ segments' \in Seq(Segment)
    BY <1>3, MarkReadsOn DEF Segment
  <2>2. Len(file) \in Nat
    BY LenProperties DEF TraceTyped
  <2> QED  BY <1>3, <2>1, <2>2 DEF ReadMark, SeenAfter, TraceTyped, fileVars
<1>4. CASE MissMark(next) /\ UNCHANGED fileVars
  BY <1>4 DEF MissMark, TraceTyped, fileVars
<1>5. CASE (ReadTail \/ MissTail) /\ UNCHANGED fileVars
  <2>1. carried \o New \in Seq(Line)
    BY NewLines, ConcatProperties DEF TraceTyped
  <2> QED  BY <1>5, <2>1 DEF ReadTail, MissTail, TraceTyped, fileVars
<1>6. CASE UNCHANGED <<fileVars, marksVars>>
  BY <1>6 DEF fileVars, marksVars, TraceTyped
<1> QED  BY <1>1, <1>2, <1>3, <1>4, <1>5, <1>6, StepOfTrace

-----------------------------------------------------------------------------
LEMMA InOrderConcat ==
  ASSUME NEW s \in Seq(Line), NEW t \in Seq(Line),
         InOrderOnce(s), InOrderOnce(t),
         \A x \in DOMAIN s, y \in DOMAIN t : s[x].no < t[y].no
  PROVE  InOrderOnce(s \o t)
<1> DEFINE u == s \o t
<1>1. /\ Len(s) \in Nat /\ Len(t) \in Nat /\ DOMAIN s = 1..Len(s) /\ DOMAIN t = 1..Len(t)
      /\ u \in Seq(Line) /\ Len(u) = Len(s) + Len(t)
      /\ \A i \in 1..(Len(s) + Len(t)) : u[i] = IF i <= Len(s) THEN s[i] ELSE t[i - Len(s)]
  BY ConcatProperties, LenProperties
<1> HIDE DEF u
<1>2. DOMAIN u = 1..(Len(s) + Len(t))
  BY <1>1, LenProperties
<1>3. ASSUME NEW i \in DOMAIN u, NEW j \in DOMAIN u, i < j
      PROVE  u[i].no < u[j].no
  <2>1. CASE j <= Len(s)
    <3>1. i \in DOMAIN s /\ j \in DOMAIN s /\ u[i] = s[i] /\ u[j] = s[j]
      BY <1>1, <1>2, <1>3, <2>1
    <3> QED  BY <1>3, <3>1 DEF InOrderOnce
  <2>2. CASE i <= Len(s) /\ ~(j <= Len(s))
    <3>1. i \in DOMAIN s /\ j - Len(s) \in DOMAIN t /\ u[i] = s[i] /\ u[j] = t[j - Len(s)]
      BY <1>1, <1>2, <2>2
    <3> QED  BY <3>1
  <2>3. CASE ~(i <= Len(s))
    <3>1. /\ i - Len(s) \in DOMAIN t /\ j - Len(s) \in DOMAIN t /\ i - Len(s) < j - Len(s)
          /\ u[i] = t[i - Len(s)] /\ u[j] = t[j - Len(s)]
      BY <1>1, <1>2, <1>3, <2>3
    <3> QED  BY <3>1 DEF InOrderOnce
  <2> QED  BY <1>1, <1>2, <1>3, <2>1, <2>2, <2>3
<1> QED  BY <1>3 DEF InOrderOnce, u

LEMMA InOrderPrefix ==
  ASSUME NEW s \in Seq(Line), NEW t \in Seq(Line), InOrderOnce(s \o t)
  PROVE  InOrderOnce(s)
<1> DEFINE u == s \o t
<1>1. /\ Len(s) \in Nat /\ Len(t) \in Nat /\ DOMAIN s = 1..Len(s)
      /\ u \in Seq(Line) /\ Len(u) = Len(s) + Len(t)
      /\ \A i \in 1..(Len(s) + Len(t)) : u[i] = IF i <= Len(s) THEN s[i] ELSE t[i - Len(s)]
  BY ConcatProperties, LenProperties
<1>2. InOrderOnce(u)
  OBVIOUS
<1> HIDE DEF u
<1>3. DOMAIN u = 1..(Len(s) + Len(t))
  BY <1>1, LenProperties
<1>4. \A i \in DOMAIN s : i \in DOMAIN u /\ u[i] = s[i]
  BY <1>1, <1>3
<1> QED  BY <1>2, <1>4 DEF InOrderOnce

(* The new lines are in order, and younger than all that was read.         *)
LEMMA NewLinesFollow ==
  ASSUME TraceTyped, FileInv, InOrderOnce(ReadSoFar)
  PROVE  /\ InOrderOnce(New)
         /\ InOrderOnce(ReadSoFar \o New)
         /\ \A x \in DOMAIN (ReadSoFar \o New) : (ReadSoFar \o New)[x].no <= written
<1> DEFINE u == ReadSoFar \o New
<1>1. /\ New \in Seq(Line) /\ ReadSoFar \in Seq(Line) /\ seen \in Nat /\ DOMAIN New \subseteq Nat \ {0}
      /\ \A y \in DOMAIN New : seen + y \in DOMAIN file /\ New[y] = file[seen + y]
  <2>1. New \in Seq(Line)
    BY NewLines
  <2>2. Len(New) \in Nat /\ DOMAIN New = 1..Len(New)
    BY <2>1, LenProperties
  <2> QED  BY <2>1, <2>2, NewLines, AttachedTyped DEF TraceTyped
<1>2. ASSUME NEW i \in DOMAIN New, NEW j \in DOMAIN New, i < j
      PROVE  New[i].no < New[j].no
  <2>1. seen + i < seen + j
    BY <1>1, <1>2
  <2> QED  BY <1>1, <2>1 DEF FileInv
<1>3. InOrderOnce(New)
  BY <1>2 DEF InOrderOnce
<1>4. ASSUME NEW x \in DOMAIN ReadSoFar, NEW y \in DOMAIN New
      PROVE  ReadSoFar[x].no < New[y].no
  <2>1. seen < seen + y
    BY <1>1
  <2> QED  BY <1>1, <2>1 DEF FileInv
<1>5. InOrderOnce(u)
  BY <1>1, <1>3, <1>4, InOrderConcat
<1>6. ASSUME NEW x \in DOMAIN u
      PROVE  u[x].no <= written
  <2>1. /\ Len(ReadSoFar) \in Nat /\ Len(New) \in Nat
        /\ DOMAIN ReadSoFar = 1..Len(ReadSoFar) /\ DOMAIN New = 1..Len(New)
        /\ u \in Seq(Line) /\ Len(u) = Len(ReadSoFar) + Len(New)
        /\ \A i \in 1..(Len(ReadSoFar) + Len(New)) :
             u[i] = IF i <= Len(ReadSoFar) THEN ReadSoFar[i] ELSE New[i - Len(ReadSoFar)]
    BY <1>1, ConcatProperties, LenProperties
  <2> HIDE DEF u
  <2>2. DOMAIN u = 1..(Len(ReadSoFar) + Len(New))
    BY <2>1, LenProperties
  <2>3. CASE x <= Len(ReadSoFar)
    <3>1. x \in DOMAIN ReadSoFar /\ u[x] = ReadSoFar[x]
      BY <2>1, <2>2, <2>3
    <3> QED  BY <3>1 DEF FileInv
  <2>4. CASE ~(x <= Len(ReadSoFar))
    <3>1. x - Len(ReadSoFar) \in DOMAIN New /\ u[x] = New[x - Len(ReadSoFar)]
      BY <2>1, <2>2, <2>4
    <3> QED  BY <1>1, <3>1 DEF FileInv
  <2> QED  BY <2>3, <2>4
<1> QED  BY <1>3, <1>5, <1>6

-----------------------------------------------------------------------------
LEMMA AttachedIsTyped ==
  TraceTyped => Attached \in Seq(Line)
BY AttachedTyped

LEMMA AttachedTypedNext ==
  (TraceTyped => Attached \in Seq(Line))'
BY AttachedIsTyped, PTL

LEMMA Numbered ==
  ASSUME NEW s \in Seq(Line)
  PROVE  \A x \in DOMAIN s : s[x].no \in Nat
<1>1. \A x \in DOMAIN s : s[x] \in Line
  BY LenProperties, ElementOfSeq
<1>2. \A l \in Line : l.no \in Nat
  BY DEF Line
<1> QED  BY <1>1, <1>2

(* Sequences that agree up to n have the same first n elements.            *)
LEMMA SubSeqAgrees ==
  ASSUME NEW S, NEW s \in Seq(S), NEW t \in Seq(S), NEW n \in Nat,
         n <= Len(s), n <= Len(t), \A i \in 1..n : s[i] = t[i]
  PROVE  SubSeq(s, 1, n) = SubSeq(t, 1, n)
<1>1. /\ 1 \in Int /\ n \in Int /\ Len(s) \in Nat /\ Len(t) \in Nat
      /\ \A i \in 1..Len(s) : s[i] \in S
      /\ \A i \in 1..Len(t) : t[i] \in S
  BY LenProperties, ElementOfSeq
<1>2. (\A i \in 1..n : s[i] \in S) /\ (\A i \in 1..n : t[i] \in S)
  BY <1>1
<1> DEFINE u == SubSeq(s, 1, n)
           v == SubSeq(t, 1, n)
<1>3. /\ u \in Seq(S) /\ v \in Seq(S)
      /\ Len(u) = IF 1 <= n THEN n - 1 + 1 ELSE 0
      /\ Len(v) = IF 1 <= n THEN n - 1 + 1 ELSE 0
      /\ \A i \in 1..(n - 1 + 1) : u[i] = s[1 + i - 1]
      /\ \A i \in 1..(n - 1 + 1) : v[i] = t[1 + i - 1]
  BY <1>1, <1>2, SubSeqProperties
<1> HIDE DEF u, v
<1>4. Len(u) = n /\ Len(v) = n /\ \A i \in 1..n : u[i] = v[i]
  BY <1>3
<1>5. u = v
  BY <1>3, <1>4, SeqEqual
<1> QED  BY <1>5 DEF u, v

(* strace adds a line that is younger than all others.                     *)
LEMMA TraceKeepsWhole ==
  ASSUME TraceTyped, TraceInv, Trace, UNCHANGED <<marksVars, at>>
  PROVE  TraceInv'
<1>1. PICK pid \in Pids, half \in {"whole", "front", "back"} : file' = Append(file, LineOf(pid, half))
  BY DEF Trace
<1> DEFINE line == LineOf(pid, half)
<1>2. line \in Line /\ line.no = written + 1 /\ written \in Nat
  BY DEF LineOf, Line, TraceTyped
<1>3. /\ Len(file) \in Nat /\ DOMAIN file = 1..Len(file)
      /\ Len(file') = Len(file) + 1 /\ DOMAIN file' = 1..(Len(file) + 1)
      /\ file'[Len(file) + 1] = line
      /\ \A i \in 1..Len(file) : file'[i] = file[i]
      /\ file' \in Seq(Line)
  BY <1>1, <1>2, FileAppended
<1> HIDE DEF line
<1>4. written' = written + 1 /\ touched' = touched /\ shrank' = shrank /\ seen' = seen /\ tail' = tail
  BY DEF Trace, marksVars
<1>5. ReadSoFar' = ReadSoFar /\ Attached' = Attached /\ carried' = carried
  BY DEF ReadSoFar, Attached, marksVars
<1>6. /\ \A i \in 1..Len(file) : file[i].no \in Nat /\ file[i].no <= written
      /\ \A x \in DOMAIN ReadSoFar : ReadSoFar[x].no \in Nat /\ ReadSoFar[x].no <= written
  <2>1. \A i \in DOMAIN file : file[i].no \in Nat
    BY Numbered DEF TraceTyped
  <2>2. \A x \in DOMAIN ReadSoFar : ReadSoFar[x].no \in Nat
    BY AttachedTyped, Numbered
  <2> QED  BY <1>3, <2>1, <2>2 DEF TraceInv, FileInv
<1>7. FileInv'
  <2>1. ASSUME NEW i \in DOMAIN file', NEW j \in DOMAIN file', i < j
        PROVE  file'[i].no < file'[j].no
    <3>1. i \in 1..Len(file)
      BY <1>3, <2>1
    <3>2. CASE j \in 1..Len(file)
      BY <1>3, <2>1, <3>1, <3>2 DEF TraceInv, FileInv
    <3>3. CASE j = Len(file) + 1
      BY <1>2, <1>3, <1>6, <3>1, <3>3
    <3> QED  BY <1>3, <3>2, <3>3
  <2>2. \A i \in DOMAIN file' : file'[i].no <= written'
    <3> TAKE i \in DOMAIN file'
    <3>1. i \in 1..Len(file) \/ i = Len(file) + 1
      BY <1>3
    <3>2. CASE i \in 1..Len(file)
      <4>1. file'[i].no \in Nat /\ file'[i].no <= written
        BY <1>3, <1>6, <3>2
      <4> QED  BY <1>2, <1>4, <4>1
    <3>3. CASE i = Len(file) + 1
      <4>1. file'[i].no = written + 1
        BY <1>2, <1>3, <3>3
      <4> QED  BY <1>2, <1>4, <4>1
    <3> QED  BY <3>1, <3>2, <3>3
  <2>3. \A x \in DOMAIN ReadSoFar : ReadSoFar[x].no <= written'
    <3> TAKE x \in DOMAIN ReadSoFar
    <3>1. ReadSoFar[x].no \in Nat /\ ReadSoFar[x].no <= written
      BY <1>6
    <3> QED  BY <1>2, <1>4, <3>1
  <2>4. ASSUME NEW x \in DOMAIN ReadSoFar, NEW i \in DOMAIN file', seen < i
        PROVE  ReadSoFar[x].no < file'[i].no
    <3>1. CASE i \in 1..Len(file)
      BY <1>3, <2>4, <3>1 DEF TraceInv, FileInv
    <3>2. CASE i = Len(file) + 1
      BY <1>2, <1>3, <1>6, <3>2
    <3> QED  BY <1>3, <3>1, <3>2
  <2> QED  BY <1>4, <1>5, <2>1, <2>2, <2>3, <2>4 DEF FileInv
<1>8. ~touched => ReadSoFar = SubSeq(file', 1, seen)
  <2> SUFFICES ASSUME ~touched
               PROVE  ReadSoFar = SubSeq(file', 1, seen)
    OBVIOUS
  <2>1. ReadSoFar = SubSeq(file, 1, seen) /\ seen <= Len(file) /\ seen \in Nat
    BY DEF TraceInv, WholeInv, TraceTyped
  <2>2. /\ seen <= Len(file') /\ file \in Seq(Line)
        /\ \A i \in 1..seen : file[i] = file'[i]
    <3>1. Len(file) \in Nat /\ Len(file') = Len(file) + 1
      BY <1>3
    <3>2. seen <= Len(file')
      BY <2>1, <3>1
    <3>3. \A i \in 1..seen : i \in 1..Len(file)
      BY <2>1, <3>1
    <3>4. \A i \in 1..Len(file) : file'[i] = file[i]
      BY <1>3
    <3> QED  BY <3>2, <3>3, <3>4 DEF TraceTyped
  <2>3. SubSeq(file, 1, seen) = SubSeq(file', 1, seen)
    BY <1>3, <2>1, <2>2, SubSeqAgrees
  <2> QED  BY <2>1, <2>3
<1>9. WholeInv'
  <2> SUFFICES ASSUME ~touched
               PROVE  /\ Len(file') = written' /\ seen <= written'
                      /\ \A i \in DOMAIN file' : file'[i].no = i
                      /\ ReadSoFar = SubSeq(file', 1, seen)
    BY <1>4, <1>5 DEF WholeInv
  <2>1. /\ Len(file) = written /\ seen <= written /\ seen \in Nat
        /\ \A i \in DOMAIN file : file[i].no = i
    BY DEF TraceInv, WholeInv, TraceTyped
  <2>2. \A i \in DOMAIN file' : file'[i].no = i
    BY <1>2, <1>3, <2>1
  <2>3. Len(file') = written' /\ seen <= written'
    BY <1>2, <1>3, <1>4, <2>1
  <2> QED  BY <1>8, <2>2, <2>3
<1>10. TraceIsWhole'
  BY <1>4, <1>5, <1>8 DEF TraceInv, TraceIsWhole, ReadSoFar
<1> QED  BY <1>4, <1>7, <1>9, <1>10 DEF TraceInv

(* A server that shortens the file leaves what was read of it alone.       *)
LEMMA ShortenKeepsWhole ==
  ASSUME TraceTyped, TraceInv, Shorten, UNCHANGED <<marksVars, at>>
  PROVE  TraceInv'
<1>1. PICK n \in 0..(Len(file) - 1) : file' = SubSeq(file, 1, n)
  BY DEF Shorten
<1>2. /\ Len(file) \in Nat /\ DOMAIN file = 1..Len(file)
      /\ DOMAIN file' = 1..n /\ n \in Nat /\ n < Len(file)
      /\ \A i \in 1..n : file'[i] = file[i]
  BY <1>1, FileShortened
<1>3. \A i \in DOMAIN file' : i \in DOMAIN file /\ file'[i] = file[i]
  BY <1>2
<1>4. written' = written /\ touched' = TRUE /\ shrank' = shrank /\ seen' = seen /\ tail' = tail
  BY DEF Shorten, marksVars
<1>5. ReadSoFar' = ReadSoFar /\ Attached' = Attached /\ carried' = carried
  BY DEF ReadSoFar, Attached, marksVars
<1>6. FileInv'
  BY <1>3, <1>4, <1>5 DEF TraceInv, FileInv
<1>7. WholeInv'
  BY <1>4 DEF WholeInv
<1>8. TraceIsWhole'
  BY <1>4, <1>5 DEF TraceInv, TraceIsWhole, ReadSoFar
<1> QED  BY <1>4, <1>6, <1>7, <1>8 DEF TraceInv

(* A mark reads on from where the last one ended, whatever it holds back.  *)
LEMMA MarkKeepsWhole ==
  ASSUME TraceTyped, TraceTyped', TraceInv, NEW p, ReadMark(p), UNCHANGED fileVars,
         at \notin {"cleanup", "ended"}
  PROVE  TraceInv'
<1>1. /\ ReadSoFar' = ReadSoFar \o New
      /\ \E s \in Seq(Line) : Attached' = Attached \o s
  BY MarkReadsOn
<1>2. /\ InOrderOnce(ReadSoFar')
      /\ \A x \in DOMAIN ReadSoFar' : ReadSoFar'[x].no <= written
  BY <1>1, NewLinesFollow DEF TraceInv, TraceIsWhole, ReadSoFar
<1>3. /\ seen' = Len(file) /\ shrank' = (shrank \/ Len(file) < seen) /\ tail' = tail
      /\ file' = file /\ written' = written /\ touched' = touched
  BY DEF ReadMark, SeenAfter, fileVars
<1>4. Len(file) \in Nat /\ seen \in Nat /\ DOMAIN file = 1..Len(file) /\ file \in Seq(Line)
  BY LenProperties DEF TraceTyped
<1>5. FileInv'
  <2>1. \A i \in DOMAIN file : ~(Len(file) < i)
    BY <1>4
  <2> QED  BY <1>2, <1>3, <2>1 DEF TraceInv, FileInv
<1>6. ~touched => ReadSoFar' = SubSeq(file, 1, Len(file))
  <2> SUFFICES ASSUME ~touched
               PROVE  ReadSoFar' = SubSeq(file, 1, Len(file))
    OBVIOUS
  <2>1. ReadSoFar = SubSeq(file, 1, seen) /\ seen <= Len(file)
    BY DEF TraceInv, WholeInv
  <2>2. 1 \in 1..(Len(file) + 1) /\ seen \in (1 - 1)..Len(file) /\ Len(file) \in seen..Len(file)
    BY <1>4, <2>1
  <2>3. SubSeq(file, 1, seen) \o SubSeq(file, seen + 1, Len(file)) = SubSeq(file, 1, Len(file))
    BY <1>4, <2>2, ConcatAdjacentSubSeq
  <2> QED  BY <1>1, <2>1, <2>3 DEF New
<1>7. WholeInv'
  <2> SUFFICES ASSUME ~touched
               PROVE  /\ Len(file) = written /\ Len(file) <= written
                      /\ \A i \in DOMAIN file : file[i].no = i
                      /\ ReadSoFar' = SubSeq(file, 1, Len(file))
    BY <1>3 DEF WholeInv
  <2>1. Len(file) = written /\ \A i \in DOMAIN file : file[i].no = i
    BY DEF TraceInv, WholeInv
  <2> QED  BY <1>4, <1>6, <2>1
<1>8. InOrderOnce(Attached' \o tail)
  <2>1. tail = <<>>
    BY DEF TraceInv
  <2>2. Attached' \in Seq(Line) /\ carried' \in Seq(Line)
    BY AttachedTypedNext DEF TraceTyped
  <2>3. InOrderOnce(Attached')
    BY <1>2, <2>2, InOrderPrefix DEF ReadSoFar
  <2>4. Attached' \o <<>> = Attached'
    BY <2>2, ConcatEmptySeq
  <2> QED  BY <2>1, <2>3, <2>4
<1>9. shrank' => touched
  <2>1. CASE shrank
    BY <2>1 DEF TraceInv, TraceIsWhole
  <2>2. CASE Len(file) < seen
    BY <1>4, <2>2 DEF TraceInv, WholeInv
  <2> QED  BY <1>3, <2>1, <2>2
<1>10. TraceIsWhole'
  BY <1>2, <1>3, <1>6, <1>8, <1>9 DEF TraceIsWhole, ReadSoFar
<1>11. tail' = <<>>
  BY <1>3 DEF TraceInv
<1> QED  BY <1>5, <1>7, <1>10, <1>11 DEF TraceInv

(* The last reading adds what was held back, and what is new.              *)
LEMMA TailKeepsWhole ==
  ASSUME TraceTyped, TraceInv, ReadTail \/ MissTail, UNCHANGED fileVars, at' = "cleanup"
  PROVE  TraceInv'
<1>1. /\ seen' = seen /\ carried' = carried
      /\ file' = file /\ written' = written /\ touched' = touched
  BY DEF ReadTail, MissTail, fileVars
<1>2. ReadSoFar' = ReadSoFar /\ Attached' = Attached
  BY DEF ReadTail, MissTail, ReadSoFar, Attached
<1>3. InOrderOnce(Attached \o tail')
  <2>1. CASE tail' = carried
    BY <2>1 DEF TraceInv, TraceIsWhole
  <2>2. CASE tail' = carried \o New
    <3>1. Attached \in Seq(Line) /\ carried \in Seq(Line) /\ New \in Seq(Line)
      BY AttachedTyped, NewLines DEF TraceTyped
    <3>2. Attached \o (carried \o New) = ReadSoFar \o New
      BY <3>1, ConcatAssociative DEF ReadSoFar
    <3>3. InOrderOnce(ReadSoFar \o New)
      BY NewLinesFollow DEF TraceInv, TraceIsWhole, ReadSoFar
    <3> QED  BY <2>2, <3>2, <3>3
  <2> QED  BY <2>1, <2>2 DEF ReadTail, MissTail
<1>4. shrank' => touched
  <2>1. shrank => touched
    BY DEF TraceInv, TraceIsWhole
  <2>2. Len(file) < seen => touched
    <3>1. Len(file) \in Nat /\ seen \in Nat
      BY LenProperties DEF TraceTyped
    <3> QED  BY <3>1 DEF TraceInv, WholeInv
  <2> QED  BY <2>1, <2>2 DEF ReadTail, MissTail
<1>5. TraceIsWhole'
  BY <1>1, <1>2, <1>3, <1>4 DEF TraceInv, TraceIsWhole, ReadSoFar
<1>6. FileInv' /\ WholeInv'
  BY <1>1, <1>2 DEF TraceInv, FileInv, WholeInv
<1> QED  BY <1>5, <1>6 DEF TraceInv

LEMMA TraceInvNext ==
  ASSUME TraceTyped, TraceTyped', TraceInv, [Next]_vars
  PROVE  TraceInv'
<1>1. CASE (Trace \/ Shorten) /\ UNCHANGED <<marksVars, at>>
  BY <1>1, TraceKeepsWhole, ShortenKeepsWhole
<1>2. CASE ReadMark(next) /\ UNCHANGED fileVars /\ at = "read"
  BY <1>2, MarkKeepsWhole
<1>3. CASE MissMark(next) /\ UNCHANGED fileVars /\ at = "read" /\ at' \in {"snapshot", "ask"}
  BY <1>3, ZenonT(30) DEF MissMark, fileVars, TraceInv, FileInv, WholeInv, TraceIsWhole, ReadSoFar, Attached
<1>4. CASE (ReadTail \/ MissTail) /\ UNCHANGED fileVars /\ at' = "cleanup"
  BY <1>4, TailKeepsWhole
<1>5. CASE /\ UNCHANGED <<fileVars, marksVars>>
           /\ at \in {"cleanup", "ended"} => at' \in {"cleanup", "ended"}
  BY <1>5, ZenonT(30) DEF marksVars, fileVars, TraceInv, FileInv, WholeInv, TraceIsWhole, ReadSoFar, Attached
<1> QED  BY <1>1, <1>2, <1>3, <1>4, <1>5, StepOfTrace

-----------------------------------------------------------------------------
LEMMA PhasesAreNumbers ==
  /\ Relist \in Nat /\ Shutdown \in Nat
  /\ \A c \in Calls : c \in Nat /\ AfterBreak(c) \in Nat
<1>1. Tools * CallsPerTool \in Nat
  BY AuditBounds
<1>2. Relist \in Nat /\ Shutdown \in Nat
  BY <1>1 DEF Relist, Shutdown, FirstCall
<1>3. ASSUME NEW c \in Calls
      PROVE  c \in Nat /\ AfterBreak(c) \in Nat
  <2>1. c \in Nat /\ c - FirstCall \in Nat
    BY <1>2 DEF Calls, FirstCall
  <2>2. (c - FirstCall) \div CallsPerTool \in Nat
    BY <2>1, AuditBounds
  <2> DEFINE q == ((c - FirstCall) \div CallsPerTool) + 1
  <2>3. q \in Nat
    BY <2>2
  <2> HIDE DEF q
  <2>4. CallsPerTool * q \in Nat
    BY <2>3, AuditBounds
  <2>5. FirstCall + CallsPerTool * q \in Nat
    BY <2>4 DEF FirstCall
  <2> QED  BY <2>1, <2>5 DEF AfterBreak, q
<1> QED  BY <1>2, <1>3

LEMMA CleanupOrderTyped ==
  /\ CleanupOrder \in Seq(Resources) /\ Len(CleanupOrder) = 5
  /\ \A r \in Resources : \E i \in 1..5 : CleanupOrder[i] = r
  /\ CleanupOrder[1] = "target" /\ CleanupOrder[2] = "gateway" /\ CleanupOrder[3] = "network"
  /\ CleanupOrder[4] = "volume" /\ CleanupOrder[5] = "tmp"
BY DEF CleanupOrder, Resources

LEMMA StagesNext ==
  ASSUME at \in Stages, verdict \in {"none", "unavailable", "error", "report"},
         faults \in Nat, [Next]_vars
  PROVE  /\ at' \in Stages
         /\ verdict' \in {"none", "unavailable", "error", "report"}
         /\ faults' \in Nat
         /\ gaps' \subseteq gaps \union {"trace", "gateway"}
<1> USE DEF Stages, Resources
<1>1. CASE Make \/ StartFails \/ MadeUntold \/ Boot \/ SessionRefused
  BY <1>1 DEF Make, StartFails, MadeUntold, Boot, SessionRefused, After, EndAs, Fault
<1>2. CASE Launch \/ Connected \/ ConnectFails
  BY <1>2 DEF Launch, Connected, ConnectFails, Mark, EndAs, Fault
<1>3. CASE Tell \/ TellFails \/ Read \/ ReadFails
  BY <1>3 DEF Tell, TellFails, Read, ReadFails, Marked, Fault
<1>4. CASE Listed \/ Close \/ CallEnds \/ CallBreaks
  BY <1>4 DEF Listed, Close, CallEnds, CallBreaks, Asked, Mark
<1>5. CASE AskFails \/ Snapshot \/ SnapshotFails \/ BaselineFails
  BY <1>5 DEF AskFails, Snapshot, SnapshotFails, BaselineFails, EndAs, Fault
<1>6. CASE Skip \/ Removes \/ RemoveRefused \/ RemoveFails \/ CleanedUp
  BY <1>6 DEF Skip, Removes, RemoveRefused, RemoveFails, CleanedUp, Fault
<1>7. CASE ServerStep \/ GatewayWorks
  BY <1>7 DEF ServerStep, ServerTraces, ServerShortens, ServerAsks, GatewayWorks, auditVars
<1>8. CASE UNCHANGED vars
  BY <1>8 DEF vars, auditVars
<1> QED  BY <1>1, <1>2, <1>3, <1>4, <1>5, <1>6, <1>7, <1>8 DEF Next, AuditStep

LEMMA PlacesNext ==
  ASSUME exists \subseteq Resources, present \subseteq Resources, told \subseteq Resources,
         untold \subseteq {"tmp", "network", "volume"}, hindered \in BOOLEAN, [Next]_vars
  PROVE  /\ exists' \subseteq Resources /\ present' \subseteq Resources /\ told' \subseteq Resources
         /\ untold' \subseteq {"tmp", "network", "volume"} /\ hindered' \in BOOLEAN
<1> USE DEF Resources
<1>1. CASE Make \/ StartFails \/ MadeUntold \/ Boot \/ SessionRefused
  BY <1>1 DEF Make, StartFails, MadeUntold, Boot, SessionRefused, After, dockerVars
<1>2. CASE Launch \/ Connected \/ ConnectFails
  BY <1>2 DEF Launch, Connected, ConnectFails, dockerVars
<1>3. CASE Tell \/ TellFails \/ Read \/ ReadFails
  BY <1>3 DEF Tell, TellFails, Read, ReadFails, dockerVars
<1>4. CASE Listed \/ Close \/ CallEnds \/ CallBreaks
  BY <1>4 DEF Listed, Close, CallEnds, CallBreaks, Asked, dockerVars
<1>5. CASE AskFails \/ Snapshot \/ SnapshotFails \/ BaselineFails
  BY <1>5 DEF AskFails, Snapshot, SnapshotFails, BaselineFails, dockerVars
<1>6. CASE Skip \/ Removes \/ CleanedUp
  BY <1>6 DEF Skip, Removes, CleanedUp, dockerVars
<1>7. CASE RemoveRefused \/ RemoveFails
  BY <1>7 DEF RemoveRefused, RemoveFails, ReaderHolds
<1>8. CASE ServerStep \/ GatewayWorks
  BY <1>8 DEF ServerStep, ServerTraces, ServerShortens, ServerAsks, GatewayWorks, dockerVars, auditVars
<1>9. CASE UNCHANGED vars
  BY <1>9 DEF vars, dockerVars, auditVars
<1> QED  BY <1>1, <1>2, <1>3, <1>4, <1>5, <1>6, <1>7, <1>8, <1>9 DEF Next, AuditStep

LEMMA AuditTypedNext ==
  ASSUME AuditTyped, phase \in Nat, [Next]_vars
  PROVE  AuditTyped'
<1>1. \/ todo' \in {todo, CleanupOrder}
      \/ todo # <<>> /\ todo' = Tail(todo)
  BY Zenon DEF Next, AuditStep, ServerStep, vars, auditVars, EndAs, Asked, Removing,
         Make, StartFails, MadeUntold, Boot, SessionRefused, Launch, Connected, ConnectFails,
         Tell, TellFails, Read, ReadFails, Listed, CallEnds, CallBreaks, Close, AskFails,
         Snapshot, SnapshotFails, BaselineFails, Skip, Removes, RemoveRefused, RemoveFails,
         CleanedUp, ServerTraces, ServerShortens, ServerAsks, GatewayWorks
<1>2. todo' \in Seq(Resources)
  <2>1. todo \in Seq(Resources)
    BY DEF AuditTyped
  <2> QED  BY <1>1, <2>1, CleanupOrderTyped, HeadTailProperties
<1>3. \/ next' \in {next, 1, FirstCall, Relist, phase + 1, Shutdown}
      \/ phase \in Calls /\ next' = AfterBreak(phase)
  BY Zenon DEF Next, AuditStep, ServerStep, vars, auditVars, Asked, Mark,
         Make, StartFails, MadeUntold, Boot, SessionRefused, Launch, Connected, ConnectFails,
         Tell, TellFails, Read, ReadFails, Listed, CallEnds, CallBreaks, Close, AskFails,
         Snapshot, SnapshotFails, BaselineFails, Skip, Removes, RemoveRefused, RemoveFails,
         CleanedUp, ServerTraces, ServerShortens, ServerAsks, GatewayWorks
<1>4. next' \in Nat
  BY <1>3, PhasesAreNumbers DEF AuditTyped, FirstCall
<1> QED  BY <1>2, <1>4, StagesNext, PlacesNext DEF AuditTyped

-----------------------------------------------------------------------------
(* The clean-up begins with everything before it.                          *)
LEMMA CleanupBegins ==
  ASSUME NEW v, EndAs(v)
  PROVE  PastInv'
<1>1. todo' = CleanupOrder
  BY DEF EndAs
<1>2. 0 \in 0..5 /\ 5 - 0 = 5 /\ \A i \in 1..5 : 0 + i = i
  OBVIOUS
<1>3. /\ Len(todo') = 5 - 0
      /\ \A i \in 1..(5 - 0) : todo'[i] = CleanupOrder[0 + i]
      /\ \A i \in 1..0 : CleanupOrder'[i] \notin (exists \intersect present)'
  BY <1>1, CleanupOrderTyped
<1> QED  BY <1>2, <1>3 DEF PastInv, CleanupOrder

(* And goes on by one.                                                     *)
LEMMA CleanupGoesOn ==
  ASSUME AuditTyped, PastInv, todo # <<>>, todo' = Tail(todo),
         ~hindered' => /\ ~hindered
                       /\ (exists \intersect present)' \subseteq (exists \intersect present) \ {Head(todo)}
  PROVE  PastInv'
<1>1. PICK n \in 0..5 :
        /\ Len(todo) = 5 - n
        /\ \A i \in 1..(5 - n) : todo[i] = CleanupOrder[n + i]
        /\ ~hindered => \A i \in 1..n : CleanupOrder[i] \notin exists \intersect present
  BY DEF PastInv
<1>2. todo \in Seq(Resources) /\ Len(todo) # 0
  BY DEF AuditTyped
<1>3. n + 1 \in 0..5 /\ n # 5
  BY <1>1, <1>2
<1>4. /\ Len(todo') = Len(todo) - 1 /\ Head(todo) = todo[1]
      /\ \A i \in 1..(Len(todo) - 1) : todo'[i] = todo[i + 1]
  BY <1>2
<1>5. Len(todo') = 5 - (n + 1)
  BY <1>1, <1>4
<1>6. ASSUME NEW i \in 1..(5 - (n + 1))
      PROVE  todo'[i] = CleanupOrder[n + 1 + i]
  <2>1. i \in 1..(Len(todo) - 1) /\ i + 1 \in 1..(5 - n) /\ n + (i + 1) = n + 1 + i
    BY <1>1, <1>3
  <2> QED  BY <1>1, <1>4, <2>1
<1>7. Head(todo) = CleanupOrder[n + 1]
  <2>1. 1 \in 1..(5 - n)
    BY <1>3
  <2> QED  BY <1>1, <1>4, <2>1
<1>8. ASSUME ~hindered', NEW i \in 1..(n + 1)
      PROVE  CleanupOrder[i] \notin (exists \intersect present)'
  <2>1. i \in 1..n \/ i = n + 1
    OBVIOUS
  <2> QED  BY <1>1, <1>7, <1>8, <2>1
<1> QED  BY <1>3, <1>5, <1>6, <1>8 DEF PastInv, CleanupOrder

(* Docker refuses to remove a resource only while another holds it, which  *)
(* the order of the clean-up excludes, or a reader of the trace does.      *)
LEMMA OrderFreesAll ==
  ASSUME AuditTyped, PastInv, exists \subseteq present \union untold,
         todo # <<>>, Held(Head(todo))
  PROVE  hindered
<1> SUFFICES ASSUME ~hindered
             PROVE  FALSE
  BY DEF AuditTyped
<1>1. PICK n \in 0..5 :
        /\ Len(todo) = 5 - n
        /\ \A i \in 1..(5 - n) : todo[i] = CleanupOrder[n + i]
        /\ \A i \in 1..n : CleanupOrder[i] \notin exists \intersect present
  BY DEF PastInv
<1>2. todo \in Seq(Resources) /\ Len(todo) # 0 /\ Head(todo) = todo[1]
  BY DEF AuditTyped
<1>3. n # 5 /\ 1 \in 1..(5 - n)
  BY <1>1, <1>2
<1>4. Head(todo) = CleanupOrder[n + 1]
  BY <1>1, <1>2, <1>3
<1>5. "target" \notin untold /\ "gateway" \notin untold
  BY DEF AuditTyped
<1>6. n \in {0, 1, 2, 3, 4}
  BY <1>3
<1>7. CASE Head(todo) = "network" /\ exists \intersect {"target", "gateway"} # {}
  <2>1. n = 2
    BY <1>4, <1>6, <1>7, CleanupOrderTyped
  <2>2. "target" \notin exists \intersect present /\ "gateway" \notin exists \intersect present
    BY <1>1, <2>1, CleanupOrderTyped
  <2> QED  BY <1>5, <1>7, <2>2
<1>8. CASE Head(todo) = "volume" /\ "target" \in exists
  <2>1. n = 3
    BY <1>4, <1>6, <1>8, CleanupOrderTyped
  <2>2. "target" \notin exists \intersect present
    BY <1>1, <2>1, CleanupOrderTyped
  <2> QED  BY <1>5, <1>8, <2>2
<1> QED  BY <1>7, <1>8 DEF Held

LEMMA ResourceInvNext ==
  ASSUME AuditTyped, AuditTyped', ResourceInv, [Next]_vars
  PROVE  ResourceInv'
<1>1. CASE Make \/ Boot \/ Launch
  BY <1>1 DEF Make, Boot, Launch, After, ResourceInv, NothingLeftUnsaid, Stages
<1>2. CASE StartFails \/ MadeUntold \/ SessionRefused \/ ConnectFails
  <2>1. PastInv'
    BY <1>2, CleanupBegins DEF StartFails, MadeUntold, SessionRefused, ConnectFails
  <2>2. at' = "cleanup"
    BY <1>2 DEF StartFails, MadeUntold, SessionRefused, ConnectFails, EndAs
  <2>3. exists' \subseteq present' \union untold'
    BY <1>2 DEF StartFails, MadeUntold, SessionRefused, ConnectFails, dockerVars, ResourceInv
  <2> QED  BY <2>1, <2>2, <2>3 DEF ResourceInv, NothingLeftUnsaid
<1>3. CASE Connected \/ Listed \/ CallEnds \/ CallBreaks \/ Close \/ Tell \/ TellFails \/ Read \/ ReadFails
  <2>1. /\ exists' = exists /\ present' = present /\ untold' = untold
        /\ at \notin {"cleanup", "ended"} /\ verdict' = verdict
        /\ at' \in {"tell", "read", "snapshot", "ask"}
    BY <1>3 DEF Connected, Listed, CallEnds, CallBreaks, Close, Tell, TellFails, Read, ReadFails,
                Asked, Mark, Marked, dockerVars
  <2> QED  BY <2>1 DEF ResourceInv, NothingLeftUnsaid
<1>4. CASE AskFails \/ Snapshot \/ SnapshotFails \/ BaselineFails
  <2>1. PastInv'
    BY <1>4, CleanupBegins DEF AskFails, Snapshot, SnapshotFails, BaselineFails
  <2>2. at' = "cleanup"
    BY <1>4 DEF AskFails, Snapshot, SnapshotFails, BaselineFails, EndAs
  <2>3. exists' \subseteq present' \union untold'
    BY <1>4 DEF AskFails, Snapshot, SnapshotFails, BaselineFails, dockerVars, ResourceInv
  <2> QED  BY <2>1, <2>2, <2>3 DEF ResourceInv, NothingLeftUnsaid
<1>5. CASE Skip \/ Removes \/ RemoveRefused \/ RemoveFails
  <2>1. /\ at = "cleanup" /\ at' = at /\ todo # <<>> /\ todo' = Tail(todo) /\ PastInv
        /\ exists \subseteq present \union untold
    BY <1>5 DEF Skip, Removes, RemoveRefused, RemoveFails, Removing, ResourceInv
  <2>2. exists' \subseteq present' \union untold'
    BY <1>5, <2>1 DEF Skip, Removes, RemoveRefused, RemoveFails, dockerVars
  <2>3. ~hindered' => /\ ~hindered
                      /\ (exists \intersect present)' \subseteq (exists \intersect present) \ {Head(todo)}
    <3>1. CASE Skip
      BY <3>1 DEF Skip, dockerVars
    <3>2. CASE Removes
      BY <3>2 DEF Removes
    <3>3. CASE RemoveRefused
      BY <2>1, <3>3, OrderFreesAll DEF RemoveRefused
    <3>4. CASE RemoveFails
      BY <3>4 DEF RemoveFails
    <3> QED  BY <1>5, <3>1, <3>2, <3>3, <3>4
  <2>4. PastInv'
    BY <2>1, <2>3, CleanupGoesOn
  <2> QED  BY <2>1, <2>2, <2>4 DEF ResourceInv, NothingLeftUnsaid
<1>6. CASE CleanedUp
  <2>1. at = "cleanup" /\ todo = <<>> /\ PastInv /\ exists \subseteq present \union untold
    BY <1>6 DEF CleanedUp, ResourceInv
  <2>2. ~hindered => exists \intersect present = {}
    <3>1. PICK n \in 0..5 :
            /\ Len(todo) = 5 - n
            /\ ~hindered => \A i \in 1..n : CleanupOrder[i] \notin exists \intersect present
      BY <2>1 DEF PastInv
    <3>2. n = 5
      BY <2>1, <3>1
    <3>3. exists \subseteq Resources
      BY DEF AuditTyped
    <3> QED  BY <3>1, <3>2, <3>3, CleanupOrderTyped
  <2>3. /\ at' = "ended" /\ exists' = exists /\ present' = present /\ untold' = untold
        /\ hindered' = hindered /\ verdict' = verdict
        /\ told' = IF verdict = "error" THEN {} ELSE present
    BY <1>6 DEF CleanedUp, dockerVars
  <2> QED  BY <2>1, <2>2, <2>3 DEF ResourceInv, NothingLeftUnsaid
<1>7. CASE ServerStep \/ GatewayWorks
  BY <1>7 DEF ServerStep, ServerTraces, ServerShortens, ServerAsks, GatewayWorks,
              dockerVars, auditVars, ResourceInv, PastInv, NothingLeftUnsaid
<1>8. CASE UNCHANGED vars
  BY <1>8 DEF vars, dockerVars, auditVars, ResourceInv, PastInv, NothingLeftUnsaid
<1> QED  BY <1>1, <1>2, <1>3, <1>4, <1>5, <1>6, <1>7, <1>8 DEF Next, AuditStep

-----------------------------------------------------------------------------
(* What the gateway does leaves the phase of a request as it was noted.    *)
LEMMA PhaseIsKept ==
  ASSUME GatewayTyped, GatewayStep \/ UNCHANGED reqs, NEW q \in Requests
  PROVE  /\ reqs'[q].at = reqs[q].at /\ reqs'[q].due = reqs[q].due
         /\ reqs'[q].st # "unsent" => reqs[q].st # "unsent"
<1>1. ASSUME NEW r \in Requests,
             \/ BodyBreaks(r) \/ Refuse(r) \/ Replay(r) \/ LookupFails(r) \/ Forward(r)
             \/ UpstreamAnswers(r) \/ AnswerEnds(r) \/ UpstreamError(r) \/ ClientLeaves(r)
      PROVE  /\ reqs'[q].at = reqs[q].at /\ reqs'[q].due = reqs[q].due
             /\ reqs'[q].st # "unsent" => reqs[q].st # "unsent"
  <2> USE DEF GatewayTyped, Request
  <2>1. CASE q # r
    BY <1>1, <2>1 DEF BodyBreaks, Refuse, Replay, LookupFails, Forward,
                      UpstreamAnswers, AnswerEnds, UpstreamError, ClientLeaves
  <2>2. CASE q = r
    <3>1. CASE BodyBreaks(r)
      BY <2>2, <3>1 DEF BodyBreaks
    <3>2. CASE Refuse(r) \/ Forward(r)
      BY <2>2, <3>2 DEF Refuse, Forward
    <3>3. CASE Replay(r)
      BY <2>2, <3>3 DEF Replay
    <3>4. CASE LookupFails(r)
      BY <2>2, <3>4 DEF LookupFails
    <3>5. CASE UpstreamAnswers(r)
      BY <2>2, <3>5 DEF UpstreamAnswers
    <3>6. CASE AnswerEnds(r)
      BY <2>2, <3>6 DEF AnswerEnds
    <3>7. CASE ClientLeaves(r)
      BY <2>2, <3>7 DEF ClientLeaves
    <3>8. CASE UpstreamError(r)
      BY <2>2, <3>8 DEF UpstreamError, Dialled
    <3> QED  BY <1>1, <3>1, <3>2, <3>3, <3>4, <3>5, <3>6, <3>7, <3>8
  <2> QED  BY <2>1, <2>2
<1> QED  BY <1>1 DEF GatewayStep

(* Only a mark moves the phase, of the gateway first and then of the audit.*)
LEMMA StepOfPhase ==
  ASSUME ResourceInv, [Next]_vars
  PROVE  /\ gaps \subseteq gaps'
         /\ \/ /\ at = "tell" /\ at' = "read" /\ gate' \in {gate, next}
               /\ "gateway" \notin gaps' => gate' = next
               /\ UNCHANGED <<phase, next, reqs>>
            \/ /\ at = "read" /\ at' # "read" /\ phase' = next
               /\ UNCHANGED <<gate, reqs>>
            \/ /\ at # "read" /\ at' # "read"
               /\ UNCHANGED <<gate, phase, reqs>>
            \/ /\ UNCHANGED <<at, gate, phase, next>>
               /\ (\E r \in Requests : Arrive(r, Due)) \/ GatewayStep \/ UNCHANGED reqs
<1>1. CASE Make \/ StartFails \/ MadeUntold \/ Boot \/ SessionRefused
  BY <1>1 DEF Make, StartFails, MadeUntold, Boot, SessionRefused, After, EndAs,
              gatewayVars, marksVars
<1>2. CASE Launch \/ Connected \/ ConnectFails
  BY <1>2 DEF Launch, Connected, ConnectFails, Mark, EndAs, gatewayVars, marksVars
<1>3. CASE Tell \/ TellFails
  BY <1>3 DEF Tell, TellFails, PhaseAfter, marksVars
<1>4. CASE Read \/ ReadFails
  BY <1>4 DEF Read, ReadFails, Marked, ReadMark, MissMark, gatewayVars
<1>5. CASE Listed \/ Close \/ CallEnds \/ CallBreaks
  BY <1>5 DEF Listed, Close, CallEnds, CallBreaks, Asked, Mark, gatewayVars, marksVars
<1>6. CASE AskFails \/ Snapshot \/ SnapshotFails
  BY <1>6 DEF AskFails, Snapshot, SnapshotFails, ReadTail, MissTail, EndAs, gatewayVars, marksVars
<1>7. CASE Skip \/ Removes \/ RemoveRefused \/ RemoveFails \/ CleanedUp
  BY <1>7 DEF Skip, Removes, RemoveRefused, RemoveFails, CleanedUp, Removing, gatewayVars, marksVars
<1>8. CASE BaselineFails
  <2>1. UNCHANGED <<gate, phase, reqs, next, gaps>> /\ at' = "cleanup"
    BY <1>8 DEF BaselineFails, EndAs, gatewayVars, marksVars
  <2>2. at \in {"cleanup", "ended"}
    BY <1>8 DEF BaselineFails, ResourceInv
  <2> QED  BY <2>1, <2>2
<1>9. CASE ServerStep
  BY <1>9 DEF ServerStep, ServerTraces, ServerShortens, ServerAsks, Arrive,
              gatewayVars, marksVars, auditVars
<1>10. CASE GatewayWorks
  <2>1. gate' = gate
    BY <1>10 DEF GatewayWorks, GatewayStep, BodyBreaks, Refuse, Replay, LookupFails, Forward,
                UpstreamAnswers, AnswerEnds, UpstreamError, ClientLeaves
  <2> QED  BY <1>10, <2>1 DEF GatewayWorks, marksVars, auditVars
<1>11. CASE UNCHANGED vars
  BY <1>11 DEF vars, gatewayVars, marksVars, auditVars
<1> QED  BY <1>1, <1>2, <1>3, <1>4, <1>5, <1>6, <1>7, <1>8, <1>9, <1>10, <1>11 DEF Next, AuditStep

LEMMA PhaseInvNext ==
  ASSUME GatewayTyped, ResourceInv, PhaseInv, [Next]_vars
  PROVE  PhaseInv'
<1> SUFFICES ASSUME "gateway" \notin gaps'
             PROVE  /\ gate' = IF at' = "read" THEN next' ELSE phase'
                    /\ \A r \in Requests : reqs'[r].st # "unsent" => reqs'[r].at \in reqs'[r].due
  BY DEF PhaseInv
<1>1. /\ gate = IF at = "read" THEN next ELSE phase
      /\ \A r \in Requests : reqs[r].st # "unsent" => reqs[r].at \in reqs[r].due
  BY StepOfPhase DEF PhaseInv
<1>2. CASE /\ at = "tell" /\ at' = "read" /\ gate' = next
           /\ UNCHANGED <<phase, next, reqs>>
  BY <1>1, <1>2
<1>3. CASE /\ at = "read" /\ at' # "read" /\ phase' = next
           /\ UNCHANGED <<gate, reqs>>
  BY <1>1, <1>3
<1>4. CASE /\ at # "read" /\ at' # "read"
           /\ UNCHANGED <<gate, phase, reqs>>
  BY <1>1, <1>4
<1>5. CASE UNCHANGED <<at, gate, phase, next>> /\ (GatewayStep \/ UNCHANGED reqs)
  BY <1>1, <1>5, PhaseIsKept
<1>6. ASSUME NEW r \in Requests, Arrive(r, Due), UNCHANGED <<at, gate, phase, next>>
      PROVE  /\ gate' = IF at' = "read" THEN next' ELSE phase'
             /\ \A q \in Requests : reqs'[q].st # "unsent" => reqs'[q].at \in reqs'[q].due
  <2>1. gate \in Due
    BY <1>1 DEF Due
  <2>2. reqs'[r].at = gate /\ reqs'[r].due = Due
    BY <1>6 DEF Arrive, GatewayTyped, Request
  <2>3. \A q \in Requests \ {r} : reqs'[q] = reqs[q]
    BY <1>6 DEF Arrive, GatewayTyped
  <2> QED  BY <1>1, <1>6, <2>1, <2>2, <2>3
<1> QED  BY <1>2, <1>3, <1>4, <1>5, <1>6, StepOfPhase

-----------------------------------------------------------------------------
(* A line has one other half.                                              *)
LEMMA AnswersUnique ==
  ASSUME NEW lines, NEW i \in Nat, NEW j \in Nat, NEW k \in Nat,
         Answers(lines, i, j), Answers(lines, i, k)
  PROVE  j = k
<1>1. i < j /\ i < k /\ lines[j].half = "back" /\ lines[k].half = "back"
      /\ lines[i].pid = lines[j].pid /\ lines[i].pid = lines[k].pid
  BY DEF Answers
<1>2. CASE j < k
  <2>1. j \in (i + 1)..(k - 1)
    BY <1>1, <1>2
  <2>2. lines[j].half = "whole"
    BY <1>1, <2>1 DEF Answers
  <2> QED  BY <1>1, <2>2
<1>3. CASE k < j
  <2>1. k \in (i + 1)..(j - 1)
    BY <1>1, <1>3
  <2>2. lines[k].half = "whole"
    BY <1>1, <2>1 DEF Answers
  <2> QED  BY <1>1, <2>2
<1> QED  BY <1>2, <1>3

(* A line that is added answers one half at most, and parts no other pair. *)
LEMMA TraceKeepsHalves ==
  ASSUME TraceTyped, HalvesInv, Trace, UNCHANGED <<marksVars, at>>
  PROVE  HalvesInv'
<1> SUFFICES ASSUME ~touched
             PROVE  CallInv' /\ \A k \in DOMAIN segments' : SegmentInv(k)'
  BY DEF HalvesInv, Trace
<1>1. PICK pid \in Pids, half \in {"whole", "front", "back"} :
        /\ pid \in InCall => half = "back"
        /\ file' = Append(file, LineOf(pid, half))
  BY DEF Trace
<1> DEFINE line == LineOf(pid, half)
           n == Len(file)
<1>2. line \in Line /\ line.pid = pid /\ line.half = half
  BY DEF LineOf, Line, TraceTyped
<1>3. /\ n \in Nat /\ DOMAIN file = 1..n
      /\ Len(file') = n + 1 /\ DOMAIN file' = 1..(n + 1)
      /\ file'[n + 1] = line
      /\ \A i \in 1..n : file'[i] = file[i]
  BY <1>1, <1>2, FileAppended
<1> HIDE DEF line, n
<1>4. CallInv /\ \A k \in DOMAIN segments : SegmentInv(k)
  BY DEF HalvesInv
<1>5. \A i, j \in 1..n : Answers(file', i, j) <=> Answers(file, i, j)
  <2> TAKE i, j \in 1..n
  <2>1. \A k \in (i + 1)..(j - 1) : k \in 1..n
    BY <1>3
  <2> QED  BY <1>3, <2>1 DEF Answers
<1>6. ASSUME NEW i \in DOMAIN file', file'[i].half = "front"
      PROVE  \/ \E j \in DOMAIN file' : Answers(file', i, j)
             \/ \A k \in DOMAIN file' : i < k => file'[k].pid # file'[i].pid
  <2>1. CASE i = n + 1
    <3>1. \A k \in 1..(n + 1) : ~(i < k)
      BY <1>3, <2>1
    <3> QED  BY <1>3, <3>1
  <2>2. CASE i \in 1..n /\ \E j \in 1..n : Answers(file, i, j)
    <3>1. PICK j \in 1..n : Answers(file, i, j)
      BY <2>2
    <3>2. Answers(file', i, j) /\ j \in DOMAIN file'
      BY <1>3, <1>5, <2>2, <3>1
    <3> QED  BY <3>2
  <2>3. CASE i \in 1..n /\ ~\E j \in 1..n : Answers(file, i, j)
    <3>1. file[i].half = "front" /\ \A k \in 1..n : i < k => file[k].pid # file[i].pid
      BY <1>3, <1>4, <1>6, <2>3 DEF CallInv
    <3>2. CASE file[i].pid # pid
      <4>1. \A k \in 1..(n + 1) : k \in 1..n \/ k = n + 1
        BY <1>3
      <4> QED  BY <1>2, <1>3, <2>3, <3>1, <3>2, <4>1
    <3>3. CASE file[i].pid = pid
      <4>1. pid \in InCall
        BY <1>3, <2>3, <3>1, <3>3 DEF InCall, IsOpen
      <4>2. file'[n + 1].half = "back" /\ file'[n + 1].pid = pid
        BY <1>1, <1>2, <1>3, <4>1
      <4>3. \A k \in (i + 1)..(n + 1 - 1) : k \in 1..n /\ i < k
        BY <1>3, <2>3
      <4>4. i < n + 1 /\ n + 1 \in DOMAIN file'
        BY <1>3, <2>3
      <4>5. \A k \in (i + 1)..(n + 1 - 1) : file'[k].pid # file'[i].pid
        BY <1>3, <2>3, <3>1, <4>3
      <4>6. Answers(file', i, n + 1)
        BY <1>3, <2>3, <3>1, <3>3, <4>2, <4>4, <4>5 DEF Answers
      <4> QED  BY <4>4, <4>6
    <3> QED  BY <3>2, <3>3
  <2>4. i \in 1..n \/ i = n + 1
    BY <1>3
  <2> QED  BY <2>1, <2>2, <2>3, <2>4
<1>7. segments' = segments
  BY DEF marksVars
<1>8. ASSUME NEW CONSTANT k, k \in DOMAIN segments
      PROVE  SegmentInv(k)'
  <2>1. SegmentInv(k) /\ segments[k].upto \in Nat /\ Taken(k)' = Taken(k)
    BY <1>4, <1>7, <1>8, SegmentTyped DEF Taken
  <2>2. segments[k].upto <= n + 1 /\ Taken(k) \subseteq DOMAIN file'
    BY <1>3, <2>1 DEF SegmentInv, n
  <2>3. ASSUME NEW i \in DOMAIN file', file'[i].half = "front", i \in Taken(k)
        PROVE  /\ segments[k].from < i
                    => \E j \in DOMAIN file' : j \in Taken(k) /\ Answers(file', i, j)
               /\ \A j \in DOMAIN file' : Answers(file', i, j) /\ j \notin Taken(k)
                    => segments[k].upto < j
    <3>1. i \in 1..n /\ file[i].half = "front"
      BY <1>3, <2>1, <2>3 DEF SegmentInv
    <3>2. ASSUME segments[k].from < i
          PROVE  \E j \in DOMAIN file' : j \in Taken(k) /\ Answers(file', i, j)
      <4>1. PICK j \in 1..n : j \in Taken(k) /\ Answers(file, i, j)
        BY <1>3, <2>1, <2>3, <3>1, <3>2 DEF SegmentInv
      <4> QED  BY <1>3, <1>5, <3>1, <4>1
    <3>3. ASSUME NEW j \in DOMAIN file', Answers(file', i, j), j \notin Taken(k)
          PROVE  segments[k].upto < j
      <4>1. CASE j \in 1..n
        BY <1>3, <1>5, <2>1, <2>3, <3>1, <3>3, <4>1 DEF SegmentInv
      <4>2. CASE j = n + 1
        BY <1>3, <2>1, <4>2 DEF SegmentInv, n
      <4> QED  BY <1>3, <3>3, <4>1, <4>2
    <3> QED  BY <3>2, <3>3
  <2> QED  BY <1>3, <1>7, <2>1, <2>2, <2>3 DEF SegmentInv
<1>9. CallInv'
  BY <1>6 DEF CallInv
<1> QED  BY <1>7, <1>8, <1>9

-----------------------------------------------------------------------------
(* What a mark cuts is the file from the last line attached.               *)
LEMMA PoolIsFile ==
  ASSUME TraceTyped, WholeInv, ~touched
  PROVE  LET a == Len(Attached)
             pool == carried \o New
         IN  /\ a \in Nat /\ Len(carried) \in Nat /\ a + Len(carried) = seen
             /\ pool \in Seq(Line) /\ Len(pool) \in Nat /\ DOMAIN pool = 1..Len(pool)
             /\ a + Len(pool) = Len(file) /\ seen <= Len(file)
             /\ \A x \in 1..Len(pool) : a + x \in DOMAIN file /\ pool[x] = file[a + x]
<1> DEFINE a == Len(Attached)
           b == Len(carried)
           c == Len(New)
           n == Len(file)
           pool == carried \o New
<1>1. /\ Attached \in Seq(Line) /\ carried \in Seq(Line) /\ New \in Seq(Line) /\ file \in Seq(Line)
      /\ seen \in Nat
  BY AttachedTyped, NewLines DEF TraceTyped
<1>2. /\ a \in Nat /\ b \in Nat /\ c \in Nat /\ n \in Nat /\ DOMAIN file = 1..n
      /\ DOMAIN New = 1..c
  BY <1>1, LenProperties
<1>3. seen <= n /\ ReadSoFar = SubSeq(file, 1, seen)
  BY DEF WholeInv
<1>4. /\ Len(ReadSoFar) = a + b
      /\ \A i \in 1..(a + b) : ReadSoFar[i] = IF i <= a THEN Attached[i] ELSE carried[i - a]
  BY <1>1, ConcatProperties DEF ReadSoFar
<1>5. /\ pool \in Seq(Line) /\ Len(pool) = b + c
      /\ \A i \in 1..(b + c) : pool[i] = IF i <= b THEN carried[i] ELSE New[i - b]
  BY <1>1, ConcatProperties
<1>6. /\ c = n - seen
      /\ \A y \in 1..c : New[y] = file[seen + y]
  BY <1>2, <1>3, NewLines
<1>7. /\ Len(SubSeq(file, 1, seen)) = seen
      /\ \A i \in 1..seen : SubSeq(file, 1, seen)[i] = file[i]
  <2>1. \A i \in 1..seen : file[i] \in Line
    BY <1>1, <1>2, <1>3
  <2>2. 1 \in Int /\ seen \in Int
    BY <1>1
  <2>3. /\ Len(SubSeq(file, 1, seen)) = IF 1 <= seen THEN seen - 1 + 1 ELSE 0
        /\ \A i \in 1..(seen - 1 + 1) : SubSeq(file, 1, seen)[i] = file[1 + i - 1]
    BY <2>1, <2>2, SubSeqProperties
  <2> HIDE DEF n
  <2>4. /\ Len(SubSeq(file, 1, seen)) = seen
    BY <1>1, <2>3
  <2>5. \A i \in 1..seen : SubSeq(file, 1, seen)[i] = file[i]
    <3> TAKE i \in 1..seen
    <3>1. i \in 1..(seen - 1 + 1) /\ 1 + i - 1 = i
      BY <1>1
    <3> QED  BY <2>3, <3>1
  <2> QED  BY <2>4, <2>5
<1>8. a + b = seen /\ \A i \in 1..seen : ReadSoFar[i] = file[i]
  BY <1>3, <1>4, <1>7
<1>9. DOMAIN pool = 1..(b + c) /\ Len(pool) \in Nat
  BY <1>2, <1>5, LenProperties
<1> HIDE DEF a, b, c, n, pool
<1>10. a + (b + c) = n
  BY <1>1, <1>2, <1>6, <1>8
<1>11. ASSUME NEW x \in 1..(b + c)
       PROVE  a + x \in 1..n /\ pool[x] = file[a + x]
  <2>0. a + x \in 1..n
    BY <1>2, <1>10
  <2>1. CASE x <= b
    <3>1. a + x \in 1..(a + b) /\ ~(a + x <= a) /\ (a + x) - a = x
      BY <1>2, <2>1
    <3>2. ReadSoFar[a + x] = carried[x]
      BY <1>4, <3>1
    <3>3. ReadSoFar[a + x] = file[a + x]
      BY <1>8, <3>1
    <3> QED  BY <1>5, <2>0, <2>1, <3>2, <3>3
  <2>2. CASE ~(x <= b)
    <3>1. x - b \in 1..c /\ seen + (x - b) = a + x
      BY <1>1, <1>2, <1>8, <2>2
    <3>2. New[x - b] = file[a + x]
      BY <1>6, <3>1
    <3> QED  BY <1>5, <2>0, <2>2, <3>2
  <2> QED  BY <2>1, <2>2
<1>12. a + Len(pool) = n /\ \A x \in 1..Len(pool) : a + x \in 1..n /\ pool[x] = file[a + x]
  BY <1>5, <1>10, <1>11
<1> QED  BY <1>2, <1>3, <1>5, <1>8, <1>9, <1>12 DEF a, b, n, pool

(* Between two first halves of a process there is the end of the first.    *)
LEMMA EndBetween ==
  ASSUME TraceTyped, CallInv, NEW h \in DOMAIN file, NEW x \in DOMAIN file, h < x,
         file[h].half = "front", file[x].half = "front", file[h].pid = file[x].pid
  PROVE  \E b \in (h + 1)..(x - 1) : file[b].pid = file[x].pid /\ file[b].half = "back"
<1>1. DOMAIN file \subseteq Nat
  BY LenProperties DEF TraceTyped
<1>2. PICK j \in DOMAIN file : Answers(file, h, j)
  BY DEF CallInv
<1>3. /\ h < j /\ file[j].half = "back" /\ file[j].pid = file[x].pid
      /\ \A k \in (h + 1)..(j - 1) : file[k].pid = file[h].pid => file[k].half = "whole"
  BY <1>2 DEF Answers
<1>4. j < x
  <2>1. j # x
    BY <1>3
  <2>2. ~(x < j)
    <3> SUFFICES ASSUME x < j
                 PROVE  FALSE
      OBVIOUS
    <3>1. x \in (h + 1)..(j - 1)
      BY <1>1
    <3> QED  BY <1>3, <3>1
  <2> QED  BY <1>1, <2>1, <2>2
<1>5. j \in (h + 1)..(x - 1)
  BY <1>1, <1>3, <1>4
<1> QED  BY <1>3, <1>5

(* The halves of a call are a pair, and a half without the other waits.    *)
LEMMA PoolKnowsHalves ==
  ASSUME TraceTyped, CallInv, NEW pool, NEW a \in Nat, NEW m \in Nat,
         DOMAIN pool = 1..m, Len(pool) = m, a + m = Len(file),
         \A x \in 1..m : a + x \in DOMAIN file /\ pool[x] = file[a + x],
         NEW x \in 1..m, pool[x].half = "front"
  PROVE  /\ \A y \in 1..m : Answers(file, a + x, a + y) => <<x, y>> \in Pairs(pool)
         /\ (\A j \in DOMAIN file : ~Answers(file, a + x, j)) => x \in Waiting(pool)
<1>1. Len(file) \in Nat /\ DOMAIN file = 1..Len(file)
  BY LenProperties DEF TraceTyped
<1>2. ASSUME NEW h \in 1..(x - 1), pool[h].pid = pool[x].pid, pool[h].half = "front"
      PROVE  \E b \in h..x : pool[b].pid = pool[x].pid /\ pool[b].half = "back"
  <2>1. h \in 1..m /\ a + h < a + x
    OBVIOUS
  <2>2. PICK b \in (a + h + 1)..(a + x - 1) : file[b].pid = file[a + x].pid /\ file[b].half = "back"
    <3>1. /\ a + h \in DOMAIN file /\ a + x \in DOMAIN file
          /\ pool[h] = file[a + h] /\ pool[x] = file[a + x]
      BY <2>1
    <3>2. /\ file[a + h].half = "front" /\ file[a + x].half = "front"
          /\ file[a + h].pid = file[a + x].pid
      BY <1>2, <3>1
    <3> QED  BY <2>1, <3>1, <3>2, EndBetween
  <2>3. b - a \in h..x /\ b - a \in 1..m /\ a + (b - a) = b
    BY <2>1
  <2>4. pool[b - a] = file[b]
    BY <2>3
  <2> QED  BY <2>2, <2>3, <2>4
<1>3. ASSUME NEW y \in 1..m, Answers(file, a + x, a + y)
      PROVE  <<x, y>> \in Pairs(pool)
  <2>1. /\ a + x < a + y /\ file[a + y].half = "back" /\ file[a + x].pid = file[a + y].pid
        /\ \A k \in (a + x + 1)..(a + y - 1) : file[k].pid = file[a + x].pid => file[k].half = "whole"
    BY <1>3 DEF Answers
  <2>2. x < y
    BY <2>1
  <2>3. ASSUME NEW k \in (x + 1)..(y - 1), pool[k].pid = pool[x].pid
        PROVE  pool[k].half # "back"
    <3>1. k \in 1..m /\ a + k \in (a + x + 1)..(a + y - 1)
      OBVIOUS
    <3> QED  BY <2>1, <2>3, <3>1
  <2> DEFINE p == <<x, y>>
  <2>4. p \in (DOMAIN pool) \X (DOMAIN pool) /\ p[1] = x /\ p[2] = y
    OBVIOUS
  <2> HIDE DEF p
  <2>5. p \in Pairs(pool)
    BY <1>2, <2>1, <2>2, <2>3, <2>4 DEF Pairs
  <2> QED  BY <2>5 DEF p
<1>4. ASSUME \A j \in DOMAIN file : ~Answers(file, a + x, j)
      PROVE  x \in Waiting(pool)
  <2>1. \A k \in DOMAIN file : a + x < k => file[k].pid # file[a + x].pid
    BY <1>4 DEF CallInv
  <2>2. ASSUME NEW j \in (x + 1)..Len(pool)
        PROVE  pool[j].pid # pool[x].pid
    <3>1. j \in 1..m /\ a + x < a + j
      OBVIOUS
    <3> QED  BY <2>1, <3>1
  <2> QED  BY <1>2, <2>2 DEF Waiting
<1> QED  BY <1>3, <1>4

LEMMA FirstLines ==
  ASSUME NEW pool \in Seq(Line), NEW cut \in 0..Len(pool)
  PROVE  LET lines == SubSeq(pool, 1, cut)
         IN  lines \in Seq(Line) /\ DOMAIN lines = 1..cut /\ \A x \in 1..cut : lines[x] = pool[x]
<1> DEFINE lines == SubSeq(pool, 1, cut)
<1>1. Len(pool) \in Nat /\ \A i \in 1..Len(pool) : pool[i] \in Line
  BY LenProperties, ElementOfSeq
<1>2. cut \in Nat /\ 1 \in Int /\ cut \in Int /\ \A i \in 1..cut : pool[i] \in Line
  BY <1>1
<1>3. /\ lines \in Seq(Line)
      /\ Len(lines) = IF 1 <= cut THEN cut - 1 + 1 ELSE 0
      /\ \A i \in 1..(cut - 1 + 1) : lines[i] = pool[1 + i - 1]
  BY <1>2, SubSeqProperties
<1> HIDE DEF lines
<1>4. Len(lines) = cut /\ \A i \in 1..cut : lines[i] = pool[i]
  BY <1>2, <1>3
<1>5. DOMAIN lines = 1..cut
  BY <1>3, <1>4, LenProperties
<1> QED  BY <1>3, <1>4, <1>5 DEF lines

(* A mark parts no two halves that are written, and takes no half that has *)
(* just begun to wait.                                                     *)
LEMMA MarkKeepsHalves ==
  ASSUME TraceTyped, WholeInv, HalvesInv, NEW p, ReadMark(p), UNCHANGED fileVars
  PROVE  HalvesInv'
<1> SUFFICES ASSUME ~touched
             PROVE  CallInv' /\ \A k \in DOMAIN segments' : SegmentInv(k)'
  BY DEF HalvesInv, fileVars
<1> DEFINE a == Len(Attached)
           pool == carried \o New
           m == Len(pool)
           b == Len(carried)
           cut == Attachable(pool, b)
           lines == SubSeq(pool, 1, cut)
           new == [phase |-> phase, lines |-> lines, from |-> seen, upto |-> Len(file)]
           n == Len(segments)
<1>1. CallInv /\ \A k \in DOMAIN segments : SegmentInv(k)
  BY DEF HalvesInv
<1>2. file' = file
  BY DEF fileVars
<1>3. CallInv'
  BY <1>1, <1>2 DEF CallInv
<1>4. /\ a \in Nat /\ b \in Nat /\ a + b = seen
      /\ pool \in Seq(Line) /\ m \in Nat /\ DOMAIN pool = 1..m
      /\ a + m = Len(file) /\ seen <= Len(file)
      /\ \A x \in 1..m : a + x \in DOMAIN file /\ pool[x] = file[a + x]
  BY PoolIsFile
<1>5. segments' = IF cut = 0 THEN segments ELSE Append(segments, new)
  BY DEF ReadMark
<1> HIDE DEF pool
<1>6. /\ cut \in 0..m
      /\ CutsNoPair(pool, cut)
      /\ \A i \in Waiting(pool) : i > b => cut < i
  BY <1>4, CutExists
<1>7. Len(file) \in Nat /\ DOMAIN file = 1..Len(file) /\ \A i \in DOMAIN file : file[i].no = i
  BY LenProperties DEF TraceTyped, WholeInv
<1> HIDE DEF a, b, cut, m
<1>8. lines \in Seq(Line) /\ DOMAIN lines = 1..cut /\ \A x \in 1..cut : lines[x] = pool[x]
  <2>1. pool \in Seq(Line) /\ cut \in 0..Len(pool)
    BY <1>4, <1>6 DEF m
  <2> QED  BY <2>1, FirstLines
<1> HIDE DEF lines
<1> DEFINE T == {lines[x].no : x \in DOMAIN lines}
<1>9. /\ T \subseteq DOMAIN file
      /\ \A i \in DOMAIN file : i \in T <=> i \in (a + 1)..(a + cut)
  <2>1. \A x \in 1..cut : x \in 1..m /\ lines[x].no = a + x /\ a + x \in DOMAIN file
    BY <1>4, <1>6, <1>7, <1>8
  <2>2. T \subseteq DOMAIN file
    BY <1>8, <2>1
  <2>3. ASSUME NEW i \in DOMAIN file
        PROVE  i \in T <=> i \in (a + 1)..(a + cut)
    <3>1. ASSUME i \in T
          PROVE  i \in (a + 1)..(a + cut)
      <4>1. PICK x \in 1..cut : i = a + x
        BY <1>8, <2>1, <3>1
      <4> QED  BY <1>4, <1>6, <4>1
    <3>2. ASSUME i \in (a + 1)..(a + cut)
          PROVE  i \in T
      <4>1. i - a \in 1..cut /\ a + (i - a) = i
        BY <1>4, <1>6, <3>2
      <4>2. lines[i - a].no = i
        BY <2>1, <4>1
      <4> QED  BY <1>8, <4>1, <4>2
    <3> QED  BY <3>1, <3>2
  <2> QED  BY <2>2, <2>3
<1> HIDE DEF T
<1>10. ASSUME NEW i \in DOMAIN file, file[i].half = "front", i \in T
       PROVE  /\ seen < i => \E j \in DOMAIN file : j \in T /\ Answers(file, i, j)
              /\ \A j \in DOMAIN file : Answers(file, i, j) => j \in T
  <2> DEFINE x == i - a
  <2>1. i \in (a + 1)..(a + cut)
    BY <1>9, <1>10
  <2>2. x \in 1..m /\ x <= cut /\ a + x = i /\ i \in Nat
    <3>1. a \in Nat /\ m \in Nat /\ cut \in Nat /\ cut <= m
      BY <1>4, <1>6
    <3>2. i \in Nat /\ a + 1 <= i /\ i <= a + cut
      BY <2>1, <3>1
    <3> QED  BY <3>1, <3>2
  <2> HIDE DEF x
  <2>3. pool[x] = file[i]
    BY <1>4, <2>2
  <2>4. /\ \A y \in 1..m : Answers(file, i, a + y) => <<x, y>> \in Pairs(pool)
        /\ (\A j \in DOMAIN file : ~Answers(file, i, j)) => x \in Waiting(pool)
    <3>1. pool[x].half = "front" /\ Len(pool) = m
      BY <1>10, <2>3 DEF m
    <3>2. /\ \A y \in 1..m : Answers(file, a + x, a + y) => <<x, y>> \in Pairs(pool)
          /\ (\A j \in DOMAIN file : ~Answers(file, a + x, j)) => x \in Waiting(pool)
      BY <1>1, <1>4, <2>2, <3>1, PoolKnowsHalves
    <3> QED  BY <2>2, <3>2
  <2>5. ASSUME NEW j \in DOMAIN file, Answers(file, i, j)
        PROVE  j \in T
    <3>1. i < j
      BY <2>5 DEF Answers
    <3>2. j - a \in 1..m /\ a + (j - a) = j
      BY <1>4, <1>7, <2>1, <3>1
    <3>3. <<x, j - a>> \in Pairs(pool)
      BY <2>4, <2>5, <3>2
    <3>4. ~(x <= cut /\ cut < j - a)
      BY <1>6, <3>3 DEF CutsNoPair
    <3>5. j \in (a + 1)..(a + cut)
      BY <1>4, <1>6, <2>1, <2>2, <3>1, <3>2, <3>4
    <3> QED  BY <1>9, <3>5
  <2>6. ASSUME seen < i
        PROVE  \E j \in DOMAIN file : j \in T /\ Answers(file, i, j)
    <3>1. x > b
      BY <1>4, <2>2, <2>6
    <3>2. x \notin Waiting(pool)
      <4>1. cut \in Nat /\ x \in Nat /\ ~(cut < x)
        BY <1>4, <1>6, <2>2
      <4> QED  BY <1>6, <3>1, <4>1
    <3>3. PICK j \in DOMAIN file : Answers(file, i, j)
      BY <2>4, <3>2
    <3> QED  BY <2>5, <3>3
  <2> QED  BY <2>5, <2>6
<1>11. \A k \in DOMAIN segments : segments'[k] = segments[k] => SegmentInv(k)'
  BY <1>1, <1>2 DEF SegmentInv, Taken
<1>12. CASE cut = 0
  BY <1>3, <1>5, <1>11, <1>12
<1>13. CASE cut # 0
  <2>1. segments' = Append(segments, new)
    BY <1>5, <1>13
  <2>2. new \in Segment
    BY <1>7, <1>8 DEF Segment, TraceTyped
  <2>3. /\ n \in Nat /\ DOMAIN segments = 1..n /\ DOMAIN segments' = 1..(n + 1)
        /\ segments'[n + 1] = new
        /\ \A k \in 1..n : segments'[k] = segments[k]
    BY <2>1, <2>2, SegmentTyped, AppendProperties, LenProperties
  <2>4. new.lines = lines /\ new.from = seen /\ new.upto = Len(file)
    OBVIOUS
  <2> HIDE DEF new, n
  <2>5. ASSUME NEW CONSTANT k, k = n + 1
        PROVE  SegmentInv(k)'
    <3>1. /\ segments'[k].lines = lines /\ segments'[k].from = seen
          /\ segments'[k].upto = Len(file)
      BY <2>3, <2>4, <2>5
    <3>2. Taken(k)' = T
      BY <3>1 DEF Taken, T
    <3>3. Len(file) <= Len(file)
      BY <1>7
    <3> QED  BY <1>2, <1>9, <1>10, <3>1, <3>2, <3>3 DEF SegmentInv
  <2>6. ASSUME NEW CONSTANT k, k \in DOMAIN segments'
        PROVE  SegmentInv(k)'
    <3>1. k \in 1..n \/ k = n + 1
      BY <2>3, <2>6
    <3> QED  BY <1>11, <2>3, <2>5, <3>1
  <2> QED  BY <1>3, <2>6
<1> QED  BY <1>12, <1>13

LEMMA HalvesInvNext ==
  ASSUME TraceTyped, TraceInv, HalvesInv, [Next]_vars
  PROVE  HalvesInv'
<1>1. CASE Trace /\ UNCHANGED <<marksVars, at>>
  BY <1>1, TraceKeepsHalves
<1>2. CASE Shorten
  BY <1>2 DEF Shorten, HalvesInv
<1>3. CASE ReadMark(next) /\ UNCHANGED fileVars
  BY <1>3, MarkKeepsHalves DEF TraceInv
<1>4. CASE UNCHANGED <<fileVars, segments>>
  BY <1>4 DEF fileVars, HalvesInv, CallInv, SegmentInv, Taken
<1> QED  BY <1>1, <1>2, <1>3, <1>4, StepOfTrace DEF MissMark, ReadTail, MissTail, marksVars

-----------------------------------------------------------------------------
LEMMA SandboxInit ==
  Init => SandboxInv
<1> SUFFICES ASSUME Init
             PROVE  SandboxInv
  OBVIOUS
<1> USE DEF Init, GatewayInit, TraceInit
<1>1. GatewayTyped
  <2>1. Unsent \in Request
    BY DEF Unsent, Request, Stations
  <2> QED  BY <2>1 DEF GatewayTyped
<1>2. TraceTyped
  <2>1. <<>> \in Seq(Line) /\ <<>> \in Seq(Segment)
    BY EmptySeq
  <2> QED  BY <2>1 DEF TraceTyped
<1>3. AuditTyped
  <2>1. todo \in Seq(Resources)
    BY EmptySeq
  <2>2. at \in Stages
    BY DEF Stages, Resources
  <2> QED  BY <2>1, <2>2 DEF AuditTyped
<1>4. GatewayInv
  <2>1. \A r \in Requests : RequestInv(r)
    BY DEF RequestInv, Unsent
  <2>2. DOMAIN tape = {}
    OBVIOUS
  <2> QED  BY <2>1, <2>2 DEF GatewayInv, IsTaped, HasEntry, Unsent
<1>5. PhaseInv
  BY DEF PhaseInv, Unsent
<1>6. ResourceInv
  BY DEF ResourceInv, NothingLeftUnsaid
<1>7. Attached = <<>> /\ ReadSoFar = <<>>
  <2> DEFINE ss == [k \in DOMAIN segments |-> segments[k].lines]
  <2>1. ss \in Seq(Seq(Line)) /\ Len(ss) = 0
    BY <1>2, SegmentTyped
  <2>2. ss = <<>>
    BY <2>1, EmptySeq
  <2>3. Attached = <<>>
    <3> HIDE DEF ss
    <3>1. Attached = FlattenSeq(ss)
      BY DEF Attached, ss
    <3> QED  BY <2>1, <2>2, <3>1 DEF FlattenSeq
  <2>4. <<>> \o <<>> = <<>>
    <3>1. <<>> \in Seq(Line)
      BY <1>2 DEF TraceTyped
    <3> QED  BY <3>1, ConcatEmptySeq
  <2> QED  BY <2>3, <2>4 DEF ReadSoFar
<1>8. TraceInv
  <2>1. <<>> \in Seq(Line) /\ DOMAIN <<>> = {} /\ Len(<<>>) = 0
    OBVIOUS
  <2>2. FileInv
    BY <1>7, <2>1 DEF FileInv
  <2>3. SubSeq(file, 1, seen) = <<>>
    BY SubSeqEmpty
  <2>4. WholeInv
    BY <1>7, <2>1, <2>3 DEF WholeInv
  <2>5. InOrderOnce(<<>>) /\ <<>> \o <<>> = <<>>
    BY <2>1, ConcatEmptySeq DEF InOrderOnce
  <2>6. TraceIsWhole
    BY <1>7, <2>3, <2>5 DEF TraceIsWhole, ReadSoFar
  <2> QED  BY <2>2, <2>4, <2>6 DEF TraceInv
<1>9. HalvesInv
  BY DEF HalvesInv, CallInv
<1> QED  BY <1>1, <1>2, <1>3, <1>4, <1>5, <1>6, <1>8, <1>9 DEF SandboxInv, SandboxTyped

LEMMA SandboxNext ==
  ASSUME SandboxInv, [Next]_vars
  PROVE  SandboxInv'
<1>1. GatewayTyped /\ TraceTyped /\ AuditTyped /\ phase \in Nat /\ next \in Nat
  BY DEF SandboxInv, SandboxTyped, TraceTyped, AuditTyped
<1>2. AuditTyped'
  BY <1>1, AuditTypedNext
<1>3. TraceTyped'
  BY <1>1, TraceTypedNext
<1>4. GatewayTyped' /\ GatewayInv'
  <2>1. Due \in SUBSET Nat
    BY <1>1, DueTyped
  <2>2. GatewayInv'
    BY <1>1, <2>1, StepOfGateway, GatewayInvNext DEF SandboxInv
  <2>3. /\ mode' \in {"record", "replay"}
        /\ reqs' \in [Requests -> Request]
        /\ tape' \in Seq(Requests)
    BY <1>1, <2>1, StepOfGateway, GatewayTypedNext
  <2>4. gate' \in Nat
    <3>1. gate' \in {gate, next}
      BY StepOfPhase DEF SandboxInv
    <3> QED  BY <1>1, <3>1 DEF GatewayTyped
  <2> QED  BY <2>2, <2>3, <2>4 DEF GatewayTyped
<1>5. PhaseInv'
  BY <1>1, PhaseInvNext DEF SandboxInv
<1>6. ResourceInv'
  BY <1>1, <1>2, ResourceInvNext DEF SandboxInv
<1>7. TraceInv'
  BY <1>1, <1>3, TraceInvNext DEF SandboxInv
<1>8. HalvesInv'
  BY <1>1, HalvesInvNext DEF SandboxInv
<1> QED  BY <1>2, <1>3, <1>4, <1>5, <1>6, <1>7, <1>8 DEF SandboxInv, SandboxTyped

(* The invariant of the whole sandbox: its types, the gateway's requests   *)
(* and tape, the phase it is in, the resources, and the trace with what    *)
(* each mark took of it (docker.ts, forward.mjs, control.mjs).             *)
THEOREM SandboxInvariant == Spec => []SandboxInv
<1>1. SandboxInv /\ [Next]_vars => SandboxInv'
  BY SandboxNext
<1> QED  BY SandboxInit, <1>1, PTL DEF Spec

(* A request is noted under the call it was made in, or one beside it while*)
(* a mark is under way, or the report says that the gateway was not told   *)
(* (docker.ts mark, control.mjs POST /phase).                              *)
THEOREM SandboxRequestsFollowTheirCall == Spec => []RequestsFollowTheirCall
<1>1. SandboxInv => RequestsFollowTheirCall
  BY DEF SandboxInv, PhaseInv, GatewayInv, RequestInv, RequestsFollowTheirCall
<1> QED  BY SandboxInvariant, <1>1, PTL

(* A recording holds each request once that ended without a break, and none*)
(* that was refused or broke off (forward.mjs, ADR-0113).                  *)
THEOREM SandboxRecordedOnce == Spec => []RecordedOnce
<1>1. SandboxInv => RecordedOnce
  BY OnceIsCounted DEF SandboxInv, SandboxTyped
<1> QED  BY SandboxInvariant, <1>1, PTL

(* The audit says what it leaves on the machine, and leaves nothing if     *)
(* docker does what it is asked (audit.ts auditSandboxed, docker.ts        *)
(* cleanup).                                                               *)
THEOREM SandboxNothingLeftUnsaid == Spec => []NothingLeftUnsaid
<1>1. SandboxInv => NothingLeftUnsaid
  BY DEF SandboxInv, ResourceInv
<1> QED  BY SandboxInvariant, <1>1, PTL

(* No line of the trace is lost, repeated or moved, however many marks read*)
(* it and wherever they cut (docker.ts mark, attachable, snapshot).        *)
THEOREM SandboxTraceIsWhole == Spec => []TraceIsWhole
<1>1. SandboxInv => TraceIsWhole
  BY DEF SandboxInv, TraceInv
<1> QED  BY SandboxInvariant, <1>1, PTL

(* The segments say so because no cut parts a pair of the pool, and a half *)
(* that has just begun to wait is not taken.                               *)
LEMMA HalvesFollow ==
  SandboxInv => HalvesStayTogether
<1> SUFFICES ASSUME SandboxInv, ~touched, NEW k \in DOMAIN segments,
                    NEW i \in DOMAIN file, NEW j \in DOMAIN file, Answers(file, i, j),
                    i \in Taken(k), j \notin Taken(k)
             PROVE  i <= segments[k].from /\ segments[k].upto < j
  BY DEF HalvesStayTogether, Taken
<1>1. TraceTyped /\ SegmentInv(k) /\ file[i].half = "front"
  BY DEF SandboxInv, SandboxTyped, HalvesInv, Answers
<1>2. segments[k].upto < j
  BY <1>1 DEF SegmentInv
<1>3. i \in Nat /\ j \in Nat /\ segments[k].from \in Nat /\ DOMAIN file \subseteq Nat
  BY <1>1, SegmentTyped, LenProperties DEF TraceTyped
<1>4. ASSUME segments[k].from < i
      PROVE  FALSE
  <2>1. PICK h \in DOMAIN file : h \in Taken(k) /\ Answers(file, i, h)
    BY <1>1, <1>4 DEF SegmentInv
  <2>2. h = j
    BY <1>3, <2>1, AnswersUnique
  <2> QED  BY <2>1, <2>2
<1> QED  BY <1>2, <1>3, <1>4

(* The halves of a call reach one phase, unless the first had been held    *)
(* back before and the second was not written (docker.ts:629-638).         *)
THEOREM SandboxHalvesStayTogether == Spec => []HalvesStayTogether
BY SandboxInvariant, HalvesFollow, PTL
=============================================================================
