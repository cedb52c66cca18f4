------------------------ MODULE ReplayObserver_proofs ------------------------
(***************************************************************************)
(* What holds of a replay for every source session and every number of     *)
(* calls and processes: what is served, what a miss says and what the      *)
(* observer's count says of the process that was under test.               *)
(***************************************************************************)
EXTENDS ReplayObserver, SessionStore_proofs

\* All but the type of the count itself, which is a fold over the reports.
Typed ==
  /\ StoreInv
  /\ CoordinatorTypeOK
  /\ ReplayTypeOK
  /\ observing \in BOOLEAN
  /\ alive \subseteq Adapters
  /\ outside \in [Adapters -> 0..MaxOutside]
  /\ report \subseteq Report

-----------------------------------------------------------------------------
\* A call makes one request, and is served when that is handled.
LookupInv(c) ==
  /\ pc[c] = "idle" => wire[c] = "none"
  /\ wire[c] \in {"none", "sent", "reading"} => served[c] = 0

\* The cursor of a key is the number of its interactions that were served.
CursorsWithin == \A k \in MatchKeys : cursors[k] <= Cardinality(SameKey(k))

ServeInv ==
  /\ \A c \in Calls : LookupInv(c)
  /\ CursorsWithin
  /\ ServedInRecordedOrder
  /\ MissMeansExhausted

-----------------------------------------------------------------------------
\* A process that has ended is in none of its calls.
EndedInv(c) == proc[c] \in Adapters \ alive => pc[c] \in Settled

\* Of the calls that ended by themselves, only a refused one claims nothing.
ClaimInv(c) ==
  /\ proc[c] \in Adapters /\ pc[c] \in {"returned", "threw"}
       => proc[c] \in claimed \/ reply[c] = "WRITER_CONFLICT"
  /\ reply[c] = "WRITER_CONFLICT" => writerId # NoProcess /\ proc[c] # writerId
  /\ wire[c] \in {"sent", "reading"} => reply[c] = "none"
  /\ pc[c] = "idle" => wire[c] = "none" /\ reply[c] = "none" /\ proc[c] = NoProcess

\* A report says what was true when its process ended, and still is.
ReportInv(r) ==
  /\ r.process \notin alive
  /\ r.outOfScope = outside[r.process]
  /\ r.claimed <=> r.process \in claimed

ObserverInv ==
  /\ \A c \in Calls : EndedInv(c) /\ ClaimInv(c)
  /\ \A r \in report : ReportInv(r)
  /\ server \in {"closing", "closed"} => alive = {}
  /\ outOfScope # {} => server = "closed" /\ outOfScope = Observed

-----------------------------------------------------------------------------
(* Every session a recording leaves behind obeys the store's contract.     *)
LEMMA SourceIsStored ==
  ASSUME SourceInit
  PROVE  StoreInv
<1>0. PICK n \in 0..MaxSource : \E keys \in [1..n -> MatchKeys] : \E open \in SUBSET (1..n) :
        /\ \A i \in open, j \in 1..n : keys[i] = keys[j] => j <= i
        /\ log = RecordedLog(keys, open)
        /\ status \in IF open = {} THEN Statuses ELSE Statuses \ {"completed"}
  BY DEF SourceInit
<1>1. PICK keys \in [1..n -> MatchKeys], open \in SUBSET (1..n) :
        /\ \A i \in open, j \in 1..n : keys[i] = keys[j] => j <= i
        /\ log = RecordedLog(keys, open)
        /\ status \in IF open = {} THEN Statuses ELSE Statuses \ {"completed"}
  BY <1>0
<1>. DEFINE Before(i) == {j \in 1..(i - 1) : keys[j] = keys[i]}
            entry(i) == [key        |-> keys[i],
                         occurrence |-> Cardinality(Before(i)),
                         outcome    |-> IF i \in open THEN NoOutcome ELSE i]
<1>2. n \in Nat /\ n <= MaxSource /\ DOMAIN keys = 1..n /\ log = [i \in 1..n |-> entry(i)]
  BY <1>1, SourceAssumption DEF RecordedLog
<1>3. ASSUME NEW i \in 1..n
      PROVE  entry(i) \in Interaction
  <2>1. IsFiniteSet(1..(i - 1))
    BY <1>2, FS_Interval
  <2>2. IsFiniteSet(Before(i))
    BY <2>1, FS_Subset
  <2>3. Cardinality(Before(i)) \in Nat
    BY <2>2, FS_CardinalityType
  <2>4. i \in Outcomes
    BY <1>2, SourceAssumption
  <2>. HIDE DEF Before
  <2>. QED
    BY <1>1, <2>3, <2>4 DEF Interaction
<1>4. /\ log \in Seq(Interaction) /\ DOMAIN log = 1..n /\ Len(log) = n
      /\ \A i \in 1..n : log[i] = entry(i)
  <2>. HIDE DEF entry
  <2>. QED
    BY <1>2, <1>3
<1>5. \A i \in 1..n : log[i].key = keys[i] /\ (log[i].outcome = NoOutcome <=> i \in open)
  BY <1>2, <1>4, SourceAssumption, NoOutcomeAssumption
<1>6. StoreTypeOK
  BY <1>1, <1>4 DEF StoreTypeOK
<1>7. OccurrenceIsRank
  <2>. SUFFICES ASSUME NEW i \in 1..n
                PROVE  log[i].occurrence
                         = Cardinality({j \in 1..(i - 1) : log[j].key = log[i].key})
    BY <1>4 DEF OccurrenceIsRank
  <2>1. {j \in 1..(i - 1) : log[j].key = log[i].key} = Before(i)
    BY <1>2, <1>5
  <2>2. log[i].occurrence = Cardinality(Before(i))
    BY <1>4
  <2>. QED
    BY <2>1, <2>2
<1>8. OpenIsLast /\ CompletedIsWhole
  BY <1>1, <1>4, <1>5 DEF OpenIsLast, CompletedIsWhole, Incomplete, SameKey
<1>. QED
  BY <1>6, <1>7, <1>8 DEF StoreInv

(* The store is opened read-only.                                          *)
LEMMA StoreIsOnlyRead == [Next]_vars => UNCHANGED storeVars
BY DEF Next, ReplayGoesOn, ReplayStep, OutsideCall, ProcessExits, ProcessKilled, ProcessEnds,
       StrangerGone, EndOfRun, FinishReplay, vars

(* What a lookup may find is an interaction of the key.                    *)
LEMMA FoundIsInteraction ==
  ASSUME NEW k, NEW n, Found(k, n) # {}
  PROVE  (CHOOSE i \in Found(k, n) : TRUE) \in Found(k, n)
OBVIOUS

LEMMA TypedNext ==
  ASSUME Typed, [Next]_vars
  PROVE  Typed'
<1>1. UNCHANGED storeVars
  BY StoreIsOnlyRead
<1>2. StoreInv'
  BY <1>1, StutterKeepsInv DEF Typed
<1>. DEFINE Kept == /\ CoordinatorTypeOK' /\ ReplayTypeOK' /\ observing' \in BOOLEAN
                    /\ alive' \subseteq Adapters
                    /\ outside' \in [Adapters -> 0..MaxOutside]
                    /\ report' \subseteq Report
<1>. SUFFICES Kept
  BY <1>2 DEF Typed
<1>. USE <1>1, ProcessAssumption
     DEF Typed, CoordinatorTypeOK, ReplayTypeOK, Processes, Endpoints, Settled, Replies,
         storeVars, callVars, wireVars, claimVars, serverVars, engineVars, replayVars,
         observerVars
<1>3. ASSUME CoordinatorStep, UNCHANGED observerVars
      PROVE  Kept
  <2>0. ReplayTypeOK' /\ UNCHANGED <<replayVars, observerVars>>
    BY <1>3 DEF CoordinatorStep
  <2>. SUFFICES CoordinatorTypeOK'
    BY <2>0
  <2>1. ASSUME NEW c \in Calls, NEW p \in Processes, StartFetch(c, p, "/lookup")
        PROVE  CoordinatorTypeOK'
    BY <2>1 DEF StartFetch, Post
  <2>2. ASSUME NEW c \in Calls, RefuseStranger(c) \/ RefuseBody(c)
        PROVE  CoordinatorTypeOK'
    BY <2>2 DEF RefuseStranger, RefuseBody, BodyRead, Answer
  <2>3. ASSUME NEW c \in Calls, RequestLost(c)
        PROVE  CoordinatorTypeOK'
    BY <2>3 DEF RequestLost
  <2>4. ASSUME ParentKilled
        PROVE  CoordinatorTypeOK'
    BY <2>4 DEF ParentKilled
  <2>5. ASSUME NEW c \in Calls, HandleHead(c)
        PROVE  CoordinatorTypeOK'
    <3>1. writerId' \in Adapters /\ UNCHANGED <<callVars, serverVars>>
      BY <2>5 DEF HandleHead, Claim
    <3>2. CASE writerId' = proc[c]
      BY <2>5, <3>1, <3>2 DEF HandleHead
    <3>3. CASE writerId' # proc[c]
      <4>1. /\ wire' = [wire EXCEPT ![c] = "answered"]
            /\ reply' = [reply EXCEPT ![c] = "WRITER_CONFLICT"]
            /\ endpoint' = endpoint
            /\ otherProcessCalls' = otherProcessCalls + 1
        BY <2>5, <3>3 DEF HandleHead, Answer, CountedConflicts
      <4>. QED
        BY <3>1, <4>1
    <3>. QED
      BY <3>2, <3>3
  <2>. QED
    BY <1>3, <2>1, <2>2, <2>3, <2>4, <2>5 DEF CoordinatorStep
<1>4. ASSUME NEW c \in Calls, LookupAnswered(c), UNCHANGED <<engineVars, summary, observerVars>>
      PROVE  Kept
  BY <1>4 DEF LookupAnswered, Answered, ClaimedBy
<1>5. ASSUME NEW c \in Calls, LookupUnanswered(c), UNCHANGED <<engineVars, summary, observerVars>>
      PROVE  Kept
  <2>1. \/ \E p \in Adapters : FetchTooLarge(c, p)
        \/ RequestTimeout(c)
        \/ Unavailable(c)
    BY <1>5 DEF LookupUnanswered
  <2>2. CoordinatorTypeOK'
    <3>1. ASSUME NEW p \in Adapters, FetchTooLarge(c, p) PROVE CoordinatorTypeOK'
      BY <3>1 DEF FetchTooLarge
    <3>2. RequestTimeout(c) => CoordinatorTypeOK'
      BY DEF RequestTimeout
    <3>3. Unavailable(c) => CoordinatorTypeOK'
      BY DEF Unavailable
    <3>. QED
      BY <2>1, <3>1, <3>2, <3>3
  <2>3. claimed' \subseteq Adapters
    BY <1>5 DEF LookupUnanswered, ClaimedBy
  <2>. QED
    BY <1>5, <2>2, <2>3
<1>6. ASSUME NEW c \in Calls, HandleLookup(c), UNCHANGED observerVars
      PROVE  Kept
  <2>1. /\ UNCHANGED <<callVars, claimVars, serverVars, claimed, summary>>
        /\ Answer(c, LookupVerdict(key[c])) /\ LookupVerdict(key[c]) \in Replies
    BY <1>6 DEF HandleLookup, LookupVerdict
  <2>2. CoordinatorTypeOK'
    BY <2>1 DEF Answer
  <2>. SUFFICES ReplayTypeOK'
    BY <1>6, <2>2
  <2>3. key[c] \in MatchKeys
    OBVIOUS
  <2>4. CASE LookupVerdict(key[c]) = "ok"
    <3>1. Hit(c) /\ Found(key[c], cursors[key[c]]) # {}
      BY <1>6, <2>4 DEF HandleLookup, LookupVerdict
    <3>. DEFINE i == CHOOSE j \in Found(key[c], cursors[key[c]]) : TRUE
    <3>2. i \in 0..Len(log)
      <4>1. i \in DOMAIN log
        BY <3>1, FoundIsInteraction DEF Found, SameKey
      <4>. QED
        BY <4>1 DEF StoreInv, StoreTypeOK
    <3>. HIDE DEF i
    <3>3. served' = [served EXCEPT ![c] = i]
      BY <3>1 DEF Hit, i
    <3>4. /\ cursors' = [cursors EXCEPT ![key[c]] = @ + 1]
          /\ consumedCount' = consumedCount + 1 /\ misses' = misses
      BY <3>1 DEF Hit, NextCursors
    <3>. QED
      BY <2>1, <2>3, <3>2, <3>3, <3>4
  <2>5. CASE LookupVerdict(key[c]) = "REPLAY_MISS"
    <3>1. RecordMiss(c)
      BY <1>6, <2>5 DEF HandleLookup
    <3>2. [key |-> key[c], occurrence |-> cursors[key[c]]] \in Miss
      BY <2>3 DEF Miss
    <3>. QED
      BY <2>1, <3>1, <3>2 DEF RecordMiss
  <2>6. CASE LookupVerdict(key[c]) = "REPLAY_SOURCE_INVALID"
    BY <1>6, <2>1, <2>6 DEF HandleLookup
  <2>. QED
    BY <2>4, <2>5, <2>6 DEF LookupVerdict
<1>7. ASSUME NEW p \in Adapters, OutsideCall(p)
      PROVE  Kept
  BY <1>7, OutsideAssumption DEF OutsideCall, coordinatorVars
<1>8. ASSUME NEW p \in Adapters, ProcessExits(p) \/ ProcessKilled(p)
      PROVE  Kept
  <2>1. ProcessGone(p) /\ UNCHANGED <<replayVars, observing, outside>> /\ alive' = alive \ {p}
    BY <1>8 DEF ProcessExits, ProcessKilled, ProcessEnds
  <2>2. CoordinatorTypeOK'
    BY <2>1 DEF ProcessGone
  <2>3. [process |-> p, outOfScope |-> outside[p], claimed |-> p \in claimed] \in Report
    BY OutsideAssumption DEF Report
  <2>4. report' \subseteq Report
    BY <1>8, <2>3 DEF ProcessExits, ProcessKilled
  <2>. QED
    BY <2>1, <2>2, <2>4
<1>9. ASSUME NEW p \in Strangers, StrangerGone(p)
      PROVE  Kept
  BY <1>9 DEF StrangerGone, ProcessGone
<1>10. ASSUME NEW s \in {"completed", "failed"}, EndOfRun(s)
      PROVE  Kept
  BY <1>10 DEF EndOfRun, CallFinish
<1>11. ASSUME FinishReplay
      PROVE  Kept
  BY <1>11 DEF FinishReplay, FinishEngine, ServerClosed, EngineSummary
<1>12. ASSUME UNCHANGED vars
      PROVE  Kept
  BY <1>12 DEF vars, coordinatorVars
<1>. QED
  BY <1>3, <1>4, <1>5, <1>6, <1>7, <1>8, <1>9, <1>10, <1>11, <1>12
  DEF Next, ReplayGoesOn, ReplayStep, LookupStep

-----------------------------------------------------------------------------
(* The engine serves only in HandleLookup; everything else moves calls.    *)
LEMMA OthersServeNothing ==
  ASSUME Typed, ServeInv, UNCHANGED <<storeVars, engineVars, key>>,
         \A c \in Calls : LookupInv(c)'
  PROVE  ServeInv'
<1>1. \A k : SameKey(k)' = SameKey(k)
  BY DEF SameKey, storeVars
<1>2. CursorsWithin'
  BY <1>1 DEF ServeInv, CursorsWithin, engineVars
<1>3. ServedInRecordedOrder'
  BY <1>1 DEF ServeInv, ServedInRecordedOrder, engineVars, storeVars
<1>4. MissMeansExhausted'
  BY <1>1 DEF ServeInv, MissMeansExhausted, engineVars
<1>. QED
  BY <1>2, <1>3, <1>4 DEF ServeInv

(* A hit serves the interaction whose occurrence the cursor of its key     *)
(* names: there is exactly one, and it has not been served yet.            *)
LEMMA HitServesNext ==
  ASSUME Typed, ServeInv, NEW c \in Calls, Hit(c), served[c] = 0,
         NEW k \in MatchKeys, key[c] = k, Found(k, cursors[k]) # {},
         UNCHANGED <<storeVars, callVars>>
  PROVE  CursorsWithin' /\ ServedInRecordedOrder' /\ MissMeansExhausted'
<1>. DEFINE n == cursors[k]
            new == CHOOSE i \in Found(k, n) : TRUE
<1>1. /\ n \in Nat /\ cursors \in [MatchKeys -> Nat]
      /\ served \in [Calls -> 0..Len(log)] /\ Len(log) \in Nat
      /\ DOMAIN log = 1..Len(log)
  BY DEF Typed, CoordinatorTypeOK, ReplayTypeOK, StoreInv, StoreTypeOK
<1>2. new \in SameKey(k) /\ log[new].occurrence = n
  BY FoundIsInteraction DEF Found
<1>3. new \in 1..Len(log) /\ log[new].key = k
  BY <1>1, <1>2 DEF SameKey
<1>. HIDE DEF new
<1>4. /\ served' = [served EXCEPT ![c] = new]
      /\ cursors' = [cursors EXCEPT ![k] = n + 1]
      /\ UNCHANGED <<misses, key, log>>
  BY DEF Hit, NextCursors, new, storeVars, callVars
<1>5. \A j : SameKey(j)' = SameKey(j)
  BY <1>4 DEF SameKey
<1>6. \A i \in SameKey(k) : log[i].occurrence = n => i = new
  BY <1>2, LookupIsUnique DEF Typed, SameKey
<1>7. CursorsWithin'
  <2>1. Cardinality(SameKey(k)) \in Nat /\ n \in 0..(Cardinality(SameKey(k)) - 1)
    BY <1>2, OccurrencesHaveNoGap, SameKeyCounted DEF Typed, StoreInv
  <2>. QED
    BY <1>1, <1>4, <1>5, <2>1 DEF ServeInv, CursorsWithin
<1>8. \A i \in SameKey(k) : log[i].occurrence \in Nat
  <2>1. \A i \in DOMAIN log : log[i] \in Interaction
    BY DEF Typed, StoreInv, StoreTypeOK
  <2>. QED
    BY <2>1 DEF SameKey, Interaction
<1>9. ServedInRecordedOrder'
  <2>. DEFINE CallsOf(j) == {d \in Calls : served[d] # 0 /\ key[d] = j}
              Done(j) == {i \in SameKey(j) : log[i].occurrence < cursors[j]}
  <2>1. \A j \in MatchKeys : /\ {served[d] : d \in CallsOf(j)} = Done(j)
                             /\ \A d, e \in CallsOf(j) : served[d] = served[e] => d = e
    BY DEF ServeInv, ServedInRecordedOrder
  <2>2. ASSUME NEW j \in MatchKeys \ {k}
        PROVE  CallsOf(j)' = CallsOf(j) /\ Done(j)' = Done(j)
               /\ \A d \in CallsOf(j) : served'[d] = served[d]
    BY <1>1, <1>4, <1>5
  <2>3. /\ CallsOf(k)' = CallsOf(k) \cup {c} /\ c \notin CallsOf(k)
        /\ \A d \in CallsOf(k) : served'[d] = served[d]
        /\ served'[c] = new
    BY <1>1, <1>3, <1>4
  <2>4. Done(k)' = Done(k) \cup {new} /\ new \notin Done(k)
    <3>1. \A i \in SameKey(k) : log[i].occurrence < n + 1
                                 <=> log[i].occurrence < n \/ log[i].occurrence = n
      BY <1>1, <1>8
    <3>2. cursors'[k] = n + 1
      BY <1>1, <1>4
    <3>. QED
      BY <1>1, <1>2, <1>4, <1>5, <1>6, <3>1, <3>2
  <2>5. ASSUME NEW j \in MatchKeys
        PROVE  /\ {served'[d] : d \in CallsOf(j)'} = Done(j)'
               /\ \A d, e \in CallsOf(j)' : served'[d] = served'[e] => d = e
    <3>. HIDE DEF CallsOf, Done
    <3>1. CASE j # k
      BY <2>1, <2>2, <3>1
    <3>2. CASE j = k
      <4>1. \A d \in CallsOf(k) : served[d] \in Done(k)
        BY <2>1
      <4>2. {served'[d] : d \in CallsOf(k)'} = {served[d] : d \in CallsOf(k)} \cup {new}
        BY <2>3
      <4>3. ASSUME NEW d \in CallsOf(k)', NEW e \in CallsOf(k)', served'[d] = served'[e]
            PROVE  d = e
        BY <2>1, <2>3, <2>4, <4>1, <4>3
      <4>. QED
        BY <2>1, <2>4, <3>2, <4>2, <4>3
    <3>. QED
      BY <3>1, <3>2
  <2>. QED
    BY <2>5 DEF ServedInRecordedOrder
<1>10. MissMeansExhausted'
  BY <1>4, <1>5 DEF ServeInv, MissMeansExhausted
<1>. QED
  BY <1>7, <1>9, <1>10

(* A miss: the cursor has passed the last interaction of the key.          *)
LEMMA MissIsTheEnd ==
  ASSUME Typed, ServeInv, NEW c \in Calls, RecordMiss(c), status = "completed",
         NEW k \in MatchKeys, key[c] = k, Found(k, cursors[k]) = {},
         UNCHANGED <<storeVars, callVars>>
  PROVE  CursorsWithin' /\ ServedInRecordedOrder' /\ MissMeansExhausted'
<1>1. /\ UNCHANGED <<cursors, served, key, log>>
      /\ misses' = Append(misses, [key |-> k, occurrence |-> cursors[k]])
      /\ misses \in Seq(Miss) /\ cursors[k] \in Nat
  BY DEF RecordMiss, storeVars, callVars, Typed, ReplayTypeOK
<1>2. \A j : SameKey(j)' = SameKey(j)
  BY <1>1 DEF SameKey
<1>3. CursorsWithin' /\ ServedInRecordedOrder'
  BY <1>1, <1>2 DEF ServeInv, CursorsWithin, ServedInRecordedOrder
<1>4. cursors[k] = Cardinality(SameKey(k))
  <2>1. Cardinality(SameKey(k)) \in Nat /\ cursors[k] <= Cardinality(SameKey(k))
    BY SameKeyCounted DEF Typed, StoreInv, ServeInv, CursorsWithin
  <2>2. \A i \in SameKey(k) : i \notin Incomplete /\ log[i].occurrence # cursors[k]
    BY DEF Typed, StoreInv, CompletedIsWhole, Found
  <2>3. cursors[k] \notin 0..(Cardinality(SameKey(k)) - 1)
    BY <2>2, OccurrencesHaveNoGap DEF Typed
  <2>. QED
    BY <1>1, <2>1, <2>3
<1>5. MissMeansExhausted'
  <2>1. /\ Len(misses) \in Nat /\ DOMAIN misses = 1..Len(misses)
        /\ DOMAIN misses' = 1..(Len(misses) + 1)
        /\ \A m \in DOMAIN misses : misses'[m] = misses[m]
        /\ misses'[Len(misses) + 1] = [key |-> k, occurrence |-> cursors[k]]
    BY <1>1 DEF Miss
  <2>2. ASSUME NEW m \in DOMAIN misses'
        PROVE  misses'[m].occurrence = Cardinality(SameKey(misses'[m].key))
    <3>1. CASE m \in DOMAIN misses
      BY <2>1, <3>1 DEF ServeInv, MissMeansExhausted
    <3>2. CASE m = Len(misses) + 1
      BY <1>4, <2>1, <3>2
    <3>. QED
      BY <2>1, <3>1, <3>2
  <2>. QED
    BY <1>2, <2>2 DEF MissMeansExhausted
<1>. QED
  BY <1>3, <1>5

LEMMA ServeInvNext ==
  ASSUME Typed, ServeInv, [Next]_vars
  PROVE  ServeInv'
<1>0. UNCHANGED storeVars
  BY StoreIsOnlyRead
<1>. DEFINE Others == UNCHANGED <<engineVars, key>> /\ \A c \in Calls : LookupInv(c)'
<1>1. Others => ServeInv'
  BY <1>0, OthersServeNothing
<1>2. ASSUME NEW c \in Calls, HandleLookup(c)
      PROVE  ServeInv'
  <2>1. /\ wire[c] = "reading" /\ wire' = [wire EXCEPT ![c] = "answered"]
        /\ UNCHANGED callVars
    BY <1>2 DEF HandleLookup, BodyRead, Answer
  <2>2. served[c] = 0 /\ key[c] \in MatchKeys
    BY <2>1 DEF ServeInv, LookupInv, Typed, CoordinatorTypeOK
  <2>3. \A d \in Calls : d # c => served'[d] = served[d]
    BY <1>2 DEF HandleLookup, Hit, RecordMiss, engineVars, Typed, ReplayTypeOK
  <2>4. \A d \in Calls : LookupInv(d)'
    BY <2>1, <2>3 DEF ServeInv, LookupInv, Typed, CoordinatorTypeOK, callVars
  <2>5. CASE LookupVerdict(key[c]) = "ok"
    <3>1. Hit(c) /\ Found(key[c], cursors[key[c]]) # {}
      BY <1>2, <2>5 DEF HandleLookup, LookupVerdict
    <3>. QED
      BY <1>0, <2>1, <2>2, <2>4, <3>1, HitServesNext DEF ServeInv
  <2>6. CASE LookupVerdict(key[c]) = "REPLAY_MISS"
    <3>1. RecordMiss(c) /\ Found(key[c], cursors[key[c]]) = {} /\ status = "completed"
      BY <1>2, <2>6 DEF HandleLookup, LookupVerdict
    <3>. QED
      BY <1>0, <2>1, <2>2, <2>4, <3>1, MissIsTheEnd DEF ServeInv
  <2>7. CASE LookupVerdict(key[c]) = "REPLAY_SOURCE_INVALID"
    BY <1>1, <1>2, <2>1, <2>4, <2>7 DEF HandleLookup, callVars
  <2>. QED
    BY <2>5, <2>6, <2>7 DEF LookupVerdict
<1>. SUFFICES Others \/ \E c \in Calls : HandleLookup(c)
  BY <1>1, <1>2
<1>. USE DEF ServeInv, LookupInv, Typed, CoordinatorTypeOK, ReplayTypeOK, engineVars, replayVars,
             callVars, wireVars
<1>3. ASSUME CoordinatorStep
      PROVE  Others
  BY <1>3 DEF CoordinatorStep, StartFetch, CanCall, Post, RefuseStranger, Answer, RefuseBody,
              BodyRead, RequestLost, InFlight, ParentKilled, HandleHead
<1>4. ASSUME NEW c \in Calls, LookupAnswered(c), UNCHANGED engineVars
      PROVE  Others
  BY <1>4 DEF LookupAnswered, Answered
<1>5. ASSUME NEW c \in Calls, LookupUnanswered(c), UNCHANGED engineVars
      PROVE  Others
  BY <1>5 DEF LookupUnanswered, FetchTooLarge, RequestTimeout, Unavailable, CanCall
<1>6. ASSUME NEW p, OutsideCall(p)
      PROVE  Others
  BY <1>6 DEF OutsideCall, coordinatorVars
<1>7. ASSUME NEW p, ProcessGone(p), UNCHANGED replayVars
      PROVE  Others
  BY <1>7 DEF ProcessGone
<1>8. ASSUME NEW s, EndOfRun(s)
      PROVE  Others
  BY <1>8 DEF EndOfRun, CallFinish
<1>9. ASSUME FinishReplay
      PROVE  Others
  BY <1>9 DEF FinishReplay, FinishEngine, ServerClosed
<1>10. ASSUME UNCHANGED vars
      PROVE  Others
  BY <1>10 DEF vars, coordinatorVars
<1>. HIDE DEF Others
<1>. QED
  BY <1>3, <1>4, <1>5, <1>6, <1>7, <1>8, <1>9, <1>10
  DEF Next, ReplayGoesOn, ReplayStep, LookupStep, ProcessExits, ProcessKilled, ProcessEnds,
      StrangerGone

LEMMA InitServes ==
  ASSUME Init
  PROVE  Typed /\ ServeInv
<1>1. StoreInv /\ Len(log) \in Nat
  BY SourceIsStored DEF Init, ReplayInit, StoreInv, StoreTypeOK
<1>2. CoordinatorTypeOK /\ pc = [c \in Calls |-> "idle"] /\ wire = [c \in Calls |-> "none"]
  BY ProcessAssumption
  DEF Init, ReplayInit, CoordinatorInit, CoordinatorTypeOK, Processes, Endpoints, Settled, Replies
<1>3. /\ cursors = [k \in MatchKeys |-> 0] /\ misses = <<>> /\ served = [c \in Calls |-> 0]
      /\ claimed = {} /\ summary = NoSummary /\ consumedCount = 0
  BY DEF Init, ReplayInit
<1>4. Typed
  BY <1>1, <1>2, <1>3, OutsideAssumption DEF Init, Typed, ReplayTypeOK, NoSummary
<1>5. CursorsWithin
  BY <1>1, <1>3, SameKeyCounted DEF CursorsWithin, StoreInv
<1>6. ServedInRecordedOrder
  <2>1. \A k : \A i \in SameKey(k) : ~ (log[i].occurrence < 0)
    <3>1. \A i \in DOMAIN log : log[i] \in Interaction
      BY <1>1 DEF StoreInv, StoreTypeOK
    <3>. QED
      BY <3>1 DEF SameKey, Interaction
  <2>. QED
    BY <1>3, <2>1 DEF ServedInRecordedOrder
<1>7. MissMeansExhausted
  BY <1>3 DEF MissMeansExhausted
<1>. QED
  BY <1>2, <1>3, <1>4, <1>5, <1>6, <1>7 DEF ServeInv, LookupInv

(* For every session a recording can leave behind and every number of      *)
(* calls and processes, the store keeps its contract during a replay, no   *)
(* cursor passes the last interaction of its key and every call is served  *)
(* at most once.                                                           *)
THEOREM ReplayInvariant == Spec => [](Typed /\ ServeInv)
<1>1. Typed /\ ServeInv /\ [Next]_vars => (Typed /\ ServeInv)'
  BY TypedNext, ServeInvNext
<1>. QED
  BY InitServes, <1>1, PTL DEF Spec

(* Key by key the calls are served the recorded interactions in the order  *)
(* they were recorded, each once, however the lookups of several processes *)
(* interleave, are lost or time out (replay engine, lookup).               *)
THEOREM ReplayServesInOrder == Spec => []ServedInRecordedOrder
<1>1. Typed /\ ServeInv => ServedInRecordedOrder
  BY DEF ServeInv
<1>. QED
  BY ReplayInvariant, <1>1, PTL

(* A miss is reported only of a key whose recording is used up, and names  *)
(* the number of its recorded calls (replay engine, lookup).               *)
THEOREM ReplayMissIsTheEnd == Spec => []MissMeansExhausted
<1>1. Typed /\ ServeInv => MissMeansExhausted
  BY DEF ServeInv
<1>. QED
  BY ReplayInvariant, <1>1, PTL

-----------------------------------------------------------------------------
(* The sum over a single report.                                           *)
LEMMA SumOfOne ==
  ASSUME NEW r, r.outOfScope \in Nat
  PROVE  SumOf({r}) = r.outOfScope
<1>. DEFINE Step(f) == [s \in SUBSET {r} |->
                          IF s = {} THEN 0
                          ELSE (CHOOSE x \in s : TRUE).outOfScope + f[s \ {CHOOSE x \in s : TRUE}]]
            Sums == [s \in SUBSET {r} |-> IF s = {} THEN 0 ELSE r.outOfScope]
            iter == CHOOSE f : f = Step(f)
<1>1. \A s \in SUBSET {r} : s = {} \/ s = {r}
  OBVIOUS
<1>2. (CHOOSE x \in {r} : TRUE) = r
  OBVIOUS
<1>3. Sums = Step(Sums)
  <2>1. \A s \in SUBSET {r} : Sums[s] = Step(Sums)[s]
    BY <1>1, <1>2
  <2>. QED
    BY <2>1
<1>4. iter = Step(iter)
  <2>. HIDE DEF Step, Sums
  <2>. QED
    BY <1>3
<1>5. iter[{r}] = r.outOfScope
  <2>. HIDE DEF iter
  <2>1. iter[{}] = 0 /\ iter[{r}] = r.outOfScope + iter[{r} \ {r}]
    BY <1>2, <1>4
  <2>. QED
    BY <2>1
<1>6. SumOf({r}) = iter[{r}]
  BY DEF SumOf, MapThenSumSet, MapThenFoldSet
<1>. QED
  BY <1>5, <1>6

(* No report is written by a process that is still alive, or changes.      *)
LEMMA ReportsStay ==
  ASSUME Typed, ObserverInv, UNCHANGED <<report, outside>>, alive' \subseteq alive,
         claimed \subseteq claimed', claimed' \ claimed \subseteq alive
  PROVE  \A r \in report' : ReportInv(r)'
BY DEF ObserverInv, ReportInv, Typed, Report

(* The count depends on the reports alone.                                 *)
LEMMA ObservedStays ==
  ASSUME UNCHANGED report
  PROVE  Observed' = Observed
BY Zenon DEF Observed, Counted, SumOf, MapThenSumSet, MapThenFoldSet

(* Once the summary is there, what it counted stays.                       *)
LEMMA SummaryStays ==
  ASSUME ObserverInv, UNCHANGED <<report, outOfScope>>, server = "closed" => server' = "closed"
  PROVE  (outOfScope # {} => server = "closed" /\ outOfScope = Observed)'
BY ObservedStays DEF ObserverInv

LEMMA ObserverInvNext ==
  ASSUME Typed, ObserverInv, [Next]_vars
  PROVE  ObserverInv'
<1>. DEFINE CallsKept == \A c \in Calls : EndedInv(c)' /\ ClaimInv(c)'
            ReportsKept == \A r \in report' : ReportInv(r)'
            RunIsOver == (server \in {"closing", "closed"} => alive = {})'
            SummaryKept == (outOfScope # {} => server = "closed" /\ outOfScope = Observed)'
            Kept == CallsKept /\ ReportsKept /\ RunIsOver /\ SummaryKept
<1>. SUFFICES Kept
  BY DEF ObserverInv
<1>. USE ProcessAssumption
     DEF Typed, CoordinatorTypeOK, ReplayTypeOK, Processes, Settled,
         callVars, wireVars, claimVars, serverVars, engineVars, replayVars
<1>1. ASSUME UNCHANGED <<claimed, observerVars>>,
             server' = server \/ (server' \notin {"closing"} /\ server # "closed")
             \/ alive = {}, server = "closed" => server' = "closed",
             server' = "closed" => server \in {"closing", "closed"}
      PROVE  ReportsKept /\ RunIsOver /\ SummaryKept
  <2>1. ReportsKept
    BY <1>1, ReportsStay DEF observerVars
  <2>2. SummaryKept
    BY <1>1, SummaryStays DEF observerVars
  <2>3. RunIsOver
    BY <1>1 DEF ObserverInv, observerVars
  <2>. QED
    BY <2>1, <2>2, <2>3
<1>. HIDE DEF ReportsKept, RunIsOver, SummaryKept
<1>2. ASSUME CoordinatorStep, UNCHANGED observerVars,
             \A c \in Calls : proc'[c] # proc[c] => proc'[c] \in alive \cup Strangers
      PROVE  Kept
  <2>1. ReportsKept /\ RunIsOver /\ SummaryKept
    BY <1>1, <1>2 DEF CoordinatorStep, StartFetch, RefuseStranger, HandleHead, RefuseBody, BodyRead,
       RequestLost, ParentKilled
  <2>2. ASSUME NEW c \in Calls, NEW p \in Processes, StartFetch(c, p, "/lookup")
        PROVE  CallsKept
    BY <1>2, <2>2 DEF StartFetch, CanCall, Post, ObserverInv, EndedInv, ClaimInv, CoordinatorStep,
       observerVars
  <2>3. ASSUME NEW c \in Calls, RefuseStranger(c) \/ RefuseBody(c)
        PROVE  CallsKept
    BY <1>2, <2>3 DEF RefuseStranger, RefuseBody, BodyRead, Answer, ObserverInv, EndedInv, ClaimInv,
       CoordinatorStep, observerVars
  <2>4. ASSUME NEW c \in Calls, HandleHead(c)
        PROVE  CallsKept
    BY <1>2, <2>4 DEF HandleHead, Claim, Answer, ObserverInv, EndedInv, ClaimInv, CoordinatorStep,
       observerVars
  <2>5. ASSUME NEW c \in Calls, RequestLost(c)
        PROVE  CallsKept
    BY <1>2, <2>5 DEF RequestLost, InFlight, ObserverInv, EndedInv, ClaimInv, CoordinatorStep,
       observerVars
  <2>6. ASSUME ParentKilled
        PROVE  CallsKept
    BY <1>2, <2>6 DEF ParentKilled, InFlight, ObserverInv, EndedInv, ClaimInv, CoordinatorStep,
       observerVars
  <2>. QED
    BY <1>2, <2>1, <2>2, <2>3, <2>4, <2>5, <2>6 DEF CoordinatorStep
<1>3. ASSUME NEW c \in Calls, LookupAnswered(c), UNCHANGED observerVars
      PROVE  Kept
  <2>1. claimed' \ claimed \subseteq alive /\ claimed \subseteq claimed'
    BY <1>3 DEF LookupAnswered, Answered, ClaimedBy, ObserverInv, EndedInv
  <2>2. ReportsKept /\ RunIsOver /\ SummaryKept
    BY <1>3, <2>1, ReportsStay, SummaryStays
    DEF LookupAnswered, observerVars, ObserverInv, ReportsKept, RunIsOver, SummaryKept
  <2>3. CallsKept
    BY <1>3 DEF LookupAnswered, Answered, ClaimedBy, ObserverInv, EndedInv, ClaimInv, observerVars
  <2>. QED
    BY <2>2, <2>3
<1>4. ASSUME NEW c \in Calls, LookupUnanswered(c), UNCHANGED observerVars,
             \A d \in Calls : proc'[d] # proc[d] => proc'[d] \in alive \cup Strangers
      PROVE  Kept
  <2>1. \/ \E p \in Adapters : FetchTooLarge(c, p)
        \/ RequestTimeout(c) \/ Unavailable(c)
    BY <1>4 DEF LookupUnanswered
  <2>2. /\ pc' = [pc EXCEPT ![c] = "threw"]
        /\ \A d \in Calls \ {c} : proc'[d] = proc[d]
        /\ proc'[c] \in Adapters => proc'[c] \in alive
        /\ pc[c] \in {"idle", "request"}
        /\ UNCHANGED <<wireVars, claimVars, serverVars>>
        /\ proc'[c] # proc[c] => pc[c] = "idle"
    BY <1>4, <2>1 DEF FetchTooLarge, CanCall, RequestTimeout, Unavailable, ObserverInv, EndedInv,
       ClaimInv
  <2>3. claimed' = ClaimedBy(c, "none")
    BY <1>4 DEF LookupUnanswered
  <2>4. claimed' \ claimed \subseteq alive /\ claimed \subseteq claimed'
    BY <2>2, <2>3 DEF ClaimedBy
  <2>5. ReportsKept /\ RunIsOver /\ SummaryKept
    BY <1>4, <2>2, <2>4, ReportsStay, SummaryStays
    DEF observerVars, ObserverInv, ReportsKept, RunIsOver, SummaryKept
  <2>6. CallsKept
    BY <1>4, <2>2, <2>3 DEF ClaimedBy, ObserverInv, EndedInv, ClaimInv, observerVars
  <2>. QED
    BY <2>5, <2>6
<1>5. ASSUME NEW c \in Calls, HandleLookup(c), UNCHANGED observerVars
      PROVE  Kept
  <2>1. ReportsKept /\ RunIsOver /\ SummaryKept
    BY <1>1, <1>5 DEF HandleLookup
  <2>2. CallsKept
    <3>1. LookupVerdict(key[c]) # "WRITER_CONFLICT"
      BY DEF LookupVerdict
    <3>. QED
      BY <1>5, <3>1 DEF HandleLookup, BodyRead, Answer, ObserverInv, EndedInv, ClaimInv, observerVars
  <2>. QED
    BY <2>1, <2>2
<1>6. ASSUME NEW p \in Adapters, OutsideCall(p)
      PROVE  Kept
  <2>1. CallsKept
    BY <1>6 DEF OutsideCall, coordinatorVars, ObserverInv, EndedInv, ClaimInv
  <2>2. ReportsKept
    BY <1>6 DEF OutsideCall, ObserverInv, ReportInv, ReportsKept, Report
  <2>3. RunIsOver /\ SummaryKept
    BY <1>6, SummaryStays DEF OutsideCall, coordinatorVars, ObserverInv, RunIsOver, SummaryKept
  <2>. QED
    BY <2>1, <2>2, <2>3
<1>7. ASSUME NEW p \in Adapters, ProcessExits(p) \/ ProcessKilled(p)
      PROVE  Kept
  <2>1. ProcessGone(p) /\ UNCHANGED <<replayVars, outside, outOfScope>>
        /\ p \in alive /\ alive' = alive \ {p}
    BY <1>7 DEF ProcessExits, ProcessKilled, ProcessEnds
  <2>2. CallsKept
    BY <2>1 DEF ProcessGone, ObserverInv, EndedInv, ClaimInv
  <2>3. ReportsKept
    <3>1. report' \subseteq report \cup
            {[process |-> p, outOfScope |-> outside[p], claimed |-> p \in claimed]}
      BY <1>7 DEF ProcessExits, ProcessKilled
    <3>2. ASSUME NEW CONSTANT r \in report
          PROVE  ReportInv(r)'
      BY <2>1 DEF ObserverInv, ReportInv
    <3>3. ASSUME NEW CONSTANT r,
                 r = [process |-> p, outOfScope |-> outside[p], claimed |-> p \in claimed]
          PROVE  ReportInv(r)'
      BY <2>1, <3>3 DEF ReportInv
    <3>. QED
      BY <3>1, <3>2, <3>3 DEF ReportsKept
  <2>4. RunIsOver
    BY <2>1 DEF ProcessGone, ObserverInv, RunIsOver
  <2>5. outOfScope = {}
    BY <2>1 DEF ObserverInv
  <2>. QED
    BY <2>1, <2>2, <2>3, <2>4, <2>5 DEF SummaryKept
<1>8. ASSUME NEW p \in Strangers, StrangerGone(p)
      PROVE  Kept
  <2>1. CallsKept
    BY <1>8 DEF StrangerGone, ProcessGone, ObserverInv, EndedInv, ClaimInv, observerVars
  <2>. QED
    BY <1>1, <1>8, <2>1 DEF StrangerGone, ProcessGone
<1>9. ASSUME NEW s, EndOfRun(s)
      PROVE  Kept
  <2>1. CallsKept
    BY <1>9 DEF EndOfRun, CallFinish, ObserverInv, EndedInv, ClaimInv, observerVars
  <2>. QED
    BY <1>1, <1>9, <2>1 DEF EndOfRun, CallFinish
<1>10. ASSUME FinishReplay
      PROVE  Kept
  <2>1. CallsKept
    BY <1>10 DEF FinishReplay, FinishEngine, ServerClosed, ObserverInv, EndedInv, ClaimInv
  <2>2. ReportsKept
    BY <1>10, ReportsStay DEF FinishReplay, FinishEngine, ReportsKept
  <2>3. RunIsOver
    BY <1>10 DEF FinishReplay, FinishEngine, ServerClosed, ObserverInv, RunIsOver
  <2>4. SummaryKept
    BY <1>10, ObservedStays DEF FinishReplay, FinishEngine, ServerClosed, SummaryKept
  <2>. QED
    BY <2>1, <2>2, <2>3, <2>4
<1>11. ASSUME UNCHANGED vars
      PROVE  Kept
  <2>1. CallsKept
    BY <1>11 DEF vars, coordinatorVars, observerVars, ObserverInv, EndedInv, ClaimInv
  <2>. QED
    BY <1>1, <1>11, <2>1 DEF vars, coordinatorVars
<1>. HIDE DEF CallsKept
<1>. QED
  BY <1>2, <1>3, <1>4, <1>5, <1>6, <1>7, <1>8, <1>9, <1>10, <1>11
  DEF Next, ReplayGoesOn, ReplayStep, LookupStep

LEMMA InitObserves ==
  ASSUME Init
  PROVE  ObserverInv
<1>1. /\ \A c \in Calls : /\ pc[c] = "idle" /\ proc[c] = NoProcess
                          /\ wire[c] = "none" /\ reply[c] = "none"
      /\ report = {} /\ outOfScope = {} /\ server \in {"listening", "refused"}
  BY DEF Init, ReplayInit, CoordinatorInit
<1>. QED
  BY <1>1, ProcessAssumption DEF ObserverInv, EndedInv, ClaimInv

(* A process that has ended calls no more, a report is what was true when  *)
(* its process ended, and the summary counts what was reported before the  *)
(* server closed.                                                          *)
THEOREM ObserverInvariant == Spec => []ObserverInv
<1>1. Typed /\ ServeInv /\ ObserverInv /\ [Next]_vars => ObserverInv'
  BY ObserverInvNext
<1>. QED
  BY InitObserves, ReplayInvariant, <1>1, PTL DEF Spec

(* The writer's only report is the only one that is counted, unless it     *)
(* ended before a call of its own did, or another process took itself for  *)
(* the writer (the observer's exit hook, collectOutOfScope).               *)
LEMMA CountedIsTheWriters ==
  ASSUME Typed, ObserverInv
  PROVE  WriterCountIsExact
<1>. SUFFICES ASSUME outOfScope # {}, WriterReported, ClaimedIsWriter
              PROVE  outOfScope = {outside[writerId]}
  BY DEF WriterCountIsExact
<1>1. PICK r \in report : r.process = writerId
  BY DEF WriterReported
<1>2. PICK c \in Calls : proc[c] = writerId /\ pc[c] \in {"returned", "threw"}
  BY DEF WriterReported
<1>3. writerId \in Adapters /\ writerId # NoProcess
  BY <1>1, ProcessAssumption DEF Typed, Report
<1>4. claimed = {writerId}
  BY <1>2, <1>3 DEF ObserverInv, ClaimInv, ClaimedIsWriter
<1>5. /\ r.claimed /\ r.outOfScope = outside[writerId] /\ r.outOfScope \in Nat
      /\ \A s \in report : s.claimed => s = r
  BY <1>1, <1>4 DEF ObserverInv, ReportInv, Typed, Report
<1>6. {s \in report : s.claimed} = {r}
  BY <1>1, <1>5
<1>7. Counted = {r}
  BY <1>6 DEF Counted
<1>8. Observed = {SumOf(Counted)} /\ outOfScope = Observed
  BY <1>1 DEF ObserverInv, Observed
<1>. QED
  BY <1>5, <1>7, <1>8, SumOfOne

(* The count in the summary is the number of calls the process under test  *)
(* made past the adapter, whatever its launchers did (the observer's exit  *)
(* hook, and the sum over its files that finish() makes).                  *)
THEOREM ReplayCountIsTheWriters == Spec => []WriterCountIsExact
<1>1. Typed /\ ServeInv /\ ObserverInv => WriterCountIsExact
  BY CountedIsTheWriters
<1>. QED
  BY ReplayInvariant, ObserverInvariant, <1>1, PTL
=============================================================================
