----------------------- MODULE ExternalRecord_proofs -----------------------
(***************************************************************************)
(* What holds of a recording for every number of calls, processes, keys    *)
(* and outcomes.  The inductive invariant says, call by call, how far the  *)
(* call is and what the store and the claim look like at that point.       *)
(***************************************************************************)
EXTENDS ExternalRecord, SessionStore_proofs

\* A call that was not made has left no trace.
IdleInv(c) ==
  pc[c] = "idle" => /\ proc[c] = NoProcess
                    /\ wire[c] = "none"
                    /\ fetched[c] = "none"
                    /\ granted[c] = 0

\* Past the check of the head, a request is the writer's.
WriterInv(c) ==
  /\ wire[c] = "reading" => proc[c] \in Adapters /\ proc[c] = writerId
  /\ granted[c] # 0 => proc[c] \in Adapters /\ proc[c] = writerId

\* An interaction is granted by the first request, or not at all.
BeginInv(c) ==
  /\ pc[c] \in {"fetch", "encode", "bypass"} => wire[c] = "answered" /\ endpoint[c] = "/begin"
  /\ pc[c] = "returned" => wire[c] = "answered"
  /\ pc[c] = "bypass" => granted[c] = 0
  /\ endpoint[c] = "/begin" /\ (InFlight(c) \/ reply[c] = "WRITER_CONFLICT") => granted[c] = 0
  /\ wire[c] \in {"sent", "reading"} => reply[c] = "none"

\* What /complete sends is what the real call ended with.
CompleteInv(c) ==
  /\ pc[c] = "encode" \/ endpoint[c] = "/complete" => fetched[c] \in Kinds
  /\ endpoint[c] = "/complete" /\ reply[c] = "ok"
       => granted[c] # 0 /\ log[granted[c]].outcome = <<c, fetched[c]>>
  /\ pc[c] = "returned" /\ granted[c] # 0
       => granted[c] \in DOMAIN log /\ log[granted[c]].outcome = <<c, "response">>

CallInv(c) == IdleInv(c) /\ WriterInv(c) /\ BeginInv(c) /\ CompleteInv(c)

\* The session ends completed with the server, and only failed before.
SessionInv ==
  /\ server = "closing" => finishAs \in {"completed", "failed"}
  /\ status = "completed" => server = "closed"

Inv ==
  /\ TypeOK
  /\ StoreInv
  /\ SessionInv
  /\ \A c \in Calls : CallInv(c)

\* What an action has to keep of it; the store's part has lemmas of its own.
Kept == TypeOK' /\ SessionInv' /\ (\A d \in Calls : CallInv(d)')

-----------------------------------------------------------------------------
(* Every step of a recording is a step of its store, or leaves it alone:   *)
(* the handlers check what the store demands before they touch it.         *)
LEMMA StepIsStoreStep ==
  ASSUME Inv, [Next]_vars
  PROVE  [StoreNext]_storeVars
<1>1. ASSUME NEW c \in Calls, HandleBegin(c)
      PROVE  [StoreNext]_storeVars
  BY <1>1 DEF HandleBegin, StoreNext, storeVars, Inv, TypeOK, CoordinatorTypeOK
<1>2. ASSUME NEW c \in Calls, HandleComplete(c)
      PROVE  [StoreNext]_storeVars
  <2>1. CASE CompleteVerdict(granted[c]) = "ok"
    <3>1. Complete(granted[c], <<c, fetched[c]>>) /\ granted[c] \in DOMAIN log
      BY <1>2, <2>1 DEF HandleComplete, CompleteVerdict
    <3>2. fetched[c] \in Kinds
      BY <1>2 DEF HandleComplete, BodyRead, Inv, CallInv, CompleteInv
    <3>3. <<c, fetched[c]>> \in Outcomes
      BY <3>2, AnswerAssumption
    <3>. QED
      BY <3>1, <3>3 DEF StoreNext
  <2>2. CASE CompleteVerdict(granted[c]) # "ok"
    BY <1>2, <2>2 DEF HandleComplete
  <2>. QED
    BY <2>1, <2>2
<1>3. ASSUME NEW c \in Calls, NEW path, HandleLeak(c, path)
      PROVE  [StoreNext]_storeVars
  BY <1>3 DEF HandleLeak, VoidSession, StoreNext
<1>4. FinishEngine \/ FinishFails => [StoreNext]_storeVars
  BY DEF FinishEngine, FinishFails, ServerClosed, StoreNext, Inv, SessionInv
<1>5. ASSUME NEW c \in Calls, AdapterStep(c)
      PROVE  UNCHANGED storeVars
  BY <1>5 DEF AdapterStep, BeginAnswered, RealFetch, SendComplete, EncodeFails,
              CompleteAnswered, BypassFetch, Proceed
<1>6. CoordinatorStep => UNCHANGED storeVars
  BY DEF CoordinatorStep
<1>7. UNCHANGED vars => UNCHANGED storeVars
  BY DEF vars
<1>8. ASSUME NEW c \in Calls, NEW path, StoreFails(c, path)
      PROVE  UNCHANGED storeVars
  BY <1>8 DEF StoreFails
<1>. QED
  BY <1>1, <1>2, <1>3, <1>4, <1>5, <1>6, <1>7, <1>8 DEF Next, EngineStep

(* So the store's invariant is kept.                                       *)
LEMMA StoreInvKept ==
  ASSUME Inv, [Next]_vars
  PROVE  StoreInv'
<1>1. StoreInv /\ [StoreNext]_storeVars
  BY StepIsStoreStep DEF Inv
<1>. QED
  BY <1>1, ReserveKeepsInv, CompleteKeepsInv, FinishKeepsInv, StutterKeepsInv DEF StoreNext

-----------------------------------------------------------------------------
(* What the client, the server and the end of the session do without the   *)
(* store: requests, the claim, and how far a call is.                      *)
LEMMA CoordinatorKeeps ==
  ASSUME Inv, CoordinatorStep
  PROVE  Kept
<1>. UNCHANGED <<storeVars, recordVars>>
  BY DEF CoordinatorStep
<1>. USE ProcessAssumption
     DEF Inv, Kept, TypeOK, StoreTypeOK, CoordinatorTypeOK, Processes, Endpoints, Settled,
         Replies, Kinds, SessionInv, CallInv, IdleInv, WriterInv, BeginInv, CompleteInv,
         InFlight, storeVars, recordVars, callVars, wireVars, claimVars, serverVars
<1>1. ASSUME NEW c \in Calls, NEW p \in Processes, StartFetch(c, p, "/begin")
      PROVE  Kept
  BY <1>1 DEF StartFetch, CanCall, Post
<1>2. ASSUME NEW c \in Calls, NEW p \in Adapters, FetchTooLarge(c, p)
      PROVE  Kept
  BY <1>2 DEF FetchTooLarge, CanCall
<1>3. ASSUME NEW c \in Calls, RequestTimeout(c)
      PROVE  Kept
  BY <1>3 DEF RequestTimeout
<1>4. ASSUME NEW c \in Calls, Unavailable(c)
      PROVE  Kept
  BY <1>4 DEF Unavailable
<1>5. ASSUME NEW c \in Calls, RefuseStranger(c)
      PROVE  Kept
  BY <1>5 DEF RefuseStranger, Answer
<1>6. ASSUME NEW c \in Calls, HandleHead(c)
      PROVE  Kept
  <2>1. /\ writerId' \in Adapters
        /\ UNCHANGED <<callVars, serverVars>>
    BY <1>6 DEF HandleHead, Claim
  <2>2. /\ wire' \in [Calls -> {"none", "sent", "reading", "answered", "lost"}]
        /\ endpoint' \in [Calls -> Endpoints \cup {"none"}]
        /\ reply' \in [Calls -> Replies \cup {"none"}]
        /\ otherProcessCalls' \in Nat
    <3>1. CASE writerId' = proc[c]
      BY <1>6, <3>1 DEF HandleHead
    <3>2. CASE writerId' # proc[c]
      <4>1. /\ wire' = [wire EXCEPT ![c] = "answered"]
            /\ reply' = [reply EXCEPT ![c] = "WRITER_CONFLICT"]
            /\ endpoint' = endpoint
            /\ otherProcessCalls' = otherProcessCalls + 1
        BY <1>6, <3>2 DEF HandleHead, Answer, CountedConflicts
      <4>. QED
        BY <4>1
    <3>. QED
      BY <3>1, <3>2
  <2>3. TypeOK' /\ SessionInv'
    BY <2>1, <2>2
  <2>4. ASSUME NEW d \in Calls PROVE CallInv(d)'
    BY <1>6 DEF HandleHead, Answer, Claim
  <2>. QED
    BY <2>3, <2>4
<1>7. ASSUME NEW c \in Calls, RefuseBody(c)
      PROVE  Kept
  BY <1>7 DEF RefuseBody, BodyRead, Answer
<1>8. ASSUME NEW c \in Calls, RequestLost(c)
      PROVE  Kept
  BY <1>8 DEF RequestLost
<1>9. ASSUME NEW p \in Processes, ProcessGone(p)
      PROVE  Kept
  BY <1>9 DEF ProcessGone
<1>10. ASSUME NEW s \in {"completed", "failed"}, CallFinish(s)
      PROVE  Kept
  BY <1>10 DEF CallFinish
<1>11. ASSUME ParentKilled
      PROVE  Kept
  BY <1>11 DEF ParentKilled
<1>. QED
  BY <1>1, <1>2, <1>3, <1>4, <1>5, <1>6, <1>7, <1>8, <1>9, <1>10, <1>11 DEF CoordinatorStep

(* What the adapter does around the real call.                             *)
LEMMA AdapterKeeps ==
  ASSUME Inv, NEW c \in Calls, AdapterStep(c)
  PROVE  Kept
<1>. USE ProcessAssumption
     DEF Proceed, Inv, Kept, TypeOK, StoreTypeOK, CoordinatorTypeOK, Processes, Endpoints, Settled,
         Replies, Kinds, SessionInv, CallInv, IdleInv, WriterInv, BeginInv, CompleteInv,
         InFlight, storeVars, recordVars, callVars, wireVars, claimVars, serverVars
<1>1. ASSUME BeginAnswered(c)
      PROVE  Kept
  BY <1>1 DEF BeginAnswered, Answered, AfterBegin
<1>2. ASSUME NEW kind \in Kinds, RealFetch(c, kind)
      PROVE  Kept
  BY <1>2 DEF RealFetch
<1>3. ASSUME SendComplete(c)
      PROVE  Kept
  BY <1>3 DEF SendComplete, Post
<1>4. ASSUME EncodeFails(c)
      PROVE  Kept
  BY <1>4 DEF EncodeFails
<1>5. ASSUME CompleteAnswered(c)
      PROVE  Kept
  BY <1>5 DEF CompleteAnswered, Answered, AfterComplete
<1>6. ASSUME NEW kind \in Kinds, BypassFetch(c, kind)
      PROVE  Kept
  BY <1>6 DEF BypassFetch
<1>. QED
  BY <1>1, <1>2, <1>3, <1>4, <1>5, <1>6 DEF AdapterStep

(* A stored outcome is no open one, so complete never writes it again.     *)
LEMMA StoredStays ==
  ASSUME Inv, NEW c \in Calls, HandleComplete(c), NEW i \in DOMAIN log,
         log[i].outcome # NoOutcome
  PROVE  i \in DOMAIN log' /\ log'[i].outcome = log[i].outcome
<1>1. CASE CompleteVerdict(granted[c]) = "ok"
  <2>1. /\ log' = [log EXCEPT ![granted[c]].outcome = <<c, fetched[c]>>]
        /\ granted[c] # i
    BY <1>1 DEF HandleComplete, Complete, CompleteVerdict, Incomplete
  <2>. QED
    BY <2>1
<1>2. CASE CompleteVerdict(granted[c]) # "ok"
  BY <1>2 DEF HandleComplete, storeVars
<1>. QED
  BY <1>1, <1>2

(* /begin appends an interaction, which is the writer's alone.             *)
LEMMA HandleBeginKeeps ==
  ASSUME Inv, NEW c \in Calls, HandleBegin(c)
  PROVE  Kept
<1>1. StoreInv'
  BY StoreInvKept DEF Next, EngineStep
<1>2. /\ Len(log) \in Nat /\ DOMAIN log = 1..Len(log)
      /\ Len(log') \in Nat /\ Len(log) <= Len(log')
      /\ \A i \in DOMAIN log : i \in DOMAIN log' /\ log'[i] = log[i]
      /\ status' = status
      /\ granted' \in [Calls -> 0..Len(log')]
      /\ \A d \in Calls : d # c => granted'[d] = granted[d]
      /\ reply'[c] # "WRITER_CONFLICT"
      /\ ReserveVerdict(key[c]) \in Replies
  <2>1. /\ log \in Seq(Interaction) /\ log' \in Seq(Interaction)
        /\ granted \in [Calls -> 0..Len(log)]
        /\ reply \in [Calls -> Replies \cup {"none"}]
    BY <1>1 DEF Inv, TypeOK, CoordinatorTypeOK, StoreTypeOK, StoreInv
  <2>2. CASE ReserveVerdict(key[c]) = "ok"
    <3>1. /\ log' = Append(log, NewInteraction(key[c]))
          /\ status' = status
          /\ granted' = [granted EXCEPT ![c] = Len(log) + 1]
          /\ reply' = [reply EXCEPT ![c] = "ok"]
      BY <2>2 DEF HandleBegin, Reserve, NextId, Answer
    <3>2. Len(log') = Len(log) + 1 /\ \A i \in 1..Len(log) : log'[i] = log[i]
      BY <2>1, <3>1
    <3>. QED
      BY <2>1, <2>2, <3>1, <3>2 DEF Replies
  <2>3. CASE ReserveVerdict(key[c]) # "ok"
    BY <2>1, <2>3 DEF HandleBegin, Answer, storeVars, ReserveVerdict, Replies
  <2>. QED
    BY <2>2, <2>3
<1>3. /\ wire' = [wire EXCEPT ![c] = "answered"]
      /\ reply' = [reply EXCEPT ![c] = ReserveVerdict(key[c])]
      /\ wire[c] = "reading" /\ endpoint[c] = "/begin" /\ server \in {"listening", "closing"}
      /\ UNCHANGED <<callVars, endpoint, claimVars, serverVars, fetched, summary, unvoided>>
  BY DEF HandleBegin, BodyRead, Answer
<1>. HIDE DEF ReserveVerdict
<1>4. TypeOK'
  BY <1>1, <1>2, <1>3 DEF Inv, TypeOK, StoreInv, CoordinatorTypeOK, callVars, claimVars, serverVars
<1>5. SessionInv'
  BY <1>2, <1>3 DEF Inv, SessionInv, serverVars
<1>6. ASSUME NEW d \in Calls PROVE CallInv(d)'
  <2>1. IdleInv(d)' /\ WriterInv(d)' /\ BeginInv(d)'
    BY <1>2, <1>3 DEF Inv, CallInv, IdleInv, WriterInv, BeginInv, InFlight, TypeOK,
       CoordinatorTypeOK, callVars, claimVars
  <2>2. CASE d = c
    <3>1. CompleteInv(d)'
      BY <1>2, <1>3, <2>2 DEF Inv, CallInv, BeginInv, CompleteInv, TypeOK, CoordinatorTypeOK,
         callVars
    <3>. QED
      BY <2>1, <3>1 DEF CallInv
  <2>3. CASE d # c
    <3>1. granted[d] # 0 => granted[d] \in DOMAIN log
      BY <1>2 DEF Inv, TypeOK
    <3>2. CompleteInv(d)'
      BY <1>2, <1>3, <2>3, <3>1 DEF Inv, CallInv, CompleteInv, TypeOK, CoordinatorTypeOK, callVars
    <3>. QED
      BY <2>1, <3>2 DEF CallInv
  <2>. QED
    BY <2>2, <2>3
<1>. QED
  BY <1>4, <1>5, <1>6 DEF Kept

(* /complete stores what the call ended with, in its own interaction.      *)
LEMMA HandleCompleteKeeps ==
  ASSUME Inv, NEW c \in Calls, HandleComplete(c)
  PROVE  Kept
<1>1. StoreInv'
  BY StoreInvKept DEF Next, EngineStep
<1>2. /\ wire' = [wire EXCEPT ![c] = "answered"]
      /\ reply' = [reply EXCEPT ![c] = CompleteVerdict(granted[c])]
      /\ CompleteVerdict(granted[c]) \in Replies \ {"WRITER_CONFLICT"}
      /\ wire[c] = "reading" /\ endpoint[c] = "/complete" /\ server \in {"listening", "closing"}
      /\ UNCHANGED <<callVars, endpoint, claimVars, serverVars, recordVars, status>>
  BY DEF HandleComplete, Complete, BodyRead, Answer, CompleteVerdict, Replies, storeVars
<1>3. /\ DOMAIN log' = DOMAIN log
      /\ Len(log') = Len(log)
      /\ CompleteVerdict(granted[c]) = "ok"
           => granted[c] \in DOMAIN log /\ log'[granted[c]].outcome = <<c, fetched[c]>>
  <2>1. /\ log \in Seq(Interaction) /\ log' \in Seq(Interaction)
    BY <1>1 DEF Inv, StoreTypeOK, StoreInv
  <2>2. CASE CompleteVerdict(granted[c]) = "ok"
    <3>1. log' = [log EXCEPT ![granted[c]].outcome = <<c, fetched[c]>>] /\ granted[c] \in DOMAIN log
      BY <2>2 DEF HandleComplete, Complete, CompleteVerdict
    <3>2. log[granted[c]] \in Interaction
      BY <2>1, <3>1
    <3>. QED
      BY <2>1, <3>1, <3>2 DEF Interaction
  <2>3. CASE CompleteVerdict(granted[c]) # "ok"
    BY <2>3 DEF HandleComplete, storeVars
  <2>. QED
    BY <2>2, <2>3
<1>4. \A i \in DOMAIN log : log[i].outcome # NoOutcome => log'[i].outcome = log[i].outcome
  BY StoredStays
<1>5. \A d \in Calls, kind \in Kinds : <<d, kind>> # NoOutcome
  BY AnswerAssumption, NoOutcomeAssumption
<1>6. TypeOK'
  BY <1>1, <1>2, <1>3 DEF Inv, TypeOK, StoreInv, CoordinatorTypeOK, callVars, claimVars,
     serverVars, recordVars
<1>7. SessionInv'
  BY <1>2 DEF Inv, SessionInv, serverVars, recordVars
<1>8. ASSUME NEW d \in Calls PROVE CallInv(d)'
  <2>1. IdleInv(d)' /\ WriterInv(d)' /\ BeginInv(d)'
    BY <1>2 DEF Inv, CallInv, IdleInv, WriterInv, BeginInv, InFlight, TypeOK, CoordinatorTypeOK,
       callVars, claimVars, recordVars
  <2>2. granted[d] # 0 => granted[d] \in DOMAIN log
    BY DEF Inv, TypeOK, StoreTypeOK
  <2>3. /\ pc'[d] = pc[d] /\ fetched'[d] = fetched[d] /\ granted'[d] = granted[d]
        /\ endpoint'[d] = endpoint[d]
        /\ reply'[d] = IF d = c THEN CompleteVerdict(granted[c]) ELSE reply[d]
    BY <1>2 DEF Inv, TypeOK, CoordinatorTypeOK, callVars, recordVars
  <2>4. pc[d] = "returned" /\ granted[d] # 0 => log'[granted[d]].outcome = <<d, "response">>
    BY <1>4, <1>5, <2>2 DEF Inv, CallInv, CompleteInv, Kinds
  <2>5. endpoint[d] = "/complete" /\ reply'[d] = "ok"
          => granted[d] # 0 /\ log'[granted[d]].outcome = <<d, fetched[d]>>
    <3>1. CASE d = c
      BY <1>3, <2>3, <3>1 DEF Inv, StoreTypeOK, TypeOK
    <3>2. CASE d # c
      BY <1>4, <1>5, <2>2, <2>3, <3>2 DEF Inv, CallInv, CompleteInv
    <3>. QED
      BY <3>1, <3>2
  <2>6. CompleteInv(d)'
    BY <1>3, <2>2, <2>3, <2>4, <2>5 DEF Inv, CallInv, CompleteInv
  <2>. QED
    BY <2>1, <2>6 DEF CallInv
<1>. QED
  BY <1>6, <1>7, <1>8 DEF Kept

(* A request the store fails is answered, and changes nothing else.        *)
LEMMA StoreFailsKeeps ==
  ASSUME Inv, NEW c \in Calls, NEW path \in {"/begin", "/complete"}, StoreFails(c, path)
  PROVE  Kept
<1>1. /\ wire[c] = "reading"
      /\ wire' = [wire EXCEPT ![c] = "answered"]
      /\ reply' = [reply EXCEPT ![c] = "COORDINATOR_INTERNAL"]
      /\ UNCHANGED <<storeVars, callVars, endpoint, claimVars, serverVars, recordVars>>
  BY DEF StoreFails, BodyRead, Answer
<1>2. TypeOK' /\ SessionInv'
  BY <1>1 DEF Inv, TypeOK, StoreTypeOK, CoordinatorTypeOK, SessionInv, Replies, storeVars,
     callVars, claimVars, serverVars, recordVars
<1>3. ASSUME NEW d \in Calls PROVE CallInv(d)'
  BY <1>1 DEF Inv, CallInv, IdleInv, WriterInv, BeginInv, CompleteInv, InFlight, TypeOK,
     CoordinatorTypeOK, storeVars, callVars, claimVars, recordVars
<1>. QED
  BY <1>2, <1>3 DEF Kept

(* A leak fails the session or leaves it as it was; completed it cannot    *)
(* be, as the server is still there.                                       *)
LEMMA HandleLeakKeeps ==
  ASSUME Inv, NEW c \in Calls, NEW path \in {"/begin", "/complete"}, HandleLeak(c, path)
  PROVE  Kept
<1>1. /\ status' \in {status, "failed"} /\ log' = log
      /\ server \in {"listening", "closing"}
      /\ wire[c] = "reading" /\ endpoint[c] = path
      /\ wire' = [wire EXCEPT ![c] = "answered"]
      /\ reply' = [reply EXCEPT ![c] = "EXTERNAL_REDACTION_INVARIANT_VIOLATION"]
      /\ UNCHANGED <<callVars, endpoint, claimVars, serverVars, fetched, granted, summary>>
      /\ unvoided' \in {unvoided, unvoided \cup {c}}
  BY DEF HandleLeak, VoidSession, Finish, FinalStatus, FinishVerdict, BodyRead, Answer, storeVars
<1>2. TypeOK'
  BY <1>1 DEF Inv, TypeOK, StoreTypeOK, Statuses, CoordinatorTypeOK, Replies, callVars, claimVars,
     serverVars
<1>3. SessionInv'
  BY <1>1 DEF Inv, SessionInv, serverVars
<1>4. ASSUME NEW d \in Calls PROVE CallInv(d)'
  BY <1>1 DEF Inv, CallInv, IdleInv, WriterInv, BeginInv, CompleteInv, InFlight, TypeOK,
     CoordinatorTypeOK, callVars, claimVars
<1>. QED
  BY <1>2, <1>3, <1>4 DEF Kept

(* The engine finishes behind a closed server, or fails there.             *)
LEMMA FinishKeeps ==
  ASSUME Inv, FinishEngine \/ FinishFails
  PROVE  Kept
<1>1. /\ log' = log /\ status' \in {status, FinalStatus(finishAs)}
      /\ server = "closing" /\ server' = "closed"
      /\ finishAs \in {"completed", "failed"}
      /\ UNCHANGED <<callVars, wireVars, claimVars, finishAs, fetched, granted, unvoided>>
  BY DEF FinishEngine, FinishFails, ServerClosed, Finish, Inv, SessionInv, storeVars
<1>2. status' \in Statuses /\ FinalStatus(finishAs) \in Statuses
  BY <1>1 DEF FinalStatus, Inv, TypeOK, StoreTypeOK, Statuses
<1>3. summary' \in [outcome : Statuses \cup {"none", "INCOMPLETE_SESSION", "STORE_ERROR"}, others : Nat]
  BY <1>1, <1>2 DEF FinishEngine, FinishFails, Inv, TypeOK, CoordinatorTypeOK
<1>4. TypeOK'
  BY <1>1, <1>2, <1>3 DEF Inv, TypeOK, StoreTypeOK, CoordinatorTypeOK, callVars, wireVars, claimVars
<1>5. SessionInv'
  BY <1>1, <1>2 DEF Inv, SessionInv
<1>6. ASSUME NEW d \in Calls PROVE CallInv(d)'
  BY <1>1 DEF Inv, CallInv, IdleInv, WriterInv, BeginInv, CompleteInv, InFlight, callVars, wireVars,
     claimVars
<1>. QED
  BY <1>4, <1>5, <1>6 DEF Kept

-----------------------------------------------------------------------------
(* The inductive invariant of a recording.                                 *)
THEOREM RecordInvariant == Spec => []Inv
<1>1. Init => Inv
  <2>. SUFFICES ASSUME Init PROVE Inv
    OBVIOUS
  <2>. USE DEF Init, StoreInit, CoordinatorInit, NoSummary
  <2>1. TypeOK
    <3>1. StoreTypeOK /\ Len(log) = 0
      BY DEF StoreTypeOK, Statuses
    <3>2. CoordinatorTypeOK
      BY DEF CoordinatorTypeOK
    <3>3. granted \in [Calls -> 0..Len(log)]
      BY <3>1
    <3>. QED
      BY <3>1, <3>2, <3>3 DEF TypeOK
  <2>2. StoreInv
    BY <2>1 DEF TypeOK, StoreInv, OccurrenceIsRank, OpenIsLast, CompletedIsWhole, Incomplete,
       SameKey
  <2>3. SessionInv /\ \A c \in Calls : CallInv(c)
    BY DEF SessionInv, CallInv, IdleInv, WriterInv, BeginInv, CompleteInv, InFlight
  <2>. QED
    BY <2>1, <2>2, <2>3 DEF Inv
<1>2. Inv /\ [Next]_vars => Inv'
  <2>. SUFFICES ASSUME Inv, [Next]_vars PROVE Inv'
    OBVIOUS
  <2>1. StoreInv'
    BY StoreInvKept
  <2>2. CASE UNCHANGED vars
    BY <2>1, <2>2 DEF vars, Inv, TypeOK, StoreInv, CoordinatorTypeOK, SessionInv, CallInv, IdleInv,
       WriterInv, BeginInv, CompleteInv, InFlight, coordinatorVars, callVars, wireVars, claimVars,
       serverVars, recordVars, storeVars
  <2>3. CASE Next
    <3>1. Kept
      BY <2>3, CoordinatorKeeps, AdapterKeeps, HandleBeginKeeps, HandleCompleteKeeps,
         StoreFailsKeeps, HandleLeakKeeps, FinishKeeps DEF Next, EngineStep
    <3>. QED
      BY <2>1, <3>1 DEF Kept, Inv
  <2>. QED
    BY <2>2, <2>3
<1>. QED
  BY <1>1, <1>2, PTL DEF Spec

(* A recording is a correct use of its store.                              *)
THEOREM RecordImplementsStore == Spec => StoreSpec
<1>1. Init => StoreInit
  BY DEF Init
<1>2. Inv /\ [Next]_vars => [StoreNext]_storeVars
  BY StepIsStoreStep
<1>. QED
  BY <1>1, <1>2, RecordInvariant, PTL DEF Spec, StoreSpec

(* Type correctness.                                                       *)
THEOREM RecordTypeOK == Spec => []TypeOK
BY RecordInvariant, PTL DEF Inv

(* However processes race for the session, its interactions are those of   *)
(* one of them.                                                            *)
THEOREM RecordSingleWriter == Spec => []SingleWriter
<1>1. Inv => SingleWriter
  BY DEF Inv, CallInv, WriterInv, SingleWriter
<1>. QED
  BY <1>1, RecordInvariant, PTL

(* The occurrences of a key are 0, 1, 2 ... in the order of the log.       *)
THEOREM RecordOccurrenceIsRank == Spec => []OccurrenceIsRank
BY RecordInvariant, PTL DEF Inv, StoreInv

(* No finish() stores a session with an open interaction as completed.     *)
THEOREM RecordCompletedIsWhole == Spec => []CompletedIsWhole
BY RecordInvariant, PTL DEF Inv, StoreInv

(* What the server under test was given is what the store holds.           *)
THEOREM RecordReturnedIsRecorded == Spec => []ReturnedIsRecorded
<1>1. Inv => ReturnedIsRecorded
  BY DEF Inv, CallInv, CompleteInv, ReturnedIsRecorded
<1>. QED
  BY <1>1, RecordInvariant, PTL

(* The store of a recording is a recording tape.                           *)
THEOREM RecordIsRecordingTape == Spec => IsRecordingTape
BY RecordImplementsStore, StoreImplementsTape DEF IsRecordingTape

-----------------------------------------------------------------------------
(* What a completed session accounts for.  An interaction belongs to one   *)
(* call and is open until that call's /complete, and an unrecorded call    *)
(* was refused, and counted when it was.                                   *)
OwnInteraction(c) ==
  granted[c] # 0 =>
    /\ endpoint[c] # "/complete" => log[granted[c]].outcome = NoOutcome
    /\ log[granted[c]].outcome \in {NoOutcome, <<c, fetched[c]>>}
    /\ \A d \in Calls : granted[d] = granted[c] => d = c

RefusedInv(c) ==
  /\ endpoint[c] = "/begin" /\ reply[c] = "ok" => granted[c] # 0
  /\ pc[c] \in {"fetch", "encode"} => granted[c] # 0
  /\ pc[c] = "bypass" \/ (fetched[c] # "none" /\ granted[c] = 0) => reply[c] = "WRITER_CONFLICT"

Refused == {c \in Calls : reply[c] = "WRITER_CONFLICT"}

RefusedAreCounted ==
  /\ IsFiniteSet(Refused)
  /\ Cardinality(Refused) <= otherProcessCalls
  /\ summary.outcome = "completed" =>
       /\ server = "closed" /\ status = "completed"
       /\ Cardinality(Refused) <= summary.others

AccountInv ==
  /\ \A c \in Calls : OwnInteraction(c) /\ RefusedInv(c)
  /\ RefusedAreCounted

\* A step in which no call is newly refused and no summary made keeps the count.
LEMMA CountStays ==
  ASSUME RefusedAreCounted, Refused' \subseteq Refused,
         otherProcessCalls' = otherProcessCalls, summary' = summary,
         server = "closed" /\ status = "completed" => server' = "closed" /\ status' = "completed",
         otherProcessCalls \in Nat, summary.others \in Nat
  PROVE  RefusedAreCounted'
<1>1. IsFiniteSet(Refused') /\ Cardinality(Refused') <= Cardinality(Refused)
  BY FS_Subset DEF RefusedAreCounted
<1>2. Cardinality(Refused') \in Nat /\ Cardinality(Refused) \in Nat
  BY <1>1, FS_CardinalityType DEF RefusedAreCounted
<1>3. (IsFiniteSet(Refused))' /\ (Cardinality(Refused))' = Cardinality(Refused')
  BY <1>1
<1>. QED
  BY <1>1, <1>2, <1>3 DEF RefusedAreCounted

LEMMA CoordinatorAccounts ==
  ASSUME Inv, AccountInv, CoordinatorStep
  PROVE  AccountInv'
<1>. UNCHANGED <<storeVars, recordVars>>
  BY DEF CoordinatorStep
<1>0. otherProcessCalls \in Nat /\ summary.others \in Nat /\ RefusedAreCounted
  BY DEF Inv, TypeOK, CoordinatorTypeOK, AccountInv
<1>. DEFINE Calm == /\ \A c \in Calls : OwnInteraction(c)' /\ RefusedInv(c)'
                    /\ Refused' \subseteq Refused
                    /\ otherProcessCalls' = otherProcessCalls
                    /\ server = "closed" => server' = "closed"
<1>. SUFFICES Calm \/ AccountInv'
  BY <1>0, CountStays DEF AccountInv, storeVars, recordVars
<1>. USE DEF Inv, TypeOK, CoordinatorTypeOK, CallInv, IdleInv, BeginInv, AccountInv,
             OwnInteraction, RefusedInv, Refused, InFlight, storeVars, recordVars, callVars,
             wireVars, claimVars, serverVars
<1>1. ASSUME NEW c \in Calls, NEW p \in Processes, StartFetch(c, p, "/begin")
      PROVE  Calm
  BY <1>1 DEF StartFetch, CanCall, Post
<1>2. ASSUME NEW c \in Calls, NEW p \in Adapters, FetchTooLarge(c, p)
      PROVE  Calm
  BY <1>2 DEF FetchTooLarge, CanCall
<1>3. ASSUME NEW c \in Calls, RequestTimeout(c)
      PROVE  Calm
  BY <1>3 DEF RequestTimeout
<1>4. ASSUME NEW c \in Calls, Unavailable(c)
      PROVE  Calm
  BY <1>4 DEF Unavailable
<1>5. ASSUME NEW c \in Calls, RefuseStranger(c)
      PROVE  Calm
  BY <1>5 DEF RefuseStranger, Answer
<1>7. ASSUME NEW c \in Calls, RefuseBody(c)
      PROVE  Calm
  BY <1>7 DEF RefuseBody, BodyRead, Answer
<1>8. ASSUME NEW c \in Calls, RequestLost(c)
      PROVE  Calm
  BY <1>8 DEF RequestLost
<1>9. ASSUME NEW p \in Processes, ProcessGone(p)
      PROVE  Calm
  BY <1>9 DEF ProcessGone, Settled
<1>10. ASSUME NEW s \in {"completed", "failed"}, CallFinish(s)
      PROVE  Calm
  BY <1>10 DEF CallFinish
<1>11. ASSUME ParentKilled
      PROVE  Calm
  BY <1>11 DEF ParentKilled
<1>6. ASSUME NEW c \in Calls, HandleHead(c)
      PROVE  Calm \/ AccountInv'
  <2>1. CASE writerId' = proc[c]
    BY <1>6, <2>1 DEF HandleHead
  <2>2. CASE writerId' # proc[c]
    <3>1. /\ wire' = [wire EXCEPT ![c] = "answered"]
          /\ reply' = [reply EXCEPT ![c] = "WRITER_CONFLICT"]
          /\ otherProcessCalls' = otherProcessCalls + 1
          /\ server \in {"listening", "closing"}
          /\ UNCHANGED <<pc, endpoint, server>>
      BY <1>6, <2>2 DEF HandleHead, Answer, CountedConflicts
    <3>2. Refused' = Refused \cup {c}
      BY <3>1
    <3>3. \A d \in Calls : OwnInteraction(d)' /\ RefusedInv(d)'
      BY <3>1
    <3>4. (IsFiniteSet(Refused))' /\ (Cardinality(Refused))' <= otherProcessCalls'
      <4>. HIDE DEF Refused
      <4>1. IsFiniteSet(Refused) /\ Cardinality(Refused) \in Nat
        BY <1>0, FS_CardinalityType DEF RefusedAreCounted
      <4>2. /\ IsFiniteSet(Refused \cup {c})
            /\ Cardinality(Refused \cup {c})
                 = IF c \in Refused THEN Cardinality(Refused) ELSE Cardinality(Refused) + 1
        BY <4>1, FS_AddElement
      <4>. QED
        BY <1>0, <3>1, <3>2, <4>1, <4>2 DEF RefusedAreCounted
    <3>5. summary.outcome # "completed" /\ summary' = summary
      BY <1>0, <3>1 DEF RefusedAreCounted
    <3>. QED
      BY <3>3, <3>4, <3>5 DEF RefusedAreCounted
  <2>. QED
    BY <2>1, <2>2
<1>. QED
  BY <1>1, <1>2, <1>3, <1>4, <1>5, <1>6, <1>7, <1>8, <1>9, <1>10, <1>11 DEF CoordinatorStep

LEMMA AdapterAccounts ==
  ASSUME Inv, AccountInv, NEW c \in Calls, AdapterStep(c)
  PROVE  AccountInv'
<1>0. /\ otherProcessCalls \in Nat /\ summary.others \in Nat /\ RefusedAreCounted
      /\ UNCHANGED <<storeVars, otherProcessCalls, server, granted, summary>>
  BY DEF Inv, TypeOK, CoordinatorTypeOK, AccountInv, AdapterStep, BeginAnswered, RealFetch,
     SendComplete, EncodeFails, CompleteAnswered, BypassFetch, Proceed, claimVars, serverVars
<1>. DEFINE Calm == /\ \A d \in Calls : OwnInteraction(d)' /\ RefusedInv(d)'
                    /\ Refused' \subseteq Refused
<1>. SUFFICES Calm
  BY <1>0, CountStays DEF AccountInv, storeVars
<1>. USE <1>0
     DEF Proceed, Inv, TypeOK, CoordinatorTypeOK, CallInv, BeginInv, AccountInv,
         OwnInteraction, RefusedInv, Refused, storeVars, wireVars
<1>1. ASSUME BeginAnswered(c)
      PROVE  Calm
  BY <1>1 DEF BeginAnswered, Answered, AfterBegin
<1>2. ASSUME NEW kind \in Kinds, RealFetch(c, kind)
      PROVE  Calm
  BY <1>2 DEF RealFetch
<1>3. ASSUME SendComplete(c)
      PROVE  Calm
  BY <1>3 DEF SendComplete, Post
<1>4. ASSUME EncodeFails(c)
      PROVE  Calm
  BY <1>4 DEF EncodeFails
<1>5. ASSUME CompleteAnswered(c)
      PROVE  Calm
  BY <1>5 DEF CompleteAnswered, Answered, AfterComplete
<1>6. ASSUME NEW kind \in Kinds, BypassFetch(c, kind)
      PROVE  Calm
  BY <1>6 DEF BypassFetch
<1>. QED
  BY <1>1, <1>2, <1>3, <1>4, <1>5, <1>6 DEF AdapterStep

LEMMA EngineAccounts ==
  ASSUME Inv, AccountInv, NEW c \in Calls, EngineStep(c)
  PROVE  AccountInv'
<1>0. /\ otherProcessCalls \in Nat /\ summary.others \in Nat /\ RefusedAreCounted
      /\ log \in Seq(Interaction) /\ Len(log) \in Nat /\ DOMAIN log = 1..Len(log)
      /\ granted \in [Calls -> 0..Len(log)]
      /\ wire[c] = "reading" /\ server \in {"listening", "closing"}
      /\ wire' = [wire EXCEPT ![c] = "answered"]
      /\ \E r \in Replies \ {"WRITER_CONFLICT"} : reply' = [reply EXCEPT ![c] = r]
      /\ UNCHANGED <<callVars, endpoint, claimVars, serverVars, fetched, summary>>
  <2>1. /\ otherProcessCalls \in Nat /\ summary.others \in Nat /\ RefusedAreCounted
        /\ log \in Seq(Interaction) /\ Len(log) \in Nat /\ DOMAIN log = 1..Len(log)
        /\ granted \in [Calls -> 0..Len(log)]
    BY DEF Inv, TypeOK, StoreTypeOK, CoordinatorTypeOK, AccountInv
  <2>2. /\ ReserveVerdict(key[c]) \in Replies \ {"WRITER_CONFLICT"}
        /\ CompleteVerdict(granted[c]) \in Replies \ {"WRITER_CONFLICT"}
    BY DEF ReserveVerdict, CompleteVerdict, Replies
  <2>. HIDE DEF ReserveVerdict, CompleteVerdict
  <2>3. /\ wire[c] = "reading" /\ server \in {"listening", "closing"}
        /\ UNCHANGED <<callVars, endpoint, claimVars, serverVars, fetched, summary>>
    BY DEF EngineStep, HandleBegin, HandleComplete, StoreFails, HandleLeak, BodyRead, Answer,
       recordVars
  <2>4. \E r \in Replies \ {"WRITER_CONFLICT"} : Answer(c, r)
    BY <2>2 DEF EngineStep, HandleBegin, HandleComplete, StoreFails, HandleLeak, Replies
  <2>. QED
    BY <2>1, <2>3, <2>4 DEF Answer
<1>. DEFINE Calm == \A d \in Calls : OwnInteraction(d)' /\ RefusedInv(d)'
<1>1. Refused' \subseteq Refused
  BY <1>0 DEF Refused, Inv, TypeOK, CoordinatorTypeOK
<1>. SUFFICES Calm
  BY <1>0, <1>1, CountStays DEF AccountInv, claimVars, serverVars
<1>. USE DEF Inv, TypeOK, CoordinatorTypeOK, CallInv, BeginInv, AccountInv, OwnInteraction,
             RefusedInv, InFlight, callVars
<1>2. ASSUME HandleBegin(c)
      PROVE  Calm
  <2>1. endpoint[c] = "/begin" /\ granted[c] = 0
    BY <1>0, <1>2 DEF HandleBegin, BodyRead
  <2>2. CASE ReserveVerdict(key[c]) = "ok"
    <3>1. /\ log' = Append(log, NewInteraction(key[c]))
          /\ granted' = [granted EXCEPT ![c] = Len(log) + 1]
          /\ reply' = [reply EXCEPT ![c] = "ok"]
      BY <1>2, <2>2 DEF HandleBegin, Reserve, NextId, Answer
    <3>2. /\ \A i \in 1..Len(log) : log'[i] = log[i]
          /\ log'[Len(log) + 1].outcome = NoOutcome
      BY <1>0, <3>1 DEF NewInteraction
    <3>3. ASSUME NEW d \in Calls PROVE OwnInteraction(d)'
      BY <1>0, <2>1, <3>1, <3>2
    <3>4. ASSUME NEW d \in Calls PROVE RefusedInv(d)'
      BY <1>0, <2>1, <3>1
    <3>. QED
      BY <3>3, <3>4
  <2>3. CASE ReserveVerdict(key[c]) # "ok"
    <3>1. UNCHANGED <<log, granted>> /\ reply' = [reply EXCEPT ![c] = ReserveVerdict(key[c])]
      BY <1>2, <2>3 DEF HandleBegin, Answer, storeVars
    <3>. HIDE DEF ReserveVerdict
    <3>. QED
      BY <1>0, <2>1, <2>3, <3>1
  <2>. QED
    BY <2>2, <2>3
<1>3. ASSUME HandleComplete(c)
      PROVE  Calm
  <2>1. endpoint[c] = "/complete" /\ granted' = granted
    BY <1>3 DEF HandleComplete, BodyRead, recordVars
  <2>2. ASSUME NEW d \in Calls PROVE RefusedInv(d)'
    BY <1>0, <2>1
  <2>3. CASE CompleteVerdict(granted[c]) = "ok"
    <3>1. /\ granted[c] \in DOMAIN log
          /\ log' = [log EXCEPT ![granted[c]] = [log[granted[c]] EXCEPT !.outcome = <<c, fetched[c]>>]]
      BY <1>3, <2>3 DEF HandleComplete, Complete, CompleteVerdict
    <3>2. log[granted[c]] \in Interaction
      BY <1>0, <3>1
    <3>3. /\ log'[granted[c]].outcome = <<c, fetched[c]>>
          /\ \A i \in DOMAIN log \ {granted[c]} : log'[i] = log[i]
      BY <1>0, <3>1, <3>2 DEF Interaction
    <3>4. ASSUME NEW d \in Calls PROVE OwnInteraction(d)'
      BY <1>0, <2>1, <3>1, <3>3
    <3>. QED
      BY <2>2, <3>4
  <2>4. CASE CompleteVerdict(granted[c]) # "ok"
    <3>1. UNCHANGED log
      BY <1>3, <2>4 DEF HandleComplete, storeVars
    <3>. QED
      BY <1>0, <2>1, <2>2, <3>1
  <2>. QED
    BY <2>3, <2>4
<1>4. ASSUME NEW path \in {"/begin", "/complete"}, HandleLeak(c, path)
      PROVE  Calm
  <2>1. UNCHANGED <<log, granted>>
        /\ reply' = [reply EXCEPT ![c] = "EXTERNAL_REDACTION_INVARIANT_VIOLATION"]
    BY <1>4 DEF HandleLeak, VoidSession, Finish, Answer, storeVars
  <2>. QED
    BY <1>0, <2>1
<1>5. ASSUME NEW path \in {"/begin", "/complete"}, StoreFails(c, path)
      PROVE  Calm
  <2>1. UNCHANGED <<log, granted>> /\ reply' = [reply EXCEPT ![c] = "COORDINATOR_INTERNAL"]
    BY <1>5 DEF StoreFails, Answer, storeVars, recordVars
  <2>. QED
    BY <1>0, <2>1
<1>. QED
  BY <1>2, <1>3, <1>4, <1>5 DEF EngineStep

\* finish() behind the closed server: what it was asked for is what it says.
LEMMA FinishAccounts ==
  ASSUME Inv, AccountInv, FinishEngine \/ FinishFails
  PROVE  AccountInv'
<1>1. /\ server' = "closed"
      /\ UNCHANGED <<log, callVars, wireVars, claimVars, fetched, granted>>
  BY DEF FinishEngine, FinishFails, ServerClosed, Finish, storeVars
<1>2. \A c \in Calls : OwnInteraction(c)' /\ RefusedInv(c)'
  BY <1>1 DEF AccountInv, OwnInteraction, RefusedInv, callVars, wireVars
<1>3. (IsFiniteSet(Refused))' /\ (Cardinality(Refused))' <= otherProcessCalls'
  BY <1>1 DEF AccountInv, RefusedAreCounted, Refused, wireVars, claimVars
<1>4. summary'.outcome = "completed" =>
        status' = "completed" /\ summary'.others = otherProcessCalls'
  BY <1>1 DEF FinishEngine, FinishFails, Finish, claimVars
<1>. QED
  BY <1>1, <1>2, <1>3, <1>4 DEF AccountInv, RefusedAreCounted

(* Together with the invariant of the recording it is inductive.           *)
THEOREM RecordAccounts == Spec => []AccountInv
<1>1. Init => AccountInv
  <2>. SUFFICES ASSUME Init PROVE AccountInv
    OBVIOUS
  <2>1. Refused = {} /\ otherProcessCalls = 0 /\ summary.outcome = "none"
    BY DEF Init, CoordinatorInit, NoSummary, Refused
  <2>2. RefusedAreCounted
    BY <2>1, FS_EmptySet DEF RefusedAreCounted
  <2>3. \A c \in Calls : OwnInteraction(c) /\ RefusedInv(c)
    BY DEF Init, CoordinatorInit, OwnInteraction, RefusedInv
  <2>. QED
    BY <2>2, <2>3 DEF AccountInv
<1>2. Inv /\ AccountInv /\ [Next]_vars => AccountInv'
  <2>. SUFFICES ASSUME Inv, AccountInv, [Next]_vars PROVE AccountInv'
    OBVIOUS
  <2>1. CASE UNCHANGED vars
    BY <2>1 DEF vars, AccountInv, OwnInteraction, RefusedInv, RefusedAreCounted, Refused,
       coordinatorVars, callVars, wireVars, claimVars, serverVars, recordVars, storeVars
  <2>2. CASE Next
    BY <2>2, CoordinatorAccounts, AdapterAccounts, EngineAccounts, FinishAccounts DEF Next
  <2>. QED
    BY <2>1, <2>2
<1>. QED
  BY <1>1, <1>2, RecordInvariant, PTL DEF Spec

(* A completed session accounts for every real call.                       *)
THEOREM RecordCompletedAccounts == Spec => []CompletedAccountsForRealCalls
<1>1. Inv /\ AccountInv => CompletedAccountsForRealCalls
  <2>. SUFFICES ASSUME Inv, AccountInv, summary.outcome = "completed"
                PROVE  /\ \A c \in Calls : fetched[c] # "none" /\ granted[c] # 0
                            => log[granted[c]].outcome = <<c, fetched[c]>>
                       /\ Cardinality(Unrecorded) <= summary.others
    BY DEF CompletedAccountsForRealCalls
  <2>1. RefusedAreCounted /\ summary.others \in Nat /\ Incomplete = {}
    BY DEF Inv, TypeOK, StoreInv, CompletedIsWhole, AccountInv, RefusedAreCounted
  <2>2. ASSUME NEW c \in Calls, fetched[c] # "none", granted[c] # 0
        PROVE  log[granted[c]].outcome = <<c, fetched[c]>>
    <3>1. granted[c] \in DOMAIN log
      BY <2>2 DEF Inv, TypeOK, StoreTypeOK
    <3>2. log[granted[c]].outcome # NoOutcome
      BY <2>1, <3>1 DEF Incomplete
    <3>. QED
      BY <2>2, <3>2 DEF AccountInv, OwnInteraction
  <2>3. Unrecorded \subseteq Refused
    BY DEF Unrecorded, Refused, AccountInv, RefusedInv
  <2>4. /\ IsFiniteSet(Refused) /\ IsFiniteSet(Unrecorded)
        /\ Cardinality(Unrecorded) <= Cardinality(Refused)
    BY <2>1, <2>3, FS_Subset DEF RefusedAreCounted
  <2>5. Cardinality(Unrecorded) \in Nat /\ Cardinality(Refused) \in Nat
    BY <2>4, FS_CardinalityType
  <2>. QED
    BY <2>1, <2>2, <2>4, <2>5 DEF RefusedAreCounted
<1>. QED
  BY <1>1, RecordInvariant, RecordAccounts, PTL

-----------------------------------------------------------------------------
(* What a leak leaves.  An interaction stays open until a /complete of its *)
(* call is answered with ok, which a leaked outcome never is; and a leaked *)
(* request has failed the session, unless the store did not let it.        *)
LeakInv(c) ==
  /\ endpoint[c] = "/complete" =>
       granted[c] # 0 /\ (reply[c] # "ok" => log[granted[c]].outcome = NoOutcome)
  /\ c \in Leaked("/begin") \ unvoided => status = "failed"

\* What the store and the wire may do without touching the promise of c.
LEMMA LeakStays ==
  ASSUME NEW c \in Calls, LeakInv(c),
         endpoint'[c] = endpoint[c], reply'[c] = reply[c], granted'[c] = granted[c],
         granted[c] # 0 => log'[granted[c]].outcome = log[granted[c]].outcome,
         status = "failed" => status' = "failed", unvoided \subseteq unvoided'
  PROVE  LeakInv(c)'
BY DEF LeakInv, Leaked

LEMMA CoordinatorLeaks ==
  ASSUME Inv, CoordinatorStep, NEW c \in Calls, LeakInv(c)
  PROVE  LeakInv(c)'
<1>1. UNCHANGED <<storeVars, recordVars>>
  BY DEF CoordinatorStep
<1>2. CASE endpoint'[c] = endpoint[c] /\ reply'[c] = reply[c]
  BY <1>1, <1>2, LeakStays DEF storeVars, recordVars
<1>3. ASSUME NEW b \in Calls, NEW p \in Processes, StartFetch(b, p, "/begin")
      PROVE  LeakInv(c)'
  BY <1>1, <1>2, <1>3 DEF StartFetch, Post, LeakInv, Leaked, Inv, TypeOK, CoordinatorTypeOK
<1>4. ASSUME NEW b \in Calls, RefuseStranger(b) \/ HandleHead(b) \/ RefuseBody(b)
      PROVE  LeakInv(c)'
  <2>1. /\ wire[b] \in {"sent", "reading"}
        /\ endpoint' = endpoint
        /\ \/ reply' = reply
           \/ \E r \in {"AUTH_FORBIDDEN", "WRITER_CONFLICT", "REQUEST_INVALID"} :
                reply' = [reply EXCEPT ![b] = r]
    BY <1>4 DEF RefuseStranger, HandleHead, RefuseBody, BodyRead, Answer
  <2>2. reply[b] = "none" /\ reply \in [Calls -> Replies \cup {"none"}]
    BY <2>1 DEF Inv, CallInv, BeginInv, TypeOK, CoordinatorTypeOK
  <2>. QED
    BY <1>1, <1>2, <2>1, <2>2 DEF LeakInv, Leaked, storeVars, recordVars
<1>5. ASSUME UNCHANGED <<endpoint, reply>> PROVE LeakInv(c)'
  BY <1>2, <1>5
<1>. QED
  BY <1>3, <1>4, <1>5 DEF CoordinatorStep, FetchTooLarge, RequestTimeout, Unavailable, RequestLost,
     ProcessGone, CallFinish, ParentKilled, wireVars

LEMMA AdapterLeaks ==
  ASSUME Inv, AccountInv, NEW b \in Calls, AdapterStep(b), NEW c \in Calls, LeakInv(c)
  PROVE  LeakInv(c)'
<1>1. UNCHANGED <<storeVars, granted, unvoided>>
  BY DEF AdapterStep, BeginAnswered, RealFetch, SendComplete, EncodeFails, CompleteAnswered,
     BypassFetch, Proceed
<1>2. CASE endpoint'[c] = endpoint[c] /\ reply'[c] = reply[c]
  BY <1>1, <1>2, LeakStays DEF storeVars
<1>3. CASE SendComplete(b)
  <2>1. /\ pc[b] = "encode"
        /\ endpoint' = [endpoint EXCEPT ![b] = "/complete"]
        /\ reply' = [reply EXCEPT ![b] = "none"]
    BY <1>3 DEF SendComplete, Post
  <2>2. granted[b] # 0 /\ log[granted[b]].outcome = NoOutcome
    BY <2>1 DEF Inv, CallInv, BeginInv, AccountInv, RefusedInv, OwnInteraction
  <2>. QED
    BY <1>1, <1>2, <2>1, <2>2 DEF LeakInv, Leaked, storeVars, Inv, TypeOK, CoordinatorTypeOK
<1>4. CASE UNCHANGED wireVars
  BY <1>2, <1>4 DEF wireVars
<1>. QED
  BY <1>3, <1>4 DEF AdapterStep, BeginAnswered, RealFetch, EncodeFails, CompleteAnswered, BypassFetch

LEMMA EngineLeaks ==
  ASSUME Inv, AccountInv, NEW b \in Calls, EngineStep(b), NEW c \in Calls, LeakInv(c)
  PROVE  LeakInv(c)'
<1>0. /\ wire[b] = "reading" /\ reply[b] = "none" /\ endpoint' = endpoint
      /\ reply \in [Calls -> Replies \cup {"none"}]
      /\ log \in Seq(Interaction) /\ granted \in [Calls -> 0..Len(log)]
      /\ Len(log) \in Nat /\ DOMAIN log = 1..Len(log)
  BY DEF EngineStep, HandleBegin, HandleComplete, StoreFails, HandleLeak, BodyRead, Answer, Inv,
     CallInv, BeginInv, TypeOK, StoreTypeOK, CoordinatorTypeOK
<1>1. CASE HandleBegin(b)
  <2>1. /\ endpoint[b] = "/begin" /\ unvoided' = unvoided /\ status' = status
        /\ reply' = [reply EXCEPT ![b] = ReserveVerdict(key[b])]
        /\ ReserveVerdict(key[b]) # "EXTERNAL_REDACTION_INVARIANT_VIOLATION"
    BY <1>1 DEF HandleBegin, BodyRead, Answer, Reserve, storeVars, ReserveVerdict
  <2>2. CASE c = b
    BY <1>0, <2>1, <2>2 DEF LeakInv, Leaked
  <2>3. CASE c # b
    <3>1. \/ log' = Append(log, NewInteraction(key[b])) /\ granted' = [granted EXCEPT ![b] = Len(log) + 1]
          \/ log' = log /\ granted' = granted
      BY <1>1 DEF HandleBegin, Reserve, NextId, storeVars
    <3>2. /\ granted'[c] = granted[c]
          /\ granted[c] # 0 => log'[granted[c]].outcome = log[granted[c]].outcome
      BY <1>0, <2>3, <3>1
    <3>. QED
      BY <1>0, <2>1, <2>3, <3>2, LeakStays
  <2>. QED
    BY <2>2, <2>3
<1>2. CASE HandleComplete(b)
  <2>1. /\ endpoint[b] = "/complete" /\ granted' = granted /\ unvoided' = unvoided /\ status' = status
        /\ reply' = [reply EXCEPT ![b] = CompleteVerdict(granted[b])]
    BY <1>2 DEF HandleComplete, BodyRead, Answer, Complete, storeVars, recordVars
  <2>2. \/ /\ CompleteVerdict(granted[b]) = "ok" /\ granted[b] \in DOMAIN log
           /\ log' = [log EXCEPT ![granted[b]] = [log[granted[b]] EXCEPT !.outcome = <<b, fetched[b]>>]]
        \/ CompleteVerdict(granted[b]) # "ok" /\ log' = log
    BY <1>2 DEF HandleComplete, Complete, CompleteVerdict, storeVars
  <2>. HIDE DEF CompleteVerdict
  <2>3. CASE c = b
    BY <1>0, <2>1, <2>2, <2>3 DEF LeakInv, Leaked
  <2>4. CASE c # b
    <3>1. granted[c] # 0 => granted[c] # granted[b]
      BY <2>4 DEF AccountInv, OwnInteraction
    <3>2. granted[c] # 0 => log'[granted[c]].outcome = log[granted[c]].outcome
      BY <1>0, <2>2, <3>1
    <3>. QED
      BY <1>0, <2>1, <2>4, <3>2, LeakStays
  <2>. QED
    BY <2>3, <2>4
<1>3. ASSUME NEW path \in {"/begin", "/complete"}, StoreFails(b, path)
      PROVE  LeakInv(c)'
  <2>1. /\ UNCHANGED <<status, log, granted, unvoided>>
        /\ reply' = [reply EXCEPT ![b] = "COORDINATOR_INTERNAL"]
    BY <1>3 DEF StoreFails, Answer, storeVars, recordVars
  <2>. QED
    BY <1>0, <2>1 DEF LeakInv, Leaked
<1>4. ASSUME NEW path \in {"/begin", "/complete"}, HandleLeak(b, path)
      PROVE  LeakInv(c)'
  <2>1. UNCHANGED <<log, granted>>
        /\ reply' = [reply EXCEPT ![b] = "EXTERNAL_REDACTION_INVARIANT_VIOLATION"]
        /\ server \in {"listening", "closing"}
        /\ \/ status' = FinalStatus("failed") /\ unvoided' = unvoided
           \/ status' = status /\ unvoided' = unvoided \cup {b}
    BY <1>4 DEF HandleLeak, BodyRead, VoidSession, Finish, Answer, storeVars
  <2>2. FinalStatus("failed") = "failed"
    BY <2>1 DEF FinalStatus, FinishVerdict, Inv, SessionInv, TypeOK, StoreTypeOK, Statuses
  <2>. QED
    BY <1>0, <2>1, <2>2 DEF LeakInv, Leaked
<1>. QED
  BY <1>1, <1>2, <1>3, <1>4 DEF EngineStep

LEMMA FinishLeaks ==
  ASSUME FinishEngine \/ FinishFails, NEW c \in Calls, LeakInv(c)
  PROVE  LeakInv(c)'
<1>1. /\ UNCHANGED <<log, wireVars, granted, unvoided>>
      /\ status = "failed" => status' = "failed"
  BY DEF FinishEngine, FinishFails, ServerClosed, Finish, FinalStatus, storeVars
<1>. QED
  BY <1>1, LeakStays DEF wireVars

(* It is inductive beside the two invariants above.                        *)
THEOREM RecordLeaks == Spec => [](\A c \in Calls : LeakInv(c))
<1>. DEFINE Leaks == \A c \in Calls : LeakInv(c)
<1>1. Init => Leaks
  BY DEF Init, CoordinatorInit, LeakInv, Leaked
<1>2. Inv /\ AccountInv /\ Leaks /\ [Next]_vars => Leaks'
  <2>. SUFFICES ASSUME Inv, AccountInv, Leaks, [Next]_vars, NEW c \in Calls PROVE LeakInv(c)'
    OBVIOUS
  <2>1. CASE UNCHANGED vars
    BY <2>1, LeakStays DEF vars, coordinatorVars, wireVars, recordVars, storeVars
  <2>2. CASE Next
    BY <2>2, CoordinatorLeaks, AdapterLeaks, EngineLeaks, FinishLeaks DEF Next
  <2>. QED
    BY <2>1, <2>2
<1>. QED
  BY <1>1, <1>2, RecordInvariant, RecordAccounts, PTL DEF Spec

(* No leaked outcome is in a completed session, and a leaked request only  *)
(* where the store itself refused the verdict.                             *)
THEOREM RecordLeakVoidsSession == Spec => []LeakVoidsSession
<1>1. Inv /\ (\A c \in Calls : LeakInv(c)) => LeakVoidsSession
  <2>. SUFFICES ASSUME Inv, \A c \in Calls : LeakInv(c), status = "completed"
                PROVE  Leaked("/complete") = {} /\ Leaked("/begin") \subseteq unvoided
    BY DEF LeakVoidsSession
  <2>1. ASSUME NEW c \in Leaked("/complete") PROVE FALSE
    <3>1. granted[c] \in DOMAIN log /\ log[granted[c]].outcome = NoOutcome
      BY <2>1 DEF LeakInv, Leaked, Inv, TypeOK, StoreTypeOK
    <3>. QED
      BY <3>1 DEF Inv, StoreInv, CompletedIsWhole, Incomplete
  <2>2. Leaked("/begin") \subseteq unvoided
    BY DEF LeakInv, Leaked
  <2>. QED
    BY <2>1, <2>2
<1>. QED
  BY <1>1, RecordInvariant, RecordLeaks, PTL
=============================================================================
