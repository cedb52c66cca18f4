--------------------------- MODULE ExternalRecord ---------------------------
(***************************************************************************)
(* Recording.  Each call the adapter intercepts does a /begin, the real    *)
(* call and a /complete; the record engine behind the Coordinator writes   *)
(* the session store.  Requests may be slow, lost with a dying process or  *)
(* answered too late; the parent may finish at any moment and may be       *)
(* killed; and the file behind the store may refuse any single access.     *)
(***************************************************************************)
EXTENDS Coordinator

VARIABLES
  fetched,     \* per call, how the real call ended
  granted,     \* per call, the interaction /begin reserved for it (0: none)
  summary,     \* what finish() settled with
  unvoided     \* history: leaks whose verdict the store did not take

recordVars == <<fetched, granted, summary, unvoided>>
vars == <<storeVars, coordinatorVars, recordVars>>

Kinds     == {"response", "throw"}
NoSummary == [outcome |-> "none", others |-> 0]

\* Every real call answers with something of its own, a response or a throw.
ASSUME AnswerAssumption == Calls \X Kinds \subseteq Outcomes

TypeOK ==
  /\ StoreTypeOK
  /\ CoordinatorTypeOK
  /\ fetched \in [Calls -> Kinds \cup {"none"}]
  /\ granted \in [Calls -> 0..Len(log)]
  /\ summary \in [outcome : Statuses \cup {"none", "INCOMPLETE_SESSION", "STORE_ERROR"}, others : Nat]
  /\ unvoided \subseteq Calls

Init ==
  /\ StoreInit
  /\ CoordinatorInit(TRUE)
  /\ fetched = [c \in Calls |-> "none"]
  /\ granted = [c \in Calls |-> 0]
  /\ summary = NoSummary
  /\ unvoided = {}

-----------------------------------------------------------------------------
(* The fetch adapter, in a child.                                          *)

\* Moves the adapter on without touching anything else but its own call.
Proceed(c, to) ==
  /\ pc' = [pc EXCEPT ![c] = to]
  /\ UNCHANGED <<storeVars, proc, key, claimVars, serverVars, granted, summary, unvoided>>

\* A reservation leads to the real call, and so does the writer conflict,
\* unrecorded; every other error is thrown.
AfterBegin(r) ==
  CASE r = "ok" -> "fetch" [] r = "WRITER_CONFLICT" -> "bypass" [] OTHER -> "threw"

BeginAnswered(c) ==
  /\ Answered(c, "/begin")
  /\ Proceed(c, AfterBegin(reply[c]))
  /\ UNCHANGED <<wireVars, fetched>>

\* The real call of a reserved interaction.
RealFetch(c, kind) ==
  /\ pc[c] = "fetch"
  /\ fetched' = [fetched EXCEPT ![c] = kind]
  /\ Proceed(c, "encode")
  /\ UNCHANGED wireVars

\* The outcome is encoded and sent.
SendComplete(c) ==
  /\ pc[c] = "encode"
  /\ Post(c, "/complete")
  /\ Proceed(c, "request")
  /\ UNCHANGED fetched

\* A response the recording cannot hold: the encoder throws, nothing is sent.
EncodeFails(c) ==
  /\ pc[c] = "encode"
  /\ fetched[c] = "response"
  /\ Proceed(c, "threw")
  /\ UNCHANGED <<wireVars, fetched>>

\* Weakened: the response is handed over whatever /complete answered.
AfterCompleteUnchecked(c) == IF fetched[c] = "response" THEN "returned" ELSE "threw"

\* Only a stored response is handed over; an error, of the real call or of
\* /complete, is thrown.
AfterComplete(c) ==
  IF reply[c] = "ok" /\ fetched[c] = "response" THEN "returned" ELSE "threw"

CompleteAnswered(c) ==
  /\ Answered(c, "/complete")
  /\ Proceed(c, AfterComplete(c))
  /\ UNCHANGED <<wireVars, fetched>>

\* The unrecorded call of a process that is not the writer.
BypassFetch(c, kind) ==
  /\ pc[c] = "bypass"
  /\ fetched' = [fetched EXCEPT ![c] = kind]
  /\ Proceed(c, IF kind = "response" THEN "returned" ELSE "threw")
  /\ UNCHANGED wireVars

-----------------------------------------------------------------------------
(* The record engine, behind the Coordinator.                              *)

\* The id of the interaction that is about to be reserved.
NextId == Len(log) + 1

HandleBegin(c) ==
  /\ BodyRead(c, "/begin")
  /\ IF ReserveVerdict(key[c]) = "ok"
       THEN /\ Reserve(key[c])
            /\ granted' = [granted EXCEPT ![c] = NextId]
       ELSE UNCHANGED <<storeVars, granted>>
  /\ Answer(c, ReserveVerdict(key[c]))
  /\ UNCHANGED <<callVars, claimVars, serverVars, fetched, summary, unvoided>>

HandleComplete(c) ==
  /\ BodyRead(c, "/complete")
  /\ IF CompleteVerdict(granted[c]) = "ok"
       THEN Complete(granted[c], <<c, fetched[c]>>)
       ELSE UNCHANGED storeVars
  /\ Answer(c, CompleteVerdict(granted[c]))
  /\ UNCHANGED <<callVars, claimVars, serverVars, recordVars>>

\* SQLite refuses an access, for a lock or an I/O error: nothing is stored.
StoreFails(c, path) ==
  /\ BodyRead(c, path)
  /\ Answer(c, "COORDINATOR_INTERNAL")
  /\ UNCHANGED <<storeVars, callVars, claimVars, serverVars, recordVars>>

\* What a broken redaction invariant does to the session.  An error of the
\* store is swallowed, and the session stays as it was.
VoidSession(c) ==
  \/ Finish("failed") /\ UNCHANGED unvoided
  \/ UNCHANGED storeVars /\ unvoided' = unvoided \cup {c}

\* A body that breaks the redaction invariant, at either endpoint.
HandleLeak(c, path) ==
  /\ BodyRead(c, path)
  /\ VoidSession(c)
  /\ Answer(c, "EXTERNAL_REDACTION_INVARIANT_VIOLATION")
  /\ UNCHANGED <<callVars, claimVars, serverVars, fetched, granted, summary>>

\* The server has closed: the engine finishes and the summary is made.
FinishEngine ==
  /\ ServerClosed
  /\ Finish(finishAs)
  /\ summary' = IF FinishVerdict(finishAs) = "ok"
                  THEN [outcome |-> FinalStatus(finishAs), others |-> otherProcessCalls]
                  ELSE [outcome |-> "INCOMPLETE_SESSION", others |-> 0]
  /\ UNCHANGED <<fetched, granted, unvoided>>

\* The same with an error of SQLite, before the status is stored or after.
FinishFails ==
  /\ ServerClosed
  /\ Finish(finishAs) \/ UNCHANGED storeVars
  /\ summary' = [outcome |-> "STORE_ERROR", others |-> 0]
  /\ UNCHANGED <<fetched, granted, unvoided>>

-----------------------------------------------------------------------------
AdapterStep(c) ==
  \/ BeginAnswered(c)
  \/ \E kind \in Kinds : RealFetch(c, kind)
  \/ SendComplete(c)
  \/ EncodeFails(c)
  \/ CompleteAnswered(c)
  \/ \E kind \in Kinds : BypassFetch(c, kind)

EngineStep(c) ==
  \/ HandleBegin(c)
  \/ HandleComplete(c)
  \/ \E path \in {"/begin", "/complete"} : StoreFails(c, path) \/ HandleLeak(c, path)

\* Steps that leave the store and the engine alone.
CoordinatorStep ==
  /\ \/ \E c \in Calls, p \in Processes : StartFetch(c, p, "/begin")
     \/ \E c \in Calls, p \in Adapters : FetchTooLarge(c, p)
     \/ \E c \in Calls : RequestTimeout(c)
     \/ \E c \in Calls : Unavailable(c)
     \/ \E c \in Calls : RefuseStranger(c)
     \/ \E c \in Calls : HandleHead(c)
     \/ \E c \in Calls : RefuseBody(c)
     \/ \E c \in Calls : RequestLost(c)
     \/ \E p \in Processes : ProcessGone(p)
     \/ \E s \in {"completed", "failed"} : CallFinish(s)
     \/ ParentKilled
  /\ UNCHANGED <<storeVars, recordVars>>

Next ==
  \/ CoordinatorStep
  \/ \E c \in Calls : AdapterStep(c)
  \/ \E c \in Calls : EngineStep(c)
  \/ FinishEngine \/ FinishFails

Spec == Init /\ [][Next]_vars

(***************************************************************************)
(* Node's event loop runs every callback that is ready, in the parent and  *)
(* in every child that is alive; a killed process has no ready callback.   *)
(* Nothing makes the real call answer or the parent call finish(), and no  *)
(* property relies on the request timer.                                   *)
(***************************************************************************)
Fairness ==
  /\ \A c \in Calls :
       /\ WF_vars((RefuseStranger(c) \/ HandleHead(c) \/ Unavailable(c))
                    /\ UNCHANGED <<storeVars, recordVars>>)
       /\ WF_vars(EngineStep(c))
       /\ WF_vars(BeginAnswered(c))
       /\ WF_vars(CompleteAnswered(c))
  /\ WF_vars(FinishEngine \/ FinishFails)

FairSpec == Spec /\ Fairness

-----------------------------------------------------------------------------
(* Every interaction was reserved for one process, the one that holds the  *)
(* claim: processes that race for the session cannot mix their calls.      *)
SingleWriter ==
  \A c \in Calls : granted[c] # 0 => proc[c] = writerId

(* A session whose summary says completed accounts for every real call an  *)
(* adapter made: it is in the log with the outcome the call had, or it is  *)
(* among the refused calls the summary counts.                             *)
Unrecorded == {c \in Calls : fetched[c] # "none" /\ granted[c] = 0}

CompletedAccountsForRealCalls ==
  summary.outcome = "completed" =>
    /\ \A c \in Calls : fetched[c] # "none" /\ granted[c] # 0
         => log[granted[c]].outcome = <<c, fetched[c]>>
    /\ Cardinality(Unrecorded) <= summary.others

(* The server under test never gets a response of a recorded call that the *)
(* store does not hold.                                                    *)
ReturnedIsRecorded ==
  \A c \in Calls : pc[c] = "returned" /\ granted[c] # 0
    => log[granted[c]].outcome = <<c, "response">>

(* A leak is a request whose body, or an outcome, was found unmasked.      *)
Leaked(path) ==
  {c \in Calls : endpoint[c] = path /\ reply[c] = "EXTERNAL_REDACTION_INVARIANT_VIOLATION"}

(* A completed session, which is what can be replayed, had no outcome that *)
(* leaked, although the error of finish("failed") is swallowed: the        *)
(* adapter never sends one again, so its interaction stays open.  A leaked *)
(* request leaves no interaction, and that finish() alone stands against   *)
(* it: a session that had one completes only if the store failed in this   *)
(* very call (the catch of the handler, coordinator.ts).                   *)
LeakVoidsSession ==
  status = "completed" => Leaked("/complete") = {} /\ Leaked("/begin") \subseteq unvoided

(* The store behaves as a recording tape: slots of a key are filled one at *)
(* a time, never rewritten, and the tape is sealed whole or void for good. *)
IsRecordingTape == Tape!Spec

(* finish() settles unless the parent dies first.                          *)
FinishSettles == finishAs # "none" ~> server \in {"closed", "killed"}

(* No call waits for the Coordinator for ever, also when it is gone.       *)
NoCallHangs == \A c \in Calls : pc[c] = "request" ~> pc[c] # "request"
=============================================================================
