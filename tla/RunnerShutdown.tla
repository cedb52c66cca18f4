-------------------------- MODULE RunnerShutdown --------------------------
(***************************************************************************)
(* finalizeRunnerExecution: a run over a stdio connection is ended.  When  *)
(* report and drain have settled the connection is closed, or force-closed *)
(* when drain gave up; a close() that fails or takes too long is followed  *)
(* by forceClose().  Every wait is bounded: the server owes nothing.       *)
(*                                                                         *)
(* The run (RunnerExecutor) and the process (Lifecycle) go on meanwhile.   *)
(* mcpeak test makes the shutdown controller of the connection's methods.  *)
(***************************************************************************)
EXTENDS RunnerExecutor, Lifecycle

VARIABLES
  fin,       \* where finalizeRunnerExecution is
  awaiting,  \* the promise of the connection that it waits for
  errors     \* what it will throw

finVars == <<fin, awaiting, errors>>
vars    == <<phase, results, stop, aborted, call, report, drain, captured,
             lc, child, told, fin, awaiting, errors>>

TypeOK ==
  /\ RunTypeOK
  /\ LifecycleTypeOK
  /\ fin \in {"draining", "closing", "forcing", "returned"}
  /\ awaiting \in {"none", "close", "force", "terminal"}
  /\ errors \subseteq {"report", "close", "force", "forceTimeout"}
  /\ fin \in {"closing", "forcing"} => awaiting # "none"

Init ==
  /\ RunInit
  /\ LifecycleInit
  /\ fin = "draining" /\ awaiting = "none" /\ errors = {}

-----------------------------------------------------------------------------
\* shutdown.close(), shutdown.forceClose(reason)
Close ==
  /\ fin' = "closing"
  /\ lc' \in CloseOutcomes(lc)
  /\ awaiting' = CloseAnswer(lc)
  /\ UNCHANGED <<child, told>>

ForceClose ==
  /\ fin' = "forcing"
  /\ CallForceClose
  /\ awaiting' = ForceAnswer(lc')

\* Weakened: the reason of drain is not looked at.
CloseOrForceAlways == Close

CloseOrForce == IF drain = "deadlineExceeded" THEN ForceClose ELSE Close

Drained ==
  /\ fin = "draining" /\ report # "pending" /\ drain # "pending"
  /\ errors' = IF report = "rejected" THEN {"report"} ELSE {}
  /\ CloseOrForce
  /\ UNCHANGED runVars

Return == fin' = "returned" /\ UNCHANGED <<lc, child, told, awaiting>>

CloseEnds ==
  /\ fin = "closing" /\ Promised(lc, awaiting) # "pending"
  /\ IF Promised(lc, awaiting) = "resolved"
       THEN Return /\ UNCHANGED errors
       ELSE ForceClose /\ errors' = errors \cup {"close"}
  /\ UNCHANGED runVars

\* Weakened: close() is awaited however long it takes.
CloseNeverExpires == FALSE /\ UNCHANGED vars

CloseExpires ==
  /\ fin = "closing"
  /\ ForceClose
  /\ UNCHANGED <<runVars, errors>>

ForceEnds ==
  /\ fin = "forcing" /\ Promised(lc, awaiting) # "pending"
  /\ Return
  /\ errors' = IF Promised(lc, awaiting) = "resolved" THEN errors ELSE errors \cup {"force"}
  /\ UNCHANGED runVars

\* Weakened: the deadline of forceClose() is passed over in silence.
ErrorsOfExpiryNone == errors

ErrorsOfExpiry == errors \cup {"forceTimeout"}

ForceExpires ==
  /\ fin = "forcing"
  /\ Return
  /\ errors' = ErrorsOfExpiry
  /\ UNCHANGED runVars

-----------------------------------------------------------------------------
\* An answer arrives while somebody still reads the server's output.
ServerAnswers ==
  /\ child # "closed" /\ lc.readers = 0
  /\ \E outcome \in {"right", "wrong", "error"} : Answered(outcome)
  /\ UNCHANGED <<lifecycleVars, finVars>>

\* The SDK rejects every call when the connection closes, and refuses any
\* new one; the client tells PROCESS_EXITED or TRANSPORT_FAILED.
ConnectionLost ==
  /\ child = "closed" \/ lc.state = "failed"
  /\ Answered("lost")
  /\ UNCHANGED <<lifecycleVars, finVars>>

\* A call cannot be written to a connection that is being force-closed.
SendFails ==
  /\ lc.state = "forceClosing"
  /\ Answered("error")
  /\ UNCHANGED <<lifecycleVars, finVars>>

\* #transportFailed of the connection.
TransportFails ==
  /\ child # "closed" /\ lc.state \in {"open", "closing"}
  /\ lc' \in ForceCloseOutcomes(lc)
  /\ UNCHANGED <<runVars, child, told, finVars>>

Runner     == RunnerStep /\ UNCHANGED <<lifecycleVars, finVars>>
Connection == (HookEnds \/ TimerFires \/ ChildExits \/ ChildClosed)
                /\ UNCHANGED <<runVars, finVars>>

Next ==
  \/ Runner \/ Connection
  \/ Drained \/ CloseEnds \/ CloseExpires \/ ForceEnds \/ ForceExpires
  \/ ServerAnswers \/ ConnectionLost \/ SendFails \/ TransportFails

Spec == Init /\ [][Next]_vars

-----------------------------------------------------------------------------
(* close() is called only when no call is outstanding: the server is asked *)
(* to end only when it owes no answer.                                     *)
CloseWaitsForCalls == [][fin = "draining" /\ fin' = "closing" => call # "pending"]_vars

(* A run that is finalized without an error has left no process behind;    *)
(* the second run of --determinism starts a server of its own after it.    *)
(* Excepted is what ForceClosedMeansGone of Lifecycle is about: an answer  *)
(* of forceClose() that nothing stands behind.                             *)
FinalizedMeansGone ==
  fin = "returned" /\ errors = {} /\ awaiting # "terminal" => child = "closed"

(* A server that did not answer in time is dead, was sent SIGKILL, or the  *)
(* caller is told that it could not be killed.                             *)
AbandonedIsKilled ==
  fin = "returned" /\ drain = "deadlineExceeded" =>
    child = "closed" \/ lc.killSent \/ errors \cap {"force", "forceTimeout"} # {}
=============================================================================
