----------------------------- MODULE Lifecycle -----------------------------
(***************************************************************************)
(* LifecycleController: how a connection ends the server process it owns.  *)
(* close() ends stdin, then SIGTERM, then SIGKILL, a grace period apart;   *)
(* forceClose() kills at once.  Calls, the asynchronous hook of close(),   *)
(* the deadline timer and the process' close event arrive in any order.    *)
(*                                                                         *)
(* The controller is one record; a method is the set of records it may     *)
(* leave behind, as the streams' and the process' methods may throw.  Time *)
(* is abstract: a deadline that is armed may be due.  A timer that a close *)
(* event overtook fires for nothing and is left out.                       *)
(***************************************************************************)
EXTENDS Naturals

VARIABLES
  lc,     \* the controller
  child,  \* the process: none yet, spawning, running, exited, its close event seen
  told    \* history: the promises that callers of forceClose() were given

lifecycleVars == <<lc, child, told>>

States   == {"open", "closing", "forceClosing", "closed", "failed"}
Promises == {"none", "pending", "resolved", "CLOSE_FAILED", "FORCE_CLOSE_FAILED",
             "FORCE_CLOSE_TIMEOUT"}

Controller ==
  [state    : States,
   closeP   : Promises,                            \* #closePromise
   forceP   : Promises,                            \* #forcePromise
   stage    : {"none", "stdin", "term", "kill"},   \* the armed deadline
   hook     : {"none", "pending", "done"},         \* hooks.normalClose
   readers  : 0..2,                                \* of stdout, stderr: destroyed
   termSent : BOOLEAN,
   killSent : BOOLEAN,
   notified : BOOLEAN]                             \* onProcessClose was called

\* A deadline after SIGKILL has a promise that it may reject.
LifecycleTypeOK ==
  /\ lc \in Controller
  /\ lc.stage = "kill" => lc.forceP # "none"
  /\ child \in {"none", "spawning", "running", "exited", "closed"}
  /\ told \subseteq {"force", "close", "terminal"}

NewController ==
  [state |-> "open", closeP |-> "none", forceP |-> "none", stage |-> "none", hook |-> "none",
   readers |-> 0, termSent |-> FALSE, killSent |-> FALSE, notified |-> FALSE]

\* A promise that is settled, or was never made, stays what it is.
Settle(p, result) == IF p = "pending" THEN result ELSE p

-----------------------------------------------------------------------------
\* #beginForce: readers, stdin, SIGKILL and the deadline, of which each but
\* the last may throw; then what follows is not done.  A reader counts as
\* destroyed before it is.
BeginForce(l, next) ==
  LET begun == [l EXCEPT !.forceP = "pending", !.state = next, !.stage = "none"]
  IN  {[begun EXCEPT !.readers = 2, !.killSent = TRUE, !.stage = "kill"]}
      \cup {[begun EXCEPT !.readers = n, !.state = "failed", !.forceP = "FORCE_CLOSE_FAILED"] :
              n \in {2} \cup (l.readers + 1)..2}

\* Weakened: the promise of close() is left as it is.
FailCloseSilently(l) ==
  IF l.forceP = "none" THEN BeginForce([l EXCEPT !.state = "failed"], "failed")
                       ELSE {[l EXCEPT !.state = "failed"]}

\* #failClose: the error is kept, the clean-up is begun once.
FailClose(l) ==
  LET failed == [l EXCEPT !.state = "failed", !.closeP = Settle(@, "CLOSE_FAILED")]
  IN  IF l.forceP = "none" THEN BeginForce(failed, "failed") ELSE {failed}

\* #finishNormalClose: the readers go, and stdin's grace period begins.
FinishNormalClose(l) ==
  IF l.state # "closing" THEN {l}
  ELSE {[l EXCEPT !.readers = 2, !.stage = "stdin"]}
       \cup UNION {FailClose([l EXCEPT !.readers = n]) : n \in (l.readers + 1)..2}

\* close() of an open connection; the hook may end now, later, or throw.
BeginClose(l) ==
  LET closing == [l EXCEPT !.state = "closing", !.closeP = "pending"]
  IN  {[closing EXCEPT !.hook = "pending"]}
      \cup FinishNormalClose([closing EXCEPT !.hook = "done"])
      \cup FailClose([closing EXCEPT !.hook = "done"])

\* #failForce: a signal could not be sent.
FailForce(l) ==
  [l EXCEPT !.state  = "failed",
            !.forceP = Settle(@, "FORCE_CLOSE_FAILED"),
            !.closeP = Settle(@, "FORCE_CLOSE_FAILED")]

\* #ensureForcePromise
EnsureForcePromise(p) == IF p = "none" THEN "pending" ELSE p

\* Weakened: the time-out counts as success.
TimedOutResolving(p) == Settle(p, "resolved")

\* The process outlived SIGKILL by the whole observation period.
TimedOut(p) == Settle(p, "FORCE_CLOSE_TIMEOUT")

\* The escalation: SIGTERM, SIGKILL, and the end of what can be done.
SendTerm(l) == {[l EXCEPT !.termSent = TRUE, !.stage = "term"], FailForce(l)}

SendKill(l) ==
  {[l EXCEPT !.killSent = TRUE, !.state = "forceClosing", !.stage = "kill",
             !.forceP = EnsureForcePromise(@)],
   FailForce(l)}

GiveUp(l) == {[l EXCEPT !.state = "failed", !.forceP = TimedOut(@), !.closeP = TimedOut(@)]}

\* #atDeadline: the next step of the escalation, unless it is over.
AtDeadline(l) ==
  LET due == [l EXCEPT !.stage = "none"]
  IN  IF l.state = "closed"      THEN {due}
      ELSE IF l.state = "failed" THEN
             {IF l.stage = "kill" THEN [due EXCEPT !.forceP = TimedOut(@)] ELSE due}
      ELSE IF l.stage = "stdin"  THEN SendTerm(due)
      ELSE IF l.stage = "term"   THEN SendKill(due)
      ELSE                            GiveUp(due)

\* Weakened: a late close event turns a failed connection into a closed one.
ClosedAnyway(l) ==
  [l EXCEPT !.stage = "none", !.notified = TRUE, !.state = "closed",
            !.forceP = Settle(@, "resolved"), !.closeP = Settle(@, "resolved")]

\* The close event, of a failed connection and of any other.
Closed(l) ==
  IF l.state = "failed"
    THEN [l EXCEPT !.stage = "none", !.notified = TRUE, !.forceP = Settle(@, "resolved")]
    ELSE [l EXCEPT !.stage = "none", !.notified = TRUE, !.state = "closed",
                   !.forceP = Settle(@, "resolved"), !.closeP = Settle(@, "resolved")]

\* #observeClose: a deadline that has passed comes first.
ObserveClose(l) ==
  {Closed(l)} \cup (IF l.stage = "none" THEN {} ELSE {Closed(d) : d \in AtDeadline(l)})

-----------------------------------------------------------------------------
CloseOutcomes(l) == IF l.state = "open" /\ l.closeP = "none" THEN BeginClose(l) ELSE {l}

ForceCloseOutcomes(l) ==
  IF l.state \in {"open", "closing"} THEN BeginForce(l, "forceClosing") ELSE {l}

\* Which promise close() returns when it is called on l ...
CloseAnswer(l) ==
  IF l.state \in {"open", "closing"}   THEN "close"
  ELSE IF l.forceP # "none"            THEN "force"
  ELSE IF l.closeP # "none"            THEN "close"
  ELSE                                      "terminal"

\* ... and forceClose(), once it has left l behind.
ForceAnswer(l) ==
  IF l.forceP # "none"                               THEN "force"
  ELSE IF l.state = "closed" /\ l.closeP # "none"    THEN "close"
  ELSE                                                    "terminal"

\* The promise so named; #terminal() is one that was resolved at once.
Promised(l, name) ==
  IF name = "force" THEN l.forceP ELSE IF name = "close" THEN l.closeP ELSE "resolved"

CallClose ==
  /\ CloseOutcomes(lc) # {lc}
  /\ lc' \in CloseOutcomes(lc)
  /\ UNCHANGED <<child, told>>

CallForceClose ==
  /\ lc' \in ForceCloseOutcomes(lc)
  /\ told' = told \cup {ForceAnswer(lc')}
  /\ UNCHANGED child

HookEnds ==
  /\ lc.hook = "pending"
  /\ LET ended == [lc EXCEPT !.hook = "done"]
     IN  lc' \in FinishNormalClose(ended) \cup FailClose(ended)
  /\ UNCHANGED <<child, told>>

TimerFires ==
  /\ lc.stage # "none"
  /\ lc' \in AtDeadline(lc)
  /\ UNCHANGED <<child, told>>

\* The process ends when it likes, with or without a signal, or never.
ChildExits ==
  /\ child = "running"
  /\ child' = "exited"
  /\ UNCHANGED <<lc, told>>

ChildClosed ==
  /\ child = "exited"
  /\ child' = "closed"
  /\ lc' \in ObserveClose(lc)
  /\ UNCHANGED told

LifecycleNext ==
  \/ CallClose
  \/ CallForceClose
  \/ HookEnds
  \/ TimerFires
  \/ ChildExits
  \/ ChildClosed

LifecycleInit ==
  /\ lc = NewController
  /\ child = "running"
  /\ told = {}

LifecycleSpec == LifecycleInit /\ [][LifecycleNext]_lifecycleVars

-----------------------------------------------------------------------------
(* close() and forceClose() report success only when the process is gone.  *)
ResolvedMeansGone == "resolved" \in {lc.closeP, lc.forceP} => child = "closed"

(* Nobody waits for a process that is known to be gone, other than for the *)
(* clean-up of a close() that failed.                                      *)
ClosedSettlesAll == lc.state = "closed" => "pending" \notin {lc.closeP, lc.forceP}

(* A failure is final: no late event turns it into a success, or gives     *)
(* the caller another error than the first.                                *)
FailureIsFinal ==
  [][/\ lc.state = "failed" => lc'.state = "failed"
     /\ lc.closeP \notin {"none", "pending"} => lc'.closeP = lc.closeP
     /\ lc.forceP \notin {"none", "pending"} => lc'.forceP = lc.forceP]_lc

(* close() settles, unless the kill that overtook it could not be sent.    *)
CloseSettlesOrForceFails ==
  lc.closeP = "pending" ~> lc.closeP # "pending" \/ lc.forceP = "FORCE_CLOSE_FAILED"

(* Whoever was told by forceClose() that the process is gone was told the  *)
(* truth, whatever had been tried before.                                  *)
ForceClosedMeansGone ==
  \/ "terminal" \in told
  \/ "force" \in told /\ lc.forceP = "resolved"
  \/ "close" \in told /\ lc.closeP = "resolved"
  => child = "closed"
=============================================================================
