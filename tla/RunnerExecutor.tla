-------------------------- MODULE RunnerExecutor --------------------------
(***************************************************************************)
(* runSuite: the cases of a suite are run one after the other against one  *)
(* client.  A call cannot be cancelled: a case that times out or is        *)
(* aborted leaves its call behind, and the run ends there.  The report     *)
(* settles first, drain waits for the call that was left behind.           *)
(*                                                                         *)
(* Between a case and the next the runner yields to nobody but onEvent,    *)
(* which may abort the run or throw.  The observations are those of        *)
(* createDeterminismCapture, which wraps the client and listens to events. *)
(***************************************************************************)
EXTENDS Naturals, FiniteSets, SequencesExt

CONSTANT N   \* the number of cases
ASSUME NAssumption == N \in Nat \ {0}

VARIABLES
  phase,     \* of the report: between cases, waiting for a call, or over
  results,   \* the status of the cases, in order
  stop,      \* stopReason
  aborted,   \* signal.aborted
  call,      \* the call of the latest case that was started
  report,    \* the report's promise, with the status it resolved to
  drain,     \* the drain's promise
  captured   \* the cases whose answer was observed

runVars == <<phase, results, stop, aborted, call, report, drain, captured>>

RunCases  == {"passed", "failed", "timedOut", "cancelled"}
Statuses  == RunCases \cup {"notRun"}
NoStop    == [type |-> "none", case |-> 0]
StopTypes == {"none", "timeout", "abortSignal", "connectionLost"}

RunTypeOK ==
  /\ phase \in {"between", "waiting", "over"}
  /\ results \in BoundedSeq(Statuses, N)
  /\ stop \in [type : StopTypes, case : 0..N]
  /\ aborted \in BOOLEAN
  /\ call \in {"none", "pending", "settled"}
  /\ report \in {"pending", "passed", "failed", "aborted", "rejected"}
  /\ drain \in {"pending", "settled", "deadlineExceeded"}
  /\ captured \subseteq 1..N

RunInit ==
  /\ phase = "between" /\ results = <<>> /\ stop = NoStop
  /\ aborted = FALSE /\ call = "none"
  /\ report = "pending" /\ drain = "pending"
  /\ captured = {}

\* The cases that were run, and the one that is running or ran last.
Ran     == {i \in 1..Len(results) : results[i] # "notRun"}
Started == Cardinality(Ran) + (IF phase = "waiting" THEN 1 ELSE 0)

-----------------------------------------------------------------------------
\* The next case; caseStarted, operationStarted and the call are one step.
StartCase ==
  /\ phase = "between" /\ stop = NoStop /\ Len(results) < N
  /\ ~aborted
  /\ phase' = "waiting" /\ call' = "pending"
  /\ UNCHANGED <<results, stop, aborted, report, drain, captured>>

\* An abort between two cases belongs to none of them.
StopBetween ==
  /\ phase = "between" /\ stop = NoStop /\ Len(results) < N
  /\ aborted
  /\ stop' = [type |-> "abortSignal", case |-> 0]
  /\ UNCHANGED <<phase, results, aborted, call, report, drain, captured>>

\* Weakened: a case that timed out does not stop the run.
StopAfterLoss(status, lost) ==
  IF status = "cancelled" THEN [type |-> "abortSignal", case |-> Len(results) + 1]
  ELSE IF lost            THEN [type |-> "connectionLost", case |-> Len(results) + 1]
  ELSE NoStop

\* What ends the run with the case that is running: its time-out first.
StopAfter(status, lost) ==
  LET here(t) == [type |-> t, case |-> Len(results) + 1]
  IN  IF status = "timedOut"       THEN here("timeout")
      ELSE IF status = "cancelled" THEN here("abortSignal")
      ELSE IF lost                 THEN here("connectionLost")
      ELSE NoStop

\* controlled() has an outcome: assertions, caseCompleted, the stop reason.
CaseCompletes(status, lost) ==
  /\ results' = Append(results, status)
  /\ stop' = StopAfter(status, lost)
  /\ phase' = "between"
  /\ UNCHANGED <<report, drain>>

\* The call settles: with a result that the assertions find right or wrong,
\* with an error of the server, or because the connection is gone.  A result
\* is observed for the case that was current when the call was made.
Answered(outcome) ==
  /\ call = "pending"
  /\ call' = "settled"
  /\ captured' = IF outcome \in {"right", "wrong"} THEN captured \cup {Started} ELSE captured
  /\ IF phase = "waiting"
       THEN CaseCompletes(IF outcome = "right" THEN "passed" ELSE "failed", outcome = "lost")
       ELSE UNCHANGED <<phase, results, stop, report, drain>>
  /\ UNCHANGED aborted

\* The case's timer; an abort at the same moment has won already.
CaseTimesOut ==
  /\ phase = "waiting"
  /\ CaseCompletes("timedOut", FALSE)
  /\ UNCHANGED <<aborted, call, captured>>

Abort ==
  /\ ~aborted /\ phase # "over"
  /\ aborted' = TRUE
  /\ IF phase = "waiting" THEN CaseCompletes("cancelled", FALSE)
                          ELSE UNCHANGED <<phase, results, stop, report, drain>>
  /\ UNCHANGED <<call, captured>>

-----------------------------------------------------------------------------
Verdict(rs) ==
  IF stop.type = "abortSignal" THEN "aborted"
  ELSE IF {"failed", "timedOut"} \cap ToSet(rs) # {} THEN "failed" ELSE "passed"

\* Weakened: the run that was stopped reports only the cases that ran.
NotPadded(rs) == rs

\* The cases that were not run are reported as such.
Padded(rs) == rs \o [i \in 1..(N - Len(rs)) |-> "notRun"]

\* drainResult: it settles at once unless a call was left behind.
DrainStarts == IF call = "pending" THEN "pending" ELSE "settled"

\* The report resolves, or rejects for its size.
FinishReport ==
  /\ phase = "between" /\ (stop # NoStop \/ Len(results) = N)
  /\ phase' = "over"
  /\ results' = Padded(results)
  /\ report' \in {Verdict(Padded(results)), "rejected"}
  /\ drain' = DrainStarts
  /\ UNCHANGED <<stop, aborted, call, captured>>

\* onEvent threw, or a case was found too large before any was run.
ObserverThrows ==
  /\ phase = "between"
  /\ phase' = "over" /\ report' = "rejected"
  /\ drain' = DrainStarts
  /\ UNCHANGED <<results, stop, aborted, call, captured>>

DrainSettles ==
  /\ phase = "over" /\ drain = "pending" /\ call = "settled"
  /\ drain' = "settled"
  /\ UNCHANGED <<phase, results, stop, aborted, call, report, captured>>

DrainExpires ==
  /\ phase = "over" /\ drain = "pending"
  /\ drain' = "deadlineExceeded"
  /\ UNCHANGED <<phase, results, stop, aborted, call, report, captured>>

Outcomes == {"right", "wrong", "error", "lost"}

\* What the runner and its caller do; the server's answers come besides.
RunnerStep ==
  \/ StartCase \/ StopBetween \/ CaseTimesOut \/ Abort
  \/ FinishReport \/ ObserverThrows \/ DrainSettles \/ DrainExpires

-----------------------------------------------------------------------------
(* The run goes on only when the call of the case before has settled: two  *)
(* calls are never in flight (executor.ts, the breaks after a case).       *)
OneCallAtATime == phase = "between" /\ stop = NoStop => call # "pending"

(* A suite has passed only if every case has: nothing that stopped the run *)
(* is reported as success.                                                 *)
PassedMeansAllPassed == report = "passed" => results = [i \in 1..N |-> "passed"]

\* A stop reason and the status of the case it names.
StopReasons == {<<"timeout", "timedOut">>, <<"abortSignal", "cancelled">>,
                <<"connectionLost", "failed">>}

(* A report covers every case.  Those that were run come first, and all of *)
(* them passed or failed but the one that stopReason names, whose status   *)
(* is what stopReason says.                                                *)
ReportAccounts ==
  report \in {"passed", "failed", "aborted"} =>
    /\ Len(results) = N
    /\ Ran = 1..Started
    /\ stop = NoStop => Started = N
    /\ \A i \in Ran \ {stop.case} : results[i] \in {"passed", "failed"}
    /\ stop.case # 0 => /\ stop.case = Started
                       /\ <<stop.type, results[stop.case]>> \in StopReasons

(* A case that timed out has no answer to compare (the determinism check). *)
TimedOutHasNoAnswer ==
  \A i \in 1..Len(results) : results[i] = "timedOut" => i \notin captured
=============================================================================
