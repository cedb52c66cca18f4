--------------------------- MODULE ReplayObserver ---------------------------
(***************************************************************************)
(* Replay with the observer of out-of-scope calls.  Every Node process of  *)
(* the chain, the server under test and launchers such as npx, counts the  *)
(* requests it makes past the adapter and writes the count to a file of    *)
(* its own when it exits; a process that is killed writes none.  finish(), *)
(* which the caller calls after the run, adds the files up.                *)
(***************************************************************************)
EXTENDS ExternalReplay, FiniteSetsExt

CONSTANT MaxOutside   \* bound: out-of-scope calls of a process

ASSUME OutsideAssumption == MaxOutside \in Nat

VARIABLES
  observing,   \* the directory for the reports could be made
  alive,       \* the processes that have not ended
  outside,     \* per process, its out-of-scope calls
  report,      \* the files: per process, at most one
  outOfScope   \* of the summary: a set, empty when nothing could be counted

observerVars == <<observing, alive, outside, report, outOfScope>>
vars == <<storeVars, coordinatorVars, replayVars, observerVars>>

Report == [process : Adapters, outOfScope : Nat, claimed : BOOLEAN]

TypeOK ==
  /\ StoreTypeOK
  /\ CoordinatorTypeOK
  /\ ReplayTypeOK
  /\ observing \in BOOLEAN
  /\ alive \subseteq Adapters
  /\ outside \in [Adapters -> 0..MaxOutside]
  /\ report \subseteq Report
  /\ outOfScope \subseteq Nat /\ Cardinality(outOfScope) <= 1

\* A replay that is refused has no processes.
Init ==
  /\ ReplayInit
  /\ observing \in BOOLEAN
  /\ alive = IF SourceAccepted THEN Adapters ELSE {}
  /\ outside = [p \in Adapters |-> 0]
  /\ report = {}
  /\ outOfScope = {}

-----------------------------------------------------------------------------
\* A step of the replay in which no process that has ended starts a call.
ReplayGoesOn ==
  /\ ReplayStep
  /\ \A c \in Calls : proc'[c] # proc[c] => proc'[c] \in alive \cup Strangers
  /\ UNCHANGED observerVars

\* A request past the adapter, with node:http or a library on top of it.
OutsideCall(p) ==
  /\ p \in alive
  /\ outside[p] < MaxOutside
  /\ outside' = [outside EXCEPT ![p] = @ + 1]
  /\ UNCHANGED <<storeVars, coordinatorVars, replayVars, observing, alive, report, outOfScope>>

ProcessEnds(p) ==
  /\ p \in alive
  /\ alive' = alive \ {p}
  /\ ProcessGone(p)
  /\ UNCHANGED <<storeVars, replayVars, observing, outside, outOfScope>>

\* The exit hook writes the report.
ProcessExits(p) ==
  /\ ProcessEnds(p)
  /\ report' = IF observing
       THEN report \cup {[process |-> p, outOfScope |-> outside[p], claimed |-> p \in claimed]}
       ELSE report

ProcessKilled(p) ==
  /\ ProcessEnds(p)
  /\ UNCHANGED report

\* A client of the port that is no process of the run goes away.
StrangerGone(p) ==
  /\ p \in Strangers
  /\ ProcessGone(p)
  /\ UNCHANGED <<storeVars, replayVars, observerVars>>

\* The run is over when its processes have ended.
EndOfRun(s) ==
  /\ alive = {}
  /\ CallFinish(s)
  /\ UNCHANGED <<storeVars, replayVars, observerVars>>

-----------------------------------------------------------------------------
SumOf(reports) == MapThenSumSet(LAMBDA r : r.outOfScope, reports)

\* Weakened: what the launcher did is added to what the writer did.
CountedAll == report

\* The writer's reports if there is one, otherwise all that can be read.
Counted ==
  LET ofWriter == {r \in report : r.claimed}
  IN  IF ofWriter # {} THEN ofWriter ELSE report

Observed == IF report = {} THEN {} ELSE {SumOf(Counted)}

FinishReplay ==
  /\ FinishEngine
  /\ outOfScope' = Observed
  /\ UNCHANGED <<storeVars, observing, alive, outside, report>>

Next ==
  \/ ReplayGoesOn
  \/ \E p \in Adapters : OutsideCall(p)
  \/ \E p \in Adapters : ProcessExits(p)
  \/ \E p \in Adapters : ProcessKilled(p)
  \/ \E p \in Strangers : StrangerGone(p)
  \/ \E s \in {"completed", "failed"} : EndOfRun(s)
  \/ FinishReplay

Spec == Init /\ [][Next]_vars

-----------------------------------------------------------------------------
(* The number in the summary is the number of calls the writer made past   *)
(* the adapter, if the writer exited after a call of its own had ended,    *)
(* with a hit or a miss, and no other process took itself for the writer:  *)
(* what launchers did does not show.                                       *)
WriterReported ==
  /\ \E r \in report : r.process = writerId
  /\ \E c \in Calls : proc[c] = writerId /\ pc[c] \in {"returned", "threw"}

WriterCountIsExact ==
  outOfScope # {} /\ WriterReported /\ ClaimedIsWriter => outOfScope = {outside[writerId]}

(* A zero in the summary means that the process the session belongs to     *)
(* made no call past the adapter; what could not be counted is no zero.    *)
ZeroMeansNone ==
  0 \in outOfScope /\ writerId # NoProcess => outside[writerId] = 0
=============================================================================
