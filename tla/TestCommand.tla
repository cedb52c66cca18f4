---------------------------- MODULE TestCommand ----------------------------
(***************************************************************************)
(* runCliCore of mcpeak test: the suite is run against a server of its     *)
(* own and, with --determinism, once more against a second one, each time  *)
(* after the user's reset command.  The report and the exit code are those *)
(* of the first run; the second is compared with it and may fail alone.    *)
(*                                                                         *)
(* RunnerShutdown has each run, from the start of the runner to the end of *)
(* its finalizer.  A program that uses the library is the other owner of   *)
(* such a run, and may abort it: the command passes no signal.             *)
(***************************************************************************)
EXTENDS RunnerShutdown

VARIABLES
  command,   \* where the command is; "absent" when a program owns the run
  options,   \* --determinism and --reset-cmd
  servers,   \* servers it has connected to so far
  hook,      \* the reset command, while one runs: "started" or "killed"
  first,     \* what the first run left to compare with, and its verdict
  outcome,   \* of the determinism check
  exit       \* the exit code, or -1

cmdVars == <<command, options, servers, hook, first, outcome, exit>>
allVars == <<vars, cmdVars>>

Observed == [verdict |-> report, results |-> results, captured |-> captured]

TestInit ==
  /\ Init
  /\ options \in [determinism : BOOLEAN, reset : BOOLEAN]
  /\ command \in {"absent", IF options.reset THEN "resetting" ELSE "connecting"}
  /\ command = "absent" => options = [determinism |-> FALSE, reset |-> FALSE]
  /\ servers = IF command = "absent" THEN 1 ELSE 0
  /\ hook = "started"
  /\ first = Observed
  /\ outcome = "none"
  /\ exit = -1

-----------------------------------------------------------------------------
(* How it returns.                                                         *)

Fail ==
  /\ command' = "returned" /\ exit' = 1
  /\ UNCHANGED outcome

(* A file asked for, which could not be written, makes the code 1 too.     *)
(* Rendering itself is taken to succeed.                                   *)
ExitBy(verdict) ==
  /\ command' = "returned"
  /\ exit' \in {IF verdict = "passed" THEN 0 ELSE 1, 1}

(* The first run decides; what the second came to is told besides. *)
Report(conclusion) == ExitBy(first.verdict) /\ outcome' = conclusion

(* Something failed: before the first report, or in the second run. *)
Stops == IF outcome = "none" THEN Fail ELSE Report("incomplete")

-----------------------------------------------------------------------------
(* runResetCommand, before each run.  After a minute it is killed, and its *)
(* promise waits for the end of its output as before.                      *)

ResetKilled ==
  /\ command = "resetting" /\ hook = "started"
  /\ hook' = "killed"
  /\ UNCHANGED <<vars, command, options, servers, first, outcome, exit>>

ResetEnds ==
  /\ command = "resetting"
  /\ \/ hook = "started" /\ command' = "connecting" /\ UNCHANGED <<outcome, exit>>
     \/ Stops
  /\ UNCHANGED <<vars, options, servers, hook, first>>

(* openConnection; StdioConnection has what becomes of its server if it    *)
(* fails.                                                                  *)
ConnectFails ==
  /\ command = "connecting"
  /\ Stops
  /\ UNCHANGED <<vars, options, servers, hook, first>>

FreshRun ==
  /\ phase' = "between" /\ results' = <<>> /\ stop' = NoStop
  /\ aborted' = FALSE /\ call' = "none"
  /\ report' = "pending" /\ drain' = "pending"
  /\ captured' = {}
  /\ lc' = NewController /\ child' = "running" /\ told' = {}
  /\ fin' = "draining" /\ awaiting' = "none" /\ errors' = {}

(* A server of its own for each run; the first is asked for its tools.     *)
(* Bound: what a first server does that forceClose() wrongly gave up is    *)
(* not followed any further.                                               *)
Connects ==
  /\ command = "connecting"
  /\ command' = IF servers = 0 THEN "listing" ELSE "starting"
  /\ servers' = servers + 1
  /\ FreshRun
  /\ UNCHANGED <<options, hook, first, outcome, exit>>

-----------------------------------------------------------------------------
(* A run.                                                                  *)

(* connection.forceClose(), awaited, its failure ignored. *)
Abandon ==
  /\ command' = "forcing"
  /\ CallForceClose
  /\ awaiting' = ForceAnswer(lc')
  /\ UNCHANGED <<runVars, fin, errors, outcome, exit>>

(* listTools(), awaited, is over; if it failed, there are no tools to show. *)
Listed ==
  /\ command = "listing"
  /\ command' = "starting"
  /\ UNCHANGED <<vars, options, servers, hook, first, outcome, exit>>

(* startRunner may throw. *)
Starts ==
  /\ command = "starting"
  /\ \/ command' = "running" /\ UNCHANGED <<vars, outcome, exit>>
     \/ Abandon
  /\ UNCHANGED <<options, servers, hook, first>>

Forced ==
  /\ command = "forcing" /\ Promised(lc, awaiting) # "pending"
  /\ Stops
  /\ UNCHANGED <<vars, options, servers, hook, first>>

(* Weakened: only the report matters to what comes next. *)
FinalizedByReport == "report" \notin errors

(* finalize has not thrown. *)
Finalized == errors = {}

FirstRunEnds ==
  /\ command = "running" /\ fin = "returned" /\ servers = 1
  /\ IF ~Finalized THEN Fail /\ UNCHANGED <<hook, first>>
     ELSE IF ~options.determinism
     THEN ExitBy(report) /\ UNCHANGED <<hook, first, outcome>>
     ELSE /\ command' = IF options.reset THEN "resetting" ELSE "connecting"
          /\ hook' = "started" /\ first' = Observed /\ outcome' = "pending"
          /\ UNCHANGED exit
  /\ UNCHANGED <<vars, options, servers>>

-----------------------------------------------------------------------------
(* checkDeterminism: the cases one run or both came to.                    *)
Skipped(i) == first.results[i] = results[i] /\ results[i] \in {"notRun", "cancelled"}

MustDiffer(i) ==
  \/ first.results[i] # results[i]
  \/ i \in first.captured /\ i \notin captured
  \/ i \notin first.captured /\ i \in captured

(* Two answers may differ although the assertions say the same of them. *)
MayDiffer(i) == i \in first.captured \cap captured

Conclude ==
  LET compared == {i \in 1..N : ~Skipped(i)}
      alike == IF options.reset THEN "deterministic" ELSE "consistentWithoutReset"
  IN  \/ (\E i \in compared : MustDiffer(i) \/ MayDiffer(i)) /\ Report("nondeterministic")
      \/ (\A i \in compared : ~MustDiffer(i)) /\ Report(alike)

SecondRunEnds ==
  /\ command = "running" /\ fin = "returned" /\ servers = 2
  /\ IF ~Finalized THEN Abandon
     ELSE /\ IF report = "aborted" THEN Report("incomplete") ELSE Conclude
          /\ UNCHANGED vars
  /\ UNCHANGED <<options, servers, hook, first>>

-----------------------------------------------------------------------------
(* A connection goes on by itself, the runner when it has been started.    *)

Underway == command \in {"absent", "running"}

ConnectionStep ==
  /\ servers > 0
  /\ Connection \/ TransportFails \/ ServerAnswers \/ ConnectionLost \/ SendFails

RunAndFinalize ==
  /\ Underway
  /\ \/ Runner /\ (aborted' # aborted => command = "absent")
     \/ Drained \/ CloseEnds \/ CloseExpires \/ ForceEnds \/ ForceExpires

TestNext ==
  \/ ResetKilled \/ ResetEnds \/ ConnectFails \/ Connects
  \/ Listed \/ Starts \/ Forced \/ FirstRunEnds \/ SecondRunEnds
  \/ (ConnectionStep \/ RunAndFinalize) /\ UNCHANGED cmdVars

TestSpec == TestInit /\ [][TestNext]_allVars

(* The command, the runner and every timer, those of the connection        *)
(* included; not the server, the SDK's close or the reset command.  The    *)
(* pages of a listing have no bound (collectPages), so nothing but the     *)
(* loss of the connection, which rejects the page asked for, ends it.      *)
TestFairness ==
  /\ WF_allVars(ConnectFails \/ Connects \/ Starts \/ Forced \/ FirstRunEnds \/ SecondRunEnds)
  /\ WF_allVars(Listed /\ child = "closed")
  /\ WF_allVars(/\ Underway
                /\ StartCase \/ StopBetween \/ CaseTimesOut \/ FinishReport \/ DrainExpires
                /\ UNCHANGED <<lifecycleVars, finVars, cmdVars>>)
  /\ WF_allVars(Underway /\ Drained /\ UNCHANGED cmdVars)
  /\ WF_allVars(Underway /\ CloseExpires /\ UNCHANGED cmdVars)
  /\ WF_allVars(Underway /\ ForceExpires /\ UNCHANGED cmdVars)
  /\ WF_allVars(servers > 0 /\ TimerFires /\ UNCHANGED <<runVars, finVars, cmdVars>>)

FairTestSpec == TestSpec /\ TestFairness

-----------------------------------------------------------------------------
(* The second server is started only when the first is gone: it never      *)
(* meets its port, its lock or its files (runCliCore, the second run).     *)
(* Excepted is, as in FinalizedMeansGone, an answer of forceClose() that   *)
(* nothing stands behind.                                                  *)
NextServerAfterLast ==
  [][servers = 1 /\ servers' = 2 => child = "closed" \/ awaiting = "terminal"]_allVars

(* What the command waits for without a bound: the user's reset command,   *)
(* and the listing of a server that lives and has always one more page.    *)
HeldUp == command = "resetting" \/ (command = "listing" /\ child # "closed")

(* Unless it is held up in one of these ways, or until it is, the command  *)
(* returns whatever a server does, or does not do, and what it started has *)
(* ended, was sent SIGKILL, or could not be killed; and a program's        *)
(* finalizer settles.                                                      *)
TestEnds ==
  ~HeldUp ~>
    \/ command = "absent" /\ fin = "returned"
    \/ command = "returned" /\ (servers = 0 \/ child = "closed" \/ lc.killSent \/ lc.state = "failed")
    \/ HeldUp
=============================================================================
