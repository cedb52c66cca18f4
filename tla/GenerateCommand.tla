-------------------------- MODULE GenerateCommand --------------------------
(***************************************************************************)
(* mcpeak generate (runGenerateCommand, runInteractiveReview, saveSuite):  *)
(* it connects to a server, reviews a suite for it with a person and a     *)
(* provider, runs the suite against the server, repairs inputs, runs it    *)
(* again, and saves it beside other programs that use the same path.       *)
(*                                                                         *)
(* What a case answers depends on the server's state, which no reset need  *)
(* restore: each run may pass or fail it.  Questions may be answered in    *)
(* any way.  A crash leaves the files as they are in some state.           *)
(***************************************************************************)
EXTENDS AuthoringSession

CONSTANT
  MaxRevision     \* bound: revisions of the draft

VARIABLES
  options,     \* --baseline-only, --no-dry-run and --force
  pc,          \* where the command is
  turn,        \* the case whose repair is on, by its place, and its failed attempts
  lastRun,     \* history: how each case last ran in this round of saving
  failures,    \* cases that failed and were not repaired
  repaired,    \* values that a repair passed with
  approvals,   \* approval.cases; no case when there was no dry run
  scope,       \* CaseVerification
  outFile,     \* at --out: "none", another program's ("foreign"), or the command's
  written,     \* the temporary file, and the command's file once it is linked
  result       \* what the command tells: "none", "saved", "cancelled" or "failed"

roundVars    == <<turn, lastRun, failures, repaired, approvals, scope>>
fileVars     == <<outFile, written>>
vars         == <<options, pc, draft, candidate, roundVars, fileVars, result>>

None == <<>>

FirstTurn == [at |-> 1, failed |-> 0]

Empty == [suite |-> None, approvals |-> None, scope |-> "isolated"]

Options == {o \in [baselineOnly : BOOLEAN, dryRun : BOOLEAN, force : BOOLEAN] : o.baselineOnly => ~o.dryRun}

Init ==
  /\ SessionInit
  /\ options \in Options
  /\ pc = "starting"
  /\ turn = FirstTurn
  /\ lastRun = None /\ failures = {} /\ repaired = None /\ approvals = None
  /\ scope = "isolated"
  /\ outFile \in {"none", "foreign"}
  /\ written = Empty
  /\ result = "none"

(* A round of saving ends without a file: its findings are dropped. *)
BackToMenu ==
  /\ pc' = "menu"
  /\ turn' = FirstTurn
  /\ lastRun' = None /\ failures' = {} /\ repaired' = None /\ approvals' = None
  /\ scope' = "isolated"

Leave(told) ==
  /\ pc' = "returned"
  /\ result' = told

-----------------------------------------------------------------------------
(* A file that is there already ends the command before it connects.       *)
CheckEarly ==
  /\ pc = "starting"
  /\ IF options.force \/ outFile = "none" THEN pc' = "connecting" /\ UNCHANGED result ELSE Leave("failed")
  /\ UNCHANGED <<options, draft, candidate, roundVars, fileVars>>

(* Connecting, listing the tools and, for --baseline-only, closing again,  *)
(* which may each fail.  StdioConnection has what becomes of the server.   *)
Connect ==
  /\ pc = "connecting"
  /\ \/ pc' = (IF options.baselineOnly THEN "checking" ELSE "menu") /\ UNCHANGED result
     \/ Leave("failed")
  /\ UNCHANGED <<options, draft, candidate, roundVars, fileVars>>

-----------------------------------------------------------------------------
(* The review menu.                                                        *)

(* A provider answers, or the user edits a file.  Bound: one candidate. *)
Propose(suite, by, executable) ==
  /\ pc = "menu" /\ candidate = NoCandidate
  /\ candidate' = CandidateOf(suite, by, executable)
  /\ UNCHANGED <<options, pc, draft, roundVars, fileVars, result>>

(* apply-all and select: diff, question and application in one turn. *)
Apply ==
  /\ pc = "menu" /\ candidate # NoCandidate
  /\ draft.revision < MaxRevision
  /\ \E selected \in SUBSET Changes(draft.suite, candidate.suite) :
       draft' = Applied(draft, candidate, selected)
  /\ UNCHANGED <<options, pc, candidate, roundVars, fileVars, result>>

(* Cancel, or the end of the input at any question. *)
Cancel ==
  /\ pc \in {"menu", "repairing", "classifying", "revalidating", "confirming"}
  /\ Leave("cancelled")
  /\ UNCHANGED <<options, draft, candidate, roundVars, fileVars>>

Save ==
  /\ pc = "menu"
  /\ pc' = IF options.dryRun THEN "testing" ELSE "confirming"
  /\ UNCHANGED <<options, draft, candidate, roundVars, fileVars, result>>

-----------------------------------------------------------------------------
(* A round of saving.                                                      *)

RunOf(case, passed, how) == [case |-> case, passed |-> passed, how |-> how]

(* runDryRun of the whole draft. *)
Swept(passes) ==
  lastRun' = [c \in Ids(draft.suite) |-> RunOf(CaseOf(draft.suite, c), c \in passes, "sweep")]

Test ==
  /\ pc = "testing"
  /\ \E passes \in SUBSET Ids(draft.suite) :
       /\ Swept(passes)
       /\ failures' = Ids(draft.suite) \ passes
  /\ pc' = "repairing"
  /\ UNCHANGED <<options, draft, candidate, turn, repaired, approvals, scope, fileVars, result>>

(* A run that stops early, a reset that fails, or a question denied. *)
GiveUpRound ==
  /\ pc \in {"testing", "classifying", "revalidating", "confirming"}
  /\ BackToMenu
  /\ UNCHANGED <<options, draft, candidate, fileVars, result>>

-----------------------------------------------------------------------------
(* repairInputs takes the failed cases in order; each is run alone.        *)

AtTurn == draft.suite[turn.at].id

(* selectRepairTargets: a case of the user's own is not repaired. *)
IsTarget(c) == c \in failures /\ draft.provenance[c].origin # "user"

NextTurn == turn' = [at |-> turn.at + 1, failed |-> 0]

(* Another value is tried; a second time only after a provider's proposal. *)
Rerun(value, passed) ==
  /\ pc = "repairing" /\ turn.at <= Len(draft.suite) /\ IsTarget(AtTurn)
  /\ draft.revision < MaxRevision
  /\ LET c == AtTurn
         tried == [CaseOf(draft.suite, c) EXCEPT !.value = value]
     IN  /\ tried # lastRun[c].case
         /\ lastRun' = [lastRun EXCEPT ![c] = RunOf(tried, passed, "alone")]
         /\ IF passed
            THEN /\ repaired' = [d \in DOMAIN repaired \cup {c} |->
                                   IF d = c THEN tried ELSE repaired[d]]
                 /\ failures' = failures \ {c}
                 /\ NextTurn
            ELSE /\ UNCHANGED <<repaired, failures>>
                 /\ \/ turn.failed = 0 /\ turn' = [turn EXCEPT !.failed = 1]
                    \/ NextTurn
  /\ UNCHANGED <<options, pc, draft, candidate, approvals, scope, fileVars, result>>

(* No target, --no-repair, or the same value again. *)
NoRerun ==
  /\ pc = "repairing" /\ turn.at <= Len(draft.suite)
  /\ NextTurn
  /\ UNCHANGED <<options, pc, draft, candidate, lastRun, failures, repaired, approvals,
                 scope, fileVars, result>>

WithRepairedInputs ==
  [i \in DOMAIN draft.suite |->
     IF draft.suite[i].id \in DOMAIN repaired THEN repaired[draft.suite[i].id] ELSE draft.suite[i]]

(* The repaired values become a candidate of the user's and are applied;   *)
(* one whose value had to be redacted is refused, and the round with it.   *)
AcceptRepairs ==
  LET local(executable) == CandidateOf(WithRepairedInputs, "user", executable)
      changes == Changes(draft.suite, WithRepairedInputs)
  IN  \/ /\ draft' = IF DOMAIN repaired = {} THEN draft ELSE Applied(draft, local(TRUE), changes)
         /\ pc' = "classifying" /\ turn' = FirstTurn /\ repaired' = None
         /\ UNCHANGED <<lastRun, failures, approvals, scope>>
      \/ /\ DOMAIN repaired # {}
         /\ draft' = Applied(draft, local(FALSE), changes)
         /\ BackToMenu

RepairsEnd ==
  /\ pc = "repairing" /\ turn.at > Len(draft.suite)
  /\ AcceptRepairs
  /\ UNCHANGED <<options, candidate, fileVars, result>>

(* reviewDryRun clears a round whose failures are all the server's. *)
Classify ==
  /\ pc = "classifying"
  /\ approvals' = [c \in Ids(draft.suite) |-> IF c \in failures THEN "serverDefect" ELSE "passed"]
  /\ failures' = {}
  /\ pc' = "revalidating"
  /\ UNCHANGED <<options, draft, candidate, turn, lastRun, repaired, scope, fileVars, result>>

-----------------------------------------------------------------------------
(* The last run of all, which the user may decline.                        *)

(* Weakened: what passed before is not asked for again. *)
RegressedNone(passes) == {}

(* Cases approved as passed that fail now. *)
Regressed(passes) == {c \in DOMAIN approvals : approvals[c] = "passed" /\ c \notin passes}

Revalidate ==
  /\ pc = "revalidating"
  /\ \E passes \in SUBSET Ids(draft.suite) :
       IF Regressed(passes) = {}
       THEN /\ Swept(passes)
            /\ scope' = "fullSuite" /\ pc' = "confirming"
            /\ UNCHANGED <<turn, failures, repaired, approvals>>
       ELSE BackToMenu
  /\ UNCHANGED <<options, draft, candidate, fileVars, result>>

DeclineRevalidation ==
  /\ pc = "revalidating"
  /\ pc' = "confirming"
  /\ UNCHANGED <<options, draft, candidate, roundVars, fileVars, result>>

Confirm ==
  /\ pc = "confirming"
  /\ pc' = "checking"
  /\ UNCHANGED <<options, draft, candidate, roundVars, fileVars, result>>

-----------------------------------------------------------------------------
(* saveSuite.                                                              *)

SaveFailed ==
  /\ IF options.baselineOnly THEN pc' = "returned" /\ result' = "failed" /\ UNCHANGED roundVars
                             ELSE BackToMenu /\ UNCHANGED result

(* The check before the work, which guarantees nothing. *)
CheckOutput ==
  /\ pc = "checking"
  /\ IF options.force \/ outFile = "none"
     THEN pc' = "writing" /\ UNCHANGED <<roundVars, result>>
     ELSE SaveFailed
  /\ UNCHANGED <<options, draft, candidate, fileVars>>

(* Written, flushed, closed, read back and validated; nobody else knows    *)
(* the temporary file.                                                     *)
WriteTemp ==
  /\ pc = "writing"
  /\ written' = [suite |-> draft.suite, approvals |-> approvals, scope |-> scope]
  /\ pc' \in {IF options.force THEN "replacing" ELSE "linking", "tidying"}
  /\ UNCHANGED <<options, draft, candidate, roundVars, outFile, result>>

(* --force removes what is there, if it is still there. *)
RemoveOld ==
  /\ pc = "replacing"
  /\ \/ outFile' = "none" /\ pc' = "linking"
     \/ outFile' = outFile /\ pc' = "tidying"
  /\ UNCHANGED <<options, draft, candidate, roundVars, written, result>>

(* Weakened: rename in place of link. *)
RenameTemp == outFile' = "own"

(* link fails when the path is taken, and may fail otherwise. *)
LinkTemp == outFile' \in {outFile} \cup {f \in {"own"} : outFile = "none"}

Commit ==
  /\ pc = "linking"
  /\ LinkTemp
  /\ pc' = "tidying"
  /\ UNCHANGED <<options, draft, candidate, roundVars, written, result>>

(* The temporary file goes, and the command reports what came of it.  A    *)
(* temporary file that cannot be removed stays, under a name of its own.   *)
RemoveTemp ==
  /\ pc = "tidying"
  /\ IF outFile = "own" THEN Leave("saved") /\ UNCHANGED <<roundVars, written>>
                        ELSE SaveFailed /\ written' = Empty
  /\ UNCHANGED <<options, draft, candidate, outFile>>

-----------------------------------------------------------------------------
(* Another program makes or removes a file at the path.  Bound: while the  *)
(* command saves; it does not look at the path between start and save.     *)
OtherProgram ==
  /\ pc \in {"checking", "writing", "replacing", "linking", "tidying"} /\ outFile # "own"
  /\ outFile' = IF outFile = "none" THEN "foreign" ELSE "none"
  /\ UNCHANGED <<options, pc, draft, candidate, roundVars, written, result>>

Next ==
  \/ CheckEarly \/ Connect
  \/ \E suite \in Candidates, by \in {"ai", "user"}, executable \in BOOLEAN : Propose(suite, by, executable)
  \/ Apply \/ Cancel \/ Save
  \/ Test \/ GiveUpRound
  \/ \E value \in Values, passed \in BOOLEAN : Rerun(value, passed)
  \/ NoRerun \/ RepairsEnd \/ Classify
  \/ Revalidate \/ DeclineRevalidation \/ Confirm
  \/ CheckOutput \/ WriteTemp \/ RemoveOld \/ Commit \/ RemoveTemp
  \/ OtherProgram

Spec == Init /\ [][Next]_vars

-----------------------------------------------------------------------------
(* A suite is saved only by a command that says so, and what its approval  *)
(* says was seen: each case recorded as passed last ran with exactly the   *)
(* saved content and passed, and a full verification is one run of the     *)
(* whole saved suite, not a union of runs (runInteractiveReview, 11.5).    *)
SavedIsVerified ==
  /\ result = "saved" => outFile = "own"
  /\ result \in {"cancelled", "failed"} => outFile # "own"
  /\ outFile = "own" =>
       /\ written.approvals # None => DOMAIN written.approvals = Ids(written.suite)
       /\ \A c \in DOMAIN written.approvals :
            written.approvals[c] = "passed" =>
              lastRun[c].passed /\ lastRun[c].case = CaseOf(written.suite, c)
       /\ written.scope = "fullSuite" =>
            \A c \in Ids(written.suite) :
              lastRun[c].how = "sweep" /\ lastRun[c].case = CaseOf(written.suite, c)

(* A file of another program is never replaced, and removed only by        *)
(* --force, in the one step that removes what it found: not when it        *)
(* appears after the check, nor after the removal (saveSuite).             *)
NothingIsClobbered ==
  [][outFile = "foreign" /\ outFile' # "foreign" =>
       outFile' = "none" /\ (pc' = pc \/ (options.force /\ pc = "replacing"))]_<<outFile, pc>>
=============================================================================
