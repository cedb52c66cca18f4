-------------------------- MODULE TestCommand_proofs --------------------------
(***************************************************************************)
(* What holds of a run and of its end for every number of cases, whatever  *)
(* the server answers and whenever, and of the test command that makes one *)
(* run or two of them.  RunNext is every step that touches the run.        *)
(***************************************************************************)
EXTENDS TestCommand, FiniteSetTheorems, Lifecycle_proofs

RunNext == RunnerStep \/ \E answer \in Outcomes : Answered(answer)

(* Before the report the results are those of the cases that were run, and *)
(* only the one that stopReason names is neither passed nor failed.        *)
StopNames ==
  phase # "over" =>
    /\ \A i \in 1..Len(results) : i # stop.case => results[i] \in {"passed", "failed"}
    /\ stop.case = 0 => stop.type \in {"none", "abortSignal"}
    /\ stop.case # 0 => /\ stop.type # "none"
                        /\ stop.case = Len(results)
                        /\ <<stop.type, results[stop.case]>> \in StopReasons

RunInv ==
  /\ phase \in {"between", "waiting", "over"}
  /\ results \in Seq(Statuses) /\ Len(results) <= N
  /\ stop \in [type : StopTypes, case : 0..N]
  /\ report \in {"pending", "passed", "failed", "aborted", "rejected"}
  /\ phase # "over" => report = "pending" /\ drain = "pending"
  /\ phase = "waiting" => stop = NoStop /\ Len(results) < N
  /\ drain = "settled" => call # "pending"
  /\ StopNames
  /\ OneCallAtATime
  /\ PassedMeansAllPassed
  /\ ReportAccounts

-----------------------------------------------------------------------------
(* The report of a run has N entries: the results, then notRun.            *)
LEMMA PaddedEntries ==
  ASSUME NEW rs \in Seq(Statuses), Len(rs) <= N
  PROVE  /\ Padded(rs) \in Seq(Statuses)
         /\ Len(Padded(rs)) = N
         /\ \A i \in 1..N : Padded(rs)[i] = IF i <= Len(rs) THEN rs[i] ELSE "notRun"
<1> DEFINE pad == [i \in 1..(N - Len(rs)) |-> "notRun"]
<1>1. Len(rs) \in Nat /\ N - Len(rs) \in Nat
  BY NAssumption
<1>2. pad \in Seq(Statuses) /\ Len(pad) = N - Len(rs)
  BY <1>1 DEF Statuses
<1>3. \A i \in 1..(N - Len(rs)) : pad[i] = "notRun"
  OBVIOUS
<1> HIDE DEF pad
<1>4. rs \o pad \in Seq(Statuses) /\ Len(rs \o pad) = N
  BY <1>1, <1>2, NAssumption
<1>5. \A i \in 1..N : (rs \o pad)[i] = IF i <= Len(rs) THEN rs[i] ELSE "notRun"
  <2>1. TAKE i \in 1..N
  <2>2. CASE i <= Len(rs)
    BY <1>1, <1>2, <2>1, <2>2, NAssumption
  <2>3. CASE ~(i <= Len(rs))
    BY <1>1, <1>2, <1>3, <2>1, <2>3, NAssumption
  <2>4. QED BY <2>2, <2>3
<1>6. QED BY <1>4, <1>5 DEF Padded, pad

(* A run starts in the invariant.                                          *)
LEMMA RunInvInit == RunInit => RunInv
  BY NAssumption
  DEF RunInit, RunInv, StopNames, OneCallAtATime, PassedMeansAllPassed, ReportAccounts,
      NoStop, StopTypes, Statuses, RunCases

(* The end of a case: its result is appended, and stopReason names it if   *)
(* it is what ends the run.                                                *)
LEMMA CaseKeepsInv ==
  ASSUME RunInv, phase = "waiting",
         NEW status \in RunCases, NEW lost \in BOOLEAN,
         lost => status = "failed",
         CaseCompletes(status, lost),
         stop' = NoStop => call' # "pending"
  PROVE  RunInv'
<1> DEFINE n == Len(results) + 1
<1>1. /\ results \in Seq(Statuses) /\ Len(results) \in Nat /\ n \in 1..N
      /\ status \in Statuses
  BY NAssumption DEF RunInv, Statuses
<1>2. /\ results' \in Seq(Statuses) /\ Len(results') = n /\ results'[n] = status
      /\ \A i \in 1..Len(results) : results'[i] = results[i]
  BY <1>1 DEF CaseCompletes
<1>3. /\ stop' \in [type : StopTypes, case : 0..N]
      /\ stop'.case = 0 => stop' = NoStop /\ status \in {"passed", "failed"}
      /\ stop'.case # 0 => /\ stop'.case = n /\ stop'.type # "none"
                           /\ <<stop'.type, status>> \in StopReasons
  <2>1. CASE status = "timedOut"
    BY <1>1, <2>1 DEF CaseCompletes, StopAfter, StopReasons, StopTypes, NoStop
  <2>2. CASE status = "cancelled"
    BY <1>1, <2>2 DEF CaseCompletes, StopAfter, StopReasons, StopTypes, NoStop
  <2>3. CASE status \notin {"timedOut", "cancelled"} /\ lost
    BY <1>1, <2>3 DEF CaseCompletes, StopAfter, StopReasons, StopTypes, NoStop
  <2>4. CASE status \notin {"timedOut", "cancelled"} /\ ~lost
    BY <1>1, <2>4, NAssumption DEF CaseCompletes, StopAfter, StopTypes, NoStop, RunCases
  <2>5. QED BY <2>1, <2>2, <2>3, <2>4
<1>4. \A i \in 1..Len(results) : results[i] \in {"passed", "failed"}
  BY <1>1 DEF RunInv, StopNames, NoStop
<1>5. phase' = "between" /\ UNCHANGED <<report, drain>> /\ report = "pending" /\ drain = "pending"
  BY DEF CaseCompletes, RunInv
<1>6. StopNames'
  <2>1. ASSUME NEW i \in 1..Len(results'), i # stop'.case
        PROVE  results'[i] \in {"passed", "failed"}
    <3>1. CASE i = n
      BY <1>2, <1>3, <2>1, <3>1
    <3>2. CASE i # n
      BY <1>1, <1>2, <1>4, <2>1, <3>2
    <3>3. QED BY <3>1, <3>2
  <2>2. QED BY <1>2, <1>3, <2>1 DEF StopNames, NoStop
<1>7. (OneCallAtATime /\ PassedMeansAllPassed /\ ReportAccounts)'
  BY <1>5 DEF OneCallAtATime, PassedMeansAllPassed, ReportAccounts
<1>8. QED
  BY <1>1, <1>2, <1>3, <1>5, <1>6, <1>7 DEF RunInv

(* After the report nothing of the run changes but its call and its drain. *)
LEMMA OverKeepsInv ==
  ASSUME RunInv, phase = "over", UNCHANGED <<phase, results, stop, report>>,
         drain' = "settled" => call' # "pending"
  PROVE  RunInv'
<1>1. UNCHANGED <<Ran, Started>>
  BY DEF Ran, Started
<1>2. ReportAccounts' /\ PassedMeansAllPassed'
  BY <1>1 DEF RunInv, ReportAccounts, PassedMeansAllPassed
<1>3. QED
  BY <1>2 DEF RunInv, StopNames, OneCallAtATime

(* The report: every case has an entry, and none but passed cases pass.    *)
LEMMA ReportKeepsInv == RunInv /\ FinishReport => RunInv'
<1> SUFFICES ASSUME RunInv, FinishReport PROVE RunInv'
  OBVIOUS
<1> DEFINE n == Len(results)
<1>1. results \in Seq(Statuses) /\ n \in Nat /\ n <= N /\ N \in Nat \ {0}
  BY NAssumption DEF RunInv
<1>2. /\ results' \in Seq(Statuses) /\ Len(results') = N
      /\ \A i \in 1..N : results'[i] = IF i <= n THEN results[i] ELSE "notRun"
  BY <1>1, PaddedEntries DEF FinishReport
<1>3. /\ phase' = "over" /\ stop' = stop /\ call' = call
      /\ drain' = "settled" => call' # "pending"
      /\ report' \in {Verdict(results'), "rejected"}
      /\ stop # NoStop \/ n = N
  BY DEF FinishReport, DrainStarts
<1>4. /\ stop \in [type : StopTypes, case : 0..N]
      /\ \A i \in 1..n : i # stop.case => results[i] \in {"passed", "failed"}
      /\ stop.case = 0 => stop.type \in {"none", "abortSignal"}
      /\ stop.case # 0 => /\ stop.type # "none" /\ stop.case = n
                          /\ <<stop.type, results[stop.case]>> \in StopReasons
  BY DEF RunInv, StopNames, FinishReport
<1>5. report' \in {"passed", "failed", "aborted", "rejected"}
  BY <1>3 DEF Verdict
<1>6. PassedMeansAllPassed'
  <2> SUFFICES ASSUME report' = "passed" PROVE results' = [i \in 1..N |-> "passed"]
    BY DEF PassedMeansAllPassed
  <2>1. /\ stop.type # "abortSignal"
        /\ \A i \in 1..N : results'[i] \notin {"failed", "timedOut"}
    <3>1. Verdict(results') = "passed"
      BY <1>3
    <3>2. /\ stop.type # "abortSignal"
          /\ {"failed", "timedOut"} \cap ToSet(results') = {}
      BY <3>1 DEF Verdict
    <3>3. \A i \in 1..N : results'[i] \in ToSet(results')
      BY <1>2 DEF ToSet
    <3>4. QED BY <3>2, <3>3
  <2>2. stop.case = 0
    BY <1>1, <1>2, <1>4, <2>1 DEF StopReasons, StopTypes
  <2>3. stop = NoStop /\ n = N
    BY <1>3, <1>4, <2>1, <2>2 DEF NoStop
  <2>4. \A i \in 1..N : results'[i] = "passed"
    BY <1>1, <1>2, <1>4, <2>1, <2>2, <2>3
  <2>5. QED BY <1>1, <1>2, <2>4
<1>7. Ran' = 1..n
  <2>1. \A i \in 1..n : results[i] # "notRun"
    BY <1>1, <1>4 DEF StopReasons, StopTypes
  <2>2. QED BY <1>1, <1>2, <2>1 DEF Ran
<1>8. Started' = n
  <2>1. Cardinality(1..n) = n
    <3>1. /\ 1 \in Int /\ n \in Int
          /\ (IF 1 > n THEN 0 ELSE n - 1 + 1) = n
      BY <1>1
    <3>2. Cardinality(1..n) = IF 1 > n THEN 0 ELSE n - 1 + 1
      BY <3>1, FS_Interval, Zenon
    <3>3. QED BY <3>1, <3>2
  <2>2. QED BY <1>1, <1>3, <1>7, <2>1 DEF Started
<1>9. ReportAccounts'
  BY <1>1, <1>2, <1>3, <1>4, <1>7, <1>8 DEF ReportAccounts, StopReasons
<1>10. QED
  BY <1>1, <1>2, <1>3, <1>4, <1>5, <1>6, <1>9 DEF RunInv, StopNames, OneCallAtATime

-----------------------------------------------------------------------------
(* Every step of the runner and every answer of the server keeps the       *)
(* invariant of a run (executor.ts).                                       *)
THEOREM RunInvStep == RunInv /\ (RunNext \/ UNCHANGED runVars) => RunInv'
<1> SUFFICES ASSUME RunInv, RunNext \/ UNCHANGED runVars PROVE RunInv'
  OBVIOUS
<1>1. CASE StartCase
  BY <1>1 DEF StartCase, RunInv, StopNames, OneCallAtATime, PassedMeansAllPassed, ReportAccounts
<1>2. CASE StopBetween
  <2>1. (OneCallAtATime /\ PassedMeansAllPassed /\ ReportAccounts)'
    BY <1>2 DEF StopBetween, RunInv, OneCallAtATime, PassedMeansAllPassed, ReportAccounts, NoStop
  <2>2. StopNames'
    BY <1>2 DEF StopBetween, RunInv, StopNames, NoStop
  <2>3. stop' \in [type : StopTypes, case : 0..N]
    BY <1>2, NAssumption DEF StopBetween, StopTypes
  <2>4. QED BY <1>2, <2>1, <2>2, <2>3 DEF StopBetween, RunInv
<1>3. CASE CaseTimesOut
  <2>1. stop' # NoStop
    BY <1>3 DEF CaseTimesOut, CaseCompletes, StopAfter, NoStop
  <2>2. QED BY <1>3, <2>1, CaseKeepsInv DEF CaseTimesOut, RunCases
<1>4. CASE Abort
  <2>1. CASE phase = "waiting"
    <3>1. CaseCompletes("cancelled", FALSE)
      BY <1>4, <2>1 DEF Abort
    <3>2. stop' # NoStop
      BY <3>1 DEF CaseCompletes, StopAfter, NoStop
    <3>3. QED BY <2>1, <3>1, <3>2, CaseKeepsInv DEF RunCases
  <2>2. CASE phase # "waiting"
    BY <1>4, <2>2
    DEF Abort, RunInv, StopNames, OneCallAtATime, PassedMeansAllPassed, ReportAccounts
  <2>3. QED BY <2>1, <2>2
<1>5. CASE FinishReport
  BY <1>5, ReportKeepsInv
<1>6. CASE ObserverThrows
  BY <1>6
  DEF ObserverThrows, DrainStarts, RunInv, StopNames, OneCallAtATime, PassedMeansAllPassed,
      ReportAccounts
<1>7. CASE DrainSettles
  BY <1>7, OverKeepsInv DEF DrainSettles
<1>8. CASE DrainExpires
  BY <1>8, OverKeepsInv DEF DrainExpires
<1>9. ASSUME NEW answer \in Outcomes, Answered(answer) PROVE RunInv'
  <2>1. CASE phase = "waiting"
    <3> DEFINE status == IF answer = "right" THEN "passed" ELSE "failed"
    <3>1. /\ CaseCompletes(status, answer = "lost") /\ call' # "pending"
          /\ status \in RunCases /\ (answer = "lost" => status = "failed")
      BY <1>9, <2>1 DEF Answered, RunCases
    <3>2. QED BY <2>1, <3>1, CaseKeepsInv
  <2>2. CASE phase = "over"
    BY <1>9, <2>2, OverKeepsInv DEF Answered
  <2>3. CASE phase = "between"
    BY <1>9, <2>3
    DEF Answered, RunInv, StopNames, OneCallAtATime, PassedMeansAllPassed, ReportAccounts
  <2>4. QED BY <2>1, <2>2, <2>3 DEF RunInv
<1>10. CASE UNCHANGED runVars
  <2>1. UNCHANGED <<Ran, Started>>
    BY <1>10 DEF Ran, Started, runVars
  <2>2. QED
    BY <1>10, <2>1
    DEF runVars, RunInv, StopNames, OneCallAtATime, PassedMeansAllPassed, ReportAccounts
<1>11. QED
  BY <1>1, <1>2, <1>3, <1>4, <1>5, <1>6, <1>7, <1>8, <1>9, <1>10 DEF RunNext, RunnerStep

-----------------------------------------------------------------------------
\* What the types of the other variables rest on: a call belongs to a case.
RunTyped ==
  /\ aborted \in BOOLEAN
  /\ call \in {"none", "pending", "settled"}
  /\ drain \in {"pending", "settled", "deadlineExceeded"}
  /\ captured \subseteq 1..N
  /\ call # "none" => Started \in 1..N

(* Results without notRun are counted by their length.                     *)
LEMMA AllRan ==
  ASSUME NEW rs \in Seq(Statuses), \A i \in 1..Len(rs) : rs[i] # "notRun"
  PROVE  Cardinality({i \in 1..Len(rs) : rs[i] # "notRun"}) = Len(rs)
<1>1. {i \in 1..Len(rs) : rs[i] # "notRun"} = 1..Len(rs)
  OBVIOUS
<1>2. /\ 1 \in Int /\ Len(rs) \in Int
      /\ (IF 1 > Len(rs) THEN 0 ELSE Len(rs) - 1 + 1) = Len(rs)
  OBVIOUS
<1>3. Cardinality(1..Len(rs)) = IF 1 > Len(rs) THEN 0 ELSE Len(rs) - 1 + 1
  BY <1>2, FS_Interval, Zenon
<1>4. QED BY <1>1, <1>2, <1>3

(* Before the report nothing is padded: the count is the length.           *)
LEMMA Counted ==
  ASSUME RunInv, phase # "over"
  PROVE  /\ Cardinality(Ran) = Len(results)
         /\ Started = Len(results) + (IF phase = "waiting" THEN 1 ELSE 0)
         /\ Len(results) \in Nat /\ \A i \in 1..Len(results) : results[i] # "notRun"
<1>1. results \in Seq(Statuses) /\ \A i \in 1..Len(results) : results[i] # "notRun"
  BY DEF RunInv, StopNames, StopReasons
<1>2. Cardinality(Ran) = Len(results)
  BY <1>1, AllRan DEF Ran
<1>3. QED BY <1>1, <1>2 DEF Started

(* The end of a case leaves the count of the cases that were started.      *)
LEMMA CaseKeepsTyped ==
  ASSUME RunInv, RunTyped, phase = "waiting", NEW status \in RunCases, NEW lost \in BOOLEAN,
         CaseCompletes(status, lost)
  PROVE  Started' = Started /\ Started \in 1..N
<1>1. Started = Len(results) + 1 /\ Len(results) \in Nat /\ Len(results) < N
      /\ \A i \in 1..Len(results) : results[i] # "notRun"
  BY Counted DEF RunInv
<1>2. /\ results' \in Seq(Statuses) /\ Len(results') = Len(results) + 1
      /\ \A i \in 1..Len(results') : results'[i] # "notRun"
  BY <1>1 DEF CaseCompletes, RunInv, Statuses, RunCases
<1>3. Cardinality(Ran') = Len(results')
  BY <1>2, AllRan DEF Ran
<1>4. Started' = Len(results')
  BY <1>2, <1>3 DEF Started, CaseCompletes
<1>5. QED BY <1>1, <1>2, <1>4, NAssumption

(* Every step keeps the types.                                             *)
LEMMA RunTypedStep ==
  RunInv /\ RunTyped /\ (RunNext \/ UNCHANGED runVars) => RunTyped'
<1> SUFFICES ASSUME RunInv, RunTyped, RunNext \/ UNCHANGED runVars PROVE RunTyped'
  OBVIOUS
<1>1. CASE StartCase
  <2>1. Started' = Len(results) + 1 /\ Len(results) \in Nat /\ Len(results) < N
    <3>1. Cardinality(Ran) = Len(results) /\ Len(results) \in Nat
      BY <1>1, Counted DEF StartCase
    <3>2. Started' = Cardinality(Ran) + 1
      BY <1>1 DEF StartCase, Started, Ran
    <3>3. QED BY <1>1, <3>1, <3>2 DEF StartCase
  <2>2. QED BY <1>1, <2>1, NAssumption DEF StartCase, RunTyped
<1>2. CASE StopBetween
  BY <1>2 DEF StopBetween, RunTyped, Started, Ran
<1>3. CASE CaseTimesOut
  <2>1. Started' = Started /\ Started \in 1..N
    BY <1>3, CaseKeepsTyped DEF CaseTimesOut, RunCases
  <2>2. QED BY <1>3, <2>1 DEF CaseTimesOut, CaseCompletes, RunTyped
<1>4. CASE Abort
  <2>1. CASE phase = "waiting"
    <3>1. CaseCompletes("cancelled", FALSE)
      BY <1>4, <2>1 DEF Abort
    <3>2. Started' = Started /\ Started \in 1..N
      BY <2>1, <3>1, CaseKeepsTyped DEF RunCases
    <3>3. QED BY <1>4, <3>1, <3>2 DEF Abort, CaseCompletes, RunTyped
  <2>2. CASE phase # "waiting"
    BY <1>4, <2>2 DEF Abort, RunTyped, Started, Ran
  <2>3. QED BY <2>1, <2>2
<1>5. CASE FinishReport
  <2>1. /\ Started = Len(results) /\ Len(results) \in Nat
        /\ \A i \in 1..Len(results) : results[i] # "notRun"
    BY <1>5, Counted DEF FinishReport
  <2>2. Ran' = Ran
    <3>1. /\ results \in Seq(Statuses) /\ Len(results) <= N
          /\ results' = Padded(results)
      BY <1>5 DEF FinishReport, RunInv
    <3>2. /\ Len(results') = N
          /\ \A i \in 1..N : results'[i] = IF i <= Len(results) THEN results[i] ELSE "notRun"
      BY <3>1, PaddedEntries
    <3>3. QED BY <2>1, <3>1, <3>2, NAssumption DEF Ran
  <2>3. Started' = Started
    BY <1>5, <2>2 DEF FinishReport, Started
  <2>4. QED BY <1>5, <2>3 DEF FinishReport, DrainStarts, RunTyped
<1>6. CASE ObserverThrows
  BY <1>6 DEF ObserverThrows, DrainStarts, RunTyped, Started, Ran
<1>7. CASE DrainSettles
  BY <1>7 DEF DrainSettles, RunTyped, Started, Ran
<1>8. CASE DrainExpires
  BY <1>8 DEF DrainExpires, RunTyped, Started, Ran
<1>9. ASSUME NEW answer \in Outcomes, Answered(answer) PROVE RunTyped'
  <2>1. call' = "settled" /\ Started \in 1..N /\ captured' \subseteq 1..N
    BY <1>9 DEF Answered, RunTyped
  <2>2. CASE phase = "waiting"
    <3> DEFINE status == IF answer = "right" THEN "passed" ELSE "failed"
    <3>1. CaseCompletes(status, answer = "lost") /\ status \in RunCases
      BY <1>9, <2>2 DEF Answered, RunCases
    <3>2. Started' = Started
      BY <2>2, <3>1, CaseKeepsTyped
    <3>3. QED BY <1>9, <2>1, <3>1, <3>2 DEF Answered, CaseCompletes, RunTyped
  <2>3. CASE phase # "waiting"
    BY <1>9, <2>1, <2>3 DEF Answered, RunTyped, Started, Ran
  <2>4. QED BY <2>2, <2>3
<1>10. CASE UNCHANGED runVars
  BY <1>10 DEF runVars, RunTyped, Started, Ran
<1>11. QED
  BY <1>1, <1>2, <1>3, <1>4, <1>5, <1>6, <1>7, <1>8, <1>9, <1>10 DEF RunNext, RunnerStep

(* The invariants are those of the type invariant of the model.            *)
LEMMA RunTypeIsOK == RunInv /\ RunTyped => RunTypeOK
<1> SUFFICES ASSUME RunInv, RunTyped PROVE RunTypeOK
  OBVIOUS
<1>1. results \in BoundedSeq(Statuses, N)
  <2>1. Len(results) \in 0..N /\ results \in [1..Len(results) -> Statuses]
    BY NAssumption DEF RunInv
  <2>2. QED BY <2>1 DEF BoundedSeq, SeqOf
<1>2. QED BY <1>1 DEF RunInv, RunTyped, RunTypeOK

-----------------------------------------------------------------------------
(* The end of a run: finalizeRunnerExecution.                              *)

Unkilled == errors \cap {"force", "forceTimeout"} # {}

(* When drain gave up, forceClose() has a promise or the process is gone;  *)
(* a run is finalized when the promise it waited for has resolved, or with *)
(* an error of forceClose().                                               *)
FinalizeInv ==
  /\ fin \in {"draining", "closing", "forcing", "returned"}
  /\ awaiting \in {"none", "close", "force", "terminal"}
  /\ errors \subseteq {"report", "close", "force", "forceTimeout"}
  /\ fin # "draining" => awaiting # "none" /\ report # "pending" /\ drain # "pending"
  /\ fin = "draining" \/ drain = "deadlineExceeded" => Unclosed(lc)
  /\ fin # "draining" /\ drain = "deadlineExceeded" => awaiting = "force" \/ child = "closed"
  /\ fin = "returned" /\ ~Unkilled => Promised(lc, awaiting) = "resolved"

ShutdownInv == RunInv /\ RunTyped /\ LifecycleInv /\ FinalizeInv

-----------------------------------------------------------------------------
(* What a report and a drain that have settled became, they stay.          *)
LEMMA SettledStay ==
  ASSUME RunInv, RunNext \/ UNCHANGED runVars
  PROVE  /\ report # "pending" => report' # "pending"
         /\ drain # "pending" => drain' = drain
  BY DEF RunInv, RunNext, RunnerStep, StartCase, StopBetween, CaseTimesOut, Abort, FinishReport,
         ObserverThrows, DrainSettles, DrainExpires, Answered, CaseCompletes, runVars

-----------------------------------------------------------------------------
(* The model starts in the invariant.                                      *)
LEMMA ShutdownInvInit == Init => ShutdownInv
<1> SUFFICES ASSUME Init PROVE ShutdownInv
  OBVIOUS
<1>1. RunInv
  BY RunInvInit DEF Init
<1>2. RunTyped
  BY DEF Init, RunInit, RunTyped
<1>3. LifecycleInv /\ Unclosed(lc)
  BY NewIsSound
  DEF Init, LifecycleInit, LifecycleInv, Sound, LifecycleTypeOK, ResolvedMeansGone,
      NewController, Unclosed
<1>4. QED BY <1>1, <1>2, <1>3 DEF Init, FinalizeInv, ShutdownInv

(* The run goes on while the connection and the finalizer stand still.     *)
LEMMA RunKeepsInv ==
  ASSUME ShutdownInv, RunNext, UNCHANGED <<lc, child, told, fin, awaiting, errors>>
  PROVE  ShutdownInv'
<1>1. RunInv' /\ RunTyped'
  BY RunInvStep, RunTypedStep DEF ShutdownInv
<1>2. LifecycleInv'
  BY DEF ShutdownInv, LifecycleInv, LifecycleTypeOK, ResolvedMeansGone
<1>3. FinalizeInv'
  BY SettledStay DEF ShutdownInv, FinalizeInv, RunInv, Unkilled
<1>4. QED BY <1>1, <1>2, <1>3 DEF ShutdownInv

(* The connection changes by itself while run and finalizer stand still.   *)
LEMMA ConnectionKeepsInv ==
  ASSUME ShutdownInv, UNCHANGED <<runVars, finVars>>, LifecycleInv', Keeps(lc, lc'),
         child = "closed" => child' = "closed",
         Unclosed(lc) => Unclosed(lc')
  PROVE  ShutdownInv'
<1>1. RunInv' /\ RunTyped'
  BY RunInvStep, RunTypedStep DEF ShutdownInv
<1>2. FinalizeInv'
  BY PromisedStays DEF ShutdownInv, FinalizeInv, Unkilled, runVars, finVars
<1>3. QED BY <1>1, <1>2 DEF ShutdownInv

(* The finalizer calls forceClose() and waits for its promise.             *)
LEMMA ForceKeepsInv ==
  ASSUME ShutdownInv, UNCHANGED runVars, ForceClose, report # "pending", drain # "pending",
         errors' \subseteq {"report", "close", "force", "forceTimeout"}
  PROVE  ShutdownInv'
<1>1. RunInv' /\ RunTyped'
  BY RunInvStep, RunTypedStep DEF ShutdownInv
<1>2. LifecycleInv' /\ Keeps(lc, lc') /\ Sound(lc)
  BY LifecycleInvStep DEF ShutdownInv, ForceClose, LifecycleNext, LifecycleInv
<1>3. lc' \in ForceCloseOutcomes(lc) /\ child' = child
      /\ awaiting' = ForceAnswer(lc') /\ fin' = "forcing"
  BY DEF ForceClose, CallForceClose
<1>4. Unclosed(lc) => Unclosed(lc') /\ (lc'.forceP # "none" \/ lc'.state = "closed")
  BY <1>2, <1>3, UnclosedForce
<1>5. awaiting' \in {"force", "close", "terminal"}
      /\ (lc'.forceP # "none" => awaiting' = "force")
  BY <1>3 DEF ForceAnswer
<1>6. lc'.state = "closed" => child' = "closed"
  BY <1>2 DEF LifecycleInv
<1>7. FinalizeInv'
  BY <1>3, <1>4, <1>5, <1>6 DEF ShutdownInv, FinalizeInv, runVars
<1>8. QED BY <1>1, <1>2, <1>7 DEF ShutdownInv

(* The finalizer calls close(), which it does only for a run that drained. *)
LEMMA CloseKeepsInv ==
  ASSUME ShutdownInv, UNCHANGED runVars, Close, report # "pending", drain = "settled",
         errors' \subseteq {"report", "close", "force", "forceTimeout"}
  PROVE  ShutdownInv'
<1>1. RunInv' /\ RunTyped'
  BY RunInvStep, RunTypedStep DEF ShutdownInv
<1>2. Keeps(lc, lc') /\ NoNews(lc, lc') /\ child' = child /\ told' = told
  BY CloseKeeps DEF ShutdownInv, LifecycleInv, Close
<1>3. LifecycleInv'
  BY <1>2
  DEF ShutdownInv, LifecycleInv, Keeps, Sound, NoNews, LifecycleTypeOK, ResolvedMeansGone
<1>4. awaiting' \in {"force", "close", "terminal"} /\ fin' = "closing"
  BY DEF Close, CloseAnswer
<1>5. FinalizeInv'
  BY <1>4 DEF ShutdownInv, FinalizeInv, runVars
<1>6. QED BY <1>1, <1>3, <1>5 DEF ShutdownInv

(* The finalizer settles: with success only if the promise has resolved.   *)
LEMMA ReturnKeepsInv ==
  ASSUME ShutdownInv, UNCHANGED runVars, Return, fin # "draining",
         errors' \subseteq {"report", "close", "force", "forceTimeout"},
         Promised(lc, awaiting) = "resolved" \/ Unkilled'
  PROVE  ShutdownInv'
<1>1. RunInv' /\ RunTyped'
  BY RunInvStep, RunTypedStep DEF ShutdownInv
<1>2. LifecycleInv'
  BY DEF Return, ShutdownInv, LifecycleInv, LifecycleTypeOK, ResolvedMeansGone
<1>3. FinalizeInv'
  BY DEF Return, ShutdownInv, FinalizeInv, runVars
<1>4. QED BY <1>1, <1>2, <1>3 DEF ShutdownInv

(* Every step keeps the invariant.                                         *)
LEMMA ShutdownInvNext == ShutdownInv /\ [Next]_vars => ShutdownInv'
<1> SUFFICES ASSUME ShutdownInv, [Next]_vars PROVE ShutdownInv'
  OBVIOUS
<1> USE DEF finVars, lifecycleVars
<1>1. CASE Runner
  BY <1>1, RunKeepsInv DEF Runner, RunNext
<1>2. CASE Connection
  <2>1. LifecycleNext /\ UNCHANGED <<runVars, finVars>>
    BY <1>2 DEF Connection, LifecycleNext
  <2>2. LifecycleInv' /\ Keeps(lc, lc')
    BY <2>1, LifecycleInvStep DEF ShutdownInv
  <2>3. Unclosed(lc) => Unclosed(lc')
    BY <1>2, UnclosedConnection DEF Connection, ShutdownInv
  <2>4. child = "closed" => child' = "closed"
    BY <1>2 DEF Connection, HookEnds, TimerFires, ChildExits, ChildClosed
  <2>5. QED BY <2>1, <2>2, <2>3, <2>4, ConnectionKeepsInv
<1>3. CASE Drained
  <2>1. /\ report # "pending" /\ drain # "pending" /\ UNCHANGED runVars
        /\ errors' \subseteq {"report", "close", "force", "forceTimeout"}
    BY <1>3 DEF Drained
  <2>2. CASE drain = "deadlineExceeded"
    BY <1>3, <2>1, <2>2, ForceKeepsInv DEF Drained, CloseOrForce
  <2>3. CASE drain # "deadlineExceeded"
    <3>1. drain = "settled"
      BY <2>1, <2>3 DEF ShutdownInv, RunTyped
    <3>2. QED BY <1>3, <2>1, <2>3, <3>1, CloseKeepsInv DEF Drained, CloseOrForce
  <2>4. QED BY <2>2, <2>3
<1>4. CASE CloseEnds
  <2>1. fin # "draining" /\ UNCHANGED runVars /\ report # "pending" /\ drain # "pending"
        /\ errors \subseteq {"report", "close", "force", "forceTimeout"}
    BY <1>4 DEF CloseEnds, ShutdownInv, FinalizeInv
  <2>2. CASE Promised(lc, awaiting) = "resolved"
    BY <1>4, <2>1, <2>2, ReturnKeepsInv DEF CloseEnds
  <2>3. CASE Promised(lc, awaiting) # "resolved"
    BY <1>4, <2>1, <2>3, ForceKeepsInv DEF CloseEnds
  <2>4. QED BY <2>2, <2>3
<1>5. CASE CloseExpires
  BY <1>5, ForceKeepsInv DEF CloseExpires, ShutdownInv, FinalizeInv
<1>6. CASE ForceEnds
  <2>1. fin # "draining" /\ UNCHANGED runVars /\ Return
        /\ errors' \subseteq {"report", "close", "force", "forceTimeout"}
    BY <1>6 DEF ForceEnds, ShutdownInv, FinalizeInv
  <2>2. Promised(lc, awaiting) = "resolved" \/ Unkilled'
    BY <1>6 DEF ForceEnds, Unkilled
  <2>3. QED BY <2>1, <2>2, ReturnKeepsInv
<1>7. CASE ForceExpires
  <2>1. fin # "draining" /\ UNCHANGED runVars /\ Return /\ Unkilled'
        /\ errors' \subseteq {"report", "close", "force", "forceTimeout"}
    BY <1>7 DEF ForceExpires, ErrorsOfExpiry, Unkilled, ShutdownInv, FinalizeInv
  <2>2. QED BY <2>1, ReturnKeepsInv
<1>8. CASE ServerAnswers
  BY <1>8, RunKeepsInv DEF ServerAnswers, RunNext, Outcomes
<1>9. CASE ConnectionLost
  BY <1>9, RunKeepsInv DEF ConnectionLost, RunNext, Outcomes
<1>10. CASE SendFails
  BY <1>10, RunKeepsInv DEF SendFails, RunNext, Outcomes
<1>11. CASE TransportFails
  <2>1. Sound(lc) /\ lc' \in ForceCloseOutcomes(lc) /\ UNCHANGED <<runVars, child, told, finVars>>
    BY <1>11 DEF TransportFails, ShutdownInv, LifecycleInv
  <2>2. Keeps(lc, lc') /\ NoNews(lc, lc')
    BY <2>1, ForceCloseKeeps
  <2>3. LifecycleInv'
    BY <2>1, <2>2
    DEF ShutdownInv, LifecycleInv, Keeps, Sound, NoNews, LifecycleTypeOK, ResolvedMeansGone
  <2>4. Unclosed(lc) => Unclosed(lc')
    BY <2>1, UnclosedForce
  <2>5. QED BY <2>1, <2>2, <2>3, <2>4, ConnectionKeepsInv
<1>12. CASE UNCHANGED vars
  <2>1. Keeps(lc, lc') /\ LifecycleInv'
    BY <1>12
    DEF vars, ShutdownInv, LifecycleInv, Keeps, Follows, LifecycleTypeOK, ResolvedMeansGone
  <2>2. UNCHANGED <<runVars, finVars, lc, child>>
    BY <1>12 DEF vars, runVars
  <2>3. QED BY <2>1, <2>2, ConnectionKeepsInv
<1>13. QED
  BY <1>1, <1>2, <1>3, <1>4, <1>5, <1>6, <1>7, <1>8, <1>9, <1>10, <1>11, <1>12 DEF Next

-----------------------------------------------------------------------------
(* The invariant of a run and of its end (executor.ts, shutdown.ts).       *)
THEOREM ShutdownInvariant == Spec => []ShutdownInv
  BY ShutdownInvInit, ShutdownInvNext, PTL DEF Spec

(* Type correctness.                                                       *)
THEOREM ShutdownTypeOK == Spec => []TypeOK
<1>1. ShutdownInv => TypeOK
  BY RunTypeIsOK DEF ShutdownInv, LifecycleInv, FinalizeInv, TypeOK
<1>2. QED BY <1>1, ShutdownInvariant, PTL

(* Two calls are never in flight (executor.ts, the breaks after a case).   *)
THEOREM RunnerOneCallAtATime == Spec => []OneCallAtATime
<1>1. ShutdownInv => OneCallAtATime
  BY DEF ShutdownInv, RunInv
<1>2. QED BY <1>1, ShutdownInvariant, PTL

(* A suite has passed only if every case has.                              *)
THEOREM RunnerPassedMeansAllPassed == Spec => []PassedMeansAllPassed
<1>1. ShutdownInv => PassedMeansAllPassed
  BY DEF ShutdownInv, RunInv
<1>2. QED BY <1>1, ShutdownInvariant, PTL

(* A report covers every case, and names the one that stopped the run.     *)
THEOREM RunnerReportAccounts == Spec => []ReportAccounts
<1>1. ShutdownInv => ReportAccounts
  BY DEF ShutdownInv, RunInv
<1>2. QED BY <1>1, ShutdownInvariant, PTL

(* A run that is finalized without an error has left no process behind.    *)
THEOREM RunnerFinalizedMeansGone == Spec => []FinalizedMeansGone
<1>1. ShutdownInv => FinalizedMeansGone
  <2> SUFFICES ASSUME ShutdownInv, fin = "returned", errors = {}, awaiting # "terminal"
               PROVE  child = "closed"
    BY DEF FinalizedMeansGone
  <2>1. awaiting \in {"close", "force"} /\ Promised(lc, awaiting) = "resolved"
    BY DEF ShutdownInv, FinalizeInv, Unkilled
  <2>2. QED BY <2>1 DEF Promised, ShutdownInv, LifecycleInv, ResolvedMeansGone
<1>2. QED BY <1>1, ShutdownInvariant, PTL

(* A server that did not answer in time is dead, or the caller is told.    *)
THEOREM RunnerAbandonedIsKilled == Spec => []AbandonedIsKilled
<1>1. ShutdownInv => AbandonedIsKilled
  <2> SUFFICES ASSUME ShutdownInv, fin = "returned", drain = "deadlineExceeded", ~Unkilled
               PROVE  child = "closed"
    BY DEF AbandonedIsKilled, Unkilled
  <2>1. Promised(lc, awaiting) = "resolved" /\ (awaiting = "force" \/ child = "closed")
    BY DEF ShutdownInv, FinalizeInv
  <2>2. QED BY <2>1 DEF Promised, ShutdownInv, LifecycleInv, ResolvedMeansGone
<1>2. QED BY <1>1, ShutdownInvariant, PTL

(* close() is called only when no call is outstanding (shutdown.ts).       *)
THEOREM RunnerCloseWaitsForCalls == Spec => CloseWaitsForCalls
<1>1. ShutdownInv /\ [Next]_vars =>
        [fin = "draining" /\ fin' = "closing" => call # "pending"]_vars
  <2> SUFFICES ASSUME ShutdownInv, Next, fin = "draining", fin' = "closing"
               PROVE  call # "pending"
    OBVIOUS
  <2>1. CASE Drained
    <3>1. drain # "deadlineExceeded"
      BY <2>1 DEF Drained, CloseOrForce, ForceClose
    <3>2. drain = "settled"
      BY <2>1, <3>1 DEF Drained, ShutdownInv, RunTyped
    <3>3. QED BY <3>2 DEF ShutdownInv, RunInv
  <2>2. CASE ~Drained
    BY <2>2
    DEF Next, Runner, Connection, CloseEnds, CloseExpires, ForceEnds, ForceExpires,
        ServerAnswers, ConnectionLost, SendFails, TransportFails, finVars
  <2>3. QED BY <2>1, <2>2
<1>2. QED BY <1>1, ShutdownInvariant, PTL DEF Spec, CloseWaitsForCalls

-----------------------------------------------------------------------------
(* The test command, which makes one run or two.                           *)

\* What a run leaves behind, whoever ends its connection later.
RunLeaves ==
  /\ RunInv /\ RunTyped /\ LifecycleInv
  /\ fin \in {"draining", "closing", "forcing", "returned"}
  /\ awaiting \in {"none", "close", "force", "terminal"}
  /\ errors \subseteq {"report", "close", "force", "forceTimeout"}
  /\ fin # "draining" => awaiting # "none" /\ drain # "pending"
  /\ FinalizedMeansGone
  /\ fin = "returned" /\ drain = "deadlineExceeded" /\ ~Unkilled => child = "closed"

\* The command goes on to a second run when the first was finalized.
TestInv ==
  /\ RunLeaves
  /\ command \notin {"forcing", "returned"} => FinalizeInv
  /\ command \in {"listing", "starting"} => fin = "draining"
  /\ command \in {"resetting", "connecting"} /\ servers = 1 => fin = "returned" /\ errors = {}

(* What the invariant of a run says of a finalized one.                    *)
LEMMA ShutdownLeaves == ShutdownInv => RunLeaves
<1> SUFFICES ASSUME ShutdownInv
             PROVE  /\ FinalizedMeansGone
                    /\ fin = "returned" /\ drain = "deadlineExceeded" /\ ~Unkilled
                         => child = "closed"
  BY DEF ShutdownInv, FinalizeInv, RunLeaves
<1>1. ASSUME fin = "returned", errors = {}, awaiting # "terminal" PROVE child = "closed"
  <2>1. awaiting \in {"close", "force"} /\ Promised(lc, awaiting) = "resolved"
    BY <1>1 DEF ShutdownInv, FinalizeInv, Unkilled
  <2>2. QED BY <2>1 DEF Promised, ShutdownInv, LifecycleInv, ResolvedMeansGone
<1>2. ASSUME fin = "returned", drain = "deadlineExceeded", ~Unkilled PROVE child = "closed"
  <2>1. Promised(lc, awaiting) = "resolved" /\ (awaiting = "force" \/ child = "closed")
    BY <1>2 DEF ShutdownInv, FinalizeInv
  <2>2. QED BY <2>1 DEF Promised, ShutdownInv, LifecycleInv, ResolvedMeansGone
<1>3. QED BY <1>1, <1>2 DEF FinalizedMeansGone

(* The same one step later, by the invariant of that state.                *)
LEMMA ShutdownLeavesNext == (ShutdownInv => RunLeaves)'
BY ShutdownLeaves, PTL

(* A new run starts in the invariant, as the first.                        *)
LEMMA FreshRunIsSound == FreshRun => ShutdownInv'
<1>1. FreshRun => Init'
  BY DEF FreshRun, Init, RunInit, LifecycleInit
<1>2. Init' => ShutdownInv'
  BY ShutdownInvInit, PTL
<1>3. QED BY <1>1, <1>2

(* A connection goes on by itself, also after its run is over.             *)
LEMMA ConnectionLeaves ==
  ASSUME RunLeaves, ConnectionStep
  PROVE  RunLeaves' /\ UNCHANGED finVars
<1> USE DEF finVars, lifecycleVars
<1>1. UNCHANGED finVars
  BY DEF ConnectionStep, Connection, TransportFails, ServerAnswers, ConnectionLost, SendFails
<1>2. RunNext \/ UNCHANGED runVars
  BY DEF ConnectionStep, Connection, TransportFails, ServerAnswers, ConnectionLost, SendFails,
         RunNext, Outcomes
<1>3. RunInv' /\ RunTyped' /\ (drain # "pending" => drain' = drain)
  BY <1>2, RunInvStep, RunTypedStep, SettledStay DEF RunLeaves
<1>4. LifecycleInv' /\ (child = "closed" => child' = "closed")
  <2>1. CASE Connection
    BY <2>1, LifecycleInvStep
    DEF RunLeaves, Connection, LifecycleNext, HookEnds, TimerFires, ChildExits, ChildClosed
  <2>2. CASE TransportFails
    <3>1. Sound(lc) /\ lc' \in ForceCloseOutcomes(lc) /\ UNCHANGED <<child, told>>
      BY <2>2 DEF TransportFails, RunLeaves, LifecycleInv
    <3>2. Keeps(lc, lc') /\ NoNews(lc, lc')
      BY <3>1, ForceCloseKeeps
    <3>3. QED
      BY <3>1, <3>2
      DEF RunLeaves, LifecycleInv, Keeps, Sound, NoNews, LifecycleTypeOK, ResolvedMeansGone
  <2>3. CASE ServerAnswers \/ ConnectionLost \/ SendFails
    BY <2>3 DEF ServerAnswers, ConnectionLost, SendFails, RunLeaves, LifecycleInv,
                LifecycleTypeOK, ResolvedMeansGone
  <2>4. QED BY <2>1, <2>2, <2>3 DEF ConnectionStep
<1>5. QED BY <1>1, <1>3, <1>4 DEF RunLeaves, FinalizedMeansGone, Unkilled

(* forceClose() of a run that is not finalized, or was with an error.      *)
LEMMA AbandonLeaves ==
  ASSUME RunLeaves, CallForceClose, awaiting' = ForceAnswer(lc'),
         UNCHANGED <<runVars, fin, errors>>, fin = "draining" \/ errors # {}
  PROVE  RunLeaves'
<1>1. RunInv' /\ RunTyped' /\ drain' = drain
  BY RunInvStep, RunTypedStep DEF RunLeaves, runVars
<1>2. LifecycleInv' /\ child' = child
  BY LifecycleInvStep DEF RunLeaves, LifecycleNext, CallForceClose
<1>3. awaiting' \in {"force", "close", "terminal"}
  BY AnswerNames
<1>4. QED BY <1>1, <1>2, <1>3 DEF RunLeaves, FinalizedMeansGone, Unkilled

LEMMA TestInvInit == TestInit => TestInv
BY ShutdownInvInit, ShutdownLeaves DEF TestInit, TestInv, ShutdownInv, Init

LEMMA TestInvNext == TestInv /\ [TestNext]_allVars => TestInv'
<1> SUFFICES ASSUME TestInv, [TestNext]_allVars PROVE TestInv'
  OBVIOUS
<1> USE DEF cmdVars
<1>1. ASSUME UNCHANGED vars PROVE RunLeaves' /\ (FinalizeInv => FinalizeInv') /\ UNCHANGED <<fin, errors>>
  <2>1. RunInv' /\ RunTyped' /\ UNCHANGED <<drain, report>>
    BY <1>1, RunInvStep, RunTypedStep DEF TestInv, RunLeaves, vars, runVars
  <2>2. QED
    BY <1>1, <2>1 DEF vars, TestInv, RunLeaves, FinalizedMeansGone, Unkilled, FinalizeInv,
       LifecycleInv, LifecycleTypeOK, ResolvedMeansGone
<1>2. ASSUME UNCHANGED vars, command' \in {"forcing", "returned"} PROVE TestInv'
  BY <1>1, <1>2 DEF TestInv
<1>3. CASE ResetKilled
  BY <1>1, <1>3 DEF ResetKilled, TestInv
<1>4. CASE ResetEnds
  BY <1>1, <1>4 DEF ResetEnds, Stops, Fail, Report, ExitBy, TestInv
<1>5. CASE ConnectFails
  BY <1>2, <1>5 DEF ConnectFails, Stops, Fail, Report, ExitBy
<1>6. CASE Connects
  <2>1. ShutdownInv' /\ RunLeaves'
    BY <1>6, FreshRunIsSound, ShutdownLeavesNext DEF Connects
  <2>2. QED BY <1>6, <2>1 DEF Connects, FreshRun, TestInv, ShutdownInv
<1>7. CASE Starts
  <2>1. CASE command' = "running" /\ UNCHANGED vars
    BY <1>1, <1>7, <2>1 DEF Starts, TestInv
  <2>2. CASE Abandon
    BY <1>7, <2>2, AbandonLeaves DEF Starts, Abandon, TestInv
  <2>3. QED BY <1>7, <2>1, <2>2 DEF Starts
<1>8. CASE Forced
  BY <1>2, <1>8 DEF Forced, Stops, Fail, Report, ExitBy
<1>9. CASE FirstRunEnds
  <2>1. \/ command' = "returned"
        \/ command' \in {"resetting", "connecting"} /\ errors = {} /\ fin = "returned"
    BY <1>9 DEF FirstRunEnds, Fail, ExitBy, Finalized
  <2>2. UNCHANGED vars /\ command = "running"
    BY <1>9 DEF FirstRunEnds
  <2>3. QED BY <1>1, <2>1, <2>2 DEF TestInv
<1>10. CASE SecondRunEnds
  <2>1. CASE Finalized
    BY <1>2, <1>10, <2>1 DEF SecondRunEnds, Report, ExitBy, Conclude
  <2>2. CASE ~Finalized
    BY <1>10, <2>2, AbandonLeaves DEF SecondRunEnds, Abandon, Finalized, TestInv
  <2>3. QED BY <2>1, <2>2
<1>11. CASE ConnectionStep /\ UNCHANGED cmdVars
  <2>1. RunLeaves' /\ UNCHANGED finVars
    BY <1>11, ConnectionLeaves DEF TestInv
  <2>2. command \notin {"forcing", "returned"} => FinalizeInv'
    BY <1>11, ShutdownInvNext DEF ConnectionStep, Next, TestInv, RunLeaves, ShutdownInv
  <2>3. QED BY <1>11, <2>1, <2>2 DEF TestInv, finVars
<1>12. CASE RunAndFinalize /\ UNCHANGED cmdVars
  <2>1. ShutdownInv'
    BY <1>12, ShutdownInvNext
    DEF RunAndFinalize, Underway, Next, TestInv, RunLeaves, ShutdownInv
  <2>2. QED BY <1>12, <2>1, ShutdownLeavesNext DEF RunAndFinalize, Underway, TestInv, ShutdownInv
<1>13. CASE UNCHANGED allVars
  BY <1>1, <1>13 DEF allVars, TestInv
<1>14. CASE Listed
  BY <1>1, <1>14 DEF Listed, TestInv
<1>15. QED
  BY <1>3, <1>4, <1>5, <1>6, <1>7, <1>8, <1>9, <1>10, <1>11, <1>12, <1>13, <1>14 DEF TestNext

(* The invariant of the test command, and of a program that uses the       *)
(* library (runCliCore, startRunner, finalizeRunnerExecution).             *)
THEOREM TestInvariant == TestSpec => []TestInv
  BY TestInvInit, TestInvNext, PTL DEF TestSpec

(* Two calls of a run are never in flight, in either run of the command.   *)
THEOREM TestOneCallAtATime == TestSpec => []OneCallAtATime
<1>1. TestInv => OneCallAtATime
  BY DEF TestInv, RunLeaves, RunInv
<1>2. QED BY <1>1, TestInvariant, PTL

(* Either report covers every case, and names the one that stopped it.     *)
THEOREM TestReportAccounts == TestSpec => []ReportAccounts
<1>1. TestInv => ReportAccounts
  BY DEF TestInv, RunLeaves, RunInv
<1>2. QED BY <1>1, TestInvariant, PTL

(* A run finalized without an error has left no process behind, also when  *)
(* the command closes the connection once more or starts another run.      *)
THEOREM TestFinalizedMeansGone == TestSpec => []FinalizedMeansGone
<1>1. TestInv => FinalizedMeansGone
  BY DEF TestInv, RunLeaves
<1>2. QED BY <1>1, TestInvariant, PTL

(* A server that did not answer in time is dead, was killed, or the        *)
(* caller is told, in either run of the command.                           *)
THEOREM TestAbandonedIsKilled == TestSpec => []AbandonedIsKilled
<1>1. TestInv => AbandonedIsKilled
  BY DEF TestInv, RunLeaves, AbandonedIsKilled, Unkilled
<1>2. QED BY <1>1, TestInvariant, PTL

(* The second server is started only when the first is gone (runCliCore,   *)
(* the second run of --determinism).                                       *)
THEOREM TestNextServerAfterLast == TestSpec => NextServerAfterLast
<1>1. TestInv /\ [TestNext]_allVars =>
        [servers = 1 /\ servers' = 2 => child = "closed" \/ awaiting = "terminal"]_allVars
  <2> SUFFICES ASSUME TestInv, TestNext, servers = 1, servers' = 2
               PROVE  child = "closed" \/ awaiting = "terminal"
    OBVIOUS
  <2>1. Connects
    BY DEF TestNext, ResetKilled, ResetEnds, ConnectFails, Listed, Starts, Forced,
           FirstRunEnds, SecondRunEnds, cmdVars
  <2>2. QED BY <2>1 DEF Connects, TestInv, RunLeaves, FinalizedMeansGone
<1>2. QED BY <1>1, TestInvariant, PTL DEF TestSpec, NextServerAfterLast
=============================================================================
