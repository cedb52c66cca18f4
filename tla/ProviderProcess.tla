--------------------------- MODULE ProviderProcess ---------------------------
(***************************************************************************)
(* One run of a test-authoring provider, the codex or claude CLI:          *)
(* runProviderProcess of the generate package.  It makes a working         *)
(* directory, spawns the CLI in it, collects its output and answers once,  *)
(* whatever comes first of the end of the CLI, a time-out, an abort, too   *)
(* much or undecodable output, and an error of its pipes.                  *)
(*                                                                         *)
(* What the CLI writes is abstracted to what the decoder and JSON.parse    *)
(* would say of the text so far.                                           *)
(***************************************************************************)
VARIABLES
  pc,        \* "called", "mkdtemp" and "files" (its awaits), "up", "over"
  dir,       \* the working directory: "none", "present", "discarded"
  aborted,   \* the caller's signal
  child,     \* the CLI: "none", "running", "exited", "closed"
  code,      \* its exit code: "none", "zero", "other" (killed by a signal too)
  decoded,   \* its output so far: "json", "split" in a character, "other" or none
  run,       \* the record the handlers share: see Handlers
  reported   \* history: what was held against the run before it answered

childVars == <<child, code, decoded>>
vars == <<pc, dir, aborted, childVars, run, reported>>

Failures == {"providerUnavailable", "nonZeroExit", "timedOut", "cancelled",
             "outputLimitExceeded", "invalidUtf8", "invalidJson", "internal"}

\* What runProviderProcess ends with; "rejected": its promise is rejected.
Results == Failures \cup {"ok", "rejected"}

\* The timers are armed or not.
Handlers ==
  [reason   : Failures \cup {"none"},
   result   : Results \cup {"none"},
   timeout  : BOOLEAN,      \* timeoutTimer
   kill     : BOOLEAN,      \* killTimer
   deadline : BOOLEAN,      \* deadlineTimer
   sent     : SUBSET {"SIGTERM", "SIGKILL"}]

TypeOK ==
  /\ pc \in {"called", "mkdtemp", "files", "up", "over"}
  /\ dir \in {"none", "present", "discarded"}
  /\ aborted \in BOOLEAN
  /\ child \in {"none", "running", "exited", "closed"}
  /\ code \in {"none", "zero", "other"}
  /\ decoded \in {"json", "other", "split"}
  /\ run \in Handlers
  /\ reported \subseteq {"abort", "fault"}

NewRun == [reason |-> "none", result |-> "none", timeout |-> FALSE, kill |-> FALSE,
           deadline |-> FALSE, sent |-> {}]

Init ==
  /\ pc = "called"
  /\ dir = "none"
  /\ aborted \in BOOLEAN
  /\ child = "none" /\ code = "none" /\ decoded = "other"
  /\ run = NewRun
  /\ reported = {}

-----------------------------------------------------------------------------
\* settle(): the first answer counts.  The kill timer goes on.
Settled(r, answer) ==
  IF r.result # "none" THEN r
  ELSE [r EXCEPT !.result = answer, !.timeout = FALSE, !.deadline = FALSE]

\* Weakened: nothing bounds the wait for the CLI to close.
TerminatedUnbounded(r, next) ==
  IF r.reason # "none"
    THEN IF next = "cancelled" THEN [r EXCEPT !.reason = next] ELSE r
  ELSE [r EXCEPT !.reason = next, !.sent = @ \cup {"SIGTERM"}, !.kill = TRUE]

\* terminate(): the first reason counts, unless the caller aborts later.
Terminated(r, next) ==
  IF r.reason # "none"
    THEN IF next = "cancelled" THEN [r EXCEPT !.reason = next] ELSE r
  ELSE [r EXCEPT !.reason = next, !.sent = @ \cup {"SIGTERM"}, !.kill = TRUE, !.deadline = TRUE]

\* What is reported after the answer is no longer news.
Reported(what) == reported' = IF run.result = "none" THEN reported \cup {what} ELSE reported

-----------------------------------------------------------------------------
(* Before there is a CLI.  An abort is looked at once, at the call.        *)
Call ==
  /\ pc = "called"
  /\ IF aborted
       THEN pc' = "over" /\ run' = Settled(run, "cancelled")
       ELSE pc' = "mkdtemp" /\ UNCHANGED run
  /\ UNCHANGED <<dir, aborted, childVars, reported>>

DirMade ==
  /\ pc = "mkdtemp"
  /\ pc' = "files" /\ dir' = "present"
  /\ UNCHANGED <<aborted, childVars, run, reported>>

DirFails ==
  /\ pc = "mkdtemp"
  /\ pc' = "over" /\ run' = Settled(run, "rejected")
  /\ UNCHANGED <<dir, aborted, childVars, reported>>

\* A file cannot be written, or spawn() throws: the directory is given up
\* first, and a failure of that is what the caller gets.
StartFails(failure) ==
  /\ pc = "files"
  /\ pc' = "over" /\ dir' = "discarded"
  /\ \E answer \in {failure, "rejected"} : run' = Settled(run, answer)
  /\ UNCHANGED <<aborted, childVars, reported>>

\* The CLI is spawned, the listeners and the time-out are set and its stdin
\* is written and ended, which may throw.
Spawn ==
  LET armed == [run EXCEPT !.timeout = TRUE]
  IN  /\ pc = "files"
      /\ pc' = "up" /\ child' = "running"
      /\ \/ run' = armed /\ UNCHANGED reported
         \/ run' = Terminated(armed, "internal") /\ Reported("fault")
      /\ UNCHANGED <<dir, aborted, code, decoded>>

-----------------------------------------------------------------------------
\* The caller's signal; it is listened to from the spawn to the close.
Abort ==
  /\ ~aborted
  /\ aborted' = TRUE
  /\ IF child \in {"running", "exited"}
       THEN run' = Terminated(run, "cancelled") /\ Reported("abort")
       ELSE UNCHANGED <<run, reported>>
  /\ UNCHANGED <<pc, dir, childVars>>

TimeoutFires ==
  /\ run.timeout
  /\ run' = Terminated([run EXCEPT !.timeout = FALSE], "timedOut")
  /\ Reported("fault")
  /\ UNCHANGED <<pc, dir, aborted, childVars>>

KillFires ==
  /\ run.kill
  /\ run' = [run EXCEPT !.kill = FALSE, !.sent = @ \cup {"SIGKILL"}]
  /\ UNCHANGED <<pc, dir, aborted, childVars, reported>>

\* Armed with the kill timer, for longer: it fires after it.
DeadlineFires ==
  /\ run.deadline /\ ~run.kill
  /\ run' = Settled([run EXCEPT !.deadline = FALSE], run.reason)
  /\ UNCHANGED <<pc, dir, aborted, childVars, reported>>

\* Weakened: a stdin the CLI closed is not held against it.
StdinErrorIgnored ==
  /\ child = "running"
  /\ Reported("fault")
  /\ UNCHANGED <<pc, dir, aborted, childVars, run>>

\* A write to the CLI's stdin has failed; its exit ends the stream.
StdinError ==
  /\ child = "running"
  /\ run' = Terminated(run, "internal")
  /\ Reported("fault")
  /\ UNCHANGED <<pc, dir, aborted, childVars>>

\* The CLI could not be started, or not be signalled.
ChildError ==
  /\ child \in {"running", "exited"}
  /\ run.result = "none"
  /\ run' = Terminated(run, "internal")
  /\ Reported("fault")
  /\ UNCHANGED <<pc, dir, aborted, childVars>>

-----------------------------------------------------------------------------
\* A chunk of output is looked at only while nothing has gone wrong.
Listening ==
  /\ child \in {"running", "exited"}
  /\ run.result = "none" /\ run.reason = "none"

Chunk ==
  /\ Listening
  /\ decoded' \in {"json", "other", "split"}
  /\ UNCHANGED <<pc, dir, aborted, child, code, run, reported>>

\* One byte too many, or bytes that are no UTF-8: answered at once.
BadChunk(failure) ==
  /\ Listening
  /\ run' = Settled(Terminated(run, failure), failure)
  /\ UNCHANGED <<pc, dir, aborted, childVars, reported>>

\* The CLI ends, by itself or by a signal.
ChildExits ==
  /\ child = "running"
  /\ child' = "exited" /\ code' \in {"zero", "other"}
  /\ UNCHANGED <<pc, dir, aborted, decoded, run, reported>>

\* What the close of the CLI answers, if nothing has before.
Verdict ==
  IF run.reason # "none" THEN run.reason
  ELSE IF code # "zero" THEN "nonZeroExit"
  ELSE IF decoded = "split" THEN "invalidUtf8"
  ELSE IF decoded = "json" THEN "ok"
  ELSE "invalidJson"

\* The CLI and its pipes are closed: the directory is given up.
ChildClosed ==
  /\ child = "exited"
  /\ child' = "closed" /\ dir' = "discarded"
  /\ run' = Settled([run EXCEPT !.kill = FALSE], Verdict)
  /\ UNCHANGED <<pc, aborted, code, decoded, reported>>

-----------------------------------------------------------------------------
Prepare ==
  \/ Call \/ DirMade \/ DirFails \/ Spawn
  \/ \E failure \in {"internal", "providerUnavailable"} : StartFails(failure)

Next ==
  \/ Prepare
  \/ Abort \/ TimeoutFires \/ KillFires \/ DeadlineFires
  \/ StdinError \/ ChildError
  \/ Chunk \/ (\E failure \in {"outputLimitExceeded", "invalidUtf8"} : BadChunk(failure))
  \/ ChildExits \/ ChildClosed

Spec == Init /\ [][Next]_vars

-----------------------------------------------------------------------------
(* An answer is accepted only from a CLI that ended by itself with exit    *)
(* code 0 after nothing was reported against the run: an answer to a       *)
(* prompt that was cut short, or given while the run was being ended, is   *)
(* refused however well it reads (provider-process.ts:294-302).            *)
OkIsClean ==
  run.result = "ok" =>
    /\ reported = {} /\ run.sent = {}
    /\ child = "closed" /\ code = "zero" /\ decoded = "json"

(* An abort that is heard before the run has answered is its answer, also  *)
(* after a time-out or an error has begun to end it.                       *)
HeardAbortWins == "abort" \in reported => run.result \in {"none", "cancelled"}
=============================================================================
