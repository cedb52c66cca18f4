---------------------------- MODULE RunRegistry ----------------------------
(***************************************************************************)
(* One run of the dashboard server: the RunRecord of run-registry.ts and   *)
(* the WebReviewIO it owns (review-bridge.ts).  The command a run executes *)
(* is its environment: it writes lines, asks questions and waits for each  *)
(* answer, and at last returns an exit code or throws.                     *)
(*                                                                         *)
(* The record keeps its history in `events`; the id of an event is its     *)
(* place there.  A question is named by its number (`q1`, `q2`, ...), and  *)
(* an answer by the browser tab it came from and the question that tab     *)
(* typed it for, so that a value which reaches the wrong question shows.   *)
(***************************************************************************)
EXTENDS Naturals, Sequences

CONSTANTS
  MaxQuestions,   \* bound: questions the command asks
  MaxLines        \* bound: the command writes lines while `events` is shorter

ASSUME BoundsAssumption == MaxQuestions \in Nat /\ MaxLines \in Nat

VARIABLES
  command,    \* where the executed command is
  events,     \* accumulated events, oldest first
  asked,      \* questions asked so far (counter)
  pending,    \* number of the question in the single slot, 0 when it is null
  resolved,   \* history: what each question's promise was resolved with
  finished    \* status set by finish, "unset" before

runVars == <<command, events, asked, pending, resolved, finished>>

EndStatuses == {"done", "failed"}
Statuses == {"running", "waiting-input"} \cup EndStatuses

Line == [kind |-> "line", about |-> "text"]
Question(q) == [kind |-> "question", about |-> q]
Done(status) == [kind |-> "done", about |-> status]

Events == {Line} \cup {Question(q) : q \in 1..MaxQuestions} \cup {Done(s) : s \in EndStatuses}

RunInit ==
  /\ command = "queued"
  /\ events = <<>>
  /\ asked = 0
  /\ pending = 0
  /\ resolved = <<>>
  /\ finished = "unset"

(* The status getter: a set end wins over the slot. *)
RunStatus ==
  IF finished # "unset" THEN finished
  ELSE IF pending = 0 THEN "running" ELSE "waiting-input"

(* begin() defers execute to a microtask. *)
Begin ==
  /\ command = "queued"
  /\ command' = "working"
  /\ UNCHANGED <<events, asked, pending, resolved, finished>>

(* writeStdout, writeStderr and ReviewIO.write: nothing stops a line while *)
(* a question waits.                                                       *)
WriteLine ==
  /\ command \in {"working", "asking"}
  /\ Len(events) < MaxLines
  /\ events' = Append(events, Line)
  /\ UNCHANGED <<command, asked, pending, resolved, finished>>

(* input, choose and confirm end in ask: the event goes out first and the  *)
(* slot is filled after it, both in one synchronous section.               *)
Ask ==
  /\ command = "working"
  /\ pending = 0
  /\ asked < MaxQuestions
  /\ asked' = asked + 1
  /\ events' = Append(events, Question(asked + 1))
  /\ pending' = asked + 1
  /\ command' = "asking"
  /\ UNCHANGED <<resolved, finished>>

(* Weakened: whatever question is in the slot takes the answer. *)
AcceptsAny(q) == pending # 0

(* answer(questionId, value) accepts only the id in the slot. *)
Accepts(q) == pending # 0 /\ pending = q

(* The accepted answer empties the slot, echoes the answer as a line and   *)
(* resolves the promise; the command goes on in the microtask after it.    *)
TakeAnswer(answer) ==
  /\ pending' = 0
  /\ events' = Append(events, Line)
  /\ resolved' = Append(resolved, answer)
  /\ command' = "working"
  /\ UNCHANGED <<asked, finished>>

(* finish: exit code 0 is "done", any other "failed"; the set end is       *)
(* announced by the last event.                                            *)
Return(status) ==
  /\ command = "working"
  /\ command' = "ended"
  /\ finished' = status
  /\ events' = Append(events, Done(status))
  /\ UNCHANGED <<asked, pending, resolved>>

(* A command that throws leaves its message as a line and fails. *)
Throw ==
  /\ command = "working"
  /\ command' = "ended"
  /\ finished' = "failed"
  /\ events' = events \o <<Line, Done("failed")>>
  /\ UNCHANGED <<asked, pending, resolved>>

RunNext ==
  \/ Begin
  \/ WriteLine
  \/ Ask
  \/ \E status \in EndStatuses : Return(status)
  \/ Throw
=============================================================================
