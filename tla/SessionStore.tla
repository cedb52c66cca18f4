---------------------------- MODULE SessionStore ----------------------------
(***************************************************************************)
(* The session store of the external record/replay packages: one session   *)
(* and its interactions.  The in-memory and the SQLite store obey the same *)
(* contract, and both are synchronous: one call is one step.               *)
(*                                                                         *)
(* An interaction's ordinal is its position in the log (position 1 is      *)
(* ordinal 0) and its id is derived from the ordinal, so neither is a      *)
(* field.  An interaction is complete when it has an outcome.              *)
(***************************************************************************)
EXTENDS Naturals, Sequences, FiniteSets

CONSTANTS MatchKeys,   \* fingerprints of a request: what replay matches on
          Outcomes,    \* what a real call can end with: a response or a throw
          NoOutcome    \* the outcome column of an incomplete interaction

ASSUME NoOutcomeAssumption == NoOutcome \notin Outcomes

VARIABLES status,      \* of the session
          log          \* its interactions, in the order they were reserved

storeVars == <<status, log>>

Statuses == {"running", "completed", "failed"}

Interaction == [key : MatchKeys, occurrence : Nat, outcome : Outcomes \cup {NoOutcome}]

StoreTypeOK ==
  /\ status \in Statuses
  /\ log \in Seq(Interaction)

-----------------------------------------------------------------------------
SameKey(k) == {i \in DOMAIN log : log[i].key = k}

Incomplete == {i \in DOMAIN log : log[i].outcome = NoOutcome}

\* createSession of a session id that does not exist yet.
StoreInit ==
  /\ status = "running"
  /\ log = <<>>

-----------------------------------------------------------------------------
(***************************************************************************)
(* reserve: refused unless the session runs and no interaction of the same *)
(* key is still open; otherwise the next ordinal and the key's next        *)
(* occurrence.                                                             *)
(***************************************************************************)
\* Weakened: a second open interaction of a key is let in.
ReserveVerdictIgnoringOpen(k) ==
  IF status # "running" THEN "SESSION_NOT_RUNNING" ELSE "ok"

ReserveVerdict(k) ==
  IF status # "running" THEN "SESSION_NOT_RUNNING"
  ELSE IF SameKey(k) \cap Incomplete # {} THEN "CONCURRENT_MATCH"
  ELSE "ok"

\* Weakened: the occurrence counts all interactions, not those of the key.
NewInteractionByOrdinal(k) == [key |-> k, occurrence |-> Len(log), outcome |-> NoOutcome]

NewInteraction(k) ==
  [key |-> k, occurrence |-> Cardinality(SameKey(k)), outcome |-> NoOutcome]

Reserve(k) ==
  /\ ReserveVerdict(k) = "ok"
  /\ log' = Append(log, NewInteraction(k))
  /\ UNCHANGED status

(***************************************************************************)
(* complete: refused unless the session runs and the interaction exists    *)
(* and is open; otherwise its outcome is stored, once.                     *)
(***************************************************************************)
CompleteVerdict(i) ==
  IF status # "running" THEN "SESSION_NOT_RUNNING"
  ELSE IF i \notin DOMAIN log THEN "INTERACTION_NOT_FOUND"
  ELSE IF i \notin Incomplete THEN "INTERACTION_ALREADY_COMPLETE"
  ELSE "ok"

Complete(i, o) ==
  /\ CompleteVerdict(i) = "ok"
  /\ log' = [log EXCEPT ![i].outcome = o]
  /\ UNCHANGED status

(***************************************************************************)
(* finish: the first call ends the session.  Asked to complete a session   *)
(* with an open interaction it stores "failed" and throws; a session that  *)
(* has ended keeps its status whatever is asked.                           *)
(***************************************************************************)
\* Weakened: open interactions are not looked at.
FinishVerdictUnchecked(s) == "ok"

FinishVerdict(s) ==
  IF status = "running" /\ s = "completed" /\ Incomplete # {} THEN "INCOMPLETE_SESSION"
                                                              ELSE "ok"

\* Weakened: a session that has ended takes the new status.
FinalStatusReopening(s) == IF FinishVerdict(s) = "ok" THEN s ELSE "failed"

FinalStatus(s) ==
  IF status # "running" THEN status
  ELSE IF FinishVerdict(s) = "ok" THEN s
  ELSE "failed"

Finish(s) ==
  /\ status' = FinalStatus(s)
  /\ UNCHANGED log

-----------------------------------------------------------------------------
StoreNext ==
  \/ \E k \in MatchKeys : Reserve(k)
  \/ \E i \in DOMAIN log, o \in Outcomes : Complete(i, o)
  \/ \E s \in {"completed", "failed"} : Finish(s)

StoreSpec == StoreInit /\ [][StoreNext]_storeVars

-----------------------------------------------------------------------------
(* The n-th interaction of a key has occurrence n - 1: replay, which looks *)
(* up by (key, occurrence), finds each interaction at one place only.      *)
OccurrenceIsRank ==
  \A i \in DOMAIN log :
    log[i].occurrence = Cardinality({j \in 1..(i - 1) : log[j].key = log[i].key})

(* A session stored as completed holds no open interaction, whatever was   *)
(* in flight, timed out or killed when finish() came.                      *)
CompletedIsWhole == status = "completed" => Incomplete = {}

-----------------------------------------------------------------------------
(***************************************************************************)
(* The refinement mapping onto RecordingTape: occurrence n of a key is the *)
(* (n+1)-st slot of the key's tape.                                        *)
(***************************************************************************)
TapePhase ==
  CASE status = "running"   -> "open"
    [] status = "completed" -> "sealed"
    [] status = "failed"    -> "void"

Slot(k, n) == CHOOSE i \in SameKey(k) : log[i].occurrence = n - 1

TapeOf(k) == [n \in 1..Cardinality(SameKey(k)) |-> log[Slot(k, n)].outcome]

Tape == INSTANCE RecordingTape
          WITH phase <- TapePhase, tape <- [k \in MatchKeys |-> TapeOf(k)]
=============================================================================
