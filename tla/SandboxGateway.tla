--------------------------- MODULE SandboxGateway ---------------------------
(***************************************************************************)
(* The gateway of an audit sandbox: every HTTP request of the server under *)
(* audit ends here.  It notes each request under the phase the audit is in *)
(* and forwards it; in record mode it tapes the answers, in replay mode it *)
(* gives them from a tape.                                                 *)
(***************************************************************************)
EXTENDS Naturals, Sequences, FiniteSets

CONSTANT Requests    \* the requests the server may send

VARIABLES
  mode,   \* "record" or "replay"; "live" is "record" without the tape
  gate,   \* state.phase, the phase as the gateway knows it
  reqs,   \* each request: where it is, and what became of it
  tape    \* createRecorder: the request of each response, in the order taped

gatewayVars == <<mode, gate, reqs, tape>>

\* `due` holds the phases the audit would call right for it, history; `at` is
\* the phase it is noted under.
Unsent == [st |-> "unsent", due |-> {}, at |-> 0, noted |-> FALSE, settled |-> FALSE]

GatewayInit ==
  /\ mode \in {"record", "replay"}
  /\ gate = 0
  /\ reqs = [r \in Requests |-> Unsent]
  /\ tape = <<>>

-----------------------------------------------------------------------------
(* onRequest and the first line of handle: the phase is that of arrival.   *)
Arrive(r, due) ==
  /\ reqs[r].st = "unsent"
  /\ reqs' = [reqs EXCEPT ![r].st = "body", ![r].due = due, ![r].at = gate]
  /\ UNCHANGED <<mode, gate, tape>>

(* The body is never whole: handle ends with nothing noted.                *)
BodyBreaks(r) ==
  /\ reqs[r].st = "body"
  /\ reqs' = [reqs EXCEPT ![r].st = "refused"]
  /\ UNCHANGED <<mode, gate, tape>>

(* A Host that is an address or no name or is not the SNI, and a name of   *)
(* an internal address, which only a request to be forwarded is asked for. *)
Refuse(r) ==
  /\ reqs[r].st = "body"
  /\ reqs' = [reqs EXCEPT ![r].st = "refused", ![r].noted = TRUE]
  /\ UNCHANGED <<mode, gate, tape>>

(* In replay mode the tape answers, or says that it holds no answer.       *)
Replay(r) ==
  /\ mode = "replay" /\ reqs[r].st = "body"
  /\ reqs' = [reqs EXCEPT ![r].st = "answered", ![r].noted = TRUE]
  /\ UNCHANGED <<mode, gate, tape>>

-----------------------------------------------------------------------------
Taped(r) == tape' = IF mode = "record" THEN Append(tape, r) ELSE tape

(* The name has no address.                                                *)
LookupFails(r) ==
  /\ mode # "replay" /\ reqs[r].st = "body"
  /\ reqs' = [reqs EXCEPT ![r].st = "unresolved", ![r].noted = TRUE]
  /\ Taped(r)
  /\ UNCHANGED <<mode, gate>>

Forward(r) ==
  /\ mode # "replay" /\ reqs[r].st = "body"
  /\ reqs' = [reqs EXCEPT ![r].st = "upstream", ![r].noted = TRUE]
  /\ UNCHANGED <<mode, gate, tape>>

UpstreamAnswers(r) ==
  /\ reqs[r].st = "upstream"
  /\ reqs' = [reqs EXCEPT ![r].st = "answering", ![r].settled = TRUE]
  /\ UNCHANGED <<mode, gate, tape>>

AnswerEnds(r) ==
  /\ reqs[r].st = "answering"
  /\ reqs' = [reqs EXCEPT ![r].st = "answered"]
  /\ Taped(r)
  /\ UNCHANGED <<mode, gate>>

Dialled(r) == reqs[r].st \in {"upstream", "left", "failed", "answering", "broken", "answered"}

(* Weakened: each error of the upstream is taken for its first news.       *)
ErrorIsNews(r) == TRUE

(* A request that has its entry, or will have it, gets no other.           *)
IsNews(r) == ~reqs[r].settled

(* The upstream's `error`: it may come after the answer, and again.        *)
UpstreamError(r) ==
  /\ mode # "replay" /\ Dialled(r)
  /\ reqs' = [reqs EXCEPT ![r].settled = TRUE,
                          ![r].st = CASE @ = "upstream"  -> "failed"
                                      [] @ = "answering" -> "broken"
                                      [] OTHER           -> @]
  /\ IF IsNews(r) THEN Taped(r) ELSE UNCHANGED tape
  /\ UNCHANGED <<mode, gate>>

(* The server gives up a request it has sent: the upstream's is destroyed. *)
ClientLeaves(r) ==
  /\ reqs[r].st \in {"upstream", "answering"}
  /\ reqs' = [reqs EXCEPT ![r].st = IF @ = "upstream" THEN "left" ELSE "broken"]
  /\ UNCHANGED <<mode, gate, tape>>

-----------------------------------------------------------------------------
(* Weakened: a request in flight keeps the gateway in its phase.           *)
PhaseWhenIdle(next) ==
  IF \E r \in Requests : reqs[r].st \in {"body", "upstream", "answering"} THEN gate ELSE next

(* POST /phase: the phase changes when nothing is in flight or half a      *)
(* second has passed, before it is answered.                               *)
PhaseAfter(next) == next

GatewayStep ==
  \E r \in Requests :
    \/ BodyBreaks(r) \/ Refuse(r) \/ Replay(r) \/ LookupFails(r) \/ Forward(r)
    \/ UpstreamAnswers(r) \/ AnswerEnds(r) \/ UpstreamError(r) \/ ClientLeaves(r)

-----------------------------------------------------------------------------
(* What a recording holds of a request (ADR-0113): one answer when it was  *)
(* answered in full, or ended without any; none when it was refused or     *)
(* broke off, so that a replay misses where the recording did not.         *)
RecordedOnce ==
  \A r \in Requests :
    LET taped == Cardinality({i \in DOMAIN tape : tape[i] = r})
    IN  /\ taped <= 1
        /\ mode = "record" /\ reqs[r].st \in {"answered", "failed", "unresolved"} => taped = 1
        /\ reqs[r].st \in {"refused", "broken"} => taped = 0
=============================================================================
