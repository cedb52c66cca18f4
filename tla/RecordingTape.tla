---------------------------- MODULE RecordingTape ----------------------------
(***************************************************************************)
(* What a recording promises to the replay that will read it: for every    *)
(* match key a tape of outcomes, written strictly one after the other,     *)
(* that is either sealed whole or void.  The detailed stores implement it: *)
(* SessionStore says how.                                                  *)
(***************************************************************************)
EXTENDS Naturals, Sequences

CONSTANTS MatchKeys, Outcomes, NoOutcome

VARIABLES phase,   \* "open" while recording, then "sealed" or "void" for good
          tape     \* per key, the outcomes recorded so far, in order

vars == <<phase, tape>>

\* The last outcome of the key's tape is still to come.
Awaiting(k) == tape[k] # <<>> /\ tape[k][Len(tape[k])] = NoOutcome

Init ==
  /\ phase = "open"
  /\ tape = [k \in MatchKeys |-> <<>>]

\* A new slot is opened only behind a tape that is fully written.
Extend(k) ==
  /\ phase = "open"
  /\ ~Awaiting(k)
  /\ tape' = [tape EXCEPT ![k] = Append(@, NoOutcome)]
  /\ UNCHANGED phase

\* Only the open slot, the last one, is ever written.
Fill(k, o) ==
  /\ phase = "open"
  /\ Awaiting(k)
  /\ tape' = [tape EXCEPT ![k][Len(tape[k])] = o]
  /\ UNCHANGED phase

\* A tape with an open slot cannot be sealed.
Seal ==
  /\ phase = "open"
  /\ \A k \in MatchKeys : ~Awaiting(k)
  /\ phase' = "sealed"
  /\ UNCHANGED tape

Void ==
  /\ phase = "open"
  /\ phase' = "void"
  /\ UNCHANGED tape

Next ==
  \/ \E k \in MatchKeys : Extend(k)
  \/ \E k \in MatchKeys, o \in Outcomes : Fill(k, o)
  \/ Seal
  \/ Void

Spec == Init /\ [][Next]_vars
=============================================================================
