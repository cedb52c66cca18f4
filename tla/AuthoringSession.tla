-------------------------- MODULE AuthoringSession --------------------------
(***************************************************************************)
(* The review session of a generated suite (authoring-session.ts): an      *)
(* approved draft, a candidate that someone proposes, the diff of the two  *)
(* and what an approved selection of its changes makes of the draft.       *)
(*                                                                         *)
(* A suite is the sequence of its cases.  A case is its id and a value     *)
(* that stands for everything else in it; the name and the time-out of the *)
(* suite, one more value that a change replaces whole, are left out.  What *)
(* validateMcpSuite and the tool list refuse never gets to be a candidate. *)
(***************************************************************************)
EXTENDS Naturals, SequencesExt

CONSTANTS
  CaseIds,        \* of the cases of a suite
  Values,         \* of a case
  Baseline,       \* the suite generated from the server's schemas
  Candidates,     \* suites that a provider answers or a user edits
  NoCandidate

Cases == [id : CaseIds, value : Values]

Ids(suite) == {suite[i].id : i \in DOMAIN suite}
Order(suite) == [i \in DOMAIN suite |-> suite[i].id]

(* A suite is an array of cases, not empty, with no id twice               *)
(* (INVALID_TYPE, EMPTY_CASES, DUPLICATE_CASE_ID).                         *)
IsSuite(suite) == suite \in Seq(Cases) /\ suite # <<>> /\ Cardinality(Ids(suite)) = Len(suite)

ASSUME SuitesAssumption == \A s \in Candidates \cup {Baseline} : IsSuite(s)

VARIABLES
  draft,       \* approved: the suite, its revision and where each case is from
  candidate    \* the candidate of the review, or NoCandidate

Position(suite, c) == CHOOSE i \in DOMAIN suite : suite[i].id = c
CaseOf(suite, c) == suite[Position(suite, c)]

SessionInit ==
  /\ draft = [suite |-> Baseline, revision |-> 0,
              provenance |-> [c \in Ids(Baseline) |-> [origin |-> "baseline", first |-> 0, last |-> 0]]]
  /\ candidate = NoCandidate

(* candidateFor: a suite whose values had to be redacted can be looked at, *)
(* and never applied.                                                      *)
CandidateOf(suite, by, executable) == [suite |-> suite, by |-> by, executable |-> executable]

-----------------------------------------------------------------------------
Change(type, c) == [type |-> type, id |-> c]
Reordering == Change("caseOrder", "every case")

(* createAuthoringDiff. *)
Changes(before, after) ==
  {Change("removeCase", c) : c \in Ids(before) \ Ids(after)}
  \cup {Change("addCase", c) : c \in Ids(after) \ Ids(before)}
  \cup {Change("replaceCase", c) :
          c \in {d \in Ids(before) \cap Ids(after) : CaseOf(before, d) # CaseOf(after, d)}}
  \cup {r \in {Reordering} : Order(before) # Order(after)}

(* Over the places of the suite: what is kept of its first i cases. *)
Removed(suite, selected) ==
  LET kept[i \in 0..Len(suite)] ==
        IF i = 0 THEN <<>>
        ELSE IF Change("removeCase", suite[i].id) \in selected THEN kept[i - 1]
        ELSE Append(kept[i - 1], suite[i])
  IN  kept[Len(suite)]

Replaced(suite, after, selected) ==
  [i \in DOMAIN suite |->
     IF Change("replaceCase", suite[i].id) \in selected THEN CaseOf(after, suite[i].id) ELSE suite[i]]

(* Over the places of the candidate: new cases go to theirs, or to the end. *)
Added(suite, after, selected) ==
  LET added[i \in 0..Len(after)] ==
        IF i = 0 THEN suite
        ELSE LET before == added[i - 1]
             IN  IF Change("addCase", after[i].id) \notin selected THEN before
                 ELSE InsertAt(before, IF i > Len(before) THEN Len(before) + 1 ELSE i, after[i])
  IN  added[Len(after)]

(* The candidate's order, for the same cases only (incompatibleSelection). *)
Ordered(suite, after, selected) ==
  IF Reordering \notin selected THEN suite
  ELSE IF Ids(suite) # Ids(after) THEN <<>>
  ELSE [i \in DOMAIN after |-> CaseOf(suite, after[i].id)]

(* Weakened: the order is taken before the new cases are in. *)
OrderedFirst(before, after, selected) ==
  Added(Replaced(Ordered(Removed(before, selected), after, selected), after, selected), after, selected)

(* applyAuthoringChanges on the cases; <<>> when the selection is refused. *)
Selected(before, after, selected) ==
  Ordered(Added(Replaced(Removed(before, selected), after, selected), after, selected), after, selected)

(* The draft that an approved selection makes. *)
Approved(d, by, suite, selected) ==
  LET revision == d.revision + 1
      Entry(c) ==
        IF Change("addCase", c) \in selected THEN [origin |-> by, first |-> revision, last |-> revision]
        ELSE IF Change("replaceCase", c) \in selected
        THEN [origin |-> by, first |-> d.provenance[c].first, last |-> revision]
        ELSE d.provenance[c]
  IN  [suite |-> suite, revision |-> revision, provenance |-> [c \in Ids(suite) |-> Entry(c)]]

(* applyAuthoringChanges with an approval of what was shown: a new draft,  *)
(* or the old one when the candidate or the selection is refused.          *)
Applied(d, cand, selected) ==
  LET suite == Selected(d.suite, cand.suite, selected)
  IN  IF cand.executable /\ IsSuite(suite) THEN Approved(d, cand.by, suite, selected) ELSE d

-----------------------------------------------------------------------------
(* What a reviewer approves is what happens: every selection that is not   *)
(* refused gives the cases it names the candidate's content and leaves     *)
(* each other case, and the record of where it is from, as it was; and all *)
(* changes together give the candidate itself, its order included          *)
(* (createAuthoringDiff against applyAuthoringChanges).                    *)
SelectionIsExact ==
  (candidate # NoCandidate /\ candidate.executable) =>
    LET changes == Changes(draft.suite, candidate.suite)
        Named(c, selected) == \E change \in selected \ {Reordering} : change.id = c
    IN  /\ Applied(draft, candidate, changes).suite = candidate.suite
        /\ \A selected \in SUBSET changes :
             LET next == Applied(draft, candidate, selected)
             IN  next # draft =>
                   /\ DOMAIN next.provenance = Ids(next.suite)
                   /\ \A c \in Ids(next.suite) :
                        IF Named(c, selected)
                        THEN /\ CaseOf(next.suite, c) = CaseOf(candidate.suite, c)
                             /\ next.provenance[c].last = next.revision
                             /\ next.provenance[c].origin = candidate.by
                        ELSE /\ CaseOf(next.suite, c) = CaseOf(draft.suite, c)
                             /\ next.provenance[c] = draft.provenance[c]
                   /\ \A c \in Ids(draft.suite) \ Ids(next.suite) : Named(c, selected)
=============================================================================
