------------------------ MODULE SessionStore_proofs ------------------------
(***************************************************************************)
(* What holds of the session store for every number of keys, outcomes and  *)
(* interactions.                                                           *)
(***************************************************************************)
EXTENDS SessionStore, FiniteSetTheorems, TLAPS

(* Only the last interaction of a key can be open.                         *)
OpenIsLast ==
  \A i \in Incomplete : \A j \in SameKey(log[i].key) : j <= i

StoreInv ==
  /\ StoreTypeOK
  /\ OccurrenceIsRank
  /\ OpenIsLast
  /\ CompletedIsWhole

-----------------------------------------------------------------------------
(* The calls of a key are counted by a natural number.                     *)
LEMMA SameKeyCounted ==
  ASSUME StoreTypeOK, NEW k
  PROVE  IsFiniteSet(SameKey(k)) /\ Cardinality(SameKey(k)) \in Nat
<1>1. DOMAIN log = 1..Len(log) /\ Len(log) \in Nat
  BY DEF StoreTypeOK
<1>2. IsFiniteSet(1..Len(log))
  BY <1>1, FS_Interval
<1>3. IsFiniteSet(SameKey(k))
  BY <1>1, <1>2, FS_Subset DEF SameKey
<1>. QED
  BY <1>3, FS_CardinalityType

(* reserve keeps the invariant: the new interaction is the last of its     *)
(* key, and its rank among them is the number of those before it.          *)
LEMMA ReserveKeepsInv ==
  ASSUME StoreInv, NEW k \in MatchKeys, Reserve(k)
  PROVE  StoreInv'
<1>. DEFINE n == Len(log)
            new == NewInteraction(k)
<1>1. log \in Seq(Interaction) /\ n \in Nat /\ DOMAIN log = 1..n
  BY DEF StoreInv, StoreTypeOK
<1>2. new \in Interaction /\ new.key = k /\ new.outcome = NoOutcome
  BY SameKeyCounted DEF StoreInv, NewInteraction, Interaction
<1>3. /\ log' \in Seq(Interaction)
      /\ DOMAIN log' = 1..(n + 1)
      /\ \A i \in 1..n : log'[i] = log[i]
      /\ log'[n + 1] = new
  BY <1>1, <1>2 DEF Reserve
<1>4. status = "running" /\ status' = status /\ SameKey(k) \cap Incomplete = {}
  BY DEF Reserve, ReserveVerdict
<1>5. StoreTypeOK'
  BY <1>3, <1>4 DEF StoreInv, StoreTypeOK
<1>6. OccurrenceIsRank'
  <2>. SUFFICES ASSUME NEW i \in 1..(n + 1)
                PROVE  log'[i].occurrence
                         = Cardinality({j \in 1..(i - 1) : log'[j].key = log'[i].key})
    BY <1>3 DEF OccurrenceIsRank
  <2>1. CASE i = n + 1
    <3>1. {j \in 1..(i - 1) : log'[j].key = log'[i].key} = SameKey(k)
      BY <1>1, <1>2, <1>3, <2>1 DEF SameKey
    <3>2. log'[i].occurrence = Cardinality(SameKey(k))
      BY <1>3, <2>1 DEF NewInteraction
    <3>. QED
      BY <3>1, <3>2, Zenon
  <2>2. CASE i \in 1..n
    <3>1. {j \in 1..(i - 1) : log'[j].key = log'[i].key}
            = {j \in 1..(i - 1) : log[j].key = log[i].key}
      BY <1>1, <1>3, <2>2
    <3>. QED
      BY <1>1, <1>3, <2>2, <3>1 DEF StoreInv, OccurrenceIsRank
  <2>. QED
    BY <1>1, <2>1, <2>2
<1>7. OpenIsLast'
  <2>. SUFFICES ASSUME NEW i \in 1..(n + 1), log'[i].outcome = NoOutcome,
                       NEW j \in 1..(n + 1), log'[j].key = log'[i].key
                PROVE  j <= i
    BY <1>3 DEF OpenIsLast, Incomplete, SameKey
  <2>1. CASE i = n + 1
    BY <1>1, <2>1
  <2>2. CASE i \in 1..n /\ j \in 1..n
    BY <1>1, <1>3, <2>2 DEF StoreInv, OpenIsLast, Incomplete, SameKey
  <2>3. CASE i \in 1..n /\ j = n + 1
    BY <1>1, <1>2, <1>3, <1>4, <2>3 DEF Incomplete, SameKey
  <2>. QED
    BY <1>1, <2>1, <2>2, <2>3
<1>8. CompletedIsWhole'
  BY <1>4 DEF CompletedIsWhole
<1>. QED
  BY <1>5, <1>6, <1>7, <1>8 DEF StoreInv

(* complete touches one outcome: keys and occurrences stay.                *)
LEMMA CompleteKeepsInv ==
  ASSUME StoreInv, NEW i \in DOMAIN log, NEW o \in Outcomes, Complete(i, o)
  PROVE  StoreInv'
<1>1. /\ log \in Seq(Interaction)
      /\ DOMAIN log = 1..Len(log)
      /\ Len(log) \in Nat
      /\ \A j \in DOMAIN log : log[j] \in Interaction
  BY DEF StoreInv, StoreTypeOK
<1>2. status = "running" /\ status' = status
  BY DEF Complete, CompleteVerdict
<1>3. log' = [log EXCEPT ![i] = [log[i] EXCEPT !.outcome = o]]
  BY DEF Complete
<1>4. [log[i] EXCEPT !.outcome = o] \in Interaction
  BY <1>1 DEF Interaction
<1>5. log' \in Seq(Interaction) /\ DOMAIN log' = DOMAIN log
  BY <1>1, <1>3, <1>4
<1>6. \A j \in DOMAIN log : /\ log'[j].key = log[j].key
                            /\ log'[j].occurrence = log[j].occurrence
                            /\ log'[j].outcome = NoOutcome => log[j].outcome = NoOutcome
  BY <1>1, <1>3, NoOutcomeAssumption DEF Interaction
<1>7. StoreTypeOK'
  BY <1>2, <1>5 DEF StoreInv, StoreTypeOK
<1>8. OccurrenceIsRank'
  <2>. SUFFICES ASSUME NEW j \in DOMAIN log
                PROVE  log'[j].occurrence
                         = Cardinality({m \in 1..(j - 1) : log'[m].key = log'[j].key})
    BY <1>5 DEF OccurrenceIsRank
  <2>1. {m \in 1..(j - 1) : log'[m].key = log'[j].key}
          = {m \in 1..(j - 1) : log[m].key = log[j].key}
    BY <1>1, <1>6
  <2>. QED
    BY <1>6, <2>1 DEF StoreInv, OccurrenceIsRank
<1>9. OpenIsLast'
  BY <1>1, <1>5, <1>6 DEF StoreInv, OpenIsLast, Incomplete, SameKey
<1>10. CompletedIsWhole'
  BY <1>2 DEF CompletedIsWhole
<1>. QED
  BY <1>7, <1>8, <1>9, <1>10 DEF StoreInv

(* finish only moves the status, and to "completed" only a whole session.  *)
LEMMA FinishKeepsInv ==
  ASSUME StoreInv, NEW s \in {"completed", "failed"}, Finish(s)
  PROVE  StoreInv'
<1>1. log' = log
  BY DEF Finish
<1>2. status' \in Statuses
  BY DEF Finish, FinalStatus, Statuses, StoreInv, StoreTypeOK
<1>3. status' = "completed" => Incomplete = {}
  BY DEF Finish, FinalStatus, FinishVerdict, StoreInv, CompletedIsWhole
<1>4. StoreTypeOK' /\ OccurrenceIsRank'
  BY <1>1, <1>2 DEF StoreInv, StoreTypeOK, OccurrenceIsRank
<1>5. OpenIsLast' /\ CompletedIsWhole'
  BY <1>1, <1>3 DEF StoreInv, OpenIsLast, CompletedIsWhole, Incomplete, SameKey
<1>. QED
  BY <1>4, <1>5 DEF StoreInv

(* A step that leaves the store alone keeps its invariant.                 *)
LEMMA StutterKeepsInv ==
  ASSUME StoreInv, UNCHANGED storeVars
  PROVE  StoreInv'
BY DEF storeVars, StoreInv, StoreTypeOK, OccurrenceIsRank, OpenIsLast, CompletedIsWhole,
       Incomplete, SameKey

(* The invariant of the store, of which the properties below are parts.    *)
THEOREM StoreInvariant == StoreSpec => []StoreInv
<1>1. StoreInit => StoreInv
  BY DEF StoreInit, StoreInv, StoreTypeOK, Statuses, OccurrenceIsRank, OpenIsLast,
         CompletedIsWhole, Incomplete, SameKey
<1>2. StoreInv /\ [StoreNext]_storeVars => StoreInv'
  BY ReserveKeepsInv, CompleteKeepsInv, FinishKeepsInv, StutterKeepsInv DEF StoreNext
<1>. QED
  BY <1>1, <1>2, PTL DEF StoreSpec

(* (key, occurrence) names at most one interaction: the store's lookup has *)
(* one answer, in every session that was ever recorded.                    *)
THEOREM LookupIsUnique ==
  ASSUME StoreInv, NEW i \in DOMAIN log, NEW j \in DOMAIN log,
         log[i].key = log[j].key, log[i].occurrence = log[j].occurrence
  PROVE  i = j
<1>. DEFINE Before(m) == {l \in 1..(m - 1) : log[l].key = log[m].key}
<1>1. DOMAIN log = 1..Len(log) /\ Len(log) \in Nat
  BY DEF StoreInv, StoreTypeOK
<1>2. \A m \in DOMAIN log : IsFiniteSet(Before(m)) /\ log[m].occurrence = Cardinality(Before(m))
  <2>. SUFFICES ASSUME NEW m \in DOMAIN log
                PROVE  IsFiniteSet(Before(m)) /\ log[m].occurrence = Cardinality(Before(m))
    OBVIOUS
  <2>1. IsFiniteSet(1..(m - 1))
    BY <1>1, FS_Interval
  <2>2. IsFiniteSet(Before(m))
    BY <2>1, FS_Subset
  <2>. QED
    BY <2>2 DEF StoreInv, OccurrenceIsRank
<1>3. ASSUME NEW a \in DOMAIN log, NEW b \in DOMAIN log, log[a].key = log[b].key, a < b
      PROVE  Cardinality(Before(a)) < Cardinality(Before(b))
  <2>1. Before(a) \subseteq Before(b) /\ a \in Before(b) /\ a \notin Before(a)
    BY <1>1, <1>3
  <2>2. Before(a) # Before(b)
    BY <2>1
  <2>3. IsFiniteSet(Before(b))
    BY <1>2
  <2>. HIDE DEF Before
  <2>4. /\ Cardinality(Before(a)) <= Cardinality(Before(b))
        /\ Cardinality(Before(a)) # Cardinality(Before(b))
    BY <2>1, <2>2, <2>3, FS_Subset
  <2>5. Cardinality(Before(a)) \in Nat /\ Cardinality(Before(b)) \in Nat
    BY <1>2, FS_CardinalityType
  <2>. QED
    BY <2>4, <2>5
<1>. HIDE DEF Before
<1>4. Cardinality(Before(i)) = Cardinality(Before(j)) /\ Cardinality(Before(i)) \in Nat
  BY <1>2, FS_CardinalityType
<1>5. ~(i < j) /\ ~(j < i)
  BY <1>3, <1>4
<1>. QED
  BY <1>1, <1>5

-----------------------------------------------------------------------------
(* The interactions of a key have the occurrences 0 .. N - 1, one each: as *)
(* many different numbers below N as there are interactions leave no gap.  *)
LEMMA OccurrencesHaveNoGap ==
  ASSUME StoreInv, NEW k
  PROVE  /\ \A i \in SameKey(k) : log[i].occurrence \in 0..(Cardinality(SameKey(k)) - 1)
         /\ \A n \in 0..(Cardinality(SameKey(k)) - 1) :
              \E i \in SameKey(k) : log[i].occurrence = n
<1>. DEFINE N == Cardinality(SameKey(k))
            Before(i) == {j \in 1..(i - 1) : log[j].key = log[i].key}
<1>1. /\ DOMAIN log = 1..Len(log) /\ Len(log) \in Nat
      /\ IsFiniteSet(SameKey(k)) /\ N \in Nat
  BY SameKeyCounted DEF StoreInv, StoreTypeOK
<1>2. ASSUME NEW i \in SameKey(k)
      PROVE  log[i].occurrence \in 0..(N - 1)
  <2>1. log[i].occurrence = Cardinality(Before(i))
    BY DEF SameKey, StoreInv, OccurrenceIsRank
  <2>2. Before(i) \subseteq SameKey(k) /\ i \notin Before(i)
    BY <1>1 DEF SameKey
  <2>. HIDE DEF Before
  <2>3. /\ IsFiniteSet(Before(i))
        /\ Cardinality(Before(i)) <= N
        /\ Cardinality(Before(i)) # N
    BY <1>1, <2>2, FS_Subset
  <2>4. Cardinality(Before(i)) \in Nat
    BY <2>3, FS_CardinalityType
  <2>. QED
    BY <1>1, <2>1, <2>3, <2>4
<1>. DEFINE f == [i \in SameKey(k) |-> log[i].occurrence]
<1>3. f \in Injection(SameKey(k), 0..(N - 1))
  <2>1. f \in [SameKey(k) -> 0..(N - 1)]
    BY <1>2
  <2>2. \A i, j \in SameKey(k) : f[i] = f[j] => i = j
    BY LookupIsUnique DEF SameKey
  <2>. QED
    BY <2>1, <2>2 DEF Injection, IsInjective
<1>4. IsFiniteSet(0..(N - 1)) /\ Cardinality(0..(N - 1)) = N
  <2>. HIDE DEF N
  <2>1. 0 \in Int /\ N - 1 \in Int
    BY <1>1
  <2>2. /\ IsFiniteSet(0..(N - 1))
        /\ Cardinality(0..(N - 1)) = IF 0 > N - 1 THEN 0 ELSE (N - 1) - 0 + 1
    BY <2>1, FS_Interval
  <2>. QED
    BY <1>1, <2>2
<1>5. f \in Surjection(SameKey(k), 0..(N - 1))
  <2>. HIDE DEF f
  <2>. QED
    BY <1>3, <1>4, FS_Injection
<1>6. \A n \in 0..(N - 1) : \E i \in SameKey(k) : f[i] = n
  BY <1>5 DEF Surjection
<1>. QED
  BY <1>2, <1>6

(* So every slot of a key's tape is one interaction of the key.            *)
SlotsAreInteractions(k) ==
  /\ \A n \in 1..Cardinality(SameKey(k)) :
       Slot(k, n) \in SameKey(k) /\ log[Slot(k, n)].occurrence = n - 1
  /\ \A i \in SameKey(k) : \A n \in Nat :
       log[i].occurrence = n - 1 => n \in 1..Cardinality(SameKey(k)) /\ Slot(k, n) = i

LEMMA SlotIsInteraction == StoreInv => \A k \in MatchKeys : SlotsAreInteractions(k)
<1>. SUFFICES ASSUME StoreInv, NEW k \in MatchKeys PROVE SlotsAreInteractions(k)
  OBVIOUS
<1>. DEFINE N == Cardinality(SameKey(k))
<1>1. N \in Nat
  BY SameKeyCounted DEF StoreInv
<1>2. ASSUME NEW n \in 1..N
      PROVE  Slot(k, n) \in SameKey(k) /\ log[Slot(k, n)].occurrence = n - 1
  <2>1. n - 1 \in 0..(N - 1)
    BY <1>1
  <2>2. \E i \in SameKey(k) : log[i].occurrence = n - 1
    BY <2>1, OccurrencesHaveNoGap
  <2>. QED
    BY <2>2 DEF Slot
<1>3. ASSUME NEW i \in SameKey(k), NEW n \in Nat, log[i].occurrence = n - 1
      PROVE  n \in 1..N /\ Slot(k, n) = i
  <2>1. log[i].occurrence \in 0..(N - 1)
    BY OccurrencesHaveNoGap
  <2>2. n \in 1..N
    BY <1>1, <1>3, <2>1
  <2>3. Slot(k, n) \in SameKey(k) /\ log[Slot(k, n)].occurrence = log[i].occurrence
    BY <1>2, <1>3, <2>2
  <2>. QED
    BY <2>2, <2>3, LookupIsUnique DEF SameKey
<1>. QED
  BY <1>2, <1>3 DEF SlotsAreInteractions

LEMMA SlotIsInteractionNext == (StoreInv => \A k \in MatchKeys : SlotsAreInteractions(k))'
BY SlotIsInteraction, PTL

(* The tape of a key awaits an outcome exactly when the store would refuse *)
(* to reserve the key, and the open interaction is its last slot.          *)
LEMMA AwaitingIsOpen ==
  ASSUME StoreInv, NEW k \in MatchKeys
  PROVE  /\ Tape!Awaiting(k) <=> SameKey(k) \cap Incomplete # {}
         /\ \A i \in SameKey(k) \cap Incomplete :
              /\ Cardinality(SameKey(k)) \in Nat \ {0}
              /\ i = Slot(k, Cardinality(SameKey(k)))
<1>. DEFINE N == Cardinality(SameKey(k))
<1>1. DOMAIN log = 1..Len(log) /\ Len(log) \in Nat /\ IsFiniteSet(SameKey(k)) /\ N \in Nat
  BY SameKeyCounted DEF StoreInv, StoreTypeOK
<1>2. ASSUME NEW i \in SameKey(k) \cap Incomplete
      PROVE  N # 0 /\ i = Slot(k, N)
  <2>1. {j \in 1..(i - 1) : log[j].key = log[i].key} = SameKey(k) \ {i}
    BY <1>1 DEF StoreInv, OpenIsLast, SameKey, Incomplete
  <2>2. log[i].occurrence = Cardinality(SameKey(k) \ {i})
    BY <2>1 DEF SameKey, StoreInv, OccurrenceIsRank
  <2>3. Cardinality(SameKey(k) \ {i}) = N - 1
    BY <1>1, FS_RemoveElement
  <2>4. log[i].occurrence + 1 = N
    BY <1>1, <2>2, <2>3
  <2>5. i \in SameKey(k) /\ N \in Nat /\ log[i].occurrence = N - 1
    BY <1>1, <2>2, <2>3
  <2>6. N \in 1..N /\ Slot(k, N) = i
    BY <2>5, SlotIsInteraction DEF SlotsAreInteractions
  <2>. QED
    BY <1>1, <2>6
<1>3. TapeOf(k) = [n \in 1..N |-> log[Slot(k, n)].outcome]
  BY DEF TapeOf
<1>4. Len(TapeOf(k)) = N /\ (TapeOf(k) = <<>> <=> N = 0)
  BY <1>1, <1>3
<1>5. Tape!Awaiting(k) <=> N # 0 /\ log[Slot(k, N)].outcome = NoOutcome
  <2>1. Tape!Awaiting(k) <=> N # 0 /\ TapeOf(k)[N] = NoOutcome
    BY <1>4 DEF Tape!Awaiting
  <2>. QED
    BY <1>1, <1>3, <2>1
<1>6. N # 0 => Slot(k, N) \in SameKey(k)
  BY <1>1, SlotIsInteraction DEF SlotsAreInteractions
<1>. QED
  BY <1>1, <1>2, <1>5, <1>6 DEF Incomplete, SameKey

-----------------------------------------------------------------------------
(* A store step does to the tapes what the abstract tape allows.           *)
\* Keys of which no interaction is added or written keep their tape.
LEMMA TapeStays ==
  ASSUME StoreInv, StoreInv', NEW k \in MatchKeys,
         SameKey(k)' = SameKey(k),
         \A i \in SameKey(k) : log'[i].occurrence = log[i].occurrence
  PROVE  /\ \A n \in 1..Cardinality(SameKey(k)) : Slot(k, n)' = Slot(k, n)
         /\ (\A i \in SameKey(k) : log'[i].outcome = log[i].outcome) => TapeOf(k)' = TapeOf(k)
<1>. DEFINE N == Cardinality(SameKey(k))
<1>2. SlotsAreInteractions(k) /\ SlotsAreInteractions(k)' /\ N \in Nat
  BY SlotIsInteraction, SlotIsInteractionNext, SameKeyCounted DEF StoreInv
<1>3. ASSUME NEW n \in 1..N
      PROVE  Slot(k, n)' = Slot(k, n) /\ Slot(k, n) \in SameKey(k)
  BY <1>2 DEF SlotsAreInteractions
<1>. QED
  BY <1>3 DEF TapeOf

LEMMA ReserveExtends ==
  ASSUME StoreInv, StoreInv', NEW k \in MatchKeys, Reserve(k)
  PROVE  Tape!Extend(k)
<1>. DEFINE N == Cardinality(SameKey(k))
            n == Len(log)
<1>1. /\ DOMAIN log = 1..n /\ n \in Nat /\ IsFiniteSet(SameKey(k)) /\ N \in Nat
      /\ log \in Seq(Interaction)
  BY SameKeyCounted DEF StoreInv, StoreTypeOK
<1>2. /\ status = "running" /\ status' = status /\ SameKey(k) \cap Incomplete = {}
      /\ log' = Append(log, NewInteraction(k))
  BY DEF Reserve, ReserveVerdict
<1>3. /\ DOMAIN log' = 1..(n + 1)
      /\ \A i \in 1..n : log'[i] = log[i]
      /\ log'[n + 1] = NewInteraction(k)
  BY <1>1, <1>2
<1>4. /\ SameKey(k)' = SameKey(k) \cup {n + 1} /\ n + 1 \notin SameKey(k)
      /\ \A j \in MatchKeys \ {k} : SameKey(j)' = SameKey(j)
  BY <1>1, <1>3 DEF SameKey, NewInteraction
<1>5. N' = N + 1
  BY <1>1, <1>4, FS_AddElement, ZenonT(30)
<1>6. \A j \in MatchKeys \ {k} : TapeOf(j)' = TapeOf(j)
  <2>. SUFFICES ASSUME NEW j \in MatchKeys \ {k} PROVE TapeOf(j)' = TapeOf(j)
    OBVIOUS
  <2>1. SameKey(j) \subseteq 1..n
    BY <1>1 DEF SameKey
  <2>. QED
    BY <1>3, <1>4, <2>1, TapeStays
<1>13. SlotsAreInteractions(k) /\ SlotsAreInteractions(k)'
  BY SlotIsInteraction, SlotIsInteractionNext
<1>7. \A m \in 1..N : Slot(k, m)' = Slot(k, m) /\ Slot(k, m) \in 1..n
  <2>. SUFFICES ASSUME NEW m \in 1..N
                PROVE  Slot(k, m)' = Slot(k, m) /\ Slot(k, m) \in 1..n
    OBVIOUS
  <2>1. Slot(k, m) \in SameKey(k) /\ log[Slot(k, m)].occurrence = m - 1
    BY <1>13 DEF SlotsAreInteractions
  <2>2. Slot(k, m) \in 1..n
    BY <1>1, <2>1 DEF SameKey
  <2>3. Slot(k, m) \in SameKey(k)' /\ log'[Slot(k, m)].occurrence = m - 1
    BY <1>3, <1>4, <2>1, <2>2
  <2>. QED
    BY <1>1, <1>13, <2>2, <2>3 DEF SlotsAreInteractions
<1>8. ASSUME NEW m \in Nat, m = N + 1
      PROVE  Slot(k, m)' = n + 1
  <2>1. n + 1 \in SameKey(k)' /\ log'[n + 1].occurrence = m - 1
    BY <1>1, <1>3, <1>4, <1>8 DEF NewInteraction
  <2>. QED
    BY <1>13, <2>1 DEF SlotsAreInteractions
<1>9. TapeOf(k)' = Append(TapeOf(k), NoOutcome)
  <2>1. TapeOf(k) = [m \in 1..N |-> log[Slot(k, m)].outcome]
    BY DEF TapeOf
  <2>2. TapeOf(k)' = [m \in 1..(N + 1) |-> log'[Slot(k, m)'].outcome]
    BY <1>5 DEF TapeOf
  <2>3. Append(TapeOf(k), NoOutcome)
          = [m \in 1..(N + 1) |-> IF m = N + 1 THEN NoOutcome ELSE TapeOf(k)[m]]
    BY <1>1, <2>1
  <2>4. ASSUME NEW m \in 1..(N + 1)
        PROVE  log'[Slot(k, m)'].outcome = IF m = N + 1 THEN NoOutcome ELSE TapeOf(k)[m]
    <3>1. CASE m = N + 1
      BY <1>1, <1>3, <1>8, <3>1 DEF NewInteraction
    <3>2. CASE m \in 1..N
      BY <1>1, <1>3, <1>7, <2>1, <3>2
    <3>. QED
      BY <1>1, <3>1, <3>2
  <2>. QED
    BY <2>2, <2>3, <2>4
<1>10. [j \in MatchKeys |-> TapeOf(j)]'
         = [[j \in MatchKeys |-> TapeOf(j)] EXCEPT ![k] = Append(@, NoOutcome)]
  BY <1>6, <1>9
<1>11. TapePhase = "open" /\ TapePhase' = TapePhase
  BY <1>2 DEF TapePhase
<1>12. ~Tape!Awaiting(k)
  BY <1>2, AwaitingIsOpen
<1>. QED
  BY <1>10, <1>11, <1>12 DEF Tape!Extend

LEMMA CompleteFills ==
  ASSUME StoreInv, StoreInv', NEW k \in MatchKeys, NEW i \in SameKey(k),
         NEW o \in Outcomes, Complete(i, o)
  PROVE  Tape!Fill(k, o)
<1>. DEFINE N == Cardinality(SameKey(k))
<1>1. /\ status = "running" /\ status' = status /\ i \in Incomplete
      /\ log' = [log EXCEPT ![i] = [log[i] EXCEPT !.outcome = o]]
  BY DEF Complete, CompleteVerdict
<1>2. /\ log \in Seq(Interaction) /\ i \in DOMAIN log /\ log[i] \in Interaction
      /\ DOMAIN log' = DOMAIN log /\ log[i].key = k
  BY <1>1 DEF StoreInv, StoreTypeOK, SameKey
<1>3. /\ \A j \in DOMAIN log : log'[j].key = log[j].key /\ log'[j].occurrence = log[j].occurrence
      /\ \A j \in DOMAIN log \ {i} : log'[j] = log[j]
      /\ log'[i].outcome = o
  BY <1>1, <1>2 DEF Interaction
<1>4. \A j \in MatchKeys : SameKey(j)' = SameKey(j) /\ SameKey(j) \subseteq DOMAIN log
  BY <1>2, <1>3 DEF SameKey
<1>5. i \in SameKey(k) \cap Incomplete
  BY <1>1 DEF SameKey
<1>6. /\ N \in Nat \ {0} /\ Slot(k, N) = i /\ Tape!Awaiting(k)
  BY <1>2, <1>5, AwaitingIsOpen
<1>7. ASSUME NEW j \in MatchKeys \ {k}
      PROVE  TapeOf(j)' = TapeOf(j)
  <2>1. i \notin SameKey(j)
    BY DEF SameKey
  <2>. QED
    BY <1>3, <1>4, <2>1, TapeStays
<1>8. SlotsAreInteractions(k) /\ \A n \in 1..N : Slot(k, n)' = Slot(k, n)
  BY <1>2, <1>3, <1>4, SlotIsInteraction, TapeStays
<1>9. TapeOf(k)' = [TapeOf(k) EXCEPT ![N] = o]
  <2>1. TapeOf(k) = [n \in 1..N |-> log[Slot(k, n)].outcome]
    BY DEF TapeOf
  <2>2. TapeOf(k)' = [n \in 1..N |-> log'[Slot(k, n)].outcome]
    BY <1>2, <1>4, <1>8 DEF TapeOf
  <2>3. ASSUME NEW n \in 1..N
        PROVE  log'[Slot(k, n)].outcome = IF n = N THEN o ELSE TapeOf(k)[n]
    <3>1. CASE n = N
      BY <1>3, <1>6, <3>1
    <3>2. CASE n # N
      <4>1. /\ Slot(k, n) \in SameKey(k)
            /\ log[Slot(k, n)].occurrence = n - 1 /\ log[i].occurrence = N - 1
        BY <1>6, <1>8 DEF SlotsAreInteractions
      <4>2. Slot(k, n) \in DOMAIN log \ {i}
        BY <1>2, <1>4, <1>6, <3>2, <4>1
      <4>. QED
        BY <1>3, <2>1, <3>2, <4>2
    <3>. QED
      BY <3>1, <3>2
  <2>. QED
    BY <1>6, <2>1, <2>2, <2>3
<1>10. Len(TapeOf(k)) = N
  BY <1>6 DEF TapeOf
<1>11. [j \in MatchKeys |-> TapeOf(j)]'
         = [[j \in MatchKeys |-> TapeOf(j)] EXCEPT ![k][Len(TapeOf(k))] = o]
  BY <1>2, <1>7, <1>9, <1>10
<1>12. TapePhase = "open" /\ TapePhase' = TapePhase
  BY <1>1 DEF TapePhase
<1>. QED
  BY <1>2, <1>6, <1>11, <1>12 DEF Tape!Fill

LEMMA FinishSealsOrVoids ==
  ASSUME StoreInv, StoreInv', NEW s \in {"completed", "failed"}, Finish(s)
  PROVE  [Tape!Next]_Tape!vars
<1>1. log' = log /\ status' = FinalStatus(s)
  BY DEF Finish
<1>2. [j \in MatchKeys |-> TapeOf(j)]' = [j \in MatchKeys |-> TapeOf(j)]
  <2>1. \A j \in MatchKeys : SameKey(j)' = SameKey(j)
    BY <1>1 DEF SameKey
  <2>2. \A j \in MatchKeys : TapeOf(j)' = TapeOf(j)
    BY <1>1, <2>1, TapeStays
  <2>. QED
    BY <2>2
<1>3. CASE status # "running"
  BY <1>1, <1>2, <1>3 DEF FinalStatus, TapePhase, Tape!vars
<1>4. CASE status = "running" /\ status' = "completed"
  <2>1. Incomplete = {}
    BY <1>1, <1>4 DEF StoreInv, CompletedIsWhole, Incomplete
  <2>2. \A k \in MatchKeys : ~Tape!Awaiting(k)
    BY <2>1, AwaitingIsOpen
  <2>3. TapePhase = "open" /\ TapePhase' = "sealed"
    BY <1>4 DEF TapePhase
  <2>4. Tape!Seal
    BY <1>2, <2>2, <2>3 DEF Tape!Seal
  <2>. QED
    BY <2>4 DEF Tape!Next
<1>5. CASE status = "running" /\ status' = "failed"
  <2>1. TapePhase = "open" /\ TapePhase' = "void"
    BY <1>5 DEF TapePhase
  <2>2. Tape!Void
    BY <1>2, <2>1 DEF Tape!Void
  <2>. QED
    BY <2>2 DEF Tape!Next
<1>. QED
  BY <1>1, <1>3, <1>4, <1>5 DEF FinalStatus

LEMMA StoreStepIsTapeStep ==
  ASSUME StoreInv, StoreInv', [StoreNext]_storeVars
  PROVE  [Tape!Next]_Tape!vars
<1>1. ASSUME NEW k \in MatchKeys, Reserve(k)
      PROVE  Tape!Next
  BY <1>1, ReserveExtends DEF Tape!Next
<1>2. ASSUME NEW i \in DOMAIN log, NEW o \in Outcomes, Complete(i, o)
      PROVE  Tape!Next
  <2>1. log[i] \in Interaction
    BY DEF StoreInv, StoreTypeOK
  <2>2. log[i].key \in MatchKeys /\ i \in SameKey(log[i].key)
    BY <2>1 DEF Interaction, SameKey
  <2>. QED
    BY <1>2, <2>2, CompleteFills DEF Tape!Next
<1>3. ASSUME UNCHANGED storeVars
      PROVE  UNCHANGED Tape!vars
  <2>1. \A j \in MatchKeys : SameKey(j)' = SameKey(j)
    BY <1>3 DEF SameKey, storeVars
  <2>2. \A j \in MatchKeys : TapeOf(j)' = TapeOf(j)
    BY <1>3, <2>1, TapeStays DEF storeVars
  <2>. QED
    BY <1>3, <2>2 DEF Tape!vars, TapePhase, storeVars
<1>. QED
  BY <1>1, <1>2, <1>3, FinishSealsOrVoids DEF StoreNext

(* The store implements the recording tape: a slot is opened behind a      *)
(* fully written tape, filled once, and the tapes are sealed whole or void *)
(* for good.                                                               *)
THEOREM StoreImplementsTape == StoreSpec => Tape!Spec
<1>1. StoreInit => Tape!Init
  <2>. SUFFICES ASSUME StoreInit PROVE Tape!Init
    OBVIOUS
  <2>1. \A k : SameKey(k) = {} /\ TapePhase = "open"
    BY DEF StoreInit, SameKey, TapePhase
  <2>2. ASSUME NEW k
        PROVE  TapeOf(k) = <<>>
    <3>1. Cardinality(SameKey(k)) = 0
      BY <2>1, FS_EmptySet
    <3>2. TapeOf(k) = [n \in 1..0 |-> log[Slot(k, n)].outcome]
      BY <3>1 DEF TapeOf
    <3>. QED
      BY <3>2
  <2>. QED
    BY <2>1, <2>2 DEF Tape!Init
<1>2. StoreInv /\ StoreInv' /\ [StoreNext]_storeVars => [Tape!Next]_Tape!vars
  BY StoreStepIsTapeStep
<1>. QED
  BY <1>1, <1>2, StoreInvariant, PTL DEF StoreSpec, Tape!Spec
=============================================================================
