---------------------------- MODULE Shared_proofs ----------------------------
(***************************************************************************)
(* What the program shares with others and cannot keep still: the path at  *)
(* --out, between the command `generate` and whatever else writes there,   *)
(* with the draft that is to be written; a run of the dashboard, between   *)
(* its server and the tabs that watch it; and the session file, between    *)
(* the runs of the CLI.  For any suites, any number of tabs and of runs.   *)
(***************************************************************************)
EXTENDS GenerateCommand, Dashboard, SessionFile, FiniteSetTheorems, SequenceTheorems, WellFoundedInduction, TLAPS

-----------------------------------------------------------------------------
(* What holds of 0 and of each number after one it holds of.               *)
LEMMA UpTo ==
  ASSUME NEW n \in Nat, NEW T, 0 \in T, \A i \in 1..n : i - 1 \in T => i \in T
  PROVE  0..n \subseteq T
<1> DEFINE Wrong == {i \in 0..n : i \notin T}
<1> SUFFICES ASSUME Wrong # {} PROVE FALSE
  OBVIOUS
<1>1. PICK i \in Wrong : \A j \in Wrong : i <= j
  <2>0. Wrong \subseteq Nat
    OBVIOUS
  <2> HIDE DEF Wrong
  <2>1. PICK x \in Wrong : \A y \in Wrong : ~(<<y, x>> \in OpToRel(<, Nat))
    BY <2>0, NatLessThanWellFounded, WFMin
  <2>2. \A y \in Wrong : ~(y < x)
    BY <2>0, <2>1 DEF OpToRel
  <2> QED
    BY <2>0, <2>2
<1>2. i \in 1..n /\ i - 1 \in 0..n /\ ~(i <= i - 1)
  OBVIOUS
<1>3. i - 1 \in T
  BY <1>1, <1>2
<1> QED
  BY <1>2, <1>3

(* A function over 0..n defined from its value before exists.              *)
Iterates(f, start, step, n) == f = [i \in 0..n |-> IF i = 0 THEN start ELSE step[i][f[i - 1]]]

(* Its values are those of the definition.                                 *)
LEMMA IteratesAt ==
  ASSUME NEW f, NEW start, NEW step, NEW n \in Nat, Iterates(f, start, step, n)
  PROVE  f[0] = start /\ \A i \in 1..n : f[i] = step[i][f[i - 1]]
<1> DEFINE F(i) == IF i = 0 THEN start ELSE step[i][f[i - 1]]
<1>1. f = [i \in 0..n |-> F(i)]
  BY DEF Iterates
<1> HIDE DEF F
<1>2. \A i \in 0..n : f[i] = F(i)
  BY <1>1
<1> QED
  BY <1>2 DEF F

(* And there is one, for a start and steps in one set.                     *)
LEMMA IteratesExist ==
  ASSUME NEW V, NEW start \in V, NEW n \in Nat, NEW step \in [1..n -> [V -> V]]
  PROVE  \E f \in [0..n -> V] : Iterates(f, start, step, n)
<1> DEFINE Good(f, m) == f \in [0..m -> V] /\ Iterates(f, start, step, m)
           T == {m \in 0..n : \E f : Good(f, m)}
<1>1. 0 \in T
  <2>1. Good([i \in 0..0 |-> start], 0)
    BY DEF Iterates
  <2> HIDE DEF Good
  <2> QED
    BY <2>1
<1>2. ASSUME NEW m \in 1..n, m - 1 \in T
      PROVE  m \in T
  <2>1. PICK g : Good(g, m - 1)
    BY <1>2
  <2> DEFINE f == [i \in 0..m |-> IF i = m THEN step[m][g[m - 1]] ELSE g[i]]
             F(i) == IF i = 0 THEN start ELSE step[i][f[i - 1]]
  <2>2. m - 1 \in Nat /\ g \in [0..(m - 1) -> V]
    BY <2>1
  <2>3. g[0] = start /\ \A i \in 1..(m - 1) : g[i] = step[i][g[i - 1]]
    BY <2>1, <2>2, IteratesAt
  <2>4. step[m][g[m - 1]] \in V
    <3>1. g[m - 1] \in V /\ step[m] \in [V -> V]
      BY <2>2
    <3> QED
      BY <3>1
  <2>5. f \in [0..m -> V]
    BY <2>2, <2>4
  <2>6. ASSUME NEW i \in 0..m
        PROVE  f[i] = F(i)
    <3>1. CASE i = 0
      BY <2>2, <2>3, <3>1
    <3>2. CASE i # 0 /\ i # m
      <4>1. i \in 1..(m - 1) /\ i - 1 \in 0..m /\ i - 1 # m
        BY <3>2
      <4>2. f[i] = g[i] /\ f[i - 1] = g[i - 1]
        BY <3>2, <4>1
      <4> QED
        BY <2>3, <3>2, <4>1, <4>2
    <3>3. CASE i = m
      <4>1. i - 1 \in 0..m /\ i - 1 # m /\ i # 0
        BY <3>3
      <4>2. f[i] = step[m][g[m - 1]] /\ f[i - 1] = g[m - 1]
        BY <3>3, <4>1
      <4> HIDE DEF f
      <4> QED
        BY <3>3, <4>1, <4>2
    <3> QED
      BY <3>1, <3>2, <3>3
  <2>7. Iterates(f, start, step, m)
    <3>1. f = [i \in 0..m |-> f[i]]
      OBVIOUS
    <3> HIDE DEF f, F
    <3>2. f = [i \in 0..m |-> F(i)]
      BY <2>6, <3>1
    <3> QED
      BY <3>2 DEF F, Iterates
  <2> QED
    BY <2>5, <2>7
<1>3. 0..n \subseteq T
  <2> HIDE DEF T
  <2> QED
    BY <1>1, <1>2, UpTo
<1> QED
  BY <1>3

-----------------------------------------------------------------------------
(* What sequences are made of: an element at the end, another sequence, an *)
(* element in between.                                                     *)
LEMMA AppendTo ==
  ASSUME NEW S, NEW s \in Seq(S), NEW x \in S
  PROVE  Append(s, x) \in Seq(S) /\ Range(Append(s, x)) = Range(s) \cup {x}
<1>1. /\ Len(Append(s, x)) = Len(s) + 1 /\ Len(s) \in Nat
      /\ \A k \in 1..Len(s) : Append(s, x)[k] = s[k]
      /\ Append(s, x)[Len(s) + 1] = x
      /\ Append(s, x) \in Seq(S)
  OBVIOUS
<1>2. DOMAIN s = 1..Len(s) /\ DOMAIN Append(s, x) = 1..(Len(s) + 1)
  BY <1>1
<1> QED
  BY <1>1, <1>2 DEF Range

(* A sequence behind another has the elements of both.                     *)
LEMMA ConcatTo ==
  ASSUME NEW S, NEW p \in Seq(S), NEW q \in Seq(S)
  PROVE  p \o q \in Seq(S) /\ Range(p \o q) = Range(p) \cup Range(q)
<1> DEFINE r == p \o q
<1>1. /\ Len(p) \in Nat /\ Len(q) \in Nat /\ DOMAIN p = 1..Len(p) /\ DOMAIN q = 1..Len(q)
      /\ r \in Seq(S) /\ DOMAIN r = 1..(Len(p) + Len(q))
      /\ \A k \in 1..Len(p) : r[k] = p[k]
      /\ \A k \in 1..Len(q) : r[Len(p) + k] = q[k]
  OBVIOUS
<1> HIDE DEF r
<1>2. ASSUME NEW k \in DOMAIN r
      PROVE  r[k] \in Range(p) \cup Range(q)
  <2>1. k \in 1..Len(p) \/ (k - Len(p) \in 1..Len(q) /\ k = Len(p) + (k - Len(p)))
    BY <1>1
  <2>2. r[k] = p[k] \/ (k - Len(p) \in 1..Len(q) /\ r[k] = q[k - Len(p)])
    BY <1>1, <2>1
  <2> QED
    BY <1>1, <2>1, <2>2 DEF Range
<1>3. \A k \in 1..Len(p) : k \in DOMAIN r /\ r[k] = p[k]
  BY <1>1
<1>4. \A k \in 1..Len(q) : Len(p) + k \in DOMAIN r /\ r[Len(p) + k] = q[k]
  BY <1>1
<1>5. Range(r) \subseteq Range(p) \cup Range(q)
  BY <1>2 DEF Range
<1>6. Range(p) \subseteq Range(r) /\ Range(q) \subseteq Range(r)
  BY <1>1, <1>3, <1>4, ZenonT(30) DEF Range
<1>7. r \in Seq(S) /\ Range(r) = Range(p) \cup Range(q)
  BY <1>1, <1>5, <1>6
<1> QED
  BY <1>7 DEF r

(* Inserting adds the one element, wherever it goes.                       *)
LEMMA InsertInto ==
  ASSUME NEW S, NEW s \in Seq(S), NEW x \in S, NEW i \in 1..(Len(s) + 1)
  PROVE  InsertAt(s, i, x) \in Seq(S) /\ Range(InsertAt(s, i, x)) = Range(s) \cup {x}
<1> DEFINE n == Len(s)
           before == SubSeq(s, 1, i - 1)
           after == SubSeq(s, i, n)
<1>1. n \in Nat /\ s \in [1..n -> S]
  OBVIOUS
<1>2. before \in Seq(S) /\ Len(before) = i - 1 /\ \A k \in 1..(i - 1) : before[k] = s[k]
  BY <1>1
<1>3. after \in Seq(S) /\ Len(after) = n + 1 - i /\ \A k \in 1..(n + 1 - i) : after[k] = s[k + i - 1]
  BY <1>1
<1>4. Range(before) = {s[k] : k \in 1..(i - 1)}
  <2>1. DOMAIN before = 1..(i - 1)
    BY <1>2
  <2> HIDE DEF before
  <2> QED
    BY <1>2, <2>1 DEF Range
<1>5. Range(after) = {s[k] : k \in i..n}
  <2>1. DOMAIN after = 1..(n + 1 - i)
    BY <1>1, <1>3
  <2> HIDE DEF after, n
  <2>2. \A k \in i..n : k - i + 1 \in 1..(n + 1 - i) /\ k = (k - i + 1) + i - 1
    BY <1>1
  <2>3. \A k \in 1..(n + 1 - i) : k + i - 1 \in i..n
    BY <1>1
  <2>4. Range(after) = {after[k] : k \in 1..(n + 1 - i)}
    BY <2>1 DEF Range
  <2> QED
    BY <1>3, <2>2, <2>3, <2>4
<1>6. Range(s) = {s[k] : k \in 1..(i - 1)} \cup {s[k] : k \in i..n}
  BY <1>1 DEF Range
<1>7. InsertAt(s, i, x) = (before \o <<x>>) \o after
  BY DEF InsertAt
<1>8. <<x>> \in Seq(S) /\ Range(<<x>>) = {x}
  BY DEF Range
<1> HIDE DEF before, after
<1>9. before \o <<x>> \in Seq(S) /\ Range(before \o <<x>>) = Range(before) \cup Range(<<x>>)
  BY <1>2, <1>8, ConcatTo
<1> DEFINE q == before \o <<x>>
<1>10. q \in Seq(S)
  BY <1>9
<1> HIDE DEF q
<1>11. q \o after \in Seq(S) /\ Range(q \o after) = Range(q) \cup Range(after)
  BY <1>3, <1>10, ConcatTo
<1> QED
  BY <1>4, <1>5, <1>6, <1>7, <1>8, <1>9, <1>11 DEF q

-----------------------------------------------------------------------------
(* What Removed keeps are the cases whose removal is not selected.         *)
LEMMA RemovedKeeps ==
  ASSUME NEW suite \in Seq(Cases), NEW selected
  PROVE  /\ Removed(suite, selected) \in Seq(Cases)
         /\ Range(Removed(suite, selected)) =
              {x \in Range(suite) : Change("removeCase", x.id) \notin selected}
         /\ (\A x \in Range(suite) : Change("removeCase", x.id) \notin selected) =>
              Removed(suite, selected) = suite
<1> DEFINE n == Len(suite)
           IsGone(i) == Change("removeCase", suite[i].id) \in selected
           Kept(f) == f = [i \in 0..n |-> IF i = 0 THEN <<>>
                             ELSE IF IsGone(i) THEN f[i - 1] ELSE Append(f[i - 1], suite[i])]
           step == [i \in 1..n |-> [v \in Seq(Cases) |-> IF IsGone(i) THEN v ELSE Append(v, suite[i])]]
           g == CHOOSE f : Kept(f)
<1>1. n \in Nat /\ suite \in [1..n -> Cases]
  OBVIOUS
<1>2. step \in [1..n -> [Seq(Cases) -> Seq(Cases)]]
  <2>1. \A i \in 1..n, v \in Seq(Cases) : Append(v, suite[i]) \in Seq(Cases)
    BY <1>1
  <2> HIDE DEF n, IsGone
  <2> QED
    BY <2>1
<1>3. \E f : Kept(f)
  <2>1. PICK f \in [0..n -> Seq(Cases)] : Iterates(f, <<>>, step, n)
    <3>1. <<>> \in Seq(Cases)
      OBVIOUS
    <3> HIDE DEF step, n
    <3> QED
      BY <1>1, <1>2, <3>1, IteratesExist
  <2> DEFINE A(i) == IF i = 0 THEN <<>> ELSE step[i][f[i - 1]]
             B(i) == IF i = 0 THEN <<>> ELSE IF IsGone(i) THEN f[i - 1] ELSE Append(f[i - 1], suite[i])
  <2>2. \A i \in 0..n : A(i) = B(i)
    <3> TAKE i \in 0..n
    <3>1. i # 0 => i \in 1..n /\ i - 1 \in 0..n
      BY <1>1
    <3>2. i # 0 => f[i - 1] \in Seq(Cases)
      BY <3>1
    <3> HIDE DEF IsGone, n
    <3> QED
      BY <3>1, <3>2
  <2>3. [i \in 0..n |-> A(i)] = [i \in 0..n |-> B(i)]
    <3> HIDE DEF A, B
    <3> QED
      BY <2>2
  <2>4. Kept(f)
    BY <2>1, <2>3 DEF Iterates
  <2> HIDE DEF Kept
  <2> QED
    BY <2>4
<1>4. Removed(suite, selected) = g[n]
  BY DEF Removed
<1>5. Kept(g)
  <2> HIDE DEF Kept
  <2> QED
    BY <1>3
<1> HIDE DEF g
<1>6. /\ g[0] = <<>>
      /\ \A i \in 1..n : g[i] = IF IsGone(i) THEN g[i - 1] ELSE Append(g[i - 1], suite[i])
  <2> DEFINE B(i) == IF i = 0 THEN <<>> ELSE IF IsGone(i) THEN g[i - 1] ELSE Append(g[i - 1], suite[i])
  <2>1. g = [i \in 0..n |-> B(i)]
    BY <1>5
  <2> HIDE DEF B
  <2>2. \A i \in 0..n : g[i] = B(i)
    BY <2>1
  <2>3. 0 \in 0..n /\ \A i \in 1..n : i \in 0..n /\ i # 0
    BY <1>1
  <2> QED
    BY <2>2, <2>3 DEF B
<1> HIDE DEF Kept
<1>7. /\ g[n] \in Seq(Cases)
      /\ Range(g[n]) = {suite[k] : k \in {j \in 1..n : ~IsGone(j)}}
  <2> DEFINE K(i) == {suite[k] : k \in {j \in 1..i : ~IsGone(j)}}
             T == {i \in 0..n : g[i] \in Seq(Cases) /\ Range(g[i]) = K(i)}
  <2>1. 0 \in T
    <3>1. 0 \in 0..n /\ Range(<<>>) = {} /\ K(0) = {} /\ <<>> \in Seq(Cases)
      BY <1>1 DEF Range
    <3> QED
      BY <1>6, <3>1
  <2>2. ASSUME NEW i \in 1..n, i - 1 \in T
        PROVE  i \in T
    <3>1. g[i - 1] \in Seq(Cases) /\ Range(g[i - 1]) = K(i - 1) /\ suite[i] \in Cases
      BY <1>1, <2>2
    <3>2. K(i) = IF IsGone(i) THEN K(i - 1) ELSE K(i - 1) \cup {suite[i]}
      BY <1>1
    <3>3. /\ Append(g[i - 1], suite[i]) \in Seq(Cases)
          /\ Range(Append(g[i - 1], suite[i])) = Range(g[i - 1]) \cup {suite[i]}
      BY <3>1, AppendTo
    <3>4. i \in 0..n
      OBVIOUS
    <3> HIDE DEF K, IsGone, n
    <3> QED
      BY <1>6, <3>1, <3>2, <3>3, <3>4
  <2>3. 0..n \subseteq T
    <3> HIDE DEF T, n
    <3> QED
      BY <1>1, <2>1, <2>2, UpTo
  <2>4. n \in 0..n
    BY <1>1
  <2> QED
    BY <2>3, <2>4
<1>8. ASSUME \A i \in 1..n : ~IsGone(i)
      PROVE  g[n] = suite
  <2> DEFINE T == {i \in 0..n : g[i] = SubSeq(suite, 1, i)}
  <2>1. 0 \in T
    <3>1. SubSeq(suite, 1, 0) = <<>> /\ 0 \in 0..n
      BY <1>1
    <3> QED
      BY <1>6, <3>1
  <2>2. ASSUME NEW i \in 1..n, i - 1 \in T
        PROVE  i \in T
    <3>1. g[i] = Append(SubSeq(suite, 1, i - 1), suite[i])
      <4>1. g[i - 1] = SubSeq(suite, 1, i - 1) /\ ~IsGone(i)
        BY <1>8, <2>2
      <4> HIDE DEF IsGone, n
      <4> QED
        BY <1>6, <4>1
    <3> QED
      BY <1>1, <3>1
  <2>3. 0..n \subseteq T
    <3> HIDE DEF T, n
    <3> QED
      BY <1>1, <2>1, <2>2, UpTo
  <2>4. g[n] = SubSeq(suite, 1, n)
    <3>1. n \in 0..n
      BY <1>1
    <3> QED
      BY <2>3, <3>1
  <2> QED
    BY <1>1, <2>4
<1> QED
  BY <1>1, <1>4, <1>7, <1>8 DEF Range

(* Added has the cases of the suite and those whose addition is selected.  *)
LEMMA AddedHas ==
  ASSUME NEW suite \in Seq(Cases), NEW after \in Seq(Cases), NEW selected
  PROVE  /\ Added(suite, after, selected) \in Seq(Cases)
         /\ Range(Added(suite, after, selected)) =
              Range(suite) \cup {x \in Range(after) : Change("addCase", x.id) \in selected}
         /\ (\A x \in Range(after) : Change("addCase", x.id) \notin selected) =>
              Added(suite, after, selected) = suite
<1> DEFINE n == Len(after)
           Comes(i) == Change("addCase", after[i].id) \in selected
           At(v, i) == InsertAt(v, IF i > Len(v) THEN Len(v) + 1 ELSE i, after[i])
           Grown(f) == f = [i \in 0..n |-> IF i = 0 THEN suite
                              ELSE IF ~Comes(i) THEN f[i - 1] ELSE At(f[i - 1], i)]
           step == [i \in 1..n |-> [v \in Seq(Cases) |-> IF ~Comes(i) THEN v ELSE At(v, i)]]
           g == CHOOSE f : Grown(f)
<1>1. n \in Nat /\ after \in [1..n -> Cases]
  OBVIOUS
<1>2. ASSUME NEW i \in 1..n, NEW v \in Seq(Cases)
      PROVE  At(v, i) \in Seq(Cases) /\ Range(At(v, i)) = Range(v) \cup {after[i]}
  <2> DEFINE k == IF i > Len(v) THEN Len(v) + 1 ELSE i
  <2>1. k \in 1..(Len(v) + 1) /\ after[i] \in Cases
    BY <1>1
  <2> HIDE DEF k, n
  <2>2. InsertAt(v, k, after[i]) \in Seq(Cases) /\ Range(InsertAt(v, k, after[i])) = Range(v) \cup {after[i]}
    BY <2>1, InsertInto
  <2> QED
    BY <2>2 DEF k
<1> HIDE DEF At
<1>3. step \in [1..n -> [Seq(Cases) -> Seq(Cases)]]
  <2> HIDE DEF n, Comes
  <2> QED
    BY <1>2
<1>4. \E f : Grown(f)
  <2>1. PICK f \in [0..n -> Seq(Cases)] : Iterates(f, suite, step, n)
    <3> HIDE DEF step, n
    <3> QED
      BY <1>1, <1>3, IteratesExist
  <2> DEFINE A(i) == IF i = 0 THEN suite ELSE step[i][f[i - 1]]
             B(i) == IF i = 0 THEN suite ELSE IF ~Comes(i) THEN f[i - 1] ELSE At(f[i - 1], i)
  <2>2. \A i \in 0..n : A(i) = B(i)
    <3> TAKE i \in 0..n
    <3>1. i # 0 => i \in 1..n /\ i - 1 \in 0..n
      BY <1>1
    <3>2. i # 0 => f[i - 1] \in Seq(Cases)
      BY <3>1
    <3> HIDE DEF Comes, n
    <3> QED
      BY <3>1, <3>2
  <2>3. [i \in 0..n |-> A(i)] = [i \in 0..n |-> B(i)]
    <3> HIDE DEF A, B
    <3> QED
      BY <2>2
  <2>4. Grown(f)
    BY <2>1, <2>3 DEF Iterates
  <2> HIDE DEF Grown
  <2> QED
    BY <2>4
<1>5. Added(suite, after, selected) = g[n]
  BY DEF Added, At
<1>6. Grown(g)
  <2> HIDE DEF Grown
  <2> QED
    BY <1>4
<1> HIDE DEF g
<1>7. /\ g[0] = suite
      /\ \A i \in 1..n : g[i] = IF ~Comes(i) THEN g[i - 1] ELSE At(g[i - 1], i)
  <2> DEFINE B(i) == IF i = 0 THEN suite ELSE IF ~Comes(i) THEN g[i - 1] ELSE At(g[i - 1], i)
  <2>1. g = [i \in 0..n |-> B(i)]
    BY <1>6
  <2> HIDE DEF B
  <2>2. \A i \in 0..n : g[i] = B(i)
    BY <2>1
  <2>3. 0 \in 0..n /\ \A i \in 1..n : i \in 0..n /\ i # 0
    BY <1>1
  <2> QED
    BY <2>2, <2>3 DEF B
<1> HIDE DEF Grown
<1>8. /\ g[n] \in Seq(Cases)
      /\ Range(g[n]) = Range(suite) \cup {after[k] : k \in {j \in 1..n : Comes(j)}}
  <2> DEFINE K(i) == {after[k] : k \in {j \in 1..i : Comes(j)}}
             T == {i \in 0..n : g[i] \in Seq(Cases) /\ Range(g[i]) = Range(suite) \cup K(i)}
  <2>1. 0 \in T
    <3>1. 0 \in 0..n /\ K(0) = {}
      BY <1>1
    <3> HIDE DEF K
    <3> QED
      BY <1>7, <3>1
  <2>2. ASSUME NEW i \in 1..n, i - 1 \in T
        PROVE  i \in T
    <3>1. g[i - 1] \in Seq(Cases) /\ Range(g[i - 1]) = Range(suite) \cup K(i - 1)
      BY <2>2
    <3>2. K(i) = IF ~Comes(i) THEN K(i - 1) ELSE K(i - 1) \cup {after[i]}
      BY <1>1
    <3>3. /\ At(g[i - 1], i) \in Seq(Cases)
          /\ Range(At(g[i - 1], i)) = Range(g[i - 1]) \cup {after[i]}
      BY <1>2, <3>1
    <3>4. i \in 0..n
      OBVIOUS
    <3> HIDE DEF K, Comes, n
    <3> QED
      BY <1>7, <3>1, <3>2, <3>3, <3>4
  <2>3. 0..n \subseteq T
    <3> HIDE DEF T, n
    <3> QED
      BY <1>1, <2>1, <2>2, UpTo
  <2>4. n \in 0..n
    BY <1>1
  <2> QED
    BY <2>3, <2>4
<1>9. ASSUME \A i \in 1..n : ~Comes(i)
      PROVE  g[n] = suite
  <2> DEFINE T == {i \in 0..n : g[i] = suite}
  <2>1. 0 \in T
    BY <1>1, <1>7
  <2>2. ASSUME NEW i \in 1..n, i - 1 \in T
        PROVE  i \in T
    <3>1. g[i - 1] = suite /\ ~Comes(i) /\ i \in 0..n
      BY <1>9, <2>2
    <3> HIDE DEF Comes, n
    <3> QED
      BY <1>7, <3>1
  <2>3. 0..n \subseteq T
    <3> HIDE DEF T, n
    <3> QED
      BY <1>1, <2>1, <2>2, UpTo
  <2>4. n \in 0..n
    BY <1>1
  <2> QED
    BY <2>3, <2>4
<1> QED
  BY <1>1, <1>5, <1>8, <1>9 DEF Range

-----------------------------------------------------------------------------
(* The cases of a sequence by their ids; in a suite each id has one.       *)
LEMMA CaseOfId ==
  ASSUME NEW s, NEW c \in Ids(s)
  PROVE  CaseOf(s, c) \in Range(s) /\ CaseOf(s, c).id = c /\ Position(s, c) \in DOMAIN s
<1>1. \E i \in DOMAIN s : s[i].id = c
  BY DEF Ids
<1>2. Position(s, c) \in DOMAIN s /\ s[Position(s, c)].id = c
  BY <1>1 DEF Position
<1> QED
  BY <1>2 DEF CaseOf, Range

(* In a suite the id names the case.                                       *)
LEMMA SuiteIds ==
  ASSUME NEW s, IsSuite(s)
  PROVE  /\ s \in Seq(Cases) /\ Range(s) \subseteq Cases /\ Ids(s) \subseteq CaseIds
         /\ \A i, j \in DOMAIN s : s[i].id = s[j].id => i = j
         /\ \A i \in DOMAIN s : s[i].id \in Ids(s) /\ CaseOf(s, s[i].id) = s[i]
         /\ \A x \in Range(s) : x.id \in Ids(s) /\ CaseOf(s, x.id) = x
<1> DEFINE n == Len(s)
           ids == [i \in 1..n |-> s[i].id]
<1>1. n \in Nat /\ s \in [1..n -> Cases] /\ DOMAIN s = 1..n /\ Cardinality(Ids(s)) = n
  BY DEF IsSuite
<1>2. ids \in Surjection(1..n, Ids(s))
  BY <1>1 DEF Ids, Surjection
<1>3. IsFiniteSet(1..n) /\ Cardinality(1..n) = n
  <2> HIDE DEF n
  <2>1. 1 \in Int /\ n \in Int
    BY <1>1
  <2>2. /\ IsFiniteSet(1..n)
        /\ Cardinality(1..n) = IF 1 > n THEN 0 ELSE n - 1 + 1
    BY <2>1, FS_Interval
  <2> QED
    BY <1>1, <2>2
<1>4. ids \in Injection(1..n, Ids(s))
  <2> HIDE DEF ids, n
  <2> QED
    BY <1>1, <1>2, <1>3, FS_Surjection
<1>5. \A i, j \in 1..n : s[i].id = s[j].id => i = j
  BY <1>4 DEF Injection, IsInjective
<1>6. ASSUME NEW i \in 1..n
      PROVE  s[i].id \in Ids(s) /\ CaseOf(s, s[i].id) = s[i]
  <2>1. s[i].id \in Ids(s)
    BY <1>1 DEF Ids
  <2>2. Position(s, s[i].id) \in 1..n /\ s[Position(s, s[i].id)].id = s[i].id
    BY <1>1, <2>1, CaseOfId DEF CaseOf
  <2> QED
    BY <1>5, <2>1, <2>2 DEF CaseOf
<1>7. Range(s) \subseteq Cases /\ Ids(s) \subseteq CaseIds
  BY <1>1 DEF Range, Ids, Cases
<1>8. s \in Seq(Cases)
  BY DEF IsSuite
<1> QED
  BY <1>1, <1>5, <1>6, <1>7, <1>8 DEF Range

-----------------------------------------------------------------------------
\* A selection names a case.
Names(selected, c) == \E change \in selected \ {Reordering} : change.id = c

(* The changes between two suites, by what they name.                      *)
LEMMA ChangesOf ==
  ASSUME NEW before, NEW after, NEW selected, selected \subseteq Changes(before, after), NEW c
  PROVE  /\ Names(selected, c) <=>
              \E type \in {"removeCase", "addCase", "replaceCase"} : Change(type, c) \in selected
         /\ Change("removeCase", c) \in selected => c \in Ids(before) /\ c \notin Ids(after)
         /\ Change("addCase", c) \in selected => c \in Ids(after) /\ c \notin Ids(before)
         /\ Change("replaceCase", c) \in selected => 
              c \in Ids(before) /\ c \in Ids(after) /\ CaseOf(before, c) # CaseOf(after, c)
<1>1. ASSUME NEW change \in selected \ {Reordering}
      PROVE  \E type \in {"removeCase", "addCase", "replaceCase"} : change = Change(type, change.id)
  BY DEF Changes, Change
<1>2. \A type \in {"removeCase", "addCase", "replaceCase"} :
        Change(type, c) # Reordering /\ Change(type, c).id = c
  BY DEF Change, Reordering
<1>3. Names(selected, c) <=>
        \E type \in {"removeCase", "addCase", "replaceCase"} : Change(type, c) \in selected
  BY <1>1, <1>2 DEF Names
<1> QED
  BY <1>3 DEF Changes, Change, Reordering

(* What the selection makes of the suite before its order is set.          *)
Assembled(before, after, selected) ==
  Added(Replaced(Removed(before, selected), after, selected), after, selected)

\* A case that stays, replaced if that is selected.
Now(x, after, selected) ==
  IF Change("replaceCase", x.id) \in selected THEN CaseOf(after, x.id) ELSE x

(* Before it is put in order, a selection gives the old cases that stay,   *)
(* as they are now to be, and the new ones.                                *)
LEMMA AssembledIs ==
  ASSUME NEW before, IsSuite(before), NEW after, IsSuite(after),
         NEW selected, selected \subseteq Changes(before, after)
  PROVE  /\ Assembled(before, after, selected) \in Seq(Cases)
         /\ Range(Assembled(before, after, selected)) =
              {Now(x, after, selected) :
                 x \in {y \in Range(before) : Change("removeCase", y.id) \notin selected}}
              \cup {x \in Range(after) : Change("addCase", x.id) \in selected}
<1> DEFINE R == Removed(before, selected)
           P == Replaced(R, after, selected)
<1>1. /\ R \in Seq(Cases)
      /\ Range(R) = {y \in Range(before) : Change("removeCase", y.id) \notin selected}
  BY SuiteIds, RemovedKeeps
<1>2. P = [i \in DOMAIN R |-> Now(R[i], after, selected)]
  BY DEF Replaced, Now
<1>3. P \in Seq(Cases) /\ Range(P) = {Now(x, after, selected) : x \in Range(R)}
  <2> DEFINE n == Len(R)
             N(x) == Now(x, after, selected)
  <2>1. n \in Nat /\ R \in [1..n -> Cases] /\ DOMAIN R = 1..n
    BY <1>1
  <2>2. ASSUME NEW x \in Cases PROVE N(x) \in Cases
    <3>1. Change("replaceCase", x.id) \in selected => CaseOf(after, x.id) \in Range(after)
      BY ChangesOf, CaseOfId
    <3> QED
      BY <3>1, SuiteIds DEF Now
  <2> HIDE DEF n, N, R, P
  <2>3. P = [i \in 1..n |-> N(R[i])]
    BY <1>2, <2>1 DEF N
  <2>4. P \in [1..n -> Cases]
    BY <2>1, <2>2, <2>3
  <2>5. P \in Seq(Cases)
    BY <2>1, <2>4
  <2>6. Range(P) = {N(x) : x \in Range(R)}
    BY <2>1, <2>3 DEF Range
  <2> QED
    BY <2>5, <2>6 DEF N
<1>4. after \in Seq(Cases)
  BY SuiteIds
<1> HIDE DEF R, P
<1>5. /\ Added(P, after, selected) \in Seq(Cases)
      /\ Range(Added(P, after, selected)) =
           Range(P) \cup {x \in Range(after) : Change("addCase", x.id) \in selected}
  BY <1>3, <1>4, AddedHas
<1> QED
  BY <1>1, <1>3, <1>5 DEF R, P, Assembled

(* Each case of it is the candidate's if it is named, by an addition or a  *)
(* replacement, and the old one if it is not; those not named are there.   *)
LEMMA AssembledCases ==
  ASSUME NEW before, IsSuite(before), NEW after, IsSuite(after),
         NEW selected, selected \subseteq Changes(before, after)
  PROVE  /\ \A x \in Range(Assembled(before, after, selected)) :
              IF Names(selected, x.id)
              THEN /\ x.id \in Ids(after) /\ x = CaseOf(after, x.id)
                   /\ Change("addCase", x.id) \in selected \/ Change("replaceCase", x.id) \in selected
              ELSE x.id \in Ids(before) /\ x = CaseOf(before, x.id)
         /\ \A y \in Range(before) :
              ~Names(selected, y.id) => y \in Range(Assembled(before, after, selected))
<1> DEFINE D == Range(Assembled(before, after, selected))
<1>1. D = {Now(x, after, selected) :
             x \in {y \in Range(before) : Change("removeCase", y.id) \notin selected}}
          \cup {x \in Range(after) : Change("addCase", x.id) \in selected}
  BY AssembledIs
<1> HIDE DEF D
<1>2. ASSUME NEW x \in Range(after), Change("addCase", x.id) \in selected
      PROVE  Names(selected, x.id) /\ x.id \in Ids(after) /\ x = CaseOf(after, x.id)
  BY <1>2, SuiteIds, ChangesOf
<1>3. ASSUME NEW y \in Range(before), Change("removeCase", y.id) \notin selected,
             NEW x, x = Now(y, after, selected)
      PROVE  IF Names(selected, x.id)
             THEN /\ x.id \in Ids(after) /\ x = CaseOf(after, x.id)
                  /\ Change("replaceCase", x.id) \in selected
             ELSE x.id \in Ids(before) /\ x = CaseOf(before, x.id)
  <2>1. y.id \in Ids(before) /\ CaseOf(before, y.id) = y
    BY SuiteIds
  <2>2. CASE Change("replaceCase", y.id) \in selected
    <3>1. y.id \in Ids(after) /\ x = CaseOf(after, y.id)
      BY <1>3, <2>2, ChangesOf DEF Now
    <3>2. x.id = y.id
      BY <3>1, CaseOfId
    <3> QED
      BY <2>2, <3>1, <3>2, ChangesOf
  <2>3. CASE Change("replaceCase", y.id) \notin selected
    <3>1. x = y
      BY <1>3, <2>3 DEF Now
    <3>2. ~Names(selected, y.id)
      BY <1>3, <2>1, <2>3, ChangesOf
    <3> QED
      BY <2>1, <3>1, <3>2
  <2> QED
    BY <2>2, <2>3
<1>4. ASSUME NEW y \in Range(before), ~Names(selected, y.id)
      PROVE  y \in D
  <2>1. Change("removeCase", y.id) \notin selected /\ Change("replaceCase", y.id) \notin selected
    BY <1>4, ChangesOf
  <2>2. Now(y, after, selected) = y
    BY <2>1 DEF Now
  <2> QED
    BY <1>1, <2>1, <2>2
<1>5. ASSUME NEW x \in D
      PROVE  IF Names(selected, x.id)
             THEN /\ x.id \in Ids(after) /\ x = CaseOf(after, x.id)
                  /\ Change("addCase", x.id) \in selected \/ Change("replaceCase", x.id) \in selected
             ELSE x.id \in Ids(before) /\ x = CaseOf(before, x.id)
  BY <1>1, <1>2, <1>3
<1> QED
  BY <1>4, <1>5 DEF D

(* Setting the order keeps the cases, when it is not refused.              *)
LEMMA OrderedKeeps ==
  ASSUME NEW s, NEW after, NEW selected, Ordered(s, after, selected) # <<>>
  PROVE  /\ Range(Ordered(s, after, selected)) \subseteq Range(s)
         /\ Ids(Ordered(s, after, selected)) = Ids(s)
<1>1. CASE Reordering \notin selected
  BY <1>1 DEF Ordered
<1>2. CASE Reordering \in selected
  <2> DEFINE o == [i \in DOMAIN after |-> CaseOf(s, after[i].id)]
  <2>1. Ordered(s, after, selected) = o /\ Ids(s) = Ids(after)
    BY <1>2 DEF Ordered
  <2>2. \A i \in DOMAIN after : after[i].id \in Ids(s) /\ o[i] \in Range(s) /\ o[i].id = after[i].id
    <3>1. \A i \in DOMAIN after : after[i].id \in Ids(s)
      BY <2>1 DEF Ids
    <3> QED
      BY <3>1, CaseOfId
  <2>3. Range(o) \subseteq Range(s)
    BY <2>2 DEF Range
  <2>4. Ids(o) = Ids(after)
    BY <2>2 DEF Ids
  <2> QED
    BY <2>1, <2>3, <2>4
<1> QED
  BY <1>1, <1>2

(* All changes together give the candidate, its order included.            *)
LEMMA AllChangesGiveCandidate ==
  ASSUME NEW before, IsSuite(before), NEW after, IsSuite(after)
  PROVE  Selected(before, after, Changes(before, after)) = after
<1> DEFINE all == Changes(before, after)
           D == Assembled(before, after, all)
<1>1. Selected(before, after, all) = Ordered(D, after, all)
  BY DEF Selected, Assembled
<1>2. /\ \A c : Change("removeCase", c) \in all <=> c \in Ids(before) /\ c \notin Ids(after)
      /\ \A c : Change("addCase", c) \in all <=> c \in Ids(after) /\ c \notin Ids(before)
      /\ \A c : Change("replaceCase", c) \in all <=>
                  c \in Ids(before) /\ c \in Ids(after) /\ CaseOf(before, c) # CaseOf(after, c)
      /\ Reordering \in all <=> Order(before) # Order(after)
  BY DEF Changes, Change, Reordering
<1>3. /\ D \in Seq(Cases)
      /\ Range(D) = {Now(x, after, all) :
                       x \in {y \in Range(before) : Change("removeCase", y.id) \notin all}}
                    \cup {x \in Range(after) : Change("addCase", x.id) \in all}
  BY AssembledIs
<1> HIDE DEF D, all
<1>4. ASSUME NEW y \in Range(before), Change("removeCase", y.id) \notin all
      PROVE  Now(y, after, all) = CaseOf(after, y.id) /\ y.id \in Ids(after)
  <2>1. y.id \in Ids(before) /\ CaseOf(before, y.id) = y
    BY SuiteIds
  <2> QED
    BY <1>2, <1>4, <2>1 DEF Now
<1>5. CASE Reordering \in all
  <2>1. ASSUME NEW x \in Range(D) PROVE x \in Range(after)
    BY <1>3, <1>4, <2>1, CaseOfId
  <2>2. ASSUME NEW x \in Range(after) PROVE x \in Range(D)
    <3>1. x.id \in Ids(after) /\ CaseOf(after, x.id) = x
      BY SuiteIds
    <3>2. CASE x.id \notin Ids(before)
      BY <1>2, <1>3, <3>1, <3>2
    <3>3. CASE x.id \in Ids(before)
      <4> DEFINE y == CaseOf(before, x.id)
      <4>1. y \in Range(before) /\ y.id = x.id
        BY <3>3, CaseOfId
      <4>2. Change("removeCase", y.id) \notin all
        BY <1>2, <3>1, <4>1
      <4>3. Now(y, after, all) = x
        BY <1>4, <3>1, <4>1, <4>2
      <4> QED
        BY <1>3, <4>1, <4>2, <4>3
    <3> QED
      BY <3>2, <3>3
  <2>3. Range(D) = Range(after)
    BY <2>1, <2>2
  <2>4. Ids(D) = Ids(after)
    <3>1. \A s : Ids(s) = {x.id : x \in Range(s)}
      BY DEF Ids, Range
    <3> QED
      BY <2>3, <3>1
  <2>5. \A i \in DOMAIN after : CaseOf(D, after[i].id) = after[i]
    <3> TAKE i \in DOMAIN after
    <3>1. after[i].id \in Ids(D)
      BY <2>4 DEF Ids
    <3>2. CaseOf(D, after[i].id) \in Range(after) /\ CaseOf(D, after[i].id).id = after[i].id
      BY <2>3, <3>1, CaseOfId
    <3>3. CaseOf(after, after[i].id) = after[i] /\ CaseOf(after, after[i].id) = CaseOf(D, after[i].id)
      <4>1. \A x \in Range(after) : CaseOf(after, x.id) = x
        BY SuiteIds
      <4>2. CaseOf(after, after[i].id) = after[i]
        BY SuiteIds
      <4> QED
        BY <3>2, <4>1, <4>2
    <3> QED
      BY <3>3
  <2>6. Ordered(D, after, all) = [i \in DOMAIN after |-> CaseOf(D, after[i].id)]
    BY <1>5, <2>4 DEF Ordered
  <2>7. after = [i \in DOMAIN after |-> after[i]]
    BY SuiteIds
  <2> QED
    BY <1>1, <2>5, <2>6, <2>7 DEF all
<1>6. CASE Reordering \notin all
  <2>1. DOMAIN before = DOMAIN after /\ \A i \in DOMAIN after : before[i].id = after[i].id
    <3>1. Order(before) = Order(after)
      BY <1>2, <1>6
    <3> QED
      BY <3>1 DEF Order
  <2>2. Ids(before) = Ids(after)
    BY <2>1 DEF Ids
  <2>3. before \in Seq(Cases) /\ after \in Seq(Cases)
    BY SuiteIds
  <2>4. Removed(before, all) = before
    <3>1. \A x \in Range(before) : Change("removeCase", x.id) \notin all
      BY <1>2, <2>2
    <3> QED
      BY <2>3, <3>1, RemovedKeeps
  <2>5. Replaced(before, after, all) = after
    <3>1. \A i \in DOMAIN before : Now(before[i], after, all) = after[i]
      <4> TAKE i \in DOMAIN before
      <4>1. before[i] \in Range(before) /\ before[i].id = after[i].id /\ i \in DOMAIN after
        BY <2>1 DEF Range
      <4>2. Change("removeCase", before[i].id) \notin all
        BY <1>2, <2>2
      <4>3. CaseOf(after, after[i].id) = after[i]
        BY <4>1, SuiteIds
      <4> QED
        BY <1>4, <4>1, <4>2, <4>3
    <3>2. Replaced(before, after, all) = [i \in DOMAIN before |-> Now(before[i], after, all)]
      BY DEF Replaced, Now
    <3>3. after = [i \in DOMAIN before |-> after[i]]
      BY <2>1, <2>3
    <3> QED
      BY <3>1, <3>2, <3>3
  <2>6. Added(after, after, all) = after
    <3>1. \A x \in Range(after) : Change("addCase", x.id) \notin all
      BY <1>2, <2>2
    <3> QED
      BY <2>3, <3>1, AddedHas
  <2>7. D = after
    BY <2>4, <2>5, <2>6 DEF D, Assembled
  <2> QED
    BY <1>1, <1>6, <2>7 DEF Ordered, all
<1> QED
  BY <1>5, <1>6

(* A selection that gives a suite gives each case it names the candidate's *)
(* content and leaves the others, and takes none away that it does not     *)
(* name.                                                                   *)
LEMMA SelectedCases ==
  ASSUME NEW before, IsSuite(before), NEW after, IsSuite(after),
         NEW selected, selected \subseteq Changes(before, after),
         IsSuite(Selected(before, after, selected))
  PROVE  LET s == Selected(before, after, selected)
         IN  /\ \A c \in Ids(s) :
                  IF Names(selected, c)
                  THEN /\ CaseOf(s, c) = CaseOf(after, c)
                       /\ Change("addCase", c) \in selected \/ Change("replaceCase", c) \in selected
                  ELSE CaseOf(s, c) = CaseOf(before, c) /\ c \in Ids(before)
             /\ \A c \in Ids(before) \ Ids(s) : Names(selected, c)
<1> DEFINE s == Selected(before, after, selected)
           D == Assembled(before, after, selected)
<1>1. s = Ordered(D, after, selected) /\ s # <<>>
  BY DEF Selected, Assembled, IsSuite
<1> HIDE DEF s
<1>2. Range(s) \subseteq Range(D) /\ Ids(s) = Ids(D)
  BY <1>1, OrderedKeeps
<1>3. ASSUME NEW c \in Ids(s)
      PROVE  IF Names(selected, c)
             THEN /\ CaseOf(s, c) = CaseOf(after, c)
                  /\ Change("addCase", c) \in selected \/ Change("replaceCase", c) \in selected
             ELSE CaseOf(s, c) = CaseOf(before, c) /\ c \in Ids(before)
  <2>1. CaseOf(s, c) \in Range(D) /\ CaseOf(s, c).id = c
    BY <1>2, CaseOfId
  <2> QED
    BY <2>1, AssembledCases
<1>4. ASSUME NEW c \in Ids(before), c \notin Ids(s)
      PROVE  Names(selected, c)
  <2> SUFFICES ASSUME ~Names(selected, c) PROVE FALSE
    OBVIOUS
  <2>1. CaseOf(before, c) \in Range(before) /\ CaseOf(before, c).id = c
    BY CaseOfId
  <2>2. CaseOf(before, c) \in Range(D)
    BY <2>1, AssembledCases
  <2>3. c \in Ids(D)
    BY <2>1, <2>2 DEF Range, Ids
  <2> QED
    BY <1>2, <1>4, <2>3
<1> QED
  BY <1>3, <1>4 DEF s

-----------------------------------------------------------------------------
(* Of the draft and the candidate.                                         *)
DraftInv ==
  /\ IsSuite(draft.suite)
  /\ draft.revision \in Nat
  /\ DOMAIN draft.provenance = Ids(draft.suite)
  /\ candidate # NoCandidate =>
       candidate \in [suite : Candidates, by : {"ai", "user"}, executable : BOOLEAN]

(* An applied selection is refused, or makes a draft of a suite.           *)
LEMMA AppliedIs ==
  ASSUME NEW d, NEW cand, NEW selected
  PROVE  LET s == Selected(d.suite, cand.suite, selected)
         IN  \/ Applied(d, cand, selected) = d
             \/ IsSuite(s) /\ Applied(d, cand, selected) = Approved(d, cand.by, s, selected)
  BY DEF Applied

(* So it leaves the draft a suite, each case of known origin.              *)
LEMMA AppliedKeepsDraft ==
  ASSUME DraftInv, NEW cand, NEW selected, draft' = Applied(draft, cand, selected),
         candidate' = candidate
  PROVE  DraftInv'
<1> DEFINE s == Selected(draft.suite, cand.suite, selected)
<1>1. CASE draft' = draft
  BY <1>1 DEF DraftInv
<1>2. CASE IsSuite(s) /\ draft' = Approved(draft, cand.by, s, selected)
  <2> HIDE DEF s
  <2>1. draft'.suite = s /\ draft'.revision = draft.revision + 1 /\ DOMAIN draft'.provenance = Ids(s)
    BY <1>2 DEF Approved
  <2> QED
    BY <1>2, <2>1 DEF DraftInv
<1> QED
  BY <1>1, <1>2, AppliedIs

(* A draft changes in what is selected and in nothing else.                *)
LEMMA DraftIsExact ==
  ASSUME DraftInv
  PROVE  SelectionIsExact
<1> DEFINE changes == Changes(draft.suite, candidate.suite)
           Exact(selected) ==
             LET next == Applied(draft, candidate, selected)
             IN  next # draft =>
                   /\ DOMAIN next.provenance = Ids(next.suite)
                   /\ \A c \in Ids(next.suite) :
                        IF Names(selected, c)
                        THEN /\ CaseOf(next.suite, c) = CaseOf(candidate.suite, c)
                             /\ next.provenance[c].last = next.revision
                             /\ next.provenance[c].origin = candidate.by
                        ELSE /\ CaseOf(next.suite, c) = CaseOf(draft.suite, c)
                             /\ next.provenance[c] = draft.provenance[c]
                   /\ \A c \in Ids(draft.suite) \ Ids(next.suite) : Names(selected, c)
<1>1. SUFFICES ASSUME candidate # NoCandidate, candidate.executable
               PROVE  /\ Applied(draft, candidate, changes).suite = candidate.suite
                      /\ \A selected \in SUBSET changes : Exact(selected)
  BY DEF SelectionIsExact, Names
<1>2. IsSuite(draft.suite) /\ IsSuite(candidate.suite)
  BY <1>1, SuitesAssumption DEF DraftInv
<1>3. Applied(draft, candidate, changes).suite = candidate.suite
  <2>1. Selected(draft.suite, candidate.suite, changes) = candidate.suite
    BY <1>2, AllChangesGiveCandidate
  <2> QED
    BY <1>1, <1>2, <2>1 DEF Applied, Approved
<1>4. ASSUME NEW selected \in SUBSET changes
      PROVE  Exact(selected)
  <2> DEFINE s == Selected(draft.suite, candidate.suite, selected)
             next == Applied(draft, candidate, selected)
  <2>1. SUFFICES ASSUME next # draft
                 PROVE  /\ DOMAIN next.provenance = Ids(next.suite)
                        /\ \A c \in Ids(next.suite) :
                             IF Names(selected, c)
                             THEN /\ CaseOf(next.suite, c) = CaseOf(candidate.suite, c)
                                  /\ next.provenance[c].last = next.revision
                                  /\ next.provenance[c].origin = candidate.by
                             ELSE /\ CaseOf(next.suite, c) = CaseOf(draft.suite, c)
                                  /\ next.provenance[c] = draft.provenance[c]
                        /\ \A c \in Ids(draft.suite) \ Ids(next.suite) : Names(selected, c)
    OBVIOUS
  <2>2. IsSuite(s) /\ next = Approved(draft, candidate.by, s, selected)
    BY <2>1, AppliedIs
  <2>3. /\ \A c \in Ids(s) :
             IF Names(selected, c)
             THEN /\ CaseOf(s, c) = CaseOf(candidate.suite, c)
                  /\ Change("addCase", c) \in selected \/ Change("replaceCase", c) \in selected
             ELSE CaseOf(s, c) = CaseOf(draft.suite, c) /\ c \in Ids(draft.suite)
        /\ \A c \in Ids(draft.suite) \ Ids(s) : Names(selected, c)
    BY <1>2, <2>2, SelectedCases
  <2> DEFINE Entry(c) ==
        IF Change("addCase", c) \in selected
        THEN [origin |-> candidate.by, first |-> draft.revision + 1, last |-> draft.revision + 1]
        ELSE IF Change("replaceCase", c) \in selected
        THEN [origin |-> candidate.by, first |-> draft.provenance[c].first,
              last |-> draft.revision + 1]
        ELSE draft.provenance[c]
  <2> HIDE DEF s, next
  <2>4. /\ next.suite = s /\ next.revision = draft.revision + 1
        /\ DOMAIN next.provenance = Ids(s)
        /\ \A c \in Ids(s) : next.provenance[c] = Entry(c)
    BY <2>2 DEF Approved
  <2>5. ASSUME NEW c
        PROVE  ~Names(selected, c) =>
                 Change("addCase", c) \notin selected /\ Change("replaceCase", c) \notin selected
    BY ChangesOf
  <2>6. ASSUME NEW c \in Ids(s), Names(selected, c)
        PROVE  /\ CaseOf(s, c) = CaseOf(candidate.suite, c)
               /\ next.provenance[c].last = next.revision
               /\ next.provenance[c].origin = candidate.by
    <3>1. /\ CaseOf(s, c) = CaseOf(candidate.suite, c)
          /\ Change("addCase", c) \in selected \/ Change("replaceCase", c) \in selected
      BY <2>3, <2>6
    <3>2. Entry(c).last = draft.revision + 1 /\ Entry(c).origin = candidate.by
      BY <3>1
    <3> HIDE DEF Entry
    <3> QED
      BY <2>4, <3>1, <3>2
  <2>7. ASSUME NEW c \in Ids(s), ~Names(selected, c)
        PROVE  CaseOf(s, c) = CaseOf(draft.suite, c) /\ next.provenance[c] = draft.provenance[c]
    <3>1. Entry(c) = draft.provenance[c]
      BY <2>5, <2>7
    <3> HIDE DEF Entry
    <3> QED
      BY <2>3, <2>4, <2>7, <3>1
  <2> QED
    BY <2>3, <2>4, <2>6, <2>7
<1> QED
  BY <1>3, <1>4

-----------------------------------------------------------------------------
(* Of a round of saving.                                                   *)
\* What a case is to be saved with.
Intended(c) == IF c \in DOMAIN repaired THEN repaired[c] ELSE CaseOf(draft.suite, c)

NoRound ==
  /\ lastRun = None /\ failures = {} /\ repaired = None
  /\ approvals = None /\ scope = "isolated"

\* Repairs are under way: a case that has not failed passed as it is to be.
Repairing ==
  /\ DOMAIN lastRun = Ids(draft.suite)
  /\ failures \subseteq Ids(draft.suite)
  /\ DOMAIN repaired \subseteq Ids(draft.suite) \ failures
  /\ \A c \in DOMAIN repaired : repaired[c] \in Cases /\ repaired[c].id = c
  /\ \A c \in Ids(draft.suite) \ failures : lastRun[c].passed /\ lastRun[c].case = Intended(c)
  /\ approvals = None /\ scope = "isolated"

\* What the approvals and the scope claim was seen of the draft.
Seen ==
  /\ approvals # None => DOMAIN approvals = Ids(draft.suite)
  /\ \A c \in DOMAIN approvals :
       approvals[c] = "passed" => lastRun[c].passed /\ lastRun[c].case = CaseOf(draft.suite, c)
  /\ scope = "fullSuite" =>
       \A c \in Ids(draft.suite) :
         lastRun[c].how = "sweep" /\ lastRun[c].case = CaseOf(draft.suite, c)

Before == {"starting", "connecting", "menu", "testing"}
Saving == {"checking", "writing", "replacing", "linking", "tidying"}

RoundInv ==
  /\ pc \in Before => NoRound
  /\ pc = "repairing" => Repairing
  /\ pc = "classifying" => Repairing /\ repaired = None
  /\ pc \in {"revalidating", "confirming", "returned"} \cup Saving => Seen

(* Of the path: what is written is the draft as approved.                  *)
PathInv ==
  /\ pc = "returned" <=> result # "none"
  /\ result = "saved" <=> pc = "returned" /\ outFile = "own"
  /\ outFile = "own" => pc \in {"tidying", "returned"}
  /\ outFile \in {"none", "foreign", "own"}
  /\ pc \in {"replacing", "linking", "tidying"} \/ outFile = "own" =>
       written = [suite |-> draft.suite, approvals |-> approvals, scope |-> scope]
  /\ pc = "replacing" => options.force

CommandInv == DraftInv /\ RoundInv /\ PathInv

-----------------------------------------------------------------------------
(* No case has a run, a repair or an approval at the start of a round.     *)
LEMMA NoneIsEmpty == DOMAIN None = {}
  BY DEF None

(* The repaired values make a suite of the same cases, which applying all  *)
(* changes gives.                                                          *)
LEMMA RepairedSuite ==
  ASSUME IsSuite(draft.suite), DOMAIN repaired \subseteq Ids(draft.suite),
         \A c \in DOMAIN repaired : repaired[c] \in Cases /\ repaired[c].id = c
  PROVE  /\ IsSuite(WithRepairedInputs)
         /\ Ids(WithRepairedInputs) = Ids(draft.suite)
         /\ \A c \in Ids(draft.suite) : CaseOf(WithRepairedInputs, c) = Intended(c)
<1> DEFINE s == draft.suite
           w == WithRepairedInputs
           W(i) == IF s[i].id \in DOMAIN repaired THEN repaired[s[i].id] ELSE s[i]
           n == Len(s)
<1>1. n \in Nat /\ s \in [1..n -> Cases] /\ DOMAIN s = 1..n /\ Cardinality(Ids(s)) = n /\ s # <<>>
  BY DEF IsSuite
<1>2. w = [i \in 1..n |-> W(i)]
  BY <1>1 DEF WithRepairedInputs
<1>3. \A i \in 1..n : W(i) \in Cases /\ W(i).id = s[i].id
  BY <1>1
<1> HIDE DEF w, W, n
<1>4. w \in Seq(Cases) /\ Len(w) = n /\ DOMAIN w = 1..n /\ \A i \in 1..n : w[i] = W(i)
  BY <1>1, <1>2, <1>3
<1>5. Ids(w) = Ids(s)
  BY <1>1, <1>3, <1>4 DEF Ids
<1>6. w # <<>>
  BY <1>1, <1>4
<1>7. IsSuite(w)
  BY <1>1, <1>4, <1>5, <1>6 DEF IsSuite
<1>8. ASSUME NEW c \in Ids(s)
      PROVE  CaseOf(w, c) = Intended(c)
  <2>1. PICK i \in 1..n : s[i].id = c
    BY <1>1 DEF Ids
  <2>2. CaseOf(w, w[i].id) = w[i] /\ CaseOf(s, s[i].id) = s[i]
    BY <1>1, <1>4, <1>7, <2>1, SuiteIds
  <2> QED
    BY <1>3, <1>4, <2>1, <2>2 DEF W, Intended
<1> QED
  BY <1>5, <1>7, <1>8 DEF w

(* Once the repairs are applied, the draft is what was seen to pass.       *)
LEMMA RepairsApplied ==
  ASSUME DraftInv, Repairing, AcceptRepairs, candidate' = candidate
  PROVE  /\ DraftInv'
         /\ pc' = "classifying" => (Repairing /\ repaired = None)'
         /\ pc' # "classifying" => pc' = "menu" /\ NoRound'
<1> DEFINE changes == Changes(draft.suite, WithRepairedInputs)
           local(executable) == CandidateOf(WithRepairedInputs, "user", executable)
<1>1. /\ IsSuite(WithRepairedInputs)
      /\ Ids(WithRepairedInputs) = Ids(draft.suite)
      /\ \A c \in Ids(draft.suite) : CaseOf(WithRepairedInputs, c) = Intended(c)
  BY RepairedSuite DEF DraftInv, Repairing
<1>2. CASE /\ draft' = IF DOMAIN repaired = {} THEN draft ELSE Applied(draft, local(TRUE), changes)
           /\ pc' = "classifying" /\ repaired' = None
           /\ UNCHANGED <<lastRun, failures, approvals, scope>>
  <2>1. DraftInv'
    BY <1>2, AppliedKeepsDraft DEF DraftInv
  <2>2. Ids(draft'.suite) = Ids(draft.suite) /\ \A c \in Ids(draft.suite) : CaseOf(draft'.suite, c) = Intended(c)
    <3>1. CASE DOMAIN repaired = {}
      BY <1>2, <3>1 DEF Intended
    <3>2. CASE DOMAIN repaired # {}
      <4>1. Selected(draft.suite, WithRepairedInputs, changes) = WithRepairedInputs
        BY <1>1, AllChangesGiveCandidate DEF DraftInv
      <4>2. Applied(draft, local(TRUE), changes).suite = WithRepairedInputs
        BY <1>1, <4>1 DEF Applied, Approved, CandidateOf
      <4> QED
        BY <1>1, <1>2, <3>2, <4>2
    <3> QED
      BY <3>1, <3>2
  <2>3. \A c \in Ids(draft.suite) : Intended(c)' = CaseOf(draft'.suite, c)
    BY <1>2, NoneIsEmpty DEF Intended
  <2>4. (Repairing /\ repaired = None)'
    BY <1>2, <2>2, <2>3, NoneIsEmpty, ZenonT(30) DEF Repairing
  <2> QED
    BY <1>2, <2>1, <2>4
<1>3. CASE draft' = Applied(draft, local(FALSE), changes) /\ BackToMenu
  <2>1. DraftInv'
    BY <1>3, AppliedKeepsDraft
  <2> QED
    BY <1>3, <2>1 DEF BackToMenu, NoRound
<1> QED
  BY <1>2, <1>3 DEF AcceptRepairs

(* Another run of a failed case: what it passes with is to be saved.       *)
LEMMA RerunKeepsRepairing ==
  ASSUME DraftInv, Repairing, NEW value \in Values, NEW passed \in BOOLEAN, Rerun(value, passed)
  PROVE  Repairing'
<1> DEFINE c == AtTurn
           tried == [CaseOf(draft.suite, c) EXCEPT !.value = value]
<1>1. /\ lastRun' = [lastRun EXCEPT ![c] = RunOf(tried, passed, "alone")]
      /\ c \in failures /\ draft' = draft /\ approvals' = approvals /\ scope' = scope
  BY DEF Rerun, IsTarget
<1>2. c \in Ids(draft.suite) /\ c \notin DOMAIN repaired /\ c \in DOMAIN lastRun
  BY <1>1 DEF Repairing
<1>3. tried \in Cases /\ tried.id = c
  <2>1. CaseOf(draft.suite, c) \in Cases /\ CaseOf(draft.suite, c).id = c
    BY <1>2, CaseOfId, SuiteIds DEF DraftInv
  <2> HIDE DEF c
  <2> QED
    BY <2>1 DEF Cases
<1>4. CASE passed
  <2>1. /\ repaired' = [d \in DOMAIN repaired \cup {c} |-> IF d = c THEN tried ELSE repaired[d]]
        /\ failures' = failures \ {c}
    BY <1>4 DEF Rerun
  <2>2. /\ DOMAIN repaired' = DOMAIN repaired \cup {c} /\ repaired'[c] = tried
        /\ \A d \in DOMAIN repaired : d # c => repaired'[d] = repaired[d]
    BY <2>1
  <2>3. /\ DOMAIN lastRun' = DOMAIN lastRun
        /\ lastRun'[c].passed = passed /\ lastRun'[c].case = tried
        /\ \A d \in DOMAIN lastRun : d # c => lastRun'[d] = lastRun[d]
    BY <1>1, <1>2 DEF RunOf
  <2> HIDE DEF c, tried
  <2>4. \A d \in Ids(draft.suite) : Intended(d)' = IF d = c THEN tried ELSE Intended(d)
    BY <1>1, <2>2 DEF Intended
  <2>5. \A d \in Ids(draft.suite) \ failures' : lastRun'[d].passed /\ lastRun'[d].case = Intended(d)'
    BY <1>4, <2>1, <2>3, <2>4 DEF Repairing
  <2>6. \A d \in DOMAIN repaired' : repaired'[d] \in Cases /\ repaired'[d].id = d
    BY <1>3, <2>2 DEF Repairing
  <2> QED
    BY <1>1, <1>2, <2>1, <2>2, <2>3, <2>5, <2>6 DEF Repairing
<1>5. CASE ~passed
  <2>1. repaired' = repaired /\ failures' = failures
    BY <1>5 DEF Rerun
  <2>2. /\ DOMAIN lastRun' = DOMAIN lastRun
        /\ \A d \in DOMAIN lastRun : d # c => lastRun'[d] = lastRun[d]
    BY <1>1
  <2> HIDE DEF c, tried
  <2>3. \A d \in Ids(draft.suite) : Intended(d)' = Intended(d)
    BY <1>1, <2>1 DEF Intended
  <2> QED
    BY <1>1, <2>1, <2>2, <2>3 DEF Repairing
<1> QED
  BY <1>4, <1>5

(* Each step of the command, and of the other program at the path.         *)
LEMMA CommandNext ==
  ASSUME CommandInv, Next
  PROVE  CommandInv'
<1> USE DEF CommandInv
<1>1. CASE CheckEarly \/ Connect
  BY <1>1 DEF CheckEarly, Connect, Leave, DraftInv, RoundInv, PathInv, NoRound, Seen, None,
              roundVars, fileVars, Before, Saving
<1>2. ASSUME NEW suite \in Candidates, NEW by \in {"ai", "user"}, NEW executable \in BOOLEAN,
             Propose(suite, by, executable)
      PROVE  CommandInv'
  BY <1>2 DEF Propose, CandidateOf, DraftInv, RoundInv, PathInv, NoRound, roundVars, fileVars, Before, Saving
<1>3. CASE Apply
  <2>1. DraftInv'
    BY <1>3, AppliedKeepsDraft DEF Apply
  <2>2. RoundInv' /\ PathInv'
    BY <1>3 DEF Apply, RoundInv, PathInv, NoRound, roundVars, fileVars, Before, Saving
  <2> QED
    BY <2>1, <2>2
<1>4. CASE Cancel
  BY <1>4, NoneIsEmpty DEF Cancel, Leave, DraftInv, RoundInv, PathInv, NoRound, Repairing, Seen,
              roundVars, fileVars, Before, Saving
<1>5. CASE Save
  BY <1>5, NoneIsEmpty DEF Save, DraftInv, RoundInv, PathInv, NoRound, Seen, roundVars, fileVars, Before, Saving
<1>6. CASE Test
  <2>1. PICK passes \in SUBSET Ids(draft.suite) : Swept(passes) /\ failures' = Ids(draft.suite) \ passes
    BY <1>6 DEF Test
  <2>2. /\ pc = "testing" /\ pc' = "repairing" /\ draft' = draft /\ candidate' = candidate
        /\ repaired' = repaired /\ approvals' = approvals /\ scope' = scope
        /\ outFile' = outFile /\ written' = written /\ result' = result
    BY <1>6 DEF Test, fileVars
  <2>3. Repairing'
    <3>1. \A c \in Ids(draft.suite) :
            lastRun'[c].passed = (c \in passes) /\ lastRun'[c].case = CaseOf(draft.suite, c)
      BY <2>1 DEF Swept, RunOf
    <3>2. repaired = None /\ approvals = None /\ scope = "isolated"
      BY <2>2 DEF RoundInv, NoRound, Before
    <3>3. \A c : Intended(c)' = CaseOf(draft.suite, c)
      BY <2>2, <3>2, NoneIsEmpty DEF Intended
    <3> QED
      BY <2>1, <2>2, <3>1, <3>2, <3>3, NoneIsEmpty DEF Repairing, Swept
  <2> QED
    BY <2>2, <2>3 DEF DraftInv, RoundInv, PathInv, Before, Saving
<1>7. CASE GiveUpRound
  BY <1>7 DEF GiveUpRound, BackToMenu, DraftInv, RoundInv, PathInv, NoRound, fileVars, Before, Saving
<1>8. ASSUME NEW value \in Values, NEW passed \in BOOLEAN, Rerun(value, passed)
      PROVE  CommandInv'
  <2>1. Repairing'
    BY <1>8, RerunKeepsRepairing DEF Rerun, RoundInv
  <2> QED
    BY <1>8, <2>1 DEF Rerun, DraftInv, RoundInv, PathInv, fileVars, Before, Saving
<1>9. CASE NoRerun
  BY <1>9 DEF NoRerun, DraftInv, RoundInv, PathInv, Repairing, Intended, fileVars, Before, Saving
<1>10. CASE RepairsEnd
  <2>1. /\ DraftInv'
        /\ pc' = "classifying" => (Repairing /\ repaired = None)'
        /\ pc' # "classifying" => pc' = "menu" /\ NoRound'
    BY <1>10, RepairsApplied DEF RepairsEnd, RoundInv
  <2>2. pc = "repairing" /\ outFile' = outFile /\ written' = written /\ result' = result
    BY <1>10 DEF RepairsEnd, fileVars
  <2> QED
    BY <2>1, <2>2 DEF RoundInv, PathInv, Before, Saving
<1>11. CASE Classify
  <2>1. Repairing /\ repaired = None /\ draft' = draft /\ lastRun' = lastRun /\ scope' = "isolated"
    BY <1>11 DEF Classify, RoundInv, Repairing
  <2>2. approvals' = [c \in Ids(draft.suite) |-> IF c \in failures THEN "serverDefect" ELSE "passed"]
    BY <1>11 DEF Classify
  <2>3. Seen'
    BY <2>1, <2>2, NoneIsEmpty DEF Seen, Repairing, Intended
  <2> QED
    BY <1>11, <2>3 DEF Classify, DraftInv, RoundInv, PathInv, fileVars, Before, Saving
<1>12. CASE Revalidate
  <2>1. PICK passes \in SUBSET Ids(draft.suite) :
          IF Regressed(passes) = {}
          THEN /\ Swept(passes)
               /\ scope' = "fullSuite" /\ pc' = "confirming"
               /\ UNCHANGED <<turn, failures, repaired, approvals>>
          ELSE BackToMenu
    BY <1>12 DEF Revalidate
  <2>2. CASE Regressed(passes) = {}
    <3>1. Seen /\ draft' = draft
      BY <1>12 DEF Revalidate, RoundInv
    <3>2. \A c \in Ids(draft.suite) : /\ lastRun'[c].passed = (c \in passes) /\ lastRun'[c].how = "sweep"
                                      /\ lastRun'[c].case = CaseOf(draft.suite, c)
      BY <2>1, <2>2 DEF Swept, RunOf
    <3>3. \A c \in DOMAIN approvals : approvals[c] = "passed" => c \in passes
      BY <2>2 DEF Regressed
    <3>4. DOMAIN approvals \subseteq Ids(draft.suite)
      BY <3>1, NoneIsEmpty DEF Seen
    <3>5. Seen'
      BY <2>1, <2>2, <3>1, <3>2, <3>3, <3>4 DEF Seen
    <3> QED
      BY <1>12, <2>1, <2>2, <3>5 DEF Revalidate, DraftInv, RoundInv, PathInv, fileVars, Before, Saving
  <2>3. CASE Regressed(passes) # {}
    BY <1>12, <2>1, <2>3 DEF Revalidate, BackToMenu, DraftInv, RoundInv, PathInv, NoRound, fileVars, Before, Saving
  <2> QED
    BY <2>2, <2>3
<1>13. CASE DeclineRevalidation \/ Confirm
  BY <1>13 DEF DeclineRevalidation, Confirm, DraftInv, RoundInv, PathInv, Seen,
               roundVars, fileVars, Before, Saving
<1>14. CASE CheckOutput
  BY <1>14 DEF CheckOutput, SaveFailed, BackToMenu, DraftInv, RoundInv, PathInv, NoRound, Seen,
               roundVars, fileVars, Before, Saving
<1>15. CASE WriteTemp
  BY <1>15 DEF WriteTemp, DraftInv, RoundInv, PathInv, Seen, roundVars, Before, Saving
<1>16. CASE RemoveOld \/ Commit
  BY <1>16 DEF RemoveOld, Commit, LinkTemp, DraftInv, RoundInv, PathInv, Seen, roundVars, Before, Saving
<1>17. CASE RemoveTemp
  BY <1>17 DEF RemoveTemp, Leave, SaveFailed, BackToMenu, DraftInv, RoundInv, PathInv, NoRound, Seen,
               roundVars, Before, Saving
<1>18. CASE OtherProgram
  BY <1>18 DEF OtherProgram, DraftInv, RoundInv, PathInv, Seen, roundVars, Before, Saving
<1> QED
  BY <1>1, <1>2, <1>3, <1>4, <1>5, <1>6, <1>7, <1>8, <1>9, <1>10, <1>11, <1>12, <1>13, <1>14, <1>15,
     <1>16, <1>17, <1>18 DEF Next

(* Through every round of saving: what the command holds of a run, a       *)
(* repair or an approval is of the draft, and what it writes is the draft  *)
(* as approved (runInteractiveReview).                                     *)
THEOREM CommandInvariant == Spec => []CommandInv
<1>1. Init => CommandInv
  <2> SUFFICES ASSUME Init PROVE CommandInv
    OBVIOUS
  <2>1. DraftInv
    BY SuitesAssumption DEF Init, SessionInit, DraftInv
  <2>2. RoundInv /\ PathInv
    BY DEF Init, RoundInv, PathInv, NoRound, Before, Saving
  <2> QED
    BY <2>1, <2>2 DEF CommandInv
<1>2. CommandInv /\ [Next]_vars => CommandInv'
  <2>1. CommandInv /\ UNCHANGED vars => CommandInv'
    BY DEF vars, roundVars, fileVars, CommandInv, DraftInv, RoundInv, PathInv, NoRound, Repairing,
           Intended, Seen
  <2> QED
    BY <2>1, CommandNext
<1> QED
  BY <1>1, <1>2, PTL DEF Spec

(* Applying some of a candidate's changes changes the cases they name, as  *)
(* the candidate has them, and no other; all of them give the candidate    *)
(* (createAuthoringDiff, applyAuthoringChanges).                           *)
THEOREM CommandSelectionIsExact == Spec => []SelectionIsExact
<1>1. CommandInv => SelectionIsExact
  BY DraftIsExact DEF CommandInv
<1> QED
  BY <1>1, CommandInvariant, PTL

(* A suite is saved with an approval or with the scope of a full run only  *)
(* if each of its cases was seen to run so, as it is saved                 *)
(* (runInteractiveReview).                                                 *)
THEOREM CommandSavedIsVerified == Spec => []SavedIsVerified
<1>1. CommandInv => SavedIsVerified
  BY DEF CommandInv, RoundInv, Seen, PathInv, SavedIsVerified, Saving
<1> QED
  BY <1>1, CommandInvariant, PTL

(* A file of another program at --out is removed only with --force, in the *)
(* step that removes what it found, and is never replaced (saveSuite).     *)
THEOREM CommandNothingIsClobbered == Spec => NothingIsClobbered
<1> DEFINE Spared == outFile = "foreign" /\ outFile' # "foreign" =>
                       outFile' = "none" /\ (pc' = pc \/ (options.force /\ pc = "replacing"))
<1>1. CommandInv /\ [Next]_vars => [Spared]_<<outFile, pc>>
  BY DEF CommandInv, PathInv, Next, vars, fileVars, CheckEarly, Connect, Propose, Apply, Cancel, Save,
         Test, GiveUpRound, Rerun, NoRerun, RepairsEnd, Classify, Revalidate, DeclineRevalidation,
         Confirm, CheckOutput, WriteTemp, RemoveOld, Commit, LinkTemp, RemoveTemp, OtherProgram
<1> QED
  BY <1>1, CommandInvariant, PTL DEF Spec, NothingIsClobbered

-----------------------------------------------------------------------------
(* A run between the dashboard's server and the tabs that watch it.        *)

(* The question in the slot is the last one asked, and each question       *)
(* before it was answered once.                                            *)
RunInv ==
  /\ events \in Seq(Events)
  /\ asked \in Nat /\ pending \in {0, asked}
  /\ resolved \in Seq([from : Tabs, question : Nat])
  /\ finished \in {"unset"} \cup EndStatuses
  /\ AnswersReachTheirQuestion

Received == [id : Nat, event : Events]

Event(es, i) == [id |-> i, event |-> es[i]]

(* What a tab has received, and behind it what it is sent: the events of   *)
(* the run, each under its id, as far as they are received, and for an     *)
(* open source to the last.                                                *)
Follows(tab, es) ==
  /\ tab.got \in 0..Len(es)
  /\ Len(tab.log) = tab.got
  /\ \A i \in 1..tab.got : tab.log[i] = Event(es, i)
  /\ tab.source = "open" =>
       /\ Len(tab.stream) = Len(es) - tab.got
       /\ \A i \in 1..(Len(es) - tab.got) : tab.stream[i] = Event(es, tab.got + i)

TabType ==
  [source : {"away", "connecting", "open", "closed"}, got : Nat,
   stream : Seq(Received), log : Seq(Received), status : {"null"} \cup Statuses,
   question : Nat, answered : Nat, error : BOOLEAN, missing : BOOLEAN]

Served(tab, s) ==
  /\ tab.source = "open" => s = "up"
  /\ tab.missing => s = "again" /\ tab.log = <<>>

Traffic ==
  /\ server \in {"up", "down", "again"}
  /\ reads \subseteq [tab : Tabs, reply : {"none", "404", "lost"} \cup Statuses]
  /\ \A r \in reads : r.reply = "404" => server = "again"
  /\ posts \subseteq [tab : Tabs \cup {NoTab}, from : Tabs, question : Nat,
                      reply : {"none", "ok", "refused", "lost"}]

TabsInv ==
  /\ tabs \in [Tabs -> TabType]
  /\ \A t \in Tabs : Follows(tabs[t], events) /\ Served(tabs[t], server)

DashInv == RunInv /\ Traffic /\ TabsInv

-----------------------------------------------------------------------------
(* At first there is no tab, no event and no request.                      *)
LEMMA DashInit == ASSUME DashboardInit PROVE DashInv
<1>1. /\ events = <<>> /\ asked = 0 /\ pending = 0 /\ resolved = <<>> /\ finished = "unset" /\ server = "up"
      /\ reads = {} /\ posts = {}
      /\ tabs = [t \in Tabs |-> Away]
  BY DEF DashboardInit, RunInit
<1>2. Away \in TabType /\ Away.got = 0 /\ Away.log = <<>> /\ Away.stream = <<>>
      /\ Away.source = "away" /\ Away.missing = FALSE
  <2>1. <<>> \in Seq(Received) /\ Len(<<>>) = 0
    OBVIOUS
  <2> DEFINE nothing == <<>>
  <2> HIDE DEF nothing
  <2> QED
    BY <2>1 DEF Away, Mounted, TabType
<1>3. RunInv /\ Traffic
  BY <1>1 DEF RunInv, Traffic, AnswersReachTheirQuestion
<1>4. TabsInv
  <2>1. tabs \in [Tabs -> TabType] /\ \A t \in Tabs : tabs[t] = Away
    BY <1>1, <1>2
  <2>2. Follows(Away, events) /\ Served(Away, server)
    BY <1>1, <1>2 DEF Follows, Served
  <2> QED
    BY <2>1, <2>2 DEF TabsInv
<1> QED
  BY <1>3, <1>4 DEF DashInv

(* The run writes on: what it wrote stays, in its place.                   *)
WritesOn == /\ events' \in Seq(Events) /\ Len(events) <= Len(events')
            /\ \A i \in 1..Len(events) : events'[i] = events[i]

LEMMA RunWrites ==
  ASSUME RunInv, RunNext PROVE RunInv' /\ WritesOn
<1> USE BoundsAssumption DEF RunInv, WritesOn, AnswersReachTheirQuestion
<1>1. CASE Begin
  BY <1>1 DEF Begin
<1>2. CASE WriteLine
  <2>1. Line \in Events
    BY DEF Events
  <2> QED
    BY <1>2, <2>1 DEF WriteLine
<1>3. CASE Ask
  <2>1. asked + 1 \in 1..MaxQuestions
    BY <1>3 DEF Ask
  <2>2. Question(asked + 1) \in Events
    BY <2>1 DEF Events
  <2>3. WritesOn
    BY <1>3, <2>2 DEF Ask
  <2> QED
    BY <1>3, <2>1, <2>3 DEF Ask
<1>4. ASSUME NEW status \in EndStatuses, Return(status) PROVE RunInv' /\ WritesOn
  <2>1. Done(status) \in Events
    BY DEF Events
  <2>2. WritesOn
    BY <1>4, <2>1 DEF Return
  <2> QED
    BY <1>4, <2>2 DEF Return
<1>5. CASE Throw
  <2>1. Line \in Events /\ Done("failed") \in Events
    BY DEF Events, EndStatuses
  <2>2. <<Line, Done("failed")>> \in Seq(Events)
    BY <2>1
  <2>3. WritesOn
    BY <1>5, <2>2 DEF Throw
  <2> QED
    BY <1>5, <2>3 DEF Throw, EndStatuses
<1> QED
  BY <1>1, <1>2, <1>3, <1>4, <1>5 DEF RunNext

(* What the run wrote is sent behind what was sent before.                 *)
LEMMA BroadcastKeeps ==
  ASSUME RunInv, Traffic, TabsInv, WritesOn, Broadcast, server' = server
  PROVE  TabsInv'
<1> DEFINE n == Len(events)
           m == Len(events')
           e == [i \in 1..m |-> Event(events', i)]
           wrote == Emitted
<1>1. n \in Nat /\ m \in Nat /\ n <= m /\ events' \in [1..m -> Events]
  BY DEF RunInv, WritesOn
<1>2. \A i \in 1..m : e[i] = Event(events', i) /\ e[i] \in Received
  BY <1>1 DEF Event, Received
<1>3. \A i \in 1..n : e[i] = Event(events, i)
  BY <1>1 DEF WritesOn, Event
<1>4. wrote \in Seq(Received) /\ Len(wrote) = m - n /\ \A i \in 1..(m - n) : wrote[i] = e[n + i]
  <2>1. wrote = [i \in 1..(m + 1 - (n + 1)) |-> Event(events', n + 1 + i - 1)]
    BY DEF Emitted, Identified, Event
  <2> HIDE DEF m, n, e, wrote
  <2>2. /\ m + 1 - (n + 1) = m - n /\ m - n \in Nat
        /\ \A i \in 1..(m - n) : n + 1 + i - 1 = n + i /\ n + i \in 1..m
    BY <1>1
  <2> DEFINE k == m - n
  <2>3. wrote = [i \in 1..k |-> e[n + i]] /\ k \in Nat /\ \A i \in 1..k : e[n + i] \in Received
    BY <2>1, <2>2, <1>2
  <2> HIDE DEF k
  <2>4. wrote \in Seq(Received) /\ Len(wrote) = k /\ \A i \in 1..k : wrote[i] = e[n + i]
    BY <2>3
  <2> QED
    BY <2>4 DEF k
<1> HIDE DEF m, n, e, wrote
<1>5. ASSUME NEW t \in Tabs
      PROVE  tabs'[t] \in TabType /\ Follows(tabs'[t], events') /\ Served(tabs'[t], server')
  <2> DEFINE tab == tabs[t]
             got == tab.got
             a == tab.stream
             sent == a \o wrote
  <2>1. tab \in TabType /\ Follows(tab, events) /\ Served(tab, server)
    BY DEF TabsInv
  <2>2. got \in Nat /\ got <= n /\ got <= m
    BY <1>1, <2>1 DEF Follows, n
  <2>3. \A i \in 1..got : tab.log[i] = Event(events', i)
    BY <1>1, <1>2, <1>3, <2>1, <2>2 DEF Follows
  <2>4. CASE tab.source # "open"
    <3>1. tabs'[t] = tab
      BY <2>4 DEF Broadcast
    <3> HIDE DEF tab
    <3> QED
      BY <2>1, <2>2, <2>3, <2>4, <3>1 DEF Follows, Served, m
  <2>5. CASE tab.source = "open"
    <3>1. tabs'[t] = [tab EXCEPT !.stream = sent]
      BY <2>5 DEF Broadcast, wrote
    <3>2. a \in Seq(Received) /\ Len(a) = n - got
      BY <2>1, <2>5 DEF Follows, n, TabType
    <3>3. \A i \in 1..(n - got) : a[i] = e[got + i]
      <4>1. \A i \in 1..(n - got) : got + i \in 1..n /\ a[i] = Event(events, got + i)
        BY <1>1, <2>1, <2>2, <2>5 DEF Follows, n
      <4> QED
        BY <1>3, <4>1
    <3>4. sent \in Seq(Received) /\ Len(sent) = m - got /\ \A i \in 1..(m - got) : sent[i] = e[got + i]
      <4> HIDE DEF got, a
      <4>1. e \in Seq(Received)
        BY <1>1, <1>2 DEF e
      <4>2. got + Len(a) = n /\ Len(a) + Len(wrote) = m - got
        BY <1>1, <1>4, <2>2, <3>2
      <4>3. \A i \in 1..Len(a) : a[i] = e[got + i]
        BY <3>2, <3>3
      <4>4. \A i \in 1..Len(wrote) : wrote[i] = e[got + Len(a) + i]
        BY <1>4, <4>2
      <4>5. /\ sent \in Seq(Received) /\ Len(sent) = Len(a) + Len(wrote)
            /\ \A i \in 1..Len(sent) : sent[i] = e[got + i]
        <5>1. wrote \in Seq(Received) /\ got \in Nat /\ a \in Seq(Received)
          BY <1>4, <2>2, <3>2
        <5>2. /\ sent \in Seq(Received) /\ Len(sent) = Len(a) + Len(wrote)
              /\ \A i \in 1..Len(sent) : sent[i] = IF i <= Len(a) THEN a[i] ELSE wrote[i - Len(a)]
              /\ Len(a) \in Nat /\ Len(wrote) \in Nat
          BY <5>1, ConcatProperties
        <5> HIDE DEF sent
        <5>3. ASSUME NEW i \in 1..Len(sent), i <= Len(a) PROVE sent[i] = e[got + i]
          BY <5>2, <5>3, <4>3
        <5>4. ASSUME NEW i \in 1..Len(sent), ~(i <= Len(a)) PROVE sent[i] = e[got + i]
          <6>1. /\ i - Len(a) \in 1..Len(wrote) /\ got + Len(a) + (i - Len(a)) = got + i
                /\ sent[i] = wrote[i - Len(a)]
            BY <5>1, <5>2, <5>4
          <6> QED
            BY <4>4, <6>1
        <5> QED
          BY <5>2, <5>3, <5>4
      <4> QED
        BY <4>2, <4>5
    <3> HIDE DEF sent
    <3>5. /\ tabs'[t].stream = sent /\ tabs'[t].got = got /\ tabs'[t].log = tab.log
          /\ tabs'[t].missing = tab.missing /\ tabs'[t].source = tab.source /\ tabs'[t] \in TabType
      BY <2>1, <3>1, <3>4 DEF TabType
    <3>6. \A i \in 1..(m - got) : sent[i] = Event(events', got + i)
      <4> HIDE DEF got
      <4> QED
        <5>1. ASSUME NEW i \in 1..(m - got) PROVE got + i \in 1..m
          BY <1>1, <2>2
        <5> QED
          BY <1>2, <3>4, <5>1
    <3>7. Len(tab.log) = got
      BY <2>1 DEF Follows
    <3> HIDE DEF tab, got
    <3> QED
      BY <2>1, <2>2, <2>3, <3>4, <3>5, <3>6, <3>7 DEF Follows, Served, m
  <2> QED
    BY <2>4, <2>5
<1> QED
  BY <1>5 DEF TabsInv, Broadcast

(* A step of one tab, or of what it is sent.                               *)
LEMMA TabChanges ==
  ASSUME TabsInv, NEW t \in Tabs, NEW tab \in TabType, events' = events, server' = server,
         Follows(tab, events), Served(tab, server), tabs' = [tabs EXCEPT ![t] = tab]
  PROVE  TabsInv'
<1>1. tabs' \in [Tabs -> TabType] /\ \A u \in Tabs : tabs'[u] = IF u = t THEN tab ELSE tabs[u]
  BY DEF TabsInv
<1> QED
  BY <1>1 DEF TabsInv

(* A tab that opens or leaves has received nothing.                        *)
LEMMA Screens ==
  ASSUME RunInv, NEW tab \in {Mounted, Away}
  PROVE  tab \in TabType /\ Follows(tab, events) /\ Served(tab, server)
<1>1. <<>> \in Seq(Received) /\ Len(<<>>) = 0 /\ Len(events) \in Nat
  BY DEF RunInv
<1> DEFINE nothing == <<>>
<1> HIDE DEF nothing
<1>2. /\ tab \in TabType /\ tab.got = 0 /\ tab.log = <<>> /\ tab.source \in {"connecting", "away"}
      /\ tab.missing = FALSE
  <2>1. CASE tab = Mounted
    BY <1>1, <2>1 DEF Mounted, TabType
  <2>2. CASE tab = Away
    <3>1. Mounted \in TabType
      BY <1>1 DEF Mounted, TabType
    <3>2. Away = [Mounted EXCEPT !.source = "away"]
      BY DEF Away
    <3>3. Mounted.got = 0 /\ Mounted.log = <<>> /\ Mounted.missing = FALSE
      BY DEF Mounted
    <3> QED
      BY <2>2, <3>1, <3>2, <3>3 DEF TabType
  <2> QED
    BY <2>1, <2>2
<1> QED
  BY <1>1, <1>2 DEF Follows, Served

(* The next event a tab is sent is not in its log yet, and goes behind it. *)
LEMMA ReceiveKeeps ==
  ASSUME RunInv, Traffic, TabsInv, NEW t \in Tabs, Receive(t)
  PROVE  TabsInv'
<1> DEFINE tab == tabs[t]
           got == tab.got
           received == Head(tab.stream)
           read == Taken(tab)
           new == Reduced(read, received)
<1>1. /\ tab.source = "open" /\ tab.stream # <<>>
      /\ tabs' = [tabs EXCEPT ![t] = new] /\ events' = events /\ server' = server
  BY DEF Receive, runVars
<1>2. tab \in TabType /\ Follows(tab, events) /\ Served(tab, server)
  BY DEF TabsInv
<1>3. /\ got \in Nat /\ got < Len(events) /\ Len(events) \in Nat /\ Len(tab.stream) = Len(events) - got
      /\ received = Event(events, got + 1) /\ received \in Received
  <2>1. tab.stream \in Seq(Received) /\ Len(tab.stream) \in Nat \ {0}
    BY <1>1, <1>2 DEF TabType
  <2>2. got \in Nat /\ Len(events) \in Nat /\ Len(tab.stream) = Len(events) - got
    BY <1>1, <1>2 DEF Follows, RunInv
  <2>3. 1 \in 1..(Len(events) - got) /\ got < Len(events)
    BY <2>1, <2>2
  <2>4. tab.stream[1] = Event(events, got + 1)
    BY <1>1, <1>2, <2>3 DEF Follows
  <2> QED
    BY <2>1, <2>2, <2>3, <2>4
<1>4. /\ Tail(tab.stream) \in Seq(Received) /\ Len(Tail(tab.stream)) = Len(events) - (got + 1)
      /\ \A i \in 1..(Len(events) - (got + 1)) : Tail(tab.stream)[i] = Event(events, got + 1 + i)
  <2> DEFINE s == tab.stream
  <2>1. s \in Seq(Received) /\ s # <<>> /\ Len(s) = Len(events) - got
    BY <1>1, <1>2, <1>3 DEF TabType
  <2>2. \A i \in 1..(Len(events) - got) : s[i] = Event(events, got + i)
    BY <1>1, <1>2 DEF Follows
  <2> HIDE DEF s, got
  <2>3. /\ Tail(s) \in Seq(Received) /\ Len(Tail(s)) = Len(s) - 1
        /\ \A i \in 1..(Len(s) - 1) : Tail(s)[i] = s[i + 1]
    BY <2>1
  <2>4. ASSUME NEW i \in 1..(Len(events) - (got + 1)) PROVE Tail(s)[i] = Event(events, got + 1 + i)
    <3>1. i \in 1..(Len(s) - 1) /\ i + 1 \in 1..(Len(events) - got) /\ got + (i + 1) = got + 1 + i
      BY <1>3, <2>1
    <3> QED
      BY <2>2, <2>3, <3>1
  <2>5. /\ Tail(s) \in Seq(Received) /\ Len(Tail(s)) = Len(events) - (got + 1)
        /\ \A i \in 1..(Len(events) - (got + 1)) : Tail(s)[i] = Event(events, got + 1 + i)
    <3>1. Len(events) - got - 1 = Len(events) - (got + 1)
      BY <1>3
    <3> QED
      BY <2>1, <2>3, <2>4, <3>1
  <2> QED
    BY <2>5 DEF s
<1>5. received.id = got + 1 /\ received.event = events[got + 1] /\ received.event \in Events
  BY <1>3 DEF Event, Received
<1>6. ~ \E i \in 1..Len(tab.log) : tab.log[i].id = received.id
  <2>0. \A i : Event(events, i).id = i
    BY DEF Event
  <2>1. Len(tab.log) = got /\ \A i \in 1..got : tab.log[i].id = i
    BY <1>2, <2>0 DEF Follows
  <2> HIDE DEF received, got, tab
  <2> QED
    BY <1>3, <1>5, <2>1
<1> DEFINE log == Append(tab.log, received)
<1>7. /\ log \in Seq(Received) /\ Len(log) = got + 1
      /\ \A i \in 1..(got + 1) : log[i] = Event(events, i)
  <2>1. tab.log \in Seq(Received) /\ Len(tab.log) = got /\ \A i \in 1..got : tab.log[i] = Event(events, i)
    BY <1>2 DEF TabType, Follows
  <2> DEFINE l == tab.log
  <2> HIDE DEF l, received, got
  <2> QED
    BY <1>3, <2>1 DEF l
<1>8. received.event.kind = "question" => received.event.about \in Nat
  BY <1>5 DEF Events, Line, Question, Done
<1>9. received.event.kind = "done" => received.event.about \in Statuses
  BY <1>5 DEF Events, Line, Question, Done, Statuses
<1> HIDE DEF log, received
<1>10. /\ read \in TabType /\ read.stream = Tail(tab.stream) /\ read.got = got + 1 /\ read.log = tab.log
       /\ read.source = "open"
  <2> DEFINE rest == Tail(tab.stream)
  <2>1. rest \in Seq(Received) /\ received.id = got + 1 /\ got + 1 \in Nat
    BY <1>3, <1>4, <1>5
  <2> HIDE DEF rest, tab
  <2>2. read = [tab EXCEPT !.stream = rest, !.got = received.id]
    BY DEF Taken, rest, received
  <2> HIDE DEF read, got
  <2>3. /\ read \in TabType /\ read.stream = rest /\ read.got = got + 1
        /\ read.log = tab.log /\ read.source = tab.source
    BY <1>2, <2>1, <2>2 DEF TabType
  <2> QED
    BY <1>1, <2>3 DEF rest
<1> HIDE DEF tab, got
<1> DEFINE next == [read EXCEPT !.log = log, !.error = FALSE, !.missing = FALSE]
<1>11. new = IF received.event.kind = "question"
             THEN [next EXCEPT !.status = "waiting-input", !.question = received.event.about]
             ELSE IF received.event.kind = "done"
             THEN [next EXCEPT !.status = received.event.about, !.question = 0]
             ELSE [next EXCEPT !.status = "running"]
  BY <1>6, <1>10 DEF Reduced, log
<1> HIDE DEF read
<1>12. /\ next \in TabType /\ next.stream = read.stream /\ next.got = read.got /\ next.log = log
       /\ next.source = "open" /\ next.missing = FALSE
  BY <1>7, <1>10 DEF TabType
<1> HIDE DEF next, new
<1>13. /\ new \in TabType /\ new.stream = next.stream /\ new.got = next.got /\ new.log = next.log
       /\ new.source = next.source /\ new.missing = next.missing
  BY <1>8, <1>9, <1>11, <1>12 DEF TabType, Statuses
<1>14. Follows(new, events) /\ Served(new, server)
  <2>1. server = "up"
    BY <1>1, <1>2 DEF Served
  <2>2. /\ new.log = log /\ new.got = got + 1 /\ new.stream = Tail(tab.stream)
        /\ new.source = "open" /\ new.missing = FALSE
    BY <1>10, <1>12, <1>13
  <2> DEFINE rest == Tail(tab.stream)
  <2>3. /\ got + 1 \in 0..Len(events) /\ Len(rest) = Len(events) - (got + 1)
        /\ \A i \in 1..(Len(events) - (got + 1)) : rest[i] = Event(events, got + 1 + i)
    BY <1>3, <1>4
  <2> HIDE DEF rest
  <2>4. Follows(new, events)
    <3>1. new.stream = rest
      BY <2>2 DEF rest
    <3> QED
      BY <1>7, <2>2, <2>3, <3>1 DEF Follows
  <2> QED
    BY <2>1, <2>2, <2>4 DEF Served
<1> QED
  BY <1>1, <1>13, <1>14, TabChanges

(* The reply to a read fills a status, or tells of a failure.              *)
LEMMA RefreshedKeeps ==
  ASSUME NEW tab \in TabType, Follows(tab, events), Served(tab, server),
         NEW reply \in {"404", "lost"} \cup Statuses, reply = "404" => server = "again"
  PROVE  LET new == Refreshed(tab, reply)
         IN  new \in TabType /\ Follows(new, events) /\ Served(new, server)
<1> DEFINE new == Refreshed(tab, reply)
<1>1. CASE reply \in Statuses
  <2>1. new = [tab EXCEPT !.status = IF tab.status = "null" THEN reply ELSE tab.status]
    BY <1>1 DEF Refreshed
  <2> HIDE DEF new
  <2>2. /\ new \in TabType /\ new.got = tab.got /\ new.log = tab.log /\ new.stream = tab.stream
        /\ new.source = tab.source /\ new.missing = tab.missing
    BY <1>1, <2>1 DEF TabType
  <2> QED
    BY <2>2 DEF Follows, Served, new
<1>2. CASE reply \notin Statuses
  <2> DEFINE none == reply = "404" /\ tab.log = <<>>
  <2>1. new = [tab EXCEPT !.error = TRUE, !.missing = none]
    BY <1>2 DEF Refreshed
  <2>2. none \in BOOLEAN /\ (none => server = "again" /\ tab.log = <<>>)
    OBVIOUS
  <2> HIDE DEF new, none
  <2>3. /\ new \in TabType /\ new.got = tab.got /\ new.log = tab.log /\ new.stream = tab.stream
        /\ new.source = tab.source /\ new.missing = none
    BY <2>1, <2>2 DEF TabType
  <2> QED
    BY <2>2, <2>3 DEF Follows, Served, new
<1> QED
  BY <1>1, <1>2

(* A source is closed or connects again: the tab keeps what it received.   *)
LEMMA SourceChanges ==
  ASSUME NEW tab \in TabType, Follows(tab, events), Served(tab, server),
         NEW source \in {"connecting", "closed"}, NEW stream \in {tab.stream, <<>>}
  PROVE  LET new == [tab EXCEPT !.source = source, !.stream = stream]
         IN  /\ new \in TabType /\ Follows(new, events) /\ Served(new, server)
             /\ new.missing = tab.missing /\ new.source # "open"
<1> DEFINE new == [tab EXCEPT !.source = source, !.stream = stream]
<1>1. stream \in Seq(Received)
  <2>1. tab.stream \in Seq(Received) /\ <<>> \in Seq(Received)
    BY DEF TabType
  <2> QED
    BY <2>1
<1>2. /\ new \in TabType /\ new.got = tab.got /\ new.log = tab.log /\ new.source = source
      /\ new.missing = tab.missing
  BY <1>1 DEF TabType
<1> HIDE DEF new
<1>3. Follows(new, events) /\ Served(new, server) /\ new.source # "open"
  BY <1>2 DEF Follows, Served
<1> QED
  BY <1>2, <1>3 DEF new

(* What is replayed to a connection goes on where the tab is, to the end.  *)
LEMMA ConnectKeeps ==
  ASSUME RunInv, Traffic, TabsInv, NEW t \in Tabs, ConnectStream(t)
  PROVE  TabsInv'
<1> DEFINE tab == tabs[t]
           got == tab.got
           n == Len(events) - got
           replay == [i \in 1..n |-> Event(events, got + i)]
           new == [tab EXCEPT !.source = "open", !.stream = replay]
<1>1. tab \in TabType /\ Follows(tab, events) /\ Served(tab, server)
  BY DEF TabsInv
<1>2. server = "up" /\ tabs' = [tabs EXCEPT ![t] = new] /\ events' = events /\ server' = server
  <2>1. tabs' = [tabs EXCEPT ![t].source = "open", ![t].stream = replay]
    BY DEF ConnectStream, Event
  <2>2. tabs \in [Tabs -> TabType]
    BY DEF TabsInv
  <2> HIDE DEF replay
  <2>3. tabs' = [tabs EXCEPT ![t] = new]
    BY <2>1, <2>2
  <2> QED
    BY <2>3 DEF ConnectStream, runVars
<1>3. replay \in Seq(Received) /\ Len(replay) = n /\ \A i \in 1..n : replay[i] = Event(events, got + i)
  <2>1. n \in Nat /\ got \in Nat /\ events \in [1..Len(events) -> Events] /\ Len(events) \in Nat
    BY <1>1 DEF Follows, RunInv
  <2>2. \A i \in 1..n : got + i \in 1..Len(events)
    BY <2>1
  <2>3. \A i \in 1..n : Event(events, got + i) \in Received
    BY <2>1, <2>2 DEF Event, Received
  <2> HIDE DEF n, got
  <2> QED
    BY <2>1, <2>3
<1> HIDE DEF replay
<1>4. /\ new \in TabType /\ new.got = got /\ new.log = tab.log /\ new.source = "open" /\ new.stream = replay
      /\ new.missing = tab.missing
  BY <1>1, <1>3 DEF TabType
<1> HIDE DEF new
<1>5. Follows(new, events) /\ Served(new, server)
  BY <1>1, <1>2, <1>3, <1>4 DEF Follows, Served
<1> QED
  BY <1>2, <1>4, <1>5, TabChanges

(* A question is answered once, by an answer to it.                        *)
LEMMA AnswerWrites ==
  ASSUME RunInv, NEW p, p.from \in Tabs, p.question \in Nat, Accepts(p.question),
         TakeAnswer([from |-> p.from, question |-> p.question])
  PROVE  RunInv' /\ WritesOn
<1> DEFINE answer == [from |-> p.from, question |-> p.question]
<1>1. answer \in [from : Tabs, question : Nat] /\ answer.question = p.question
  OBVIOUS
<1>2. Line \in Events
  BY DEF Events
<1> HIDE DEF answer
<1>3. /\ pending' = 0 /\ events' = Append(events, Line) /\ resolved' = Append(resolved, answer)
      /\ asked' = asked /\ finished' = finished
  BY DEF TakeAnswer, answer
<1>4. pending # 0 /\ pending = p.question
  BY DEF Accepts
<1>5. WritesOn
  BY <1>2, <1>3 DEF WritesOn, RunInv
<1>6. resolved' \in Seq([from : Tabs, question : Nat]) /\ Len(resolved') = Len(resolved) + 1
      /\ (\A i \in 1..Len(resolved) : resolved'[i] = resolved[i]) /\ resolved'[Len(resolved) + 1] = answer
  BY <1>1, <1>3 DEF RunInv
<1>7. pending = asked /\ Len(resolved) + 1 = asked
  BY <1>4 DEF RunInv, AnswersReachTheirQuestion
<1>8. AnswersReachTheirQuestion'
  BY <1>1, <1>3, <1>4, <1>6, <1>7 DEF RunInv, AnswersReachTheirQuestion
<1> QED
  BY <1>3, <1>5, <1>6, <1>8 DEF RunInv, WritesOn

(* The requests of the tabs, whatever becomes of them.                     *)
LEMMA TrafficKept ==
  ASSUME Traffic, NEW q, Reply(q, "ok") \/ Reply(q, "refused") \/ Reply(q, "lost"),
         q \in posts, server' = server, reads' = reads
  PROVE  Traffic'
<1>1. PICK reply \in {"ok", "refused", "lost"} : Reply(q, reply)
  OBVIOUS
<1>2. posts' = (posts \ {q}) \cup {[q EXCEPT !.reply = reply]}
  BY <1>1 DEF Reply
<1> QED
  BY <1>2 DEF Traffic

(* The steps of a tab and of its event stream.                             *)
LEMMA TabSteps ==
  ASSUME DashInv, NEW t \in Tabs,
         \/ OpenRun(t) \/ LeaveRun(t) \/ Submit(t) \/ ConnectStream(t)
         \/ ConnectRefused(t) \/ DropStream(t) \/ Receive(t)
  PROVE  DashInv'
<1> USE DEF DashInv
<1> DEFINE tab == tabs[t]
<1>1. RunInv'
  <2>1. UNCHANGED runVars
    BY DEF OpenRun, LeaveRun, Submit, ConnectStream, ConnectRefused, DropStream,
           Receive
  <2> QED
    BY <2>1 DEF runVars, RunInv, AnswersReachTheirQuestion
<1>2. events' = events /\ server' = server
  BY DEF OpenRun, LeaveRun, Submit, ConnectStream, ConnectRefused, DropStream,
         Receive, runVars
<1>3. tab \in TabType /\ Follows(tab, events) /\ Served(tab, server)
  BY DEF TabsInv
<1>4. CASE OpenRun(t)
  <2>1. Traffic'
    BY <1>4 DEF OpenRun, NewRead, Traffic
  <2>2. TabsInv'
    <3>1. tabs' = [tabs EXCEPT ![t] = Mounted]
      BY <1>4 DEF OpenRun
    <3> QED
      BY <1>2, <3>1, Screens, TabChanges
  <2> QED
    BY <1>1, <2>1, <2>2
<1>5. CASE LeaveRun(t)
  <2>1. Traffic'
    <3>1. \A p \in posts' : \E q \in posts : p = q \/ p = [q EXCEPT !.tab = NoTab]
      BY <1>5 DEF LeaveRun
    <3>2. posts' \subseteq [tab : Tabs \cup {NoTab}, from : Tabs, question : Nat,
                      reply : {"none", "ok", "refused", "lost"}]
      BY <3>1 DEF Traffic
    <3> QED
      BY <1>5, <3>2 DEF LeaveRun, Traffic
  <2>2. TabsInv'
    <3>1. tabs' = [tabs EXCEPT ![t] = Away]
      BY <1>5 DEF LeaveRun
    <3> QED
      BY <1>2, <3>1, Screens, TabChanges
  <2> QED
    BY <1>1, <2>1, <2>2
<1>6. CASE Submit(t)
  <2>1. tab.question \in Nat
    BY <1>3 DEF TabType
  <2>2. Shown(t) \in Nat
    BY <2>1 DEF Shown
  <2>3. Traffic'
    BY <1>6, <2>2 DEF Submit, Traffic
  <2>4. TabsInv'
    BY <1>2, <1>6 DEF Submit, TabsInv
  <2> QED
    BY <1>1, <2>3, <2>4
<1>7. CASE ConnectStream(t)
  <2>1. Traffic'
    BY <1>7 DEF ConnectStream, Traffic
  <2>2. TabsInv'
    BY <1>7, ConnectKeeps
  <2> QED
    BY <1>1, <2>1, <2>2
<1>8. CASE ConnectRefused(t)
  <2>1. Traffic'
    BY <1>8 DEF ConnectRefused, NewRead, Traffic
  <2> DEFINE new == [tab EXCEPT !.source = "closed", !.stream = tab.stream]
  <2>2. tabs' = [tabs EXCEPT ![t] = new]
    <3>1. tabs' = [tabs EXCEPT ![t] = [tab EXCEPT !.source = "closed"]]
      BY <1>8 DEF ConnectRefused
    <3>2. [tab EXCEPT !.source = "closed"] = new
      BY <1>3 DEF TabType
    <3> QED
      BY <3>1, <3>2
  <2>3. new \in TabType /\ Follows(new, events) /\ Served(new, server)
    BY <1>3, SourceChanges
  <2> HIDE DEF new
  <2>4. TabsInv'
    BY <1>2, <2>2, <2>3, TabChanges
  <2> QED
    BY <1>1, <2>1, <2>4
<1>9. CASE DropStream(t)
  <2>1. Traffic'
    BY <1>9 DEF DropStream, Traffic
  <2> DEFINE new == [tab EXCEPT !.source = "connecting", !.stream = <<>>]
  <2>2. tabs' = [tabs EXCEPT ![t] = new]
    <3>1. tabs' = [tabs EXCEPT ![t].source = "connecting", ![t].stream = <<>>]
      BY <1>9 DEF DropStream
    <3>2. tabs \in [Tabs -> TabType]
      BY DEF TabsInv
    <3> QED
      BY <3>1, <3>2
  <2>3. new \in TabType /\ Follows(new, events) /\ Served(new, server)
    BY <1>3, SourceChanges
  <2> HIDE DEF new
  <2>4. TabsInv'
    BY <1>2, <2>2, <2>3, TabChanges
  <2> QED
    BY <1>1, <2>1, <2>4
<1>10. CASE Receive(t)
  <2>1. Traffic'
    BY <1>10 DEF Receive, Traffic
  <2>2. TabsInv'
    BY <1>10, ReceiveKeeps
  <2> QED
    BY <1>1, <2>1, <2>2
<1> QED
  BY <1>4, <1>5, <1>6, <1>7, <1>8, <1>9, <1>10

(* A read of the summary: answered, lost or delivered.                     *)
LEMMA ReadSteps ==
  ASSUME DashInv, NEW r \in reads, AnswerRead(r) \/ LoseRead(r) \/ ReadReply(r)
  PROVE  DashInv'
<1> USE DEF DashInv
<1>1. RunInv'
  BY DEF AnswerRead, LoseRead, ReadReply, runVars, RunInv, AnswersReachTheirQuestion
<1>2. events' = events /\ server' = server
  BY DEF AnswerRead, LoseRead, ReadReply, runVars
<1>3. /\ r \in [tab : Tabs, reply : {"none", "404", "lost"} \cup Statuses]
      /\ (r.reply = "404" => server = "again")
  BY DEF Traffic
<1>4. CASE AnswerRead(r)
  <2> DEFINE reply == IF server = "up" THEN RunStatus ELSE "404"
  <2>1. reply \in {"404"} \cup Statuses /\ (reply = "404" => server = "again")
    <3>1. finished \in {"unset"} \cup EndStatuses
      BY DEF RunInv
    <3>2. RunStatus \in Statuses /\ "404" \notin Statuses
      BY <3>1 DEF RunStatus, Statuses, EndStatuses
    <3> QED
      BY <1>4, <3>2 DEF AnswerRead, Traffic
  <2>2. reads' = (reads \ {r}) \cup {[r EXCEPT !.reply = reply]} /\ posts' = posts /\ tabs' = tabs
    BY <1>4 DEF AnswerRead
  <2> HIDE DEF reply
  <2>3. Traffic'
    BY <1>2, <1>3, <2>1, <2>2 DEF Traffic
  <2> QED
    BY <1>1, <1>2, <2>2, <2>3 DEF TabsInv
<1>5. CASE LoseRead(r)
  <2>1. reads' = (reads \ {r}) \cup {[r EXCEPT !.reply = "lost"]} /\ posts' = posts /\ tabs' = tabs
    BY <1>5 DEF LoseRead
  <2>2. Traffic'
    BY <1>2, <1>3, <2>1 DEF Traffic
  <2> QED
    BY <1>1, <1>2, <2>1, <2>2 DEF TabsInv
<1>6. CASE ReadReply(r)
  <2>1. reads' = reads \ {r} /\ posts' = posts /\ r.reply # "none"
    BY <1>6 DEF ReadReply
  <2> DEFINE new == Refreshed(tabs[r.tab], r.reply)
  <2>2. tabs' = [tabs EXCEPT ![r.tab] = new]
    BY <1>6 DEF ReadReply
  <2>3. new \in TabType /\ Follows(new, events) /\ Served(new, server)
    BY <1>3, <2>1, RefreshedKeeps DEF TabsInv
  <2> HIDE DEF new
  <2>4. TabsInv'
    BY <1>2, <1>3, <2>2, <2>3, TabChanges
  <2> QED
    BY <1>1, <1>2, <2>1, <2>4 DEF Traffic
<1> QED
  BY <1>4, <1>5, <1>6

(* A POST of an answer: taken, refused, lost or delivered.                 *)
LEMMA PostSteps ==
  ASSUME DashInv, NEW p \in posts,
         AcceptAnswer(p) \/ RefuseAnswer(p) \/ LosePost(p) \/ PostReply(p)
  PROVE  DashInv'
<1> USE DEF DashInv
<1>1. p \in [tab : Tabs \cup {NoTab}, from : Tabs, question : Nat, reply : {"none", "ok", "refused", "lost"}]
  BY DEF Traffic
<1>2. CASE AcceptAnswer(p)
  <2>1. /\ Accepts(p.question) /\ TakeAnswer([from |-> p.from, question |-> p.question])
        /\ Broadcast /\ server' = server /\ Reply(p, "ok") /\ reads' = reads
    BY <1>2 DEF AcceptAnswer
  <2>2. RunInv' /\ WritesOn
    BY <1>1, <2>1, AnswerWrites
  <2>3. TabsInv' /\ Traffic'
    BY <2>1, <2>2, BroadcastKeeps, TrafficKept
  <2> QED
    BY <2>2, <2>3
<1>3. CASE RefuseAnswer(p) \/ LosePost(p)
  <2>1. /\ Reply(p, "refused") \/ Reply(p, "lost")
        /\ server' = server /\ reads' = reads /\ tabs' = tabs /\ UNCHANGED runVars
    BY <1>3 DEF RefuseAnswer, LosePost
  <2>2. Traffic'
    BY <2>1, TrafficKept
  <2> QED
    BY <2>1, <2>2 DEF runVars, RunInv, AnswersReachTheirQuestion, TabsInv
<1>4. CASE PostReply(p)
  <2>1. posts' = posts \ {p} /\ server' = server /\ reads' = reads /\ UNCHANGED runVars
    BY <1>4 DEF PostReply
  <2>2. RunInv' /\ Traffic' /\ events' = events
    BY <2>1 DEF runVars, RunInv, AnswersReachTheirQuestion, Traffic
  <2>3. CASE p.tab # NoTab /\ p.reply = "ok"
    <3> DEFINE t == p.tab
               new == [tabs[t] EXCEPT !.answered = p.question]
    <3>1. t \in Tabs
      BY <1>1, <2>3
    <3>2. tabs[t] \in TabType /\ Follows(tabs[t], events) /\ Served(tabs[t], server)
      BY <3>1 DEF TabsInv
    <3>3. tabs' = [tabs EXCEPT ![t] = new]
      BY <1>4, <2>3 DEF PostReply
    <3> HIDE DEF t
    <3>4. /\ new \in TabType /\ new.got = tabs[t].got /\ new.log = tabs[t].log /\ new.stream = tabs[t].stream
          /\ new.source = tabs[t].source /\ new.missing = tabs[t].missing
      BY <1>1, <3>2 DEF TabType
    <3> HIDE DEF new
    <3>5. Follows(new, events) /\ Served(new, server)
      BY <3>2, <3>4 DEF Follows, Served
    <3>6. TabsInv'
      BY <2>1, <2>2, <3>1, <3>3, <3>4, <3>5, TabChanges
    <3> QED
      BY <2>2, <3>6
  <2>4. CASE ~(p.tab # NoTab /\ p.reply = "ok")
    <3>1. tabs' = tabs
      BY <1>4, <2>4 DEF PostReply
    <3> QED
      BY <2>1, <2>2, <3>1 DEF TabsInv
  <2> QED
    BY <2>3, <2>4
<1> QED
  BY <1>2, <1>3, <1>4

(* Each step of the server and of its tabs.                                *)
LEMMA DashNext ==
  ASSUME DashInv, DashboardNext
  PROVE  DashInv'
<1> USE DEF DashInv
<1>1. CASE RunStep
  <2>1. RunNext /\ Broadcast /\ server' = server /\ reads' = reads /\ posts' = posts
    BY <1>1 DEF RunStep
  <2>2. RunInv' /\ WritesOn
    BY <2>1, RunWrites
  <2>3. TabsInv'
    BY <2>1, <2>2, BroadcastKeeps
  <2> QED
    BY <2>1, <2>2, <2>3 DEF Traffic
<1>2. CASE Stop
  <2>1. server = "up" /\ server' = "down" /\ UNCHANGED runVars
    BY <1>2 DEF Stop
  <2>2. RunInv' /\ events' = events
    BY <2>1 DEF runVars, RunInv, AnswersReachTheirQuestion
  <2>3. Traffic'
    <3>1. \A r \in reads' : \E q \in reads : r = q \/ r = [q EXCEPT !.reply = "lost"]
      BY <1>2 DEF Stop
    <3>2. \A p \in posts' : \E q \in posts : p = q \/ p = [q EXCEPT !.reply = "lost"]
      BY <1>2 DEF Stop
    <3>3. /\ reads' \subseteq [tab : Tabs, reply : {"none", "404", "lost"} \cup Statuses]
          /\ \A r \in reads' : r.reply # "404"
      BY <2>1, <3>1 DEF Traffic
    <3>4. posts' \subseteq [tab : Tabs \cup {NoTab}, from : Tabs, question : Nat,
                      reply : {"none", "ok", "refused", "lost"}]
      BY <3>2 DEF Traffic
    <3> QED
      BY <2>1, <3>3, <3>4 DEF Traffic
  <2>4. ASSUME NEW t \in Tabs
        PROVE  tabs'[t] \in TabType /\ Follows(tabs'[t], events) /\ Served(tabs'[t], "down")
    <3> DEFINE tab == tabs[t]
               new == [tab EXCEPT !.source = "connecting", !.stream = <<>>]
    <3>1. tab \in TabType /\ Follows(tab, events) /\ Served(tab, server)
      BY DEF TabsInv
    <3>2. tabs'[t] = IF tab.source = "open" THEN new ELSE tab
      BY <1>2 DEF Stop
    <3>3. new \in TabType /\ Follows(new, events) /\ new.missing = tab.missing /\ new.source # "open"
      BY <3>1, SourceChanges
    <3> HIDE DEF new, tab
    <3>4. tab.missing = FALSE
      BY <2>1, <3>1 DEF Served, TabType
    <3> QED
      BY <3>1, <3>2, <3>3, <3>4 DEF Served
  <2>5. TabsInv'
    <3>1. tabs' \in [Tabs -> TabType]
      BY <1>2, <2>4 DEF Stop
    <3> QED
      BY <2>1, <2>2, <2>4, <3>1 DEF TabsInv
  <2> QED
    BY <2>2, <2>3, <2>5
<1>3. CASE Restart
  <2>1. server = "down" /\ server' = "again" /\ UNCHANGED <<runVars, tabs, reads, posts>>
    BY <1>3 DEF Restart
  <2>2. TabsInv'
    <3>1. events' = events
      BY <2>1 DEF runVars
    <3>2. \A t \in Tabs : Served(tabs[t], server) => Served(tabs[t], "again")
      BY <2>1 DEF Served
    <3> QED
      BY <2>1, <3>1, <3>2 DEF TabsInv
  <2> QED
    BY <2>1, <2>2 DEF runVars, RunInv, AnswersReachTheirQuestion, Traffic
<1> QED
  BY <1>1, <1>2, <1>3, TabSteps, ReadSteps, PostSteps DEF DashboardNext

(* However connections break and replies overtake each other, a tab's log  *)
(* and what the server wrote to it are one piece of the run's events, the  *)
(* answers taken are those to the questions in their order, and only a     *)
(* server that forgot the run has answered 404 (handleRunEvents,           *)
(* handleAnswer, onmessage, refresh).                                      *)
THEOREM DashInvariant == DashboardSpec => []DashInv
<1>1. DashInv /\ [DashboardNext]_dashboardVars => DashInv'
  <2>1. DashInv /\ UNCHANGED dashboardVars => DashInv'
    BY DEF dashboardVars, DashInv, RunInv, AnswersReachTheirQuestion, Traffic, TabsInv
  <2> QED
    BY <2>1, DashNext
<1> QED
  BY <1>1, DashInit, PTL DEF DashboardSpec

(* A tab misses no event, and takes none twice or out of order.            *)
THEOREM DashLogIsPrefix == DashboardSpec => []LogIsPrefix
<1>1. DashInv => LogIsPrefix
  BY DEF DashInv, RunInv, TabsInv, Follows, Event, LogIsPrefix
<1> QED
  BY <1>1, DashInvariant, PTL

(* A question is resolved once, with an answer that was typed for it.      *)
THEOREM DashAnswersReachTheirQuestion == DashboardSpec => []AnswersReachTheirQuestion
<1>1. DashInv => AnswersReachTheirQuestion
  BY DEF DashInv, RunInv
<1> QED
  BY <1>1, DashInvariant, PTL

(* A tab tells that there is no such run only when the server forgot it,   *)
(* and never over output it received.                                      *)
THEOREM DashMissingMeansForgotten == DashboardSpec => []MissingMeansForgotten
<1>1. DashInv => MissingMeansForgotten
  BY DEF DashInv, TabsInv, Served, MissingMeansForgotten
<1> QED
  BY <1>1, DashInvariant, PTL

-----------------------------------------------------------------------------
(* The session file between the runs of the CLI.                           *)

Touching == {"altering", "upgrading", "inserting"}

(* A version is given to a whole schema, version 2 to one with its columns *)
(* and a session to a file that has a version.                             *)
FileWhole ==
  /\ file.version # "none" => file.tables = 3
  /\ file.version = "2" => file.columns = 3
  /\ file.version = "none" /\ file.tables \in {2, 3} => file.columns = 3
  /\ file.status # "none" => file.version # "none"
  /\ creator # NoRun => file.status # "none" /\ file.version = "2"

(* What a run has seen of the file still holds.                            *)
RunKnows(r) ==
  /\ at[r] = "version" => file.tables = 3
  /\ at[r] \in {"opened", "checking"} \cup Touching => file.version # "none"
  /\ fileVersion[r] = "2" => file.version = "2"
  /\ at[r] = "inserting" => file.version = "2"
  /\ at[r] \in {"idle", "schema", "version", "opened", "checking"} => added[r] = 0
  /\ at[r] = "altering" => added[r] < 3
  /\ at[r] = "upgrading" => file.columns = 3
  /\ at[r] = "recording" => creator = r

(* A run that is on its way to a session of its own has found none.        *)
NoneFound(r) == at[r] \in Touching => file.status = "none" \/ creator # NoRun

(* A completed recording is met by those who found it.                     *)
StillCompleted(r) ==
  found[r] = "completed" =>
    /\ file.status = "completed"
    /\ at[r] \notin Touching \cup {"recording", "broken", "unreadable", "invalid"}

FileInv ==
  /\ FileTypeOK
  /\ FileWhole
  /\ \A r \in Runs : RunKnows(r) /\ NoneFound(r) /\ StillCompleted(r)

-----------------------------------------------------------------------------
(* Any file that a release left behind is sound.                           *)
LEMMA FileInvInit == FileInit => FileInv
  BY RunsAssumption DEF FileInit, FileInv, FileTypeOK, Files, FileWhole, RunKnows, NoneFound,
         StillCompleted, Touching,
      EmptyFile, FileOfVersion1, Opening, Reading, Ended

-----------------------------------------------------------------------------
StepOf(r) ==
  \/ \E mode \in {"schema", "probing"} : OpenFile(r, mode)
  \/ Record(r) \/ Replay(r) \/ Locked(r) \/ Killed(r)

(* A table more, and with sessions its columns.                            *)
LEMMA CreateTableGrows ==
  ASSUME NEW r \in Runs, CreateTable(r), file \in Files, file.version = "none",
         file.tables \in {2, 3} => file.columns = 3
  PROVE  /\ file' \in Files /\ file'.tables = file.tables + 1
         /\ file'.version = "none" /\ file'.status = file.status
         /\ file'.tables \in {2, 3} => file'.columns = 3
<1> DEFINE c == IF file.tables = 1 THEN 3 ELSE file.columns
<1>1. file' = [file EXCEPT !.tables = file.tables + 1, !.columns = c] /\ file.tables \in 0..2
  BY DEF CreateTable, Files
<1>2. c \in 0..3 /\ (file.tables + 1 \in {2, 3} => c = 3) /\ file.tables + 1 \in 0..3
  BY <1>1 DEF Files
<1> HIDE DEF c
<1> QED
  BY <1>1, <1>2 DEF Files

(* Any step of any run: what the others have seen still holds.             *)
LEMMA StepKeeps ==
  ASSUME FileInv, NEW r \in Runs, StepOf(r)
  PROVE  FileInv'
<1> USE RunsAssumption DEF FileInv, FileTypeOK, Files, FileWhole, RunKnows, NoneFound,
        StillCompleted, Touching, Opening, Reading, Ended, Goes, Looks
<1>1. ASSUME NEW mode \in {"schema", "probing"}, OpenFile(r, mode) PROVE FileInv'
  BY <1>1 DEF OpenFile
<1>2. CASE CreateTable(r)
  <2>1. file.version = "none" /\ file.status = "none"
    BY <1>2 DEF CreateTable
  <2>2. /\ file' \in Files /\ file'.tables = file.tables + 1
        /\ file'.version = "none" /\ file'.status = "none"
        /\ file'.tables \in {2, 3} => file'.columns = 3
    BY <1>2, <2>1, CreateTableGrows
  <2> QED
    BY <1>2, <2>1, <2>2 DEF CreateTable
<1>3. CASE SchemaReady(r)
  BY <1>3 DEF SchemaReady
<1>4. CASE InsertVersion(r)
  BY <1>4 DEF InsertVersion
<1>5. CASE ReadVersion(r)
  BY <1>5 DEF ReadVersion
<1>6. CASE CheckSession(r)
  BY <1>6 DEF CheckSession, AfterCheck
<1>7. CASE Alter(r)
  BY <1>7 DEF Alter
<1>8. CASE Upgrade(r)
  BY <1>8 DEF Upgrade
<1>9. CASE InsertSession(r)
  BY <1>9 DEF InsertSession
<1>10. CASE Write(r)
  BY <1>10 DEF Write
<1>11. ASSUME NEW s \in {"completed", "failed"}, Finish(r, s) PROVE FileInv'
  BY <1>11 DEF Finish
<1>12. CASE Replay(r)
  BY <1>12 DEF Replay, Probe, PrepareStatements, ReadSource, AfterRead, EndReplay
<1>13. CASE Locked(r) \/ Killed(r)
  BY <1>13 DEF Locked, Killed
<1>14. QED
  BY <1>1, <1>2, <1>3, <1>4, <1>5, <1>6, <1>7, <1>8, <1>9, <1>10, <1>11, <1>12, <1>13
  DEF StepOf, Record

-----------------------------------------------------------------------------
(* The schema is whole under every version and every run acts on what is   *)
(* still so, however many overlap (createSqliteSessionStore,               *)
(* migrateToCurrentVersion, createSession).                                *)
THEOREM FileInvariant == FileSpec => []FileInv
<1>1. FileInv /\ [FileNext]_sessionFileVars => FileInv'
  <2> SUFFICES ASSUME FileInv, [FileNext]_sessionFileVars PROVE FileInv'
    OBVIOUS
  <2>1. ASSUME NEW r \in Runs, StepOf(r) PROVE FileInv'
    BY <2>1, StepKeeps
  <2>2. CASE UNCHANGED sessionFileVars
    BY <2>2 DEF sessionFileVars, FileInv, FileTypeOK, FileWhole, RunKnows, NoneFound, StillCompleted, Touching
  <2> QED
    BY <2>1, <2>2 DEF FileNext, StepOf
<1> QED
  BY <1>1, FileInvInit, PTL DEF FileSpec

(* A completed recording can be replayed ever after, and a file is of      *)
(* version 2 only with every column (READABLE_STORE_VERSIONS).             *)
THEOREM FileRecordingsStayReadable == FileSpec => []RecordingsStayReadable
<1>1. FileInv => RecordingsStayReadable
  BY DEF FileInv, FileWhole, StillCompleted, RecordingsStayReadable
<1> QED
  BY <1>1, FileInvariant, PTL

(* A file with a session is changed only by the run that created it, while *)
(* it records (createSession).                                             *)
THEOREM FileOnlyItsRecorder == FileSpec => OnlyItsRecorder
<1> DEFINE ItsRecorder == file.status # "none" /\ file' # file => creator # NoRun /\ at[creator] = "recording"
<1>1. FileInv /\ [FileNext]_sessionFileVars => [ItsRecorder]_file
  <2> SUFFICES ASSUME FileInv, [FileNext]_sessionFileVars, file' # file, file.status # "none"
               PROVE  creator # NoRun /\ at[creator] = "recording"
    OBVIOUS
  <2>1. PICK r \in Runs : StepOf(r)
    BY DEF FileNext, StepOf, sessionFileVars
  <2>2. \/ Write(r) \/ (\E s \in {"completed", "failed"} : Finish(r, s)) \/ CreateTable(r)
        \/ InsertVersion(r) \/ Alter(r) \/ Upgrade(r) \/ InsertSession(r)
    BY <2>1 DEF StepOf, Record, Replay, OpenFile, SchemaReady, ReadVersion, CheckSession, Probe,
        PrepareStatements, ReadSource, EndReplay, Locked, Killed, Looks
  <2>3. at[r] = "recording" => creator # NoRun /\ at[creator] = "recording"
    BY RunsAssumption DEF FileInv, RunKnows
  <2>4. CASE CreateTable(r) \/ InsertVersion(r)
    BY <2>4 DEF CreateTable, InsertVersion, FileInv, FileWhole
  <2>5. CASE Alter(r) \/ Upgrade(r) \/ InsertSession(r)
    <3>1. at[r] \in Touching
      BY <2>5 DEF Alter, Upgrade, InsertSession, Touching
    <3>2. file \in Files /\ file.version = "2" /\ file.columns = 3
      BY <3>1 DEF FileInv, FileTypeOK, FileWhole, NoneFound
    <3>3. at[r] = "altering" => added[r] < 3
      BY DEF FileInv, RunKnows
    <3>4. [file EXCEPT !.version = "2"] = file
      BY <3>2 DEF Files
    <3> QED
      BY <2>5, <3>2, <3>3, <3>4 DEF Alter, Upgrade, InsertSession
  <2> QED
    BY <2>2, <2>3, <2>4, <2>5 DEF Write, Finish
<1> QED
  BY <1>1, FileInvariant, PTL DEF FileSpec, OnlyItsRecorder
=============================================================================
