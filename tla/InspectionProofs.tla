--------------------------- MODULE InspectionProofs ---------------------------
(***************************************************************************)
(* Proofs about the inspectors, for texts of any length over any alphabet:  *)
(* paths are seen through, the lexers that read a text twice read the same  *)
(* words, and what is allowed unasked is one known safe operation.          *)
(***************************************************************************)
EXTENDS Inspection, SequenceTheorems, FiniteSetTheorems, WellFoundedInduction, TLAPS

-----------------------------------------------------------------------------
(* Going along a text.                                                     *)

\* What holds before the first item, and of one more item whenever it held before it,
\* holds all along.
LEMMA AllAlong ==
  ASSUME NEW n \in Nat, NEW T, 0 \in T, \A i \in 1..n : i - 1 \in T => i \in T
  PROVE  \A i \in 0..n : i \in T
<1> DEFINE bad == {i \in 0..n : i \notin T}
<1>1. SUFFICES ASSUME bad # {} PROVE FALSE
  OBVIOUS
<1>2. bad \subseteq Nat
  OBVIOUS
<1>3. PICK i \in bad : \A j \in bad : <<j, i>> \notin OpToRel(<, Nat)
  BY <1>1, <1>2, WFMin, NatLessThanWellFounded, Zenon
<1>4. \A j \in bad : ~(j < i)
  BY <1>2, <1>3, Zenon DEF OpToRel
<1>5. i \in 1..n /\ i - 1 \in 0..n
  OBVIOUS
<1>6. i - 1 \in T
  BY <1>4, <1>5
<1>7. QED
  BY <1>5, <1>6

\* The states that a loop of n turns goes through.
Runs(f, n, S, start, step) ==
  f \in [0..n -> S] /\ f[0] = start /\ \A i \in 1..n : f[i] = step[i][f[i - 1]]

LEMMA StatesExist ==
  ASSUME NEW n \in Nat, NEW S, NEW start \in S, NEW step \in [1..n -> [S -> S]]
  PROVE  \E f : Runs(f, n, S, start, step)
<1> DEFINE T == {k \in 0..n : \E f \in [0..k -> S] :
                    f[0] = start /\ \A i \in 1..k : f[i] = step[i][f[i - 1]]}
<1>1. 0 \in T
  <2>1. [i \in 0..0 |-> start] \in [0..0 -> S]
    OBVIOUS
  <2>2. [i \in 0..0 |-> start][0] = start
    OBVIOUS
  <2>3. \A i \in 1..0 : FALSE
    OBVIOUS
  <2>4. \E f \in [0..0 -> S] : f[0] = start /\ \A i \in 1..0 : f[i] = step[i][f[i - 1]]
    BY <2>1, <2>2, <2>3, Zenon
  <2>5. QED
    BY <2>4
<1>2. ASSUME NEW k \in 1..n, k - 1 \in T
      PROVE  k \in T
  <2>1. PICK f \in [0..(k - 1) -> S] :
               f[0] = start /\ \A i \in 1..(k - 1) : f[i] = step[i][f[i - 1]]
    BY <1>2
  <2> DEFINE g == [i \in 0..k |-> IF i = k THEN step[k][f[k - 1]] ELSE f[i]]
  <2>2. step[k][f[k - 1]] \in S
    <3>1. f[k - 1] \in S
      OBVIOUS
    <3>2. step[k] \in [S -> S]
      OBVIOUS
    <3>3. QED
      BY <3>1, <3>2
  <2>3. g \in [0..k -> S]
    BY <2>2
  <2>4. g[0] = start
    BY <2>1
  <2>5. ASSUME NEW i \in 1..k
        PROVE  g[i] = step[i][g[i - 1]]
    <3>1. CASE i = k
      BY <3>1
    <3>2. CASE i # k
      <4>1. g[i] = f[i] /\ g[i - 1] = f[i - 1] /\ i \in 1..(k - 1)
        BY <3>2
      <4>2. QED
        BY <2>1, <4>1
    <3>3. QED
      BY <3>1, <3>2
  <2>6. k \in 0..n
    OBVIOUS
  <2>7. QED
    BY <2>3, <2>4, <2>5, <2>6
<1>3. \A i \in 0..n : i \in T
  <2> HIDE DEF T
  <2>1. QED
    BY <1>1, <1>2, AllAlong
<1>4. n \in T
  BY <1>3
<1>5. QED
  BY <1>4 DEF Runs

-----------------------------------------------------------------------------
(* Sequences of sequences, one after the other.                            *)

Flattens(f, seqs) ==
  f = [i \in 1..Len(seqs) |-> IF i = 1 THEN seqs[i] ELSE f[i - 1] \o seqs[i]]

\* The function that FlattenSeq is read from.
LEMMA FlattenStates ==
  ASSUME NEW A, NEW seqs \in Seq(Seq(A)), Len(seqs) > 0
  PROVE  \E f \in [1..Len(seqs) -> Seq(A)] :
           Flattens(f, seqs) /\ FlattenSeq(seqs) = f[Len(seqs)]
<1> DEFINE n == Len(seqs)
           S == Seq(A)
           step == [i \in 1..n |-> [s \in S |-> s \o seqs[i]]]
<1>1. n \in Nat \ {0} /\ <<>> \in S /\ \A i \in 1..n : seqs[i] \in S
  OBVIOUS
<1>2. \A s, t \in S : s \o t \in S /\ <<>> \o s = s
  OBVIOUS
<1>3. FlattenSeq(seqs) = (CHOOSE h : Flattens(h, seqs))[n]
  BY <1>1 DEF FlattenSeq, Flattens
<1> HIDE DEF n, S
<1>4. step \in [1..n -> [S -> S]]
  BY <1>1, <1>2
<1>5. \A i \in 1..n : \A s \in S : step[i][s] = s \o seqs[i]
  OBVIOUS
<1> HIDE DEF step
<1>6. PICK f : Runs(f, n, S, <<>>, step)
  <2> DEFINE start == <<>>
  <2>1. start \in S
    BY <1>1
  <2> HIDE DEF start
  <2>2. \E f : Runs(f, n, S, start, step)
    BY <1>1, <1>4, <2>1, StatesExist
  <2>3. QED
    BY <2>2 DEF start
<1>7. f \in [0..n -> S] /\ f[0] = <<>> /\ \A i \in 1..n : f[i] = f[i - 1] \o seqs[i]
  <2>1. f \in [0..n -> S] /\ f[0] = <<>> /\ \A i \in 1..n : f[i] = step[i][f[i - 1]]
    BY <1>6 DEF Runs
  <2>2. ASSUME NEW i \in 1..n
        PROVE  f[i] = f[i - 1] \o seqs[i]
    <3>1. i - 1 \in 0..n
      BY <1>1
    <3>2. f[i - 1] \in S
      BY <2>1, <3>1
    <3>3. QED
      BY <1>5, <2>1, <3>2
  <2>3. QED
    BY <2>1, <2>2
<1>8. f[1] = seqs[1]
  <2>1. 1 \in 1..n /\ 1 - 1 = 0
    BY <1>1
  <2>2. f[1] = f[0] \o seqs[1]
    BY <1>7, <2>1
  <2>3. QED
    BY <1>1, <1>2, <1>7, <2>1, <2>2
<1> DEFINE g == [i \in 1..n |-> f[i]]
<1>9. Flattens(g, seqs)
  <2>1. ASSUME NEW i \in 1..n
        PROVE  g[i] = IF i = 1 THEN seqs[i] ELSE g[i - 1] \o seqs[i]
    <3>1. CASE i = 1
      BY <1>8, <3>1
    <3>2. CASE i # 1
      <4>1. i - 1 \in 1..n
        BY <1>1, <3>2
      <4>2. QED
        BY <1>7, <3>2, <4>1
    <3>3. QED
      BY <3>1, <3>2
  <2>2. QED
    BY <2>1 DEF Flattens, n
<1> DEFINE h == CHOOSE h : Flattens(h, seqs)
<1>10. Flattens(h, seqs)
  BY <1>9, Zenon
<1> HIDE DEF h
<1>11. h = [i \in 1..n |-> IF i = 1 THEN seqs[i] ELSE h[i - 1] \o seqs[i]]
  BY <1>10 DEF Flattens, n
<1> DEFINE T == {i \in 0..n : i = 0 \/ h[i] = f[i]}
<1>12. 0 \in T
  BY <1>1
<1>13. ASSUME NEW i \in 1..n, i - 1 \in T
       PROVE  i \in T
  <2>1. CASE i = 1
    BY <1>1, <1>8, <1>11, <2>1
  <2>2. CASE i # 1
    <3>1. i - 1 \in 1..n
      BY <1>1, <2>2
    <3>2. h[i - 1] = f[i - 1]
      BY <1>1, <1>13, <3>1
    <3>3. h[i] = h[i - 1] \o seqs[i]
      BY <1>11, <2>2
    <3>4. h[i] = f[i]
      BY <1>7, <3>2, <3>3
    <3>5. QED
      BY <3>4
  <2>3. QED
    BY <2>1, <2>2
<1>14. \A i \in 1..n : h[i] = f[i]
  <2> HIDE DEF T
  <2>1. \A i \in 0..n : i \in T
    BY <1>1, <1>12, <1>13, AllAlong
  <2>2. QED
    BY <1>1, <2>1 DEF T
<1>15. h \in [1..n -> S]
  BY <1>1, <1>7, <1>11, <1>14
<1>16. QED
  BY <1>3, <1>10, <1>15 DEF h, n, S

LEMMA FlattenEmpty == FlattenSeq(<<>>) = <<>>
BY DEF FlattenSeq

LEMMA FlattenAppend ==
  ASSUME NEW A, NEW seqs \in Seq(Seq(A)), NEW s \in Seq(A)
  PROVE  FlattenSeq(Append(seqs, s)) = FlattenSeq(seqs) \o s
<1> DEFINE n == Len(seqs)
           longer == Append(seqs, s)
<1>1. /\ n \in Nat /\ Len(longer) = n + 1 /\ longer \in Seq(Seq(A))
      /\ \A i \in 1..n : longer[i] = seqs[i]
      /\ longer[n + 1] = s
  OBVIOUS
<1>2. PICK f \in [1..(n + 1) -> Seq(A)] :
             Flattens(f, longer) /\ FlattenSeq(longer) = f[n + 1]
  <2> HIDE DEF longer
  <2>1. Len(longer) > 0
    BY <1>1
  <2>2. QED
    BY <1>1, <2>1, FlattenStates
<1>3. CASE n = 0
  <2>1. seqs = <<>> /\ FlattenSeq(seqs) = <<>>
    BY <1>3, FlattenEmpty
  <2>2. f[1] = longer[1]
    BY <1>1, <1>2, <1>3 DEF Flattens
  <2>3. <<>> \o s = s
    OBVIOUS
  <2>4. QED
    BY <1>1, <1>2, <1>3, <2>1, <2>2, <2>3
<1>4. CASE n > 0
  <2>1. PICK g \in [1..n -> Seq(A)] : Flattens(g, seqs) /\ FlattenSeq(seqs) = g[n]
    BY <1>4, FlattenStates
  <2> HIDE DEF longer, n
  <2>2. \A i \in 1..(n + 1) : f[i] = IF i = 1 THEN longer[i] ELSE f[i - 1] \o longer[i]
    BY <1>1, <1>2 DEF Flattens
  <2>3. \A i \in 1..n : g[i] = IF i = 1 THEN seqs[i] ELSE g[i - 1] \o seqs[i]
    BY <1>1, <2>1 DEF Flattens, n
  <2> DEFINE T == {i \in 0..n : i = 0 \/ f[i] = g[i]}
  <2>4. 0 \in T
    BY <1>1
  <2>5. ASSUME NEW i \in 1..n, i - 1 \in T
        PROVE  i \in T
    <3>1. f[i] = IF i = 1 THEN longer[i] ELSE f[i - 1] \o longer[i]
      <4>1. i \in 1..(n + 1)
        BY <1>1
      <4>2. QED
        BY <2>2, <4>1
    <3>2. i = 1 \/ f[i - 1] = g[i - 1]
      BY <2>5
    <3>3. f[i] = g[i]
      BY <1>1, <2>3, <3>1, <3>2
    <3>4. QED
      BY <3>3
  <2>6. f[n] = g[n]
    <3> HIDE DEF T
    <3>1. \A i \in 0..n : i \in T
      BY <1>1, <2>4, <2>5, AllAlong
    <3>2. QED
      BY <1>1, <1>4, <3>1 DEF T
  <2>7. n + 1 \in 1..(n + 1) /\ n + 1 # 1 /\ (n + 1) - 1 = n
    BY <1>1, <1>4
  <2>8. f[n + 1] = f[n] \o longer[n + 1]
    BY <2>2, <2>7
  <2>9. QED
    BY <1>1, <1>2, <2>1, <2>6, <2>8 DEF longer
<1>5. QED
  BY <1>1, <1>3, <1>4

LEMMA FlattenType ==
  ASSUME NEW A, NEW seqs \in Seq(Seq(A))
  PROVE  FlattenSeq(seqs) \in Seq(A)
<1>1. CASE Len(seqs) > 0
  <2>1. PICK f \in [1..Len(seqs) -> Seq(A)] :
               Flattens(f, seqs) /\ FlattenSeq(seqs) = f[Len(seqs)]
    BY <1>1, FlattenStates
  <2>2. Len(seqs) \in 1..Len(seqs)
    BY <1>1
  <2>3. QED
    BY <2>1, <2>2
<1>2. CASE Len(seqs) = 0
  <2>1. seqs = <<>>
    BY <1>2
  <2>2. <<>> \in Seq(A)
    OBVIOUS
  <2>3. QED
    BY <2>1, <2>2, FlattenEmpty
<1>3. QED
  BY <1>1, <1>2

-----------------------------------------------------------------------------
(* Paths are seen through.                                                 *)

PathItems == Components \cup {Empty}

\* The state of normalize_path's loop after each component.
LEMMA StacksStep ==
  ASSUME NEW p \in Seq(PathItems)
  PROVE  /\ Stacks(p) \in [0..Len(p) -> Seq(PathItems)]
         /\ Stacks(p)[0] = <<>>
         /\ \A i \in 1..Len(p) : Stacks(p)[i] = Component(Stacks(p)[i - 1], p[i])
<1> DEFINE n == Len(p)
           S == Seq(PathItems)
           step == [i \in 1..n |-> [s \in S |-> Component(s, p[i])]]
           Stack(h) == h = [i \in 0..n |-> IF i = 0 THEN <<>> ELSE Component(h[i - 1], p[i])]
<1>1. n \in Nat /\ <<>> \in S /\ \A i \in 1..n : p[i] \in PathItems
  OBVIOUS
<1>2. ASSUME NEW s \in S, NEW c \in PathItems
      PROVE  Component(s, c) \in S
  <2>1. Append(s, c) \in S /\ <<Empty>> \in S
    BY DEF PathItems
  <2>2. s # <<>> => Front(s) \in S
    BY DEF Front
  <2>3. QED
    BY <2>1, <2>2 DEF Component
<1>3. Stacks(p) = CHOOSE h : Stack(h)
  BY DEF Stacks
<1> HIDE DEF n, S
<1>4. step \in [1..n -> [S -> S]]
  BY <1>1, <1>2
<1>5. \A i \in 1..n : \A s \in S : step[i][s] = Component(s, p[i])
  OBVIOUS
<1> HIDE DEF step
<1>6. PICK f : Runs(f, n, S, <<>>, step)
  <2> DEFINE start == <<>>
  <2>1. start \in S
    BY <1>1
  <2> HIDE DEF start
  <2>2. \E f : Runs(f, n, S, start, step)
    BY <1>1, <1>4, <2>1, StatesExist
  <2>3. QED
    BY <2>2 DEF start
<1>7. f \in [0..n -> S] /\ f[0] = <<>> /\ \A i \in 1..n : f[i] = step[i][f[i - 1]]
  BY <1>6 DEF Runs
<1>8. ASSUME NEW i \in 1..n
      PROVE  f[i] = Component(f[i - 1], p[i])
  <2>1. i - 1 \in 0..n
    BY <1>1
  <2>2. f[i - 1] \in S
    BY <1>7, <2>1
  <2>3. QED
    BY <1>5, <1>7, <2>2
<1>9. Stack(f)
  BY <1>1, <1>7, <1>8
<1>10. Stack(Stacks(p))
  BY <1>3, <1>9, Zenon
<1> HIDE DEF Stack
<1>11. Stacks(p)[0] = <<>> /\ \A i \in 1..n : Stacks(p)[i] = Component(Stacks(p)[i - 1], p[i])
  BY <1>1, <1>10 DEF Stack
<1> DEFINE T == {i \in 0..n : Stacks(p)[i] \in S}
<1>12. 0 \in T
  BY <1>1, <1>11
<1>13. ASSUME NEW i \in 1..n, i - 1 \in T
       PROVE  i \in T
  <2>1. i - 1 \in 0..n /\ i \in 0..n /\ Stacks(p)[i - 1] \in S
    BY <1>1, <1>13
  <2>2. Stacks(p)[i] \in S
    BY <1>1, <1>2, <1>11, <2>1
  <2>3. QED
    BY <2>1, <2>2
<1>14. \A i \in 0..n : Stacks(p)[i] \in S
  <2> HIDE DEF T
  <2>1. \A i \in 0..n : i \in T
    BY <1>1, <1>12, <1>13, AllAlong
  <2>2. QED
    BY <2>1 DEF T
<1>15. Stacks(p) \in [0..n -> S]
  BY <1>10, <1>14 DEF Stack
<1>16. QED
  BY <1>11, <1>15 DEF n, S

\* The names at some places of the first n.
NamesAt(p, n, R) == FlattenSeq([i \in 1..n |-> IF i \in R THEN <<p[i]>> ELSE <<>>])

LEMMA NamesAtOneMore ==
  ASSUME NEW p \in Seq(PathItems), NEW n \in Nat, n + 1 <= Len(p), NEW R
  PROVE  /\ NamesAt(p, n, R) \in Seq(PathItems)
         /\ NamesAt(p, n + 1, R) =
              NamesAt(p, n, R) \o (IF n + 1 \in R THEN <<p[n + 1]>> ELSE <<>>)
<1> DEFINE e(i) == IF i \in R THEN <<p[i]>> ELSE <<>>
           s == [i \in 1..n |-> e(i)]
<1>1. ASSUME NEW i \in 1..(n + 1)
      PROVE  e(i) \in Seq(PathItems)
  <2>1. i \in 1..Len(p)
    OBVIOUS
  <2>2. p[i] \in PathItems
    BY <2>1
  <2>3. QED
    BY <2>2
<1>2. n \in 0..n /\ n + 1 \in 1..(n + 1) /\ \A i \in 1..n : i \in 1..(n + 1)
  OBVIOUS
<1> HIDE DEF e
<1>3. s \in Seq(Seq(PathItems)) /\ Len(s) = n
  <2>1. s \in [1..n -> Seq(PathItems)]
    BY <1>1, <1>2
  <2> HIDE DEF s
  <2>2. QED
    BY <2>1
<1>4. Append(s, e(n + 1)) = [i \in 1..(n + 1) |-> e(i)]
  BY <1>3
<1>5. FlattenSeq(Append(s, e(n + 1))) = FlattenSeq(s) \o e(n + 1)
  <2> HIDE DEF s
  <2>1. QED
    BY <1>1, <1>2, <1>3, FlattenAppend
<1>6. FlattenSeq(s) \in Seq(PathItems)
  <2> HIDE DEF s
  <2>1. QED
    BY <1>3, FlattenType
<1>7. QED
  BY <1>4, <1>5, <1>6 DEF NamesAt, e

\* Only the places among the first n matter.
LEMMA NamesAtFirst ==
  ASSUME NEW p, NEW n \in Nat, NEW R, NEW Q, \A i \in 1..n : i \in R <=> i \in Q
  PROVE  NamesAt(p, n, R) = NamesAt(p, n, Q)
BY DEF NamesAt

\* Behind the last place nothing comes.
LEMMA NamesAtLast ==
  ASSUME NEW p \in Seq(PathItems), NEW n \in 0..Len(p), NEW R, NEW m \in 0..n,
         \A i \in (m + 1)..n : i \notin R
  PROVE  NamesAt(p, n, R) = NamesAt(p, m, R)
<1> DEFINE T == {i \in 0..n : i < m \/ NamesAt(p, i, R) = NamesAt(p, m, R)}
<1>1. Len(p) \in Nat
  OBVIOUS
<1>2. 0 \in T
  BY <1>1
<1>3. ASSUME NEW i \in 1..n, i - 1 \in T
      PROVE  i \in T
  <2>1. CASE i <= m
    BY <1>1, <2>1
  <2>2. CASE i > m
    <3>1. i - 1 \in Nat /\ (i - 1) + 1 = i /\ i <= Len(p) /\ i \notin R /\ ~(i - 1 < m)
      BY <1>1, <2>2
    <3>2. NamesAt(p, i, R) = NamesAt(p, i - 1, R) \o <<>> /\ NamesAt(p, i - 1, R) \in Seq(PathItems)
      <4> DEFINE j == i - 1
      <4>1. j \in Nat /\ j + 1 = i /\ j + 1 <= Len(p)
        BY <3>1
      <4> HIDE DEF j
      <4>2. /\ NamesAt(p, j, R) \in Seq(PathItems)
            /\ NamesAt(p, j + 1, R) =
                 NamesAt(p, j, R) \o (IF j + 1 \in R THEN <<p[j + 1]>> ELSE <<>>)
        BY <4>1, NamesAtOneMore
      <4>3. QED
        BY <3>1, <4>1, <4>2 DEF j
    <3>3. NamesAt(p, i, R) = NamesAt(p, i - 1, R)
      <4> DEFINE names == NamesAt(p, i - 1, R)
      <4> HIDE DEF names
      <4>1. names \in Seq(PathItems) => names \o <<>> = names
        OBVIOUS
      <4>2. QED
        BY <3>2, <4>1 DEF names
    <3>4. NamesAt(p, i - 1, R) = NamesAt(p, m, R)
      BY <1>3, <3>1
    <3>5. QED
      BY <3>3, <3>4
  <2>3. QED
    BY <1>1, <2>1, <2>2
<1>4. n \in T
  <2> HIDE DEF T
  <2>1. n \in Nat
    BY <1>1
  <2>2. \A i \in 0..n : i \in T
    BY <1>2, <1>3, <2>1, AllAlong
  <2>3. QED
    BY <2>1, <2>2
<1>5. QED
  BY <1>1, <1>4

\* How the counts of a path grow.
LEMMA CountsGrow ==
  ASSUME NEW p \in Seq(PathItems), NEW i \in Nat, NEW j \in Nat, i <= j
  PROVE  /\ Ups(p, i, j) \in Nat /\ Downs(p, i, j) \in Nat
         /\ Ups(p, i, i) = 0 /\ Downs(p, i, i) = 0
         /\ Ups(p, i, j + 1) = Ups(p, i, j) + (IF p[j + 1] = ".." THEN 1 ELSE 0)
         /\ Downs(p, i, j + 1) = Downs(p, i, j) + (IF p[j + 1] \notin NoNames THEN 1 ELSE 0)
<1> DEFINE U(n) == {k \in (i + 1)..n : p[k] = ".."}
           D(n) == {k \in (i + 1)..n : p[k] \notin NoNames}
<1>1. IsFiniteSet((i + 1)..j)
  BY FS_Interval
<1>2. U(j) \subseteq (i + 1)..j /\ D(j) \subseteq (i + 1)..j
  OBVIOUS
<1>3. IsFiniteSet(U(j)) /\ IsFiniteSet(D(j))
  BY <1>1, <1>2, FS_Subset
<1>4. Cardinality(U(j)) \in Nat /\ Cardinality(D(j)) \in Nat
  BY <1>3, FS_CardinalityType
<1>5. U(i) = {} /\ D(i) = {}
  OBVIOUS
<1>6. j + 1 \notin U(j) /\ j + 1 \notin D(j)
  OBVIOUS
<1>7. U(j + 1) = IF p[j + 1] = ".." THEN U(j) \cup {j + 1} ELSE U(j)
  OBVIOUS
<1>8. D(j + 1) = IF p[j + 1] \notin NoNames THEN D(j) \cup {j + 1} ELSE D(j)
  OBVIOUS
<1>9. Ups(p, i, j) = Cardinality(U(j)) /\ Downs(p, i, j) = Cardinality(D(j))
  BY DEF Ups, Downs
<1>10. Ups(p, i, j + 1) = Cardinality(U(j + 1)) /\ Downs(p, i, j + 1) = Cardinality(D(j + 1))
  BY DEF Ups, Downs
<1>11. Ups(p, i, i) = Cardinality(U(i)) /\ Downs(p, i, i) = Cardinality(D(i))
  BY DEF Ups, Downs
<1> HIDE DEF U, D
<1>12. Cardinality(U(j) \cup {j + 1}) = Cardinality(U(j)) + 1
  BY <1>3, <1>6, FS_AddElement
<1>13. Cardinality(D(j) \cup {j + 1}) = Cardinality(D(j)) + 1
  BY <1>3, <1>6, FS_AddElement
<1>14. QED
  BY <1>4, <1>5, <1>7, <1>8, <1>9, <1>10, <1>11, <1>12, <1>13, FS_EmptySet

-----------------------------------------------------------------------------
\* The places of the first n components whose names remain after them, and how many
\* names stand on top of each.
Remaining(p, n) ==
  {i \in 1..n : p[i] \notin NoNames /\ \A j \in (i + 1)..n : Ups(p, i, j) <= Downs(p, i, j)}

Above(p, n, i) == Downs(p, i, n) - Ups(p, i, n)

\* The stack after n components: what remains, the last of it with nothing above.
PathInv(p, n) ==
  /\ Stacks(p)[n] = Root \o NamesAt(p, n, Remaining(p, n))
  /\ \A i, j \in Remaining(p, n) : i < j => Above(p, n, i) > Above(p, n, j)
  /\ \A i \in Remaining(p, n) :
       Above(p, n, i) = 0 \/ \E j \in Remaining(p, n) : Above(p, n, i) = Above(p, n, j) + 1

LEMMA AboveIsNatural ==
  ASSUME NEW p \in Seq(PathItems), NEW n \in Nat, NEW i \in Remaining(p, n)
  PROVE  Above(p, n, i) \in Nat
<1>1. i \in 1..n /\ i \in Nat /\ i <= n /\ \A j \in (i + 1)..n : Ups(p, i, j) <= Downs(p, i, j)
  BY DEF Remaining
<1>2. /\ Ups(p, i, n) \in Nat /\ Downs(p, i, n) \in Nat
      /\ Ups(p, i, i) = 0 /\ Downs(p, i, i) = 0
  BY <1>1, CountsGrow
<1>3. Ups(p, i, n) <= Downs(p, i, n)
  BY <1>1, <1>2
<1>4. QED
  BY <1>2, <1>3 DEF Above

\* One more component.
LEMMA RemainingGrows ==
  ASSUME NEW p \in Seq(PathItems), NEW n \in Nat
  PROVE  /\ \A i \in 1..n : i \in Remaining(p, n + 1) <=>
               i \in Remaining(p, n) /\ Ups(p, i, n + 1) <= Downs(p, i, n + 1)
         /\ n + 1 \in Remaining(p, n + 1) <=> p[n + 1] \notin NoNames
         /\ Above(p, n + 1, n + 1) = 0
         /\ \A i \in Remaining(p, n) : Above(p, n + 1, i) = Above(p, n, i) +
               (IF p[n + 1] = ".." THEN -1 ELSE IF p[n + 1] \notin NoNames THEN 1 ELSE 0)
<1>1. ASSUME NEW i \in 1..n
      PROVE  i \in Remaining(p, n + 1) <=>
               i \in Remaining(p, n) /\ Ups(p, i, n + 1) <= Downs(p, i, n + 1)
  <2>1. (i + 1)..(n + 1) = ((i + 1)..n) \cup {n + 1} /\ i \in 1..(n + 1)
    OBVIOUS
  <2>2. QED
    BY <2>1 DEF Remaining
<1>2. n + 1 \in Remaining(p, n + 1) <=> p[n + 1] \notin NoNames
  BY DEF Remaining
<1>3. Above(p, n + 1, n + 1) = 0
  BY CountsGrow DEF Above
<1>4. ASSUME NEW i \in Remaining(p, n)
      PROVE  Above(p, n + 1, i) = Above(p, n, i) +
               (IF p[n + 1] = ".." THEN -1 ELSE IF p[n + 1] \notin NoNames THEN 1 ELSE 0)
  <2>1. i \in Nat /\ i <= n
    BY DEF Remaining
  <2>2. /\ Ups(p, i, n) \in Nat /\ Downs(p, i, n) \in Nat
        /\ Ups(p, i, n + 1) = Ups(p, i, n) + (IF p[n + 1] = ".." THEN 1 ELSE 0)
        /\ Downs(p, i, n + 1) = Downs(p, i, n) + (IF p[n + 1] \notin NoNames THEN 1 ELSE 0)
    BY <2>1, CountsGrow
  <2>3. p[n + 1] = ".." => p[n + 1] \in NoNames
    BY DEF NoNames
  <2>4. QED
    BY <2>2, <2>3 DEF Above
<1>5. QED
  BY <1>1, <1>2, <1>3, <1>4

LEMMA LeastExists ==
  ASSUME NEW T \in SUBSET Nat, T # {}
  PROVE  \E i \in T : \A j \in T : i <= j
<1>1. PICK i \in T : \A j \in T : <<j, i>> \notin OpToRel(<, Nat)
  BY WFMin, NatLessThanWellFounded, Zenon
<1>2. \A j \in T : ~(j < i)
  BY <1>1, Zenon DEF OpToRel
<1>3. QED
  BY <1>2

\* The last name has nothing above it.
LEMMA TopExists ==
  ASSUME NEW p \in Seq(PathItems), NEW n \in Nat, PathInv(p, n), Remaining(p, n) # {}
  PROVE  \E m \in Remaining(p, n) :
           /\ Above(p, n, m) = 0
           /\ \A i \in Remaining(p, n) : i # m => i < m /\ Above(p, n, i) > 0
<1> DEFINE R == Remaining(p, n)
           heights == {Above(p, n, i) : i \in R}
<1>1. \A i \in R : Above(p, n, i) \in Nat
  BY AboveIsNatural
<1>2. \A i \in R : i \in Nat
  BY DEF Remaining
<1>3. PICK h \in heights : \A k \in heights : h <= k
  <2>1. heights \in SUBSET Nat /\ heights # {}
    BY <1>1
  <2> HIDE DEF heights
  <2>2. QED
    BY <2>1, LeastExists
<1>4. PICK m \in R : Above(p, n, m) = h
  BY <1>3
<1>5. \A i \in R : Above(p, n, m) <= Above(p, n, i)
  BY <1>3, <1>4
<1>6. /\ \A i, j \in R : i < j => Above(p, n, i) > Above(p, n, j)
      /\ \A i \in R : Above(p, n, i) = 0 \/ \E j \in R : Above(p, n, i) = Above(p, n, j) + 1
  BY DEF PathInv
<1> HIDE DEF R
<1>7. Above(p, n, m) = 0
  BY <1>1, <1>4, <1>5, <1>6
<1>8. ASSUME NEW i \in R, i # m
      PROVE  i < m /\ Above(p, n, i) > 0
  BY <1>1, <1>2, <1>4, <1>6, <1>7, <1>8
<1>9. QED
  BY <1>4, <1>7, <1>8 DEF R

\* An item put behind two sequences is put behind the second.
LEMMA AppendBehind ==
  ASSUME NEW S, NEW r \in Seq(S), NEW t \in Seq(S), NEW x \in S
  PROVE  Append(r \o t, x) = r \o (t \o <<x>>)
<1>1. <<x>> \in Seq(S)
  OBVIOUS
<1>2. Append(r \o t, x) = (r \o t) \o <<x>>
  <2>1. r \o t \in Seq(S)
    BY ConcatProperties
  <2>2. QED
    BY <2>1, AppendIsConcat
<1>3. (r \o t) \o <<x>> = r \o (t \o <<x>>)
  BY <1>1, ConcatAssociative
<1>4. QED
  BY <1>2, <1>3

LEMMA PathStep ==
  ASSUME NEW p \in Seq(PathItems), NEW n \in Nat \ {0}, n + 1 <= Len(p), PathInv(p, n)
  PROVE  PathInv(p, n + 1)
<1> DEFINE R == Remaining(p, n)
           Q == Remaining(p, n + 1)
           c == p[n + 1]
           s == Stacks(p)[n]
           N == NamesAt(p, n, R)
           a(i) == Above(p, n, i)
           b(i) == Above(p, n + 1, i)
<1>1. /\ n \in 1..Len(p) /\ n + 1 \in 1..Len(p) /\ (n + 1) - 1 = n
      /\ n \in 0..Len(p) /\ n + 1 \notin 1..n /\ 1..(n + 1) = (1..n) \cup {n + 1}
  OBVIOUS
<1>2. /\ s = Root \o N
      /\ \A i, j \in R : i < j => a(i) > a(j)
      /\ \A i \in R : a(i) = 0 \/ \E j \in R : a(i) = a(j) + 1
  BY DEF PathInv
<1>3. N \in Seq(PathItems)
  BY NamesAtOneMore
<1>4. Stacks(p)[n + 1] = Component(s, c)
  BY <1>1, StacksStep
<1>5. /\ NamesAt(p, n, Q) \in Seq(PathItems)
      /\ NamesAt(p, n + 1, Q) = NamesAt(p, n, Q) \o (IF n + 1 \in Q THEN <<c>> ELSE <<>>)
  BY NamesAtOneMore
<1>6. \A i \in R : a(i) \in Nat /\ i \in 1..n
  BY AboveIsNatural DEF Remaining
<1>7. /\ n + 1 \in Q <=> c \notin NoNames
      /\ b(n + 1) = 0
      /\ \A i \in R : b(i) = a(i) + (IF c = ".." THEN -1 ELSE IF c \notin NoNames THEN 1 ELSE 0)
  BY RemainingGrows
<1>8. \A i \in 1..n : i \in Q <=> i \in R /\ b(i) >= 0
  <2>1. \A i \in 1..n : i \in Q <=> i \in R /\ Ups(p, i, n + 1) <= Downs(p, i, n + 1)
    BY RemainingGrows
  <2>2. ASSUME NEW i \in 1..n
        PROVE  Ups(p, i, n + 1) <= Downs(p, i, n + 1) <=> b(i) >= 0
    <3>1. i \in Nat /\ n + 1 \in Nat /\ i <= n + 1
      OBVIOUS
    <3>2. Ups(p, i, n + 1) \in Nat /\ Downs(p, i, n + 1) \in Nat
      BY <3>1, CountsGrow
    <3>3. QED
      BY <3>2 DEF Above
  <2>3. QED
    BY <2>1, <2>2
<1>9. Q \subseteq 1..(n + 1)
  BY DEF Remaining
<1>10. Len(s) >= 1 /\ s # <<>> /\ Root \in Seq(PathItems)
  <2>1. Empty \in PathItems
    BY DEF PathItems
  <2> HIDE DEF N
  <2>2. Root \in Seq(PathItems) /\ Len(Root) = 1
    BY <2>1 DEF Root
  <2>3. Len(Root \o N) = 1 + Len(N) /\ Len(N) \in Nat
    <3>1. Len(Root \o N) = Len(Root) + Len(N)
      BY <1>3, <2>2, ConcatProperties, Zenon
    <3>2. Len(N) \in Nat
      BY <1>3
    <3>3. QED
      BY <2>2, <3>1, <3>2
  <2> HIDE DEF s
  <2>4. Len(s) = 1 + Len(N)
    BY <1>2, <2>3
  <2>5. QED
    BY <2>2, <2>3, <2>4
<1>11. NamesAt(p, 0, R) = <<>>
  <2>1. [i \in 1..0 |-> IF i \in R THEN <<p[i]>> ELSE <<>>] = <<>>
    OBVIOUS
  <2>2. QED
    BY <2>1, FlattenEmpty DEF NamesAt
<1>12. SUFFICES
         /\ Component(s, c) = Root \o NamesAt(p, n + 1, Q)
         /\ \A i, j \in Q : i < j => b(i) > b(j)
         /\ \A i \in Q : b(i) = 0 \/ \E j \in Q : b(i) = b(j) + 1
  BY <1>4 DEF PathInv
<1>13. ".." \in NoNames /\ "." \in NoNames /\ Empty \in NoNames /\ ".." # "." /\ Empty # ".." /\ Empty # "."
  BY Zenon DEF NoNames, Empty
<1>14. NoNames = {Empty, ".", ".."}
  BY DEF NoNames
<1> HIDE DEF R, Q, c, s, N, a, b
<1>15. CASE c \in {".", Empty}
  <2>1. c \in NoNames /\ c # ".."
    BY <1>13, <1>15
  <2>2. \A i \in R : b(i) = a(i)
    BY <1>6, <1>7, <2>1
  <2>3. \A i : i \in Q <=> i \in R
    <3>1. \A i \in 1..n : i \in Q <=> i \in R
      BY <1>6, <1>8, <2>2
    <3>2. \A i \in Q : i \in 1..n
      BY <1>1, <1>7, <1>9, <2>1
    <3>3. QED
      BY <1>6, <3>1, <3>2
  <2>4. NamesAt(p, n, Q) = N
    BY <2>3, NamesAtFirst DEF N
  <2>5. NamesAt(p, n + 1, Q) = N
    <3>1. N \o <<>> = N
      BY <1>3
    <3>2. QED
      BY <1>5, <1>7, <2>1, <2>4, <3>1
  <2>6. Component(s, c) = s
    BY <1>10, <1>13, <1>15 DEF Component
  <2>7. QED
    BY <1>2, <2>2, <2>3, <2>5, <2>6
<1>16. CASE c \notin NoNames
  <2>1. n + 1 \in Q /\ c # "." /\ c # Empty /\ c # ".."
    BY <1>7, <1>13, <1>16
  <2>2. \A i \in R : b(i) = a(i) + 1
    BY <1>6, <1>7, <1>16, <2>1
  <2>3. \A i : i \in Q <=> i \in R \/ i = n + 1
    <3>1. \A i \in 1..n : i \in Q <=> i \in R
      BY <1>6, <1>8, <2>2
    <3>2. \A i \in Q : i \in 1..n \/ i = n + 1
      BY <1>1, <1>9
    <3>3. QED
      BY <1>6, <2>1, <3>1, <3>2
  <2>4. NamesAt(p, n, Q) = N
    <3>1. \A i \in 1..n : i \in Q <=> i \in R
      BY <1>1, <2>3
    <3>2. QED
      BY <3>1, NamesAtFirst DEF N
  <2>5. NamesAt(p, n + 1, Q) = N \o <<c>>
    BY <1>5, <2>1, <2>4
  <2>6. Component(s, c) = Append(s, c)
    BY <2>1 DEF Component
  <2>7. Append(Root \o N, c) = Root \o (N \o <<c>>)
    <3>1. c \in PathItems
      BY <1>1 DEF c
    <3>2. Root \in Seq(PathItems)
      BY <1>10
    <3> HIDE DEF c, N
    <3>3. QED
      BY <1>3, <3>1, <3>2, AppendBehind
  <2>8. \A i, j \in Q : i < j => b(i) > b(j)
    <3> SUFFICES ASSUME NEW i \in Q, NEW j \in Q, i < j
                 PROVE  b(i) > b(j)
      OBVIOUS
    <3>1. i \in R
      BY <1>1, <1>6, <2>3
    <3>2. CASE j \in R
      BY <1>2, <1>6, <2>2, <3>1, <3>2
    <3>3. CASE j = n + 1
      BY <1>6, <1>7, <2>2, <3>1, <3>3
    <3>4. QED
      BY <2>3, <3>2, <3>3
  <2>9. \A i \in Q : b(i) = 0 \/ \E j \in Q : b(i) = b(j) + 1
    <3> SUFFICES ASSUME NEW i \in Q, b(i) # 0
                 PROVE  \E j \in Q : b(i) = b(j) + 1
      OBVIOUS
    <3>1. i \in R
      BY <1>7, <2>3
    <3>2. CASE a(i) = 0
      BY <1>7, <2>1, <2>2, <3>1, <3>2
    <3>3. CASE a(i) # 0
      <4>1. PICK j \in R : a(i) = a(j) + 1
        BY <1>2, <3>1, <3>3
      <4>2. b(i) = b(j) + 1 /\ j \in Q
        BY <1>6, <2>2, <2>3, <3>1, <4>1
      <4>3. QED
        BY <4>2
    <3>4. QED
      BY <3>2, <3>3
  <2>10. QED
    BY <1>2, <2>5, <2>6, <2>7, <2>8, <2>9
<1>17. CASE c = ".."
  <2>1. n + 1 \notin Q /\ c # "." /\ c # Empty
    BY <1>7, <1>13, <1>17
  <2>2. \A i \in R : b(i) = a(i) - 1
    BY <1>6, <1>7, <1>17
  <2>3. \A i : i \in Q <=> i \in R /\ a(i) > 0
    <3>1. \A i \in 1..n : i \in Q <=> i \in R /\ a(i) > 0
      BY <1>6, <1>8, <2>2
    <3>2. \A i \in Q : i \in 1..n
      BY <1>1, <1>9, <2>1
    <3>3. QED
      BY <1>6, <3>1, <3>2
  <2>4. NamesAt(p, n + 1, Q) = NamesAt(p, n, Q)
    <3> DEFINE names == NamesAt(p, n, Q)
    <3> HIDE DEF names
    <3>1. names \in Seq(PathItems) => names \o <<>> = names
      OBVIOUS
    <3>2. QED
      BY <1>5, <2>1, <3>1 DEF names
  <2>5. Component(s, c) = IF s # <<>> /\ Last(s) # Empty THEN Front(s) ELSE s
    BY <1>17, <2>1 DEF Component
  <2>6. \A i, j \in Q : i < j => b(i) > b(j)
    BY <1>2, <1>6, <2>2, <2>3
  <2>7. \A i \in Q : b(i) = 0 \/ \E j \in Q : b(i) = b(j) + 1
    <3> SUFFICES ASSUME NEW i \in Q, b(i) # 0
                 PROVE  \E j \in Q : b(i) = b(j) + 1
      OBVIOUS
    <3>1. i \in R /\ a(i) > 1
      BY <1>6, <2>2, <2>3
    <3>2. PICK j \in R : a(i) = a(j) + 1
      BY <1>2, <1>6, <3>1
    <3>3. j \in Q /\ b(i) = b(j) + 1
      BY <1>6, <2>2, <2>3, <3>1, <3>2
    <3>4. QED
      BY <3>3
  <2>8. Component(s, c) = Root \o NamesAt(p, n, Q)
    <3>1. CASE R = {}
      <4>1. N = <<>>
        <5>1. 0 \in 0..n /\ \A i \in (0 + 1)..n : i \notin R
          BY <3>1
        <5>2. QED
          BY <1>1, <1>11, <5>1, NamesAtLast DEF N
      <4>2. \A i \in 1..n : i \in Q <=> i \in R
        BY <2>3, <3>1
      <4>3. NamesAt(p, n, Q) = <<>>
        BY <4>1, <4>2, NamesAtFirst DEF N
      <4>4. Root \o <<>> = Root
        BY <1>10
      <4>5. Last(Root) = Empty
        BY DEF Root, Last
      <4>6. QED
        BY <1>2, <2>5, <4>1, <4>3, <4>4, <4>5
    <3>2. CASE R # {}
      <4>1. PICK m \in R : a(m) = 0 /\ \A i \in R : i # m => i < m /\ a(i) > 0
        BY <3>2, TopExists DEF R, a
      <4>2. m \in 1..n /\ m - 1 \in Nat /\ (m - 1) + 1 = m /\ m <= Len(p) /\ m - 1 \in 0..n
        BY <1>1, <1>6, <4>1
      <4> DEFINE k == m - 1
                 names == NamesAt(p, k, R)
      <4>3. N = NamesAt(p, m, R)
        <5>1. \A i \in (m + 1)..n : i \notin R
          BY <1>6, <4>1, <4>2
        <5>2. m \in 0..n
          BY <4>2
        <5>3. QED
          BY <1>1, <5>1, <5>2, NamesAtLast DEF N
      <4>4. k \in Nat /\ k + 1 = m /\ k + 1 <= Len(p) /\ k \in 0..n
        BY <4>2
      <4> HIDE DEF k
      <4>5. names \in Seq(PathItems) /\ NamesAt(p, m, R) = names \o <<p[m]>>
        <5>1. /\ names \in Seq(PathItems)
              /\ NamesAt(p, k + 1, R) = names \o (IF k + 1 \in R THEN <<p[k + 1]>> ELSE <<>>)
          BY <4>4, NamesAtOneMore
        <5>2. QED
          BY <4>1, <4>4, <5>1
      <4>6. NamesAt(p, n, Q) = NamesAt(p, k, Q)
        <5>1. \A i \in (k + 1)..n : i \notin Q
          BY <1>6, <2>3, <4>1, <4>2, <4>4
        <5>2. QED
          BY <1>1, <4>4, <5>1, NamesAtLast
      <4>7. NamesAt(p, k, Q) = names
        <5>1. \A i \in 1..k : i \in Q <=> i \in R
          BY <1>6, <2>3, <4>1, <4>2, <4>4
        <5>2. QED
          BY <4>4, <5>1, NamesAtFirst
      <4>8. p[m] # Empty /\ p[m] \in PathItems
        BY <1>1, <1>13, <4>1, <4>2 DEF R, Remaining
      <4> HIDE DEF names
      <4> DEFINE x == p[m]
                 t == Root \o names
      <4>9. s = Root \o (names \o <<x>>)
        BY <1>2, <4>3, <4>5
      <4> HIDE DEF x
      <4>10. s = Append(t, x) /\ t \in Seq(PathItems)
        BY <1>10, <4>5, <4>8, <4>9 DEF x
      <4> HIDE DEF t
      <4>11. Last(s) = x /\ Front(s) = t
        BY <4>8, <4>10 DEF Last, Front, x
      <4>12. QED
        BY <1>10, <2>5, <4>6, <4>7, <4>8, <4>11 DEF x, t
    <3>3. QED
      BY <3>1, <3>2
  <2>9. QED
    BY <2>4, <2>6, <2>7, <2>8
<1>18. QED
  BY <1>14, <1>15, <1>16, <1>17

\* What remains of all of a rooted path is its reference.
LEMMA RootedPathsAgree ==
  ASSUME NEW p \in Seq(PathItems), Len(p) > 0, p[1] = Empty
  PROVE  NormalizePath(p) = ReferencePath(p)
<1> DEFINE n == Len(p)
           T == {i \in 0..n : i = 0 \/ PathInv(p, i)}
<1>1. n \in Nat \ {0} /\ 1 \in 1..n /\ 1 - 1 = 0
  OBVIOUS
<1>2. PathInv(p, 1)
  <2>1. Stacks(p)[1] = Component(<<>>, Empty)
    BY <1>1, StacksStep
  <2>2. Empty # "." /\ Empty # ".."
    BY Zenon DEF Empty
  <2>3. Stacks(p)[1] = Root
    BY <2>1, <2>2 DEF Component, Root
  <2>4. Remaining(p, 1) = {}
    BY DEF Remaining, NoNames
  <2>5. NamesAt(p, 1, {}) = <<>>
    <3>1. [i \in 1..0 |-> IF i \in {} THEN <<p[i]>> ELSE <<>>] = <<>>
      OBVIOUS
    <3>2. NamesAt(p, 0, {}) = <<>>
      BY <3>1, FlattenEmpty DEF NamesAt
    <3>3. NamesAt(p, 1, {}) = NamesAt(p, 0, {})
      <4>1. 1 \in 0..Len(p) /\ 0 \in 0..1 /\ \A i \in (0 + 1)..1 : i \notin {}
        BY <1>1
      <4>2. QED
        BY <4>1, NamesAtLast
    <3>4. QED
      BY <3>2, <3>3
  <2>6. Root \o <<>> = Root
    BY DEF Root
  <2>7. QED
    BY <2>3, <2>4, <2>5, <2>6 DEF PathInv
<1>3. ASSUME NEW i \in 1..n, i - 1 \in T
      PROVE  i \in T
  <2>1. CASE i = 1
    BY <1>2, <2>1
  <2>2. CASE i # 1
    <3> DEFINE k == i - 1
    <3>1. k \in Nat \ {0} /\ k + 1 = i /\ k + 1 <= Len(p)
      BY <1>1, <2>2
    <3>2. PathInv(p, k)
      BY <1>3, <3>1
    <3> HIDE DEF k
    <3>3. PathInv(p, k + 1)
      BY <3>1, <3>2, PathStep
    <3>4. QED
      BY <3>1, <3>3
  <2>3. QED
    BY <2>1, <2>2
<1>4. PathInv(p, n)
  <2>1. 0 \in T
    BY <1>1
  <2> HIDE DEF T
  <2>2. \A i \in 0..n : i \in T
    <3> HIDE DEF n
    <3>1. QED
      BY <1>1, <1>3, <2>1, AllAlong
  <2>3. n \in T
    BY <1>1, <2>2
  <2>4. QED
    BY <1>1, <2>3 DEF T
<1>5. Stacks(p)[n] = Root \o NamesAt(p, n, Remaining(p, n))
  BY <1>4 DEF PathInv
<1>6. NamesAt(p, n, Remaining(p, n)) =
        FlattenSeq([i \in DOMAIN p |-> IF Remains(p, i) THEN <<p[i]>> ELSE <<>>])
  <2>1. \A i \in 1..n : i \in Remaining(p, n) <=> Remains(p, i)
    BY DEF Remaining, Remains
  <2>2. DOMAIN p = 1..n
    OBVIOUS
  <2> HIDE DEF n
  <2>3. QED
    BY <2>1, <2>2 DEF NamesAt
<1>7. Stacks(p)[n] = ReferencePath(p)
  BY <1>5, <1>6 DEF ReferencePath
<1>8. Stacks(p)[n] # <<>> /\ Stacks(p)[n][1] = Empty
  <2> DEFINE names == NamesAt(p, n, Remaining(p, n))
             k == n - 1
  <2>1. k \in Nat /\ k + 1 = n /\ k + 1 <= Len(p)
    BY <1>1
  <2>2. names \in Seq(PathItems)
    <3>1. Stacks(p)[n] \in Seq(PathItems)
      BY <1>1, StacksStep
    <3>2. NamesAt(p, n, Remaining(p, n)) \in Seq(PathItems)
      <4> DEFINE s == [i \in 1..n |-> IF i \in Remaining(p, n) THEN <<p[i]>> ELSE <<>>]
      <4>1. s \in Seq(Seq(PathItems))
        <5>1. \A i \in 1..n : <<p[i]>> \in Seq(PathItems) /\ <<>> \in Seq(PathItems)
          OBVIOUS
        <5>2. s \in [1..n -> Seq(PathItems)]
          BY <5>1
        <5>3. QED
          BY <1>1, <5>2
      <4> HIDE DEF s
      <4>2. FlattenSeq(s) \in Seq(PathItems)
        BY <4>1, FlattenType
      <4>3. QED
        BY <4>2 DEF NamesAt, s
    <3>3. QED
      BY <3>2
  <2> HIDE DEF names
  <2>3. Root \in Seq({Empty}) /\ Len(Root) = 1 /\ Root[1] = Empty
    BY DEF Root
  <2>4. Stacks(p)[n] = Root \o names
    BY <1>5 DEF names
  <2>5. Empty \in PathItems
    BY DEF PathItems
  <2>6. Root \in Seq(PathItems)
    BY <2>5 DEF Root
  <2>7. Len(Root \o names) > 0 /\ (Root \o names)[1] = Empty
    <3>1. /\ Len(Root \o names) = Len(Root) + Len(names) /\ Len(names) \in Nat
          /\ \A i \in 1..(Len(Root) + Len(names)) : (Root \o names)[i] =
                IF i <= Len(Root) THEN Root[i] ELSE names[i - Len(Root)]
      BY <2>2, <2>6, ConcatProperties
    <3>2. 1 \in 1..(Len(Root) + Len(names)) /\ 1 <= Len(Root) /\ Len(Root \o names) > 0
      BY <2>3, <3>1
    <3>3. QED
      BY <2>3, <3>1, <3>2
  <2>8. QED
    BY <2>4, <2>7
<1>9. Empty # "~"
  BY Zenon DEF Empty
<1> HIDE DEF n
<1>10. QED
  BY <1>7, <1>8, <1>9 DEF NormalizePath, n

-----------------------------------------------------------------------------
\* What an agent can hand over as a path.
PathTyped ==
  tongue = "path" => text \in Seq(PathItems) /\ Len(text) > 0 /\ text[1] = Empty

LEMMA PathTypedHolds == Spec => []PathTyped
<1>1. Init => PathTyped
  <2>1. Root \in Seq(PathItems) /\ Len(Root) > 0 /\ Root[1] = Empty
    BY DEF Root, PathItems
  <2>2. \A piece \in Pieces : piece.tongue # "path"
    BY InspectionConstants DEF SoundPiece, PieceType
  <2>3. QED
    BY <2>1, <2>2 DEF Init, Typed, PathTyped
<1>2. PathTyped /\ [Next]_vars => PathTyped'
  <2> SUFFICES ASSUME PathTyped, [Next]_vars, tongue' = "path"
               PROVE  text' \in Seq(PathItems) /\ Len(text') > 0 /\ text'[1] = Empty
    BY DEF PathTyped
  <2>1. CASE tongue = "path"
    <3>1. CASE \E c \in Components : Descend(c)
      <4>1. PICK c \in Components : text' = Append(text, c)
        BY <3>1 DEF Descend
      <4>2. c \in PathItems
        BY DEF PathItems
      <4>3. text \in Seq(PathItems) /\ Len(text) > 0 /\ text[1] = Empty
        BY <2>1 DEF PathTyped
      <4>4. QED
        BY <4>1, <4>2, <4>3
    <3>2. CASE UNCHANGED vars
      BY <2>1, <3>2 DEF PathTyped, vars
    <3>3. QED
      BY <2>1, <3>1, <3>2
         DEF Next, Type, Follow, Lead, Trail, Wrap, LooksAlike, Conceal, QuoteWord, CommentOut,
             Disguise, Work, Typed, Composed
  <2>2. CASE tongue # "path"
    BY <2>2 DEF Next, Type, Descend, Follow, Lead, Trail, Wrap, LooksAlike, Conceal, QuoteWord,
                CommentOut, Disguise, Work, vars
  <2>3. QED
    BY <2>1, <2>2
<1>3. QED
  BY <1>1, <1>2, PTL DEF Spec

\* Every spelling of a rooted path, of any length and over any names, is brought by
\* normalize_path to the path it names.
THEOREM SpellingsAgreeCorrect == Spec => []SpellingsAgree
<1>1. PathTyped => SpellingsAgree
  BY RootedPathsAgree DEF PathTyped, SpellingsAgree
<1>2. QED
  BY <1>1, PathTypedHolds, PTL

-----------------------------------------------------------------------------
(* Texts, and what is left of them without the blanks around them.          *)

\* What texts are made of: what is typed, the words of pieces and wrappers, and what stands
\* between them.
Items ==
  Alphabet["shellText"] \cup Alphabet["sqlText"] \cup STRING \cup Quotes \cup Significant
    \cup {Space, "\\", "/*", "*/", "--", "aside"}

\* Without the blanks before it.
Led(u) ==
  LET solid == {i \in DOMAIN u : u[i] \notin Blanks}
  IN IF solid = {} THEN <<>>
     ELSE SubSeq(u, CHOOSE i \in solid : \A j \in solid : i <= j, Len(u))

LEMMA SolidBounds ==
  ASSUME NEW S, NEW u \in Seq(S), NEW i \in DOMAIN u, u[i] \notin Blanks
  PROVE  LET solid == {j \in DOMAIN u : u[j] \notin Blanks}
             first == CHOOSE k \in solid : \A j \in solid : k <= j
             last  == CHOOSE k \in solid : \A j \in solid : k >= j
         IN /\ first \in solid /\ \A j \in solid : first <= j
            /\ last \in solid /\ \A j \in solid : last >= j
<1> DEFINE solid == {j \in DOMAIN u : u[j] \notin Blanks}
           below == {Len(u) - j : j \in solid}
<1>1. solid \in SUBSET Nat /\ solid # {} /\ \A j \in solid : j \in 1..Len(u)
  OBVIOUS
<1>2. \E k \in solid : \A j \in solid : k <= j
  <2> HIDE DEF solid
  <2>1. QED
    BY <1>1, LeastExists
<1>3. \E k \in solid : \A j \in solid : k >= j
  <2>1. below \in SUBSET Nat /\ below # {}
    BY <1>1
  <2>2. PICK b \in below : \A d \in below : b <= d
    <3> HIDE DEF below
    <3>1. QED
      BY <2>1, LeastExists
  <2>3. PICK k \in solid : b = Len(u) - k
    BY <2>2
  <2>4. ASSUME NEW j \in solid PROVE k >= j
    <3>1. b <= Len(u) - j
      BY <2>2
    <3>2. QED
      BY <1>1, <2>3, <3>1
  <2>5. QED
    BY <2>3, <2>4
<1> HIDE DEF solid
<1>4. QED
  BY <1>2, <1>3 DEF solid

LEMMA OneItem ==
  ASSUME NEW S, NEW u \in Seq(S), NEW i \in 1..Len(u)
  PROVE  SubSeq(u, i, i) = <<u[i]>>
<1>1. SubSeq(u, i, i) = <<u[i]>> \o SubSeq(u, i + 1, i)
  BY SubSeqRecursiveFirst
<1>2. SubSeq(u, i + 1, i) = <<>>
  BY SubSeqEmpty
<1>3. <<u[i]>> \o <<>> = <<u[i]>>
  OBVIOUS
<1>4. QED
  BY <1>1, <1>2, <1>3

LEMMA LedEmpty == Led(<<>>) = <<>> /\ Stripped(<<>>) = <<>>
BY DEF Led, Stripped

\* One more item.
LEMMA LedAppend ==
  ASSUME NEW S, NEW u \in Seq(S), NEW c \in S
  PROVE  /\ Led(u) \in Seq(S)
         /\ Led(Append(u, c)) =
              IF c \in Blanks /\ Led(u) = <<>> THEN <<>> ELSE Append(Led(u), c)
<1> DEFINE v == Append(u, c)
           n == Len(u)
           old == {i \in DOMAIN u : u[i] \notin Blanks}
           new == {i \in DOMAIN v : v[i] \notin Blanks}
           first(X) == CHOOSE k \in X : \A j \in X : k <= j
<1>1. /\ v \in Seq(S) /\ Len(v) = n + 1 /\ n \in Nat /\ DOMAIN u = 1..n /\ DOMAIN v = 1..(n + 1)
      /\ v[n + 1] = c /\ \A i \in 1..n : v[i] = u[i]
  OBVIOUS
<1>2. Led(u) = IF old = {} THEN <<>> ELSE SubSeq(u, first(old), n)
  BY DEF Led
<1>3. Led(v) = IF new = {} THEN <<>> ELSE SubSeq(v, first(new), n + 1)
  BY <1>1 DEF Led
<1>4. new = IF c \in Blanks THEN old ELSE old \cup {n + 1}
  BY <1>1
<1>5. CASE old = {}
  <2>1. Led(u) = <<>>
    BY <1>2, <1>5
  <2>2. CASE c \in Blanks
    BY <1>3, <1>4, <1>5, <2>1, <2>2
  <2>3. CASE c \notin Blanks
    <3>1. new = {n + 1}
      BY <1>4, <1>5, <2>3
    <3>2. first({n + 1}) = n + 1
      BY <1>1
    <3>3. SubSeq(v, n + 1, n + 1) = <<c>>
      <4> HIDE DEF v
      <4>1. n + 1 \in 1..Len(v)
        BY <1>1
      <4>2. QED
        BY <1>1, <4>1, OneItem
    <3>4. QED
      BY <1>3, <2>1, <2>3, <3>1, <3>2, <3>3
  <2>4. QED
    BY <2>1, <2>2, <2>3
<1>6. CASE old # {}
  <2>1. PICK i \in DOMAIN u : u[i] \notin Blanks
    BY <1>6
  <2>2. first(old) \in old /\ \A j \in old : first(old) <= j
    BY <2>1, SolidBounds
  <2>3. first(new) \in new /\ \A j \in new : first(new) <= j
    <3>1. i \in DOMAIN v /\ v[i] \notin Blanks
      BY <1>1, <2>1
    <3> HIDE DEF v
    <3>2. QED
      BY <1>1, <3>1, SolidBounds
  <2>4. \A k \in old : k \in 1..n
    BY <1>1
  <2> DEFINE f == first(old)
  <2>5. f \in 1..n /\ first(new) = f
    <3> DEFINE g == first(new)
    <3>1. f \in old /\ g \in new /\ (\A j \in old : f <= j) /\ \A j \in new : g <= j
      BY <2>2, <2>3
    <3> HIDE DEF f, g, old, new
    <3>2. f \in 1..n /\ f \in new /\ (g \in old \/ g = n + 1)
      BY <1>4, <2>4, <3>1
    <3>3. g <= f
      BY <3>1, <3>2
    <3>4. g \in old
      BY <1>1, <3>2, <3>3
    <3>5. f <= g /\ g \in 1..n
      BY <2>4, <3>1, <3>4
    <3>6. f = g
      BY <3>2, <3>3, <3>5
    <3>7. QED
      BY <3>2, <3>6 DEF g
  <2>6. new # {}
    BY <2>3
  <2> HIDE DEF f, old, new
  <2>7. Led(u) = SubSeq(u, f, n) /\ Led(v) = SubSeq(v, f, n + 1)
    BY <1>2, <1>3, <1>6, <2>5, <2>6 DEF f
  <2>8. SubSeq(u, f, n) \in Seq(S) /\ SubSeq(u, f, n) # <<>>
    <3>1. f \in Int /\ n \in Int /\ f <= n /\ \A j \in f..n : u[j] \in S
      BY <1>1, <2>5
    <3>2. /\ SubSeq(u, f, n) \in Seq(S)
          /\ Len(SubSeq(u, f, n)) = IF f <= n THEN n - f + 1 ELSE 0
      BY <3>1, SubSeqProperties
    <3> DEFINE s == SubSeq(u, f, n)
    <3> HIDE DEF s
    <3>3. s \in Seq(S) /\ Len(s) > 0
      BY <3>1, <3>2 DEF s
    <3>4. s # <<>>
      BY <3>3
    <3>5. QED
      BY <3>3, <3>4 DEF s
  <2>9. SubSeq(v, f, n + 1) = Append(SubSeq(u, f, n), c)
    BY <1>1, <2>5
  <2>10. QED
    BY <2>7, <2>8, <2>9
<1>7. QED
  BY <1>5, <1>6

LEMMA StrippedAppend ==
  ASSUME NEW S, NEW u \in Seq(S), NEW c \in S
  PROVE  /\ Stripped(u) \in Seq(S)
         /\ Stripped(Append(u, c)) = IF c \in Blanks THEN Stripped(u) ELSE Append(Led(u), c)
         /\ Stripped(u) = <<>> <=> Led(u) = <<>>
<1> DEFINE v == Append(u, c)
           n == Len(u)
           old == {i \in DOMAIN u : u[i] \notin Blanks}
           new == {i \in DOMAIN v : v[i] \notin Blanks}
           first(X) == CHOOSE k \in X : \A j \in X : k <= j
           last(X) == CHOOSE k \in X : \A j \in X : k >= j
<1>1. /\ v \in Seq(S) /\ Len(v) = n + 1 /\ n \in Nat /\ DOMAIN u = 1..n /\ DOMAIN v = 1..(n + 1)
      /\ v[n + 1] = c /\ \A i \in 1..n : v[i] = u[i]
  OBVIOUS
<1>2. Stripped(u) = IF old = {} THEN <<>> ELSE SubSeq(u, first(old), last(old))
  BY DEF Stripped
<1>3. Stripped(v) = IF new = {} THEN <<>> ELSE SubSeq(v, first(new), last(new))
  BY DEF Stripped
<1>4. new = IF c \in Blanks THEN old ELSE old \cup {n + 1}
  BY <1>1
<1>5. ASSUME old # {}
      PROVE  /\ first(old) \in 1..n /\ last(old) \in 1..n /\ first(old) <= last(old)
             /\ \A j \in old : j <= n
  <2>1. PICK i \in DOMAIN u : u[i] \notin Blanks
    BY <1>5
  <2>2. /\ first(old) \in old /\ \A j \in old : first(old) <= j
        /\ last(old) \in old
    BY <2>1, SolidBounds
  <2> HIDE DEF first, last
  <2>3. QED
    BY <1>1, <2>2
<1>6. Stripped(u) \in Seq(S) /\ (Stripped(u) = <<>> <=> old = {})
  <2>1. CASE old = {}
    BY <1>2, <2>1
  <2>2. CASE old # {}
    <3> DEFINE f == first(old)
               l == last(old)
    <3>1. f \in 1..n /\ l \in 1..n /\ f <= l
      BY <1>5, <2>2
    <3>2. Stripped(u) = SubSeq(u, f, l)
      BY <1>2, <2>2
    <3> HIDE DEF f, l
    <3>3. f \in Int /\ l \in Int /\ \A j \in f..l : u[j] \in S
      BY <1>1, <3>1
    <3>4. /\ SubSeq(u, f, l) \in Seq(S)
          /\ Len(SubSeq(u, f, l)) = IF f <= l THEN l - f + 1 ELSE 0
      BY <3>3, SubSeqProperties
    <3> DEFINE s == SubSeq(u, f, l)
    <3> HIDE DEF s
    <3>5. s \in Seq(S) /\ Len(s) > 0
      BY <3>1, <3>3, <3>4 DEF s
    <3>6. s # <<>>
      BY <3>5
    <3>7. QED
      BY <2>2, <3>2, <3>5, <3>6 DEF s
  <2>3. QED
    BY <2>1, <2>2
<1>7. Led(u) = <<>> <=> old = {}
  <2>1. CASE old = {}
    BY <2>1 DEF Led
  <2>2. CASE old # {}
    <3> DEFINE f == first(old)
    <3>1. f \in 1..n
      BY <1>5, <2>2
    <3>2. Led(u) = SubSeq(u, f, n)
      BY <2>2 DEF Led
    <3> HIDE DEF f
    <3>3. f \in Int /\ n \in Int /\ f <= n /\ \A j \in f..n : u[j] \in S
      BY <1>1, <3>1
    <3>4. Len(SubSeq(u, f, n)) = IF f <= n THEN n - f + 1 ELSE 0
      BY <3>3, SubSeqProperties
    <3> DEFINE s == SubSeq(u, f, n)
    <3> HIDE DEF s
    <3>5. Len(s) > 0
      BY <3>3, <3>4 DEF s
    <3>6. s # <<>>
      BY <3>5
    <3>7. QED
      BY <2>2, <3>2, <3>6 DEF s
  <2>3. QED
    BY <2>1, <2>2
<1>8. Stripped(v) = IF c \in Blanks THEN Stripped(u) ELSE Append(Led(u), c)
  <2>1. CASE c \in Blanks
    <3>1. new = old
      BY <1>4, <2>1
    <3>2. CASE old = {}
      BY <1>2, <1>3, <2>1, <3>1, <3>2
    <3>3. CASE old # {}
      <4> DEFINE f == first(old)
                 l == last(old)
      <4>1. f \in 1..n /\ l \in 1..n /\ f <= l
        BY <1>5, <3>3
      <4>2. Stripped(u) = SubSeq(u, f, l) /\ Stripped(v) = SubSeq(v, f, l)
        BY <1>2, <1>3, <3>1, <3>3
      <4> HIDE DEF f, l
      <4>3. SubSeq(v, f, l) = SubSeq(u, f, l)
        BY <1>1, <4>1
      <4>4. QED
        BY <2>1, <4>2, <4>3
    <3>4. QED
      BY <3>2, <3>3
  <2>2. CASE c \notin Blanks
    <3>1. n + 1 \in new /\ new # {} /\ \A j \in new : j \in Nat /\ j <= n + 1
      BY <1>1, <1>4, <2>2
    <3>2. last(new) = n + 1
      <4> HIDE DEF new
      <4>1. \A k \in new : (\A j \in new : k >= j) => k = n + 1
        BY <1>1, <3>1
      <4>2. \E k \in new : \A j \in new : k >= j
        BY <1>1, <3>1
      <4>3. last(new) \in new /\ \A j \in new : last(new) >= j
        BY <4>2
      <4>4. QED
        BY <4>1, <4>3
    <3>3. Led(v) = SubSeq(v, first(new), n + 1)
      BY <1>1, <3>1 DEF Led
    <3>4. Led(v) = Append(Led(u), c)
      BY <2>2, LedAppend
    <3>5. QED
      BY <1>3, <2>2, <3>1, <3>2, <3>3, <3>4
  <2>3. QED
    BY <2>1, <2>2
<1>9. QED
  BY <1>6, <1>7, <1>8

-----------------------------------------------------------------------------
(* The two loops over SQL.                                                 *)

Texts == Seq(Items)

TextLists == Seq(Texts)

LEMMA SqlItems == Quotes \subseteq Items /\ Space \in Items /\ "\\" \in Items
BY DEF Items

LEMMA TextFacts ==
  /\ <<>> \in Texts /\ <<>> \in TextLists
  /\ \A c \in Items : <<c>> \in Texts
  /\ \A u \in Texts, c \in Items : Append(u, c) \in Texts
  /\ \A u, v \in Texts : u \o v \in Texts
  /\ \A l \in TextLists, u \in Texts : Append(l, u) \in TextLists
  /\ \A k, l \in TextLists : k \o l \in TextLists
  /\ \A u \in Texts : Stripped(u) \in Texts /\ Led(u) \in Texts
<1>1. \A u \in Texts : Stripped(u) \in Texts /\ Led(u) \in Texts
  BY StrippedAppend, LedAppend, SqlItems DEF Texts
<1>2. \A k, l \in TextLists : k \o l \in TextLists
  BY DEF TextLists
<1>3. \A u, v \in Texts : u \o v \in Texts
  BY DEF Texts
<1>4. QED
  BY <1>1, <1>2, <1>3 DEF Texts, TextLists

SqlModes == {"plain", "quoted", "closed", "line", "block"}

Marks == Items \cup {"none"}

SqlState ==
  [mode : SqlModes, quote : Marks, part : Texts, current : Texts, done : TextLists]

LEMMA SqlStartType == SqlStart \in SqlState
BY TextFacts DEF SqlStart, SqlState, SqlModes, Marks

\* A state is its five fields.
SqlAt(mode, quote, part, current, done) ==
  [mode |-> mode, quote |-> quote, part |-> part, current |-> current, done |-> done]

LEMMA SqlFields ==
  ASSUME NEW s \in SqlState
  PROVE  /\ s.mode \in SqlModes /\ s.quote \in Marks /\ s.part \in Texts /\ s.current \in Texts
         /\ s.done \in TextLists
         /\ s = SqlAt(s.mode, s.quote, s.part, s.current, s.done)
BY DEF SqlState, SqlAt

LEMMA SqlSame ==
  ASSUME NEW s \in SqlState, NEW m, NEW q, NEW p, NEW c, NEW d,
         s.mode = m, s.quote = q, s.part = p, s.current = c, s.done = d
  PROVE  s = SqlAt(m, q, p, c, d)
BY SqlFields

LEMMA OpeningOf ==
  /\ \A c : Opening(c) \in {"plain", "line", "block", "quoted"}
  /\ \A c \in Blanks \cup Punctuation \cup {Semicolon} : Opening(c) = "plain"
  /\ \A c \in Quotes : Opening(c) = "quoted"
  /\ \A c : Opening(c) = "quoted" => c \in Quotes
<1>1. \A c : Opening(c) \in {"plain", "line", "block", "quoted"}
  BY DEF Opening
<1>2. ASSUME NEW c \in Blanks \cup Punctuation \cup {Semicolon} PROVE Opening(c) = "plain"
  <2>1. c \notin Dashes /\ c # "/*" /\ c \notin Quotes
    <3>1. c \notin Dashes
      BY SqlConstants
    <3>2. c # "/*"
      BY Zenon DEF Blanks, Punctuation, Space, Semicolon
    <3>3. c \notin Quotes
      BY Zenon DEF Blanks, Punctuation, Space, Semicolon, Quotes, Double
    <3>4. QED
      BY <3>1, <3>2, <3>3
  <2>2. QED
    BY <2>1 DEF Opening
<1>3. ASSUME NEW c \in Quotes PROVE Opening(c) = "quoted"
  <2>1. c \notin Dashes
    BY SqlConstants
  <2>2. c # "/*"
    BY Zenon DEF Quotes, Double
  <2>3. QED
    BY <2>1, <2>2 DEF Opening
<1>4. \A c : Opening(c) = "quoted" => c \in Quotes
  BY DEF Opening
<1>5. QED
  BY <1>1, <1>2, <1>3, <1>4

LEMMA SpaceIsBlank == Space \in Blanks /\ Semicolon \notin Blanks /\ Quotes \cap Blanks = {}
<1>1. Space \in Blanks
  BY DEF Blanks
<1>2. Semicolon \notin Blanks
  BY Zenon DEF Blanks, Space, Semicolon
<1>3. \A c \in Quotes : c \notin Blanks
  BY Zenon DEF Quotes, Blanks, Space, Double
<1>4. QED
  BY <1>1, <1>2, <1>3

LEMMA TokenParts ==
  ASSUME NEW s \in SqlState
  PROVE  /\ TokenClosed(s) \in SqlState /\ TokenEnded(s) \in SqlState
         /\ TokenClosed(s) = SqlAt("plain", s.quote, s.part, s.current,
              IF s.mode = "closed" THEN Append(s.done, s.part) ELSE s.done)
         /\ TokenEnded(s) = SqlAt(s.mode, s.quote, s.part, <<>>,
              IF s.current = <<>> THEN s.done ELSE Append(s.done, s.current))
<1>1. /\ TokenClosed(s).mode = "plain" /\ TokenClosed(s).quote = s.quote
      /\ TokenClosed(s).part = s.part /\ TokenClosed(s).current = s.current
      /\ TokenClosed(s).done = IF s.mode = "closed" THEN Append(s.done, s.part) ELSE s.done
  BY DEF TokenClosed, SqlState
<1>2. /\ TokenEnded(s).mode = s.mode /\ TokenEnded(s).quote = s.quote
      /\ TokenEnded(s).part = s.part /\ TokenEnded(s).current = <<>>
      /\ TokenEnded(s).done = IF s.current = <<>> THEN s.done ELSE Append(s.done, s.current)
  BY DEF TokenEnded, SqlState
<1>3. "plain" \in SqlModes
  BY DEF SqlModes
<1>4. /\ Append(s.done, s.part) \in TextLists /\ Append(s.done, s.current) \in TextLists
      /\ <<>> \in Texts
  BY SqlFields, TextFacts
<1>5. TokenClosed(s) \in SqlState
  BY <1>3, <1>4 DEF TokenClosed, SqlState
<1>6. TokenEnded(s) \in SqlState
  BY <1>4 DEF TokenEnded, SqlState
<1>7. TokenClosed(s) = SqlAt("plain", s.quote, s.part, s.current,
              IF s.mode = "closed" THEN Append(s.done, s.part) ELSE s.done)
  BY <1>1, <1>5, SqlSame
<1>8. TokenEnded(s) = SqlAt(s.mode, s.quote, s.part, <<>>,
              IF s.current = <<>> THEN s.done ELSE Append(s.done, s.current))
  BY <1>2, <1>6, SqlSame
<1>9. QED
  BY <1>5, <1>6, <1>7, <1>8

LEMMA StatementParts ==
  ASSUME NEW s \in SqlState, s.mode = "closed" => s.quote \in Items
  PROVE  /\ StatementClosed(s) \in SqlState /\ StatementEnded(s) \in SqlState
         /\ StatementClosed(s) = SqlAt("plain", s.quote, s.part,
              IF s.mode = "closed" THEN s.current \o Requoted(s.quote, s.part) ELSE s.current,
              s.done)
         /\ StatementEnded(s) = SqlAt(s.mode, s.quote, s.part, <<>>,
              IF Stripped(s.current) = <<>> THEN s.done
              ELSE Append(s.done, Stripped(s.current)))
<1>1. /\ StatementClosed(s).mode = "plain" /\ StatementClosed(s).quote = s.quote
      /\ StatementClosed(s).part = s.part /\ StatementClosed(s).done = s.done
      /\ StatementClosed(s).current =
           IF s.mode = "closed" THEN s.current \o Requoted(s.quote, s.part) ELSE s.current
  BY DEF StatementClosed, SqlState
<1>2. /\ StatementEnded(s).mode = s.mode /\ StatementEnded(s).quote = s.quote
      /\ StatementEnded(s).part = s.part /\ StatementEnded(s).current = <<>>
      /\ StatementEnded(s).done = IF Stripped(s.current) = <<>> THEN s.done
                                  ELSE Append(s.done, Stripped(s.current))
  BY DEF StatementEnded, SqlState
<1>3. "plain" \in SqlModes
  BY DEF SqlModes
<1>4. /\ s.mode = "closed" => s.current \o Requoted(s.quote, s.part) \in Texts
      /\ Append(s.done, Stripped(s.current)) \in TextLists /\ <<>> \in Texts
  BY SqlFields, TextFacts DEF Requoted
<1>5. StatementClosed(s) \in SqlState
  BY <1>3, <1>4 DEF StatementClosed, SqlState
<1>6. StatementEnded(s) \in SqlState
  BY <1>4 DEF StatementEnded, SqlState
<1>7. StatementClosed(s) = SqlAt("plain", s.quote, s.part,
              IF s.mode = "closed" THEN s.current \o Requoted(s.quote, s.part) ELSE s.current,
              s.done)
  BY <1>1, <1>5, SqlSame
<1>8. StatementEnded(s) = SqlAt(s.mode, s.quote, s.part, <<>>,
              IF Stripped(s.current) = <<>> THEN s.done
              ELSE Append(s.done, Stripped(s.current)))
  BY <1>2, <1>6, SqlSame
<1>9. QED
  BY <1>5, <1>6, <1>7, <1>8

LEMMA InsideParts ==
  ASSUME NEW s \in SqlState, NEW c \in Items
  PROVE  /\ Inside(s, c) \in SqlState
         /\ s.mode = "quoted" /\ c = s.quote =>
              Inside(s, c) = SqlAt("closed", s.quote, s.part, s.current, s.done)
         /\ s.mode \in {"quoted", "closed"} /\ ~(s.mode = "quoted" /\ c = s.quote) =>
              Inside(s, c) = SqlAt("quoted", s.quote, Append(s.part, c), s.current, s.done)
         /\ s.mode \notin {"quoted", "closed"} =>
              Inside(s, c) = SqlAt(IF s.mode = "block" /\ c = "*/" THEN "plain" ELSE s.mode,
                                   s.quote, s.part, s.current, s.done)
<1>1. {"closed", "quoted", "plain"} \subseteq SqlModes /\ Append(s.part, c) \in Texts
  BY SqlFields, TextFacts DEF SqlModes
<1>2. CASE s.mode = "quoted" /\ c = s.quote
  <2>1. Inside(s, c) = [s EXCEPT !.mode = "closed"]
    BY <1>2 DEF Inside
  <2>2. Inside(s, c) \in SqlState
    BY <1>1, <2>1 DEF SqlState
  <2>3. Inside(s, c) = SqlAt("closed", s.quote, s.part, s.current, s.done)
    <3>1. /\ Inside(s, c).mode = "closed" /\ Inside(s, c).quote = s.quote
          /\ Inside(s, c).part = s.part /\ Inside(s, c).current = s.current
          /\ Inside(s, c).done = s.done
      BY <2>1 DEF SqlState
    <3>2. QED
      BY <2>2, <3>1, SqlSame
  <2>4. QED
    BY <1>2, <2>2, <2>3
<1>3. CASE s.mode \in {"quoted", "closed"} /\ ~(s.mode = "quoted" /\ c = s.quote)
  <2>1. Inside(s, c) = [s EXCEPT !.mode = "quoted", !.part = Append(@, c)]
    BY <1>3 DEF Inside
  <2>2. Inside(s, c) \in SqlState
    BY <1>1, <2>1 DEF SqlState
  <2>3. Inside(s, c) = SqlAt("quoted", s.quote, Append(s.part, c), s.current, s.done)
    <3>1. /\ Inside(s, c).mode = "quoted" /\ Inside(s, c).quote = s.quote
          /\ Inside(s, c).part = Append(s.part, c) /\ Inside(s, c).current = s.current
          /\ Inside(s, c).done = s.done
      BY <2>1 DEF SqlState
    <3> DEFINE more == Append(s.part, c)
    <3> HIDE DEF more
    <3>2. Inside(s, c).part = more
      BY <3>1 DEF more
    <3>3. Inside(s, c) = SqlAt("quoted", s.quote, more, s.current, s.done)
      BY <2>2, <3>1, <3>2, SqlSame
    <3>4. QED
      BY <3>3 DEF more
  <2>4. QED
    BY <1>3, <2>2, <2>3
<1>4. CASE s.mode \notin {"quoted", "closed"}
  <2> DEFINE m == IF s.mode = "block" /\ c = "*/" THEN "plain" ELSE s.mode
  <2>1. CASE s.mode = "block" /\ c = "*/"
    <3>1. Inside(s, c) = [s EXCEPT !.mode = "plain"]
      BY <2>1 DEF Inside
    <3>2. Inside(s, c) \in SqlState
      BY <1>1, <3>1 DEF SqlState
    <3>3. /\ Inside(s, c).mode = m /\ Inside(s, c).quote = s.quote
          /\ Inside(s, c).part = s.part /\ Inside(s, c).current = s.current
          /\ Inside(s, c).done = s.done
      BY <2>1, <3>1 DEF SqlState
    <3>4. Inside(s, c) = SqlAt(m, s.quote, s.part, s.current, s.done)
      BY <3>2, <3>3, SqlSame
    <3>5. QED
      BY <1>4, <3>2, <3>4
  <2>2. CASE ~(s.mode = "block" /\ c = "*/")
    <3>1. Inside(s, c) = s
      BY <1>4, <2>2 DEF Inside
    <3>2. Inside(s, c) = SqlAt(m, s.quote, s.part, s.current, s.done)
      BY <2>2, <3>1, SqlFields
    <3>3. QED
      BY <1>4, <3>1, <3>2
  <2>3. QED
    BY <2>1, <2>2
<1>5. QED
  BY <1>2, <1>3, <1>4

LEMMA OpenedParts ==
  ASSUME NEW s \in SqlState, NEW c \in Items
  PROVE  /\ Opened(s, c) \in SqlState
         /\ Opened(s, c) = SqlAt(Opening(c), c, <<>>, s.current, s.done)
<1>1. Opening(c) \in SqlModes /\ c \in Marks /\ <<>> \in Texts
  BY OpeningOf, TextFacts DEF SqlModes, Marks
<1>2. Opened(s, c) \in SqlState
  BY <1>1 DEF Opened, SqlState
<1>3. /\ Opened(s, c).mode = Opening(c) /\ Opened(s, c).quote = c /\ Opened(s, c).part = <<>>
      /\ Opened(s, c).current = s.current /\ Opened(s, c).done = s.done
  BY DEF Opened, SqlState
<1>4. QED
  BY <1>2, <1>3, SqlSame

\* One item of tokenize.
LEMMA TokenStepParts ==
  ASSUME NEW s \in SqlState, NEW c \in Items
  PROVE  /\ TokenStep(s, c) \in SqlState
         /\ Within(s, c) => TokenStep(s, c) = Inside(s, c)
         /\ ~Within(s, c) /\ Opening(c) # "plain" =>
              TokenStep(s, c) = SqlAt(Opening(c), c, <<>>, <<>>, TokenEnded(TokenClosed(s)).done)
         /\ ~Within(s, c) /\ c \in Blanks =>
              TokenStep(s, c) = SqlAt("plain", s.quote, s.part, <<>>,
                                      TokenEnded(TokenClosed(s)).done)
         /\ ~Within(s, c) /\ Opening(c) = "plain" /\ c \notin Blanks =>
              TokenStep(s, c) =
                SqlAt("plain", s.quote, s.part,
                      IF c \in Punctuation THEN <<>> ELSE Append(s.current, c),
                      IF c \in Punctuation THEN Append(TokenEnded(TokenClosed(s)).done, <<c>>)
                      ELSE TokenClosed(s).done)
<1> DEFINE t == TokenClosed(s)
           e == TokenEnded(t)
<1>1. /\ t \in SqlState /\ t.mode = "plain" /\ t.quote = s.quote /\ t.part = s.part
      /\ t.current = s.current
  <2>1. t \in SqlState
    BY TokenParts
  <2>2. t = SqlAt("plain", s.quote, s.part, s.current,
                  IF s.mode = "closed" THEN Append(s.done, s.part) ELSE s.done)
    BY TokenParts
  <2> HIDE DEF t
  <2>3. QED
    BY <2>1, <2>2 DEF SqlAt
<1> HIDE DEF t
<1>2. /\ e \in SqlState /\ e.mode = "plain" /\ e.quote = s.quote /\ e.part = s.part
      /\ e.current = <<>>
  <2>1. e \in SqlState
    BY <1>1, TokenParts
  <2>2. e = SqlAt(t.mode, t.quote, t.part, <<>>,
                  IF t.current = <<>> THEN t.done ELSE Append(t.done, t.current))
    BY <1>1, TokenParts
  <2> HIDE DEF e
  <2>3. QED
    BY <1>1, <2>1, <2>2 DEF SqlAt
<1> HIDE DEF e
<1>3. Opened(e, c) = SqlAt(Opening(c), c, <<>>, <<>>, e.done) /\ Opened(e, c) \in SqlState
  BY <1>2, OpenedParts
<1>4. Inside(s, c) \in SqlState
  BY InsideParts
<1>5. c \in Blanks => Opening(c) = "plain"
  BY OpeningOf
<1>6. /\ Within(s, c) => TokenStep(s, c) = Inside(s, c)
      /\ ~Within(s, c) /\ Opening(c) # "plain" => TokenStep(s, c) = Opened(e, c)
      /\ ~Within(s, c) /\ Opening(c) = "plain" /\ c \in Blanks => TokenStep(s, c) = e
      /\ ~Within(s, c) /\ Opening(c) = "plain" /\ c \notin Blanks /\ c \in Punctuation =>
           TokenStep(s, c) = [e EXCEPT !.done = Append(@, <<c>>)]
      /\ ~Within(s, c) /\ Opening(c) = "plain" /\ c \notin Blanks /\ c \notin Punctuation =>
           TokenStep(s, c) = [t EXCEPT !.current = Append(@, c)]
  BY DEF TokenStep, e, t
<1>7. /\ [e EXCEPT !.done = Append(@, <<c>>)] =
           SqlAt("plain", s.quote, s.part, <<>>, Append(e.done, <<c>>))
      /\ [e EXCEPT !.done = Append(@, <<c>>)] \in SqlState
  <2> DEFINE one == <<c>>
             x == [e EXCEPT !.done = Append(@, one)]
  <2>1. Append(e.done, one) \in TextLists
    BY <1>2, SqlFields, TextFacts
  <2> HIDE DEF one
  <2>2. x \in SqlState
    BY <1>2, <2>1 DEF SqlState
  <2>3. /\ x.mode = "plain" /\ x.quote = s.quote /\ x.part = s.part /\ x.current = <<>>
        /\ x.done = Append(e.done, one)
    BY <1>2 DEF SqlState
  <2> DEFINE more == Append(e.done, one)
  <2> HIDE DEF x, more
  <2>4. x.done = more
    BY <2>3 DEF more
  <2>5. x = SqlAt("plain", s.quote, s.part, <<>>, more)
    BY <2>2, <2>3, <2>4, SqlSame
  <2>6. QED
    BY <2>2, <2>5 DEF x, one, more
<1>8. /\ [t EXCEPT !.current = Append(@, c)] =
           SqlAt("plain", s.quote, s.part, Append(s.current, c), t.done)
      /\ [t EXCEPT !.current = Append(@, c)] \in SqlState
  <2> DEFINE x == [t EXCEPT !.current = Append(@, c)]
  <2>1. Append(t.current, c) \in Texts
    BY <1>1, SqlFields, TextFacts
  <2>2. x \in SqlState
    BY <1>1, <2>1 DEF SqlState
  <2>3. /\ x.mode = "plain" /\ x.quote = s.quote /\ x.part = s.part
        /\ x.current = Append(s.current, c) /\ x.done = t.done
    BY <1>1 DEF SqlState
  <2> DEFINE more == Append(s.current, c)
  <2> HIDE DEF x, more
  <2>4. x.current = more
    BY <2>3 DEF more
  <2>5. x = SqlAt("plain", s.quote, s.part, more, t.done)
    BY <2>2, <2>3, <2>4, SqlSame
  <2>6. QED
    BY <2>2, <2>5 DEF x, more
<1>9. e = SqlAt("plain", s.quote, s.part, <<>>, e.done)
  BY <1>2, SqlFields
<1>10. TokenStep(s, c) \in SqlState
  BY <1>2, <1>3, <1>4, <1>6, <1>7, <1>8
<1>11. TokenEnded(TokenClosed(s)).done = e.done /\ TokenClosed(s).done = t.done
  BY DEF e, t
<1>12. QED
  BY <1>3, <1>5, <1>6, <1>7, <1>8, <1>9, <1>10, <1>11

\* One item of split_statements.
LEMMA StatementStepParts ==
  ASSUME NEW s \in SqlState, NEW c \in Items, s.mode = "closed" => s.quote \in Items
  PROVE  LET held == StatementClosed(s).current
         IN /\ StatementStep(s, c) \in SqlState /\ held \in Texts
            /\ Within(s, c) => StatementStep(s, c) = Inside(s, c)
            /\ ~Within(s, c) /\ Opening(c) = "quoted" =>
                 StatementStep(s, c) = SqlAt("quoted", c, <<>>, held, s.done)
            /\ ~Within(s, c) /\ Opening(c) \in {"line", "block"} =>
                 StatementStep(s, c) = SqlAt(Opening(c), c, <<>>, Append(held, Space), s.done)
            /\ ~Within(s, c) /\ c = Semicolon =>
                 StatementStep(s, c) =
                   SqlAt("plain", s.quote, s.part, <<>>,
                         IF Stripped(held) = <<>> THEN s.done ELSE Append(s.done, Stripped(held)))
            /\ ~Within(s, c) /\ Opening(c) = "plain" /\ c # Semicolon =>
                 StatementStep(s, c) = SqlAt("plain", s.quote, s.part, Append(held, c), s.done)
<1> DEFINE t == StatementClosed(s)
           o == Opened(t, c)
           held == t.current
<1>1. t \in SqlState /\ t = SqlAt("plain", s.quote, s.part, held, s.done)
  <2>1. t \in SqlState
    BY StatementParts
  <2>2. t = SqlAt("plain", s.quote, s.part,
              IF s.mode = "closed" THEN s.current \o Requoted(s.quote, s.part) ELSE s.current,
              s.done)
    BY StatementParts
  <2> HIDE DEF t
  <2>3. QED
    BY <2>1, <2>2 DEF SqlAt
<1> HIDE DEF t
<1>2. t.mode = "plain" /\ t.quote = s.quote /\ t.part = s.part /\ t.done = s.done /\ held \in Texts
  BY <1>1, SqlFields DEF SqlAt
<1>3. o \in SqlState /\ o = SqlAt(Opening(c), c, <<>>, held, s.done)
  BY <1>1, <1>2, OpenedParts
<1> HIDE DEF o
<1>4. Opening(c) \in {"plain", "line", "block", "quoted"} /\ (c = Semicolon => Opening(c) = "plain")
  BY OpeningOf
<1>5. /\ Within(s, c) => StatementStep(s, c) = Inside(s, c)
      /\ ~Within(s, c) /\ Opening(c) = "quoted" => StatementStep(s, c) = o
      /\ ~Within(s, c) /\ Opening(c) \in {"line", "block"} =>
           StatementStep(s, c) = [o EXCEPT !.current = Append(@, Space)]
      /\ ~Within(s, c) /\ Opening(c) = "plain" /\ c = Semicolon =>
           StatementStep(s, c) = StatementEnded(t)
      /\ ~Within(s, c) /\ Opening(c) = "plain" /\ c # Semicolon =>
           StatementStep(s, c) = [t EXCEPT !.current = Append(@, c)]
  BY <1>4 DEF StatementStep, o, t
<1>6. /\ [o EXCEPT !.current = Append(@, Space)] =
           SqlAt(Opening(c), c, <<>>, Append(held, Space), s.done)
      /\ [o EXCEPT !.current = Append(@, Space)] \in SqlState
  <2> DEFINE x == [o EXCEPT !.current = Append(@, Space)]
  <2>1. /\ o.mode = Opening(c) /\ o.quote = c /\ o.part = <<>> /\ o.current = held
        /\ o.done = s.done
    BY <1>3 DEF SqlAt
  <2>2. Append(o.current, Space) \in Texts
    BY <1>2, <2>1, TextFacts, SqlItems
  <2>3. x \in SqlState
    BY <1>3, <2>2 DEF SqlState
  <2>4. /\ x.mode = o.mode /\ x.quote = o.quote /\ x.part = o.part
        /\ x.current = Append(o.current, Space) /\ x.done = o.done
    BY <1>3 DEF SqlState
  <2> DEFINE more == Append(held, Space)
  <2>5. x.current = more
    BY <2>1, <2>4
  <2> HIDE DEF x, more
  <2>6. x = SqlAt(Opening(c), c, <<>>, more, s.done)
    BY <2>1, <2>3, <2>4, <2>5, SqlSame
  <2>7. QED
    BY <2>3, <2>6 DEF x, more
<1>7. /\ [t EXCEPT !.current = Append(@, c)] =
           SqlAt("plain", s.quote, s.part, Append(held, c), s.done)
      /\ [t EXCEPT !.current = Append(@, c)] \in SqlState
  <2> DEFINE x == [t EXCEPT !.current = Append(@, c)]
  <2>1. Append(t.current, c) \in Texts
    BY <1>2, TextFacts
  <2>2. x \in SqlState
    BY <1>1, <2>1 DEF SqlState
  <2>3. /\ x.mode = t.mode /\ x.quote = t.quote /\ x.part = t.part
        /\ x.current = Append(t.current, c) /\ x.done = t.done
    BY <1>1 DEF SqlState
  <2> DEFINE more == Append(held, c)
  <2>4. x.current = more
    BY <2>3
  <2> HIDE DEF x, more
  <2>5. x = SqlAt("plain", s.quote, s.part, more, s.done)
    BY <1>2, <2>2, <2>3, <2>4, SqlSame
  <2>6. QED
    BY <2>2, <2>5 DEF x, more
<1>8. /\ StatementEnded(t) =
           SqlAt("plain", s.quote, s.part, <<>>,
                 IF Stripped(held) = <<>> THEN s.done ELSE Append(s.done, Stripped(held)))
      /\ StatementEnded(t) \in SqlState
  <2>1. t.mode = "plain"
    BY <1>2
  <2>2. QED
    BY <1>2, <1>1, <2>1, StatementParts
<1>9. Inside(s, c) \in SqlState
  BY InsideParts
<1>10. StatementStep(s, c) \in SqlState
  BY <1>1, <1>3, <1>4, <1>5, <1>6, <1>7, <1>8, <1>9
<1>11. StatementClosed(s).current = held
  BY DEF t
<1>12. QED
  BY <1>2, <1>3, <1>4, <1>5, <1>6, <1>7, <1>8, <1>10, <1>11

-----------------------------------------------------------------------------
(* Texts read to their end.                                                *)

\* A quoted part has a quote.
SqlSound == {s \in SqlState : s.mode \in {"quoted", "closed"} => s.quote \in Quotes}

LEMMA SqlStepSound ==
  /\ SqlStart \in SqlSound
  /\ \A s \in SqlSound, c \in Items : TokenStep(s, c) \in SqlSound /\ StatementStep(s, c) \in SqlSound
<1>1. SqlStart \in SqlSound
  BY SqlStartType DEF SqlStart, SqlSound
<1>2. ASSUME NEW s \in SqlSound, NEW c \in Items
      PROVE  TokenStep(s, c) \in SqlSound /\ StatementStep(s, c) \in SqlSound
  <2>1. s \in SqlState /\ (s.mode \in {"quoted", "closed"} => s.quote \in Quotes)
        /\ (s.mode = "closed" => s.quote \in Items)
    BY SqlItems DEF SqlSound
  <2>2. /\ TokenStep(s, c) \in SqlState /\ StatementStep(s, c) \in SqlState
    BY <2>1, TokenStepParts, StatementStepParts
  <2>3. CASE Within(s, c)
    <3>1. TokenStep(s, c) = Inside(s, c) /\ StatementStep(s, c) = Inside(s, c)
      BY <2>1, <2>3, TokenStepParts, StatementStepParts
    <3>2. Inside(s, c).mode \in {"quoted", "closed"} => Inside(s, c).quote \in Quotes
      <4>1. CASE s.mode \in {"quoted", "closed"}
        <5>1. Inside(s, c).quote = s.quote
          BY <2>1, <4>1, InsideParts DEF SqlAt
        <5>2. QED
          BY <2>1, <4>1, <5>1
      <4>2. CASE s.mode \notin {"quoted", "closed"}
        <5>1. Inside(s, c).mode \notin {"quoted", "closed"}
          BY <2>1, <4>2, InsideParts DEF SqlAt
        <5>2. QED
          BY <5>1
      <4>3. QED
        BY <4>1, <4>2
    <3>3. QED
      BY <2>2, <3>1, <3>2 DEF SqlSound
  <2>4. CASE ~Within(s, c)
    <3>1. Opening(c) \in {"plain", "line", "block", "quoted"} /\ (Opening(c) = "quoted" => c \in Quotes)
          /\ (c \in Blanks => Opening(c) = "plain")
      BY OpeningOf
    <3>2. TokenStep(s, c).mode \in {"quoted", "closed"} => TokenStep(s, c).quote \in Quotes
      BY <2>1, <2>4, <3>1, TokenStepParts DEF SqlAt
    <3>3. StatementStep(s, c).mode \in {"quoted", "closed"} => StatementStep(s, c).quote \in Quotes
      BY <2>1, <2>4, <3>1, StatementStepParts DEF SqlAt
    <3>4. QED
      BY <2>2, <3>2, <3>3 DEF SqlSound
  <2>5. QED
    BY <2>3, <2>4
<1>3. QED
  BY <1>1, <1>2

LEMMA TokenRuns ==
  ASSUME NEW u \in Texts
  PROVE  /\ TokenStates(u) \in [0..Len(u) -> SqlSound]
         /\ TokenStates(u)[0] = SqlStart
         /\ \A i \in 1..Len(u) : TokenStates(u)[i] = TokenStep(TokenStates(u)[i - 1], u[i])
<1> DEFINE n == Len(u)
           step == [i \in 1..n |-> [s \in SqlSound |-> TokenStep(s, u[i])]]
           Reads(h) == h = [i \in 0..n |-> IF i = 0 THEN SqlStart ELSE TokenStep(h[i - 1], u[i])]
<1>1. n \in Nat /\ \A i \in 1..n : u[i] \in Items
  BY DEF Texts
<1>2. SqlStart \in SqlSound /\ \A i \in 1..n : \A s \in SqlSound : TokenStep(s, u[i]) \in SqlSound
  BY <1>1, SqlStepSound
<1>3. TokenStates(u) = CHOOSE h : Reads(h)
  BY DEF TokenStates
<1> HIDE DEF n
<1>4. step \in [1..n -> [SqlSound -> SqlSound]]
  BY <1>2
<1>5. \A i \in 1..n : \A s \in SqlSound : step[i][s] = TokenStep(s, u[i])
  OBVIOUS
<1> HIDE DEF step
<1>6. PICK f : Runs(f, n, SqlSound, SqlStart, step)
  BY <1>1, <1>2, <1>4, StatesExist
<1>7. f \in [0..n -> SqlSound] /\ f[0] = SqlStart /\ \A i \in 1..n : f[i] = step[i][f[i - 1]]
  BY <1>6 DEF Runs
<1>8. ASSUME NEW i \in 1..n
      PROVE  f[i] = TokenStep(f[i - 1], u[i])
  <2>1. i - 1 \in 0..n
    BY <1>1
  <2>2. f[i - 1] \in SqlSound
    BY <1>7, <2>1
  <2>3. QED
    BY <1>5, <1>7, <2>2
<1>9. Reads(f)
  BY <1>1, <1>7, <1>8
<1>10. Reads(TokenStates(u))
  BY <1>3, <1>9, Zenon
<1> DEFINE h == TokenStates(u)
<1> HIDE DEF h
<1>11. h = [i \in 0..n |-> IF i = 0 THEN SqlStart ELSE TokenStep(h[i - 1], u[i])]
  BY <1>10 DEF h
<1>12. h[0] = SqlStart /\ \A i \in 1..n : h[i] = TokenStep(h[i - 1], u[i])
  BY <1>1, <1>11
<1> DEFINE T == {i \in 0..n : h[i] \in SqlSound}
<1>13. 0 \in T
  BY <1>1, <1>2, <1>12
<1>14. ASSUME NEW i \in 1..n, i - 1 \in T
       PROVE  i \in T
  <2>1. i \in 0..n /\ h[i - 1] \in SqlSound
    BY <1>1, <1>14
  <2>2. h[i] \in SqlSound
    BY <1>2, <1>12, <2>1
  <2>3. QED
    BY <2>1, <2>2
<1>15. \A i \in 0..n : h[i] \in SqlSound
  <2> HIDE DEF T
  <2>1. \A i \in 0..n : i \in T
    BY <1>1, <1>13, <1>14, AllAlong
  <2>2. QED
    BY <2>1 DEF T
<1>16. h \in [0..n -> SqlSound]
  BY <1>11, <1>15
<1>17. QED
  BY <1>12, <1>16 DEF h, n

LEMMA StatementRuns ==
  ASSUME NEW u \in Texts
  PROVE  /\ StatementStates(u) \in [0..Len(u) -> SqlSound]
         /\ StatementStates(u)[0] = SqlStart
         /\ \A i \in 1..Len(u) : StatementStates(u)[i] = StatementStep(StatementStates(u)[i - 1], u[i])
<1> DEFINE n == Len(u)
           step == [i \in 1..n |-> [s \in SqlSound |-> StatementStep(s, u[i])]]
           Reads(h) == h = [i \in 0..n |-> IF i = 0 THEN SqlStart ELSE StatementStep(h[i - 1], u[i])]
<1>1. n \in Nat /\ \A i \in 1..n : u[i] \in Items
  BY DEF Texts
<1>2. SqlStart \in SqlSound /\ \A i \in 1..n : \A s \in SqlSound : StatementStep(s, u[i]) \in SqlSound
  BY <1>1, SqlStepSound
<1>3. StatementStates(u) = CHOOSE h : Reads(h)
  BY DEF StatementStates
<1> HIDE DEF n
<1>4. step \in [1..n -> [SqlSound -> SqlSound]]
  BY <1>2
<1>5. \A i \in 1..n : \A s \in SqlSound : step[i][s] = StatementStep(s, u[i])
  OBVIOUS
<1> HIDE DEF step
<1>6. PICK f : Runs(f, n, SqlSound, SqlStart, step)
  BY <1>1, <1>2, <1>4, StatesExist
<1>7. f \in [0..n -> SqlSound] /\ f[0] = SqlStart /\ \A i \in 1..n : f[i] = step[i][f[i - 1]]
  BY <1>6 DEF Runs
<1>8. ASSUME NEW i \in 1..n
      PROVE  f[i] = StatementStep(f[i - 1], u[i])
  <2>1. i - 1 \in 0..n
    BY <1>1
  <2>2. f[i - 1] \in SqlSound
    BY <1>7, <2>1
  <2>3. QED
    BY <1>5, <1>7, <2>2
<1>9. Reads(f)
  BY <1>1, <1>7, <1>8
<1>10. Reads(StatementStates(u))
  BY <1>3, <1>9, Zenon
<1> DEFINE h == StatementStates(u)
<1> HIDE DEF h
<1>11. h = [i \in 0..n |-> IF i = 0 THEN SqlStart ELSE StatementStep(h[i - 1], u[i])]
  BY <1>10 DEF h
<1>12. h[0] = SqlStart /\ \A i \in 1..n : h[i] = StatementStep(h[i - 1], u[i])
  BY <1>1, <1>11
<1> DEFINE T == {i \in 0..n : h[i] \in SqlSound}
<1>13. 0 \in T
  BY <1>1, <1>2, <1>12
<1>14. ASSUME NEW i \in 1..n, i - 1 \in T
       PROVE  i \in T
  <2>1. i \in 0..n /\ h[i - 1] \in SqlSound
    BY <1>1, <1>14
  <2>2. h[i] \in SqlSound
    BY <1>2, <1>12, <2>1
  <2>3. QED
    BY <2>1, <2>2
<1>15. \A i \in 0..n : h[i] \in SqlSound
  <2> HIDE DEF T
  <2>1. \A i \in 0..n : i \in T
    BY <1>1, <1>13, <1>14, AllAlong
  <2>2. QED
    BY <2>1 DEF T
<1>16. h \in [0..n -> SqlSound]
  BY <1>11, <1>15
<1>17. QED
  BY <1>12, <1>16 DEF h, n

\* Where tokenize is after a text.
Lexed(u) == TokenStates(u)[Len(u)]

LEMMA LexedSteps ==
  /\ Lexed(<<>>) = SqlStart
  /\ \A u \in Texts : Lexed(u) \in SqlSound
  /\ \A u \in Texts, c \in Items : Lexed(Append(u, c)) = TokenStep(Lexed(u), c)
<1>1. Lexed(<<>>) = SqlStart
  <2>1. <<>> \in Texts /\ Len(<<>>) = 0
    BY TextFacts
  <2>2. QED
    BY <2>1, TokenRuns DEF Lexed
<1>2. ASSUME NEW u \in Texts PROVE Lexed(u) \in SqlSound
  <2>1. Len(u) \in 0..Len(u)
    BY DEF Texts
  <2>2. QED
    BY <2>1, TokenRuns DEF Lexed
<1>3. ASSUME NEW u \in Texts, NEW c \in Items
      PROVE  Lexed(Append(u, c)) = TokenStep(Lexed(u), c)
  <2> DEFINE v == Append(u, c)
             n == Len(u)
             g == TokenStates(u)
             h == TokenStates(v)
  <2>1. v \in Texts /\ n \in Nat /\ Len(v) = n + 1 /\ v[n + 1] = c /\ \A i \in 1..n : v[i] = u[i]
    BY DEF Texts
  <2> HIDE DEF v, n
  <2>2. g[0] = SqlStart /\ \A i \in 1..n : g[i] = TokenStep(g[i - 1], u[i])
    BY TokenRuns DEF n
  <2>3. h[0] = SqlStart /\ \A i \in 1..(n + 1) : h[i] = TokenStep(h[i - 1], v[i])
    BY <2>1, TokenRuns
  <2> HIDE DEF g, h
  <2> DEFINE T == {i \in 0..n : g[i] = h[i]}
  <2>4. 0 \in T
    BY <2>1, <2>2, <2>3
  <2>5. ASSUME NEW i \in 1..n, i - 1 \in T
        PROVE  i \in T
    <3>1. i \in 0..n /\ i \in 1..(n + 1) /\ g[i - 1] = h[i - 1] /\ v[i] = u[i]
      BY <2>1, <2>5
    <3>2. g[i] = TokenStep(g[i - 1], u[i]) /\ h[i] = TokenStep(h[i - 1], v[i])
      BY <2>2, <2>3, <3>1
    <3>3. g[i] = h[i]
      BY <3>1, <3>2
    <3>4. QED
      BY <3>1, <3>3
  <2>6. g[n] = h[n]
    <3> HIDE DEF T
    <3>1. \A i \in 0..n : i \in T
      BY <2>1, <2>4, <2>5, AllAlong
    <3>2. QED
      BY <2>1, <3>1 DEF T
  <2>7. n + 1 \in 1..(n + 1) /\ (n + 1) - 1 = n
    BY <2>1
  <2>8. h[n + 1] = TokenStep(h[n], c)
    BY <2>1, <2>3, <2>7
  <2>9. QED
    BY <2>1, <2>6, <2>8 DEF Lexed, g, h, n, v
<1>4. QED
  BY <1>1, <1>2, <1>3

-----------------------------------------------------------------------------
(* A text and its statements, read side by side.                           *)

LEMMA BehindAppend ==
  ASSUME NEW S, NEW a \in Seq(S), NEW b \in Seq(S), NEW c \in S
  PROVE  Append(a \o b, c) = a \o Append(b, c)
OBVIOUS

LEMMA BehindLists ==
  \A d, l \in TextLists, u \in Texts : Append(d \o l, u) = d \o Append(l, u)
<1>1. ASSUME NEW d \in TextLists, NEW l \in TextLists, NEW u \in Texts
      PROVE  Append(d \o l, u) = d \o Append(l, u)
  <2>1. d \in Seq(Texts) /\ l \in Seq(Texts)
    BY DEF TextLists
  <2>2. QED
    BY <2>1
<1>2. QED
  BY <1>1

\* The tokens if the text ended here.
EndDone(s) == TokenEnded(TokenClosed(s)).done

LEMMA EndDoneOf ==
  ASSUME NEW s \in SqlState
  PROVE  LET closed == IF s.mode = "closed" THEN Append(s.done, s.part) ELSE s.done
         IN /\ closed \in TextLists /\ TokenClosed(s).done = closed
            /\ EndDone(s) \in TextLists
            /\ EndDone(s) = IF s.current = <<>> THEN closed ELSE Append(closed, s.current)
<1> DEFINE closed == IF s.mode = "closed" THEN Append(s.done, s.part) ELSE s.done
           t == TokenClosed(s)
<1>1. closed \in TextLists
  BY SqlFields, TextFacts
<1>2. t \in SqlState /\ t = SqlAt("plain", s.quote, s.part, s.current, closed)
  BY TokenParts
<1> HIDE DEF closed, t
<1>3. t.done = closed /\ t.current = s.current
  BY <1>2 DEF SqlAt
<1>4. TokenEnded(t) = SqlAt(t.mode, t.quote, t.part, <<>>,
              IF t.current = <<>> THEN t.done ELSE Append(t.done, t.current))
  BY <1>2, TokenParts
<1>5. TokenEnded(t).done = IF s.current = <<>> THEN closed ELSE Append(closed, s.current)
  BY <1>3, <1>4 DEF SqlAt
<1>6. TokenEnded(t).done \in TextLists
  BY <1>2, TokenParts, SqlFields
<1>7. QED
  BY <1>1, <1>3, <1>5, <1>6 DEF EndDone, closed, t

\* What is made of each of several texts, one after the other.
Over(tok, raws) == FlattenSeq([k \in DOMAIN raws |-> tok[raws[k]]])

LEMMA OverAppend ==
  ASSUME NEW tok \in [Texts -> TextLists]
  PROVE  /\ Over(tok, <<>>) = <<>>
         /\ \A raws \in TextLists : Over(tok, raws) \in TextLists
         /\ \A raws \in TextLists, u \in Texts :
              Over(tok, Append(raws, u)) = Over(tok, raws) \o tok[u]
<1>1. \A u \in Texts : tok[u] \in TextLists
  OBVIOUS
<1>2. ASSUME NEW raws \in TextLists
      PROVE  [k \in DOMAIN raws |-> tok[raws[k]]] \in Seq(TextLists)
  <2>1. \A k \in DOMAIN raws : raws[k] \in Texts
    BY DEF TextLists
  <2>2. DOMAIN raws = 1..Len(raws) /\ Len(raws) \in Nat
    BY DEF TextLists
  <2>3. QED
    BY <1>1, <2>1, <2>2
<1>3. Over(tok, <<>>) = <<>>
  <2>1. [k \in DOMAIN <<>> |-> tok[<<>>[k]]] = <<>>
    OBVIOUS
  <2>2. QED
    BY <2>1, FlattenEmpty DEF Over
<1>4. ASSUME NEW raws \in TextLists
      PROVE  Over(tok, raws) \in TextLists
  <2>1. [k \in DOMAIN raws |-> tok[raws[k]]] \in Seq(Seq(Texts))
    BY <1>2 DEF TextLists
  <2>2. FlattenSeq([k \in DOMAIN raws |-> tok[raws[k]]]) \in Seq(Texts)
    BY <2>1, FlattenType
  <2>3. QED
    BY <2>2 DEF Over, TextLists
<1>5. ASSUME NEW raws \in TextLists, NEW u \in Texts
      PROVE  Over(tok, Append(raws, u)) = Over(tok, raws) \o tok[u]
  <2> DEFINE old == [k \in DOMAIN raws |-> tok[raws[k]]]
             more == Append(raws, u)
             new == [k \in DOMAIN more |-> tok[more[k]]]
  <2>1. old \in Seq(TextLists)
    BY <1>2
  <2>2. new = Append(old, tok[u])
    <3>1. /\ DOMAIN raws = 1..Len(raws) /\ Len(raws) \in Nat
          /\ DOMAIN more = 1..(Len(raws) + 1) /\ more[Len(raws) + 1] = u
          /\ \A k \in 1..Len(raws) : more[k] = raws[k]
      BY DEF TextLists
    <3>2. Len(old) = Len(raws) /\ DOMAIN old = 1..Len(raws)
      BY <3>1
    <3> HIDE DEF more
    <3>3. /\ Append(old, tok[u]) \in Seq(TextLists) /\ new \in Seq(TextLists)
          /\ Len(Append(old, tok[u])) = Len(raws) + 1 /\ Len(new) = Len(raws) + 1
      <4>1. Append(old, tok[u]) \in Seq(TextLists) /\ Len(Append(old, tok[u])) = Len(raws) + 1
        BY <1>1, <2>1, <3>1, <3>2
      <4>2. \A k \in DOMAIN more : more[k] \in Texts
        <5>1. \A k \in 1..Len(raws) : raws[k] \in Texts
          BY DEF TextLists
        <5>2. \A k \in DOMAIN more : k \in 1..Len(raws) \/ k = Len(raws) + 1
          BY <3>1
        <5>3. QED
          BY <3>1, <5>1, <5>2
      <4>3. \A k \in 1..(Len(raws) + 1) : tok[more[k]] \in TextLists
        BY <1>1, <3>1, <4>2
      <4>4. new \in Seq(TextLists) /\ Len(new) = Len(raws) + 1
        BY <3>1, <4>3
      <4>5. QED
        BY <4>1, <4>4
    <3>4. \A k \in 1..(Len(raws) + 1) : new[k] = Append(old, tok[u])[k]
      BY <2>1, <3>1, <3>2
    <3> DEFINE longer == Append(old, tok[u])
    <3> HIDE DEF longer, new, old
    <3>5. new = longer
      <4>1. /\ longer \in Seq(TextLists) /\ new \in Seq(TextLists)
            /\ Len(longer) = Len(new) /\ Len(new) = Len(raws) + 1
        BY <3>3 DEF longer
      <4>2. \A k \in 1..Len(new) : new[k] = longer[k]
        BY <3>4, <4>1 DEF longer
      <4>3. QED
        BY <4>1, <4>2, SeqEqual
    <3>6. QED
      BY <3>5 DEF longer
  <2>3. old \in Seq(Seq(Texts)) /\ tok[u] \in Seq(Texts)
    BY <1>1, <2>1 DEF TextLists
  <2>4. Over(tok, more) = FlattenSeq(new) /\ Over(tok, raws) = FlattenSeq(old)
    BY DEF Over
  <2> HIDE DEF old, new
  <2>5. FlattenSeq(new) = FlattenSeq(old) \o tok[u]
    BY <2>2, <2>3, FlattenAppend
  <2>6. QED
    BY <2>4, <2>5
<1>6. QED
  BY <1>3, <1>4, <1>5

\* The tokens of texts, one after the other.
Flat(raws) == FlattenSeq([k \in DOMAIN raws |-> SqlTokens(raws[k]).tokens])

LEMMA TokensOf ==
  ASSUME NEW u \in Texts
  PROVE  /\ SqlTokens(u).ok = SqlRead(Lexed(u))
         /\ SqlTokens(u).tokens = EndDone(Lexed(u)) /\ EndDone(Lexed(u)) \in TextLists
<1>1. Lexed(u) \in SqlState
  BY LexedSteps DEF SqlSound
<1>2. QED
  BY <1>1, EndDoneOf DEF SqlTokens, TokensAt, Lexed, EndDone

LEMMA FlatAppend ==
  /\ Flat(<<>>) = <<>>
  /\ \A raws \in TextLists : Flat(raws) \in TextLists
  /\ \A raws \in TextLists, u \in Texts :
       Flat(Append(raws, u)) = Flat(raws) \o EndDone(Lexed(u))
<1> DEFINE tok == [u \in Texts |-> SqlTokens(u).tokens]
<1>1. tok \in [Texts -> TextLists] /\ \A u \in Texts : tok[u] = EndDone(Lexed(u))
  BY TokensOf
<1>2. ASSUME NEW raws \in TextLists PROVE Flat(raws) = Over(tok, raws)
  <2>1. \A k \in DOMAIN raws : raws[k] \in Texts
    BY DEF TextLists
  <2>2. [k \in DOMAIN raws |-> SqlTokens(raws[k]).tokens] = [k \in DOMAIN raws |-> tok[raws[k]]]
    BY <2>1
  <2>3. QED
    BY <2>2 DEF Flat, Over
<1> HIDE DEF tok
<1>3. Flat(<<>>) = <<>>
  BY <1>1, <1>2, OverAppend, TextFacts
<1>4. ASSUME NEW raws \in TextLists PROVE Flat(raws) \in TextLists
  BY <1>1, <1>2, OverAppend
<1>5. ASSUME NEW raws \in TextLists, NEW u \in Texts
      PROVE  Flat(Append(raws, u)) = Flat(raws) \o EndDone(Lexed(u))
  <2>1. Append(raws, u) \in TextLists
    BY TextFacts
  <2>2. Over(tok, Append(raws, u)) = Over(tok, raws) \o tok[u]
    BY <1>1, OverAppend
  <2>3. QED
    BY <1>1, <1>2, <2>1, <2>2
<1>6. QED
  BY <1>3, <1>4, <1>5

\* Two readings of the same kind of part.
Same(s, r) == s.mode = r.mode /\ s.quote = r.quote /\ s.part = r.part

\* A run that is where another one is, with more done before.
Behind(b, f, done) ==
  /\ b.current = f.current /\ b.done = done \o f.done
  /\ b.mode = "closed" <=> f.mode = "closed"
  /\ b.mode = "closed" => b.part = f.part

LEMMA BehindEnd ==
  ASSUME NEW b \in SqlState, NEW f \in SqlState, NEW done \in TextLists, Behind(b, f, done)
  PROVE  /\ EndDone(b) = done \o EndDone(f)
         /\ TokenClosed(b).done = done \o TokenClosed(f).done
<1> DEFINE cb == TokenClosed(b).done
           cf == TokenClosed(f).done
<1>1. /\ cb = IF b.mode = "closed" THEN Append(b.done, b.part) ELSE b.done
      /\ cf = IF f.mode = "closed" THEN Append(f.done, f.part) ELSE f.done
      /\ cf \in TextLists
      /\ EndDone(b) = IF b.current = <<>> THEN cb ELSE Append(cb, b.current)
      /\ EndDone(f) = IF f.current = <<>> THEN cf ELSE Append(cf, f.current)
  BY EndDoneOf
<1> HIDE DEF cb, cf
<1>2. f.done \in TextLists /\ f.part \in Texts /\ f.current \in Texts
  BY SqlFields
<1>3. \A l \in TextLists, u \in Texts : Append(done \o l, u) = done \o Append(l, u)
  BY BehindLists
<1>4. cb = done \o cf
  BY <1>1, <1>2, <1>3 DEF Behind
<1>5. EndDone(b) = done \o EndDone(f)
  BY <1>1, <1>2, <1>3, <1>4 DEF Behind
<1>6. QED
  BY <1>4, <1>5 DEF cb, cf

\* The same item outside of quotes and comments.
LEMMA BehindStep ==
  ASSUME NEW b \in SqlState, NEW f \in SqlState, NEW done \in TextLists, Behind(b, f, done),
         NEW c \in Items, ~Within(b, c), ~Within(f, c)
  PROVE  /\ Behind(TokenStep(b, c), TokenStep(f, c), done)
         /\ TokenStep(b, c).mode = Opening(c) /\ TokenStep(f, c).mode = Opening(c)
         /\ Opening(c) # "plain" => Same(TokenStep(b, c), TokenStep(f, c))
         /\ c \in Blanks => EndDone(TokenStep(f, c)) = EndDone(f)
<1> DEFINE b1 == TokenStep(b, c)
           f1 == TokenStep(f, c)
<1>1. EndDone(b) = done \o EndDone(f) /\ TokenClosed(b).done = done \o TokenClosed(f).done
  BY BehindEnd
<1>2. EndDone(f) \in TextLists /\ TokenClosed(f).done \in TextLists /\ <<c>> \in Texts
  BY EndDoneOf, TextFacts
<1>3. \A l \in TextLists, u \in Texts : Append(done \o l, u) = done \o Append(l, u)
  BY BehindLists
<1>4. b.current = f.current
  BY DEF Behind
<1>5. Opening(c) \in {"plain", "line", "block", "quoted"} /\ (c \in Blanks => Opening(c) = "plain")
  BY OpeningOf
<1>6. CASE Opening(c) # "plain"
  <2>1. /\ b1 = SqlAt(Opening(c), c, <<>>, <<>>, EndDone(b))
        /\ f1 = SqlAt(Opening(c), c, <<>>, <<>>, EndDone(f))
    BY <1>6, TokenStepParts DEF EndDone
  <2> HIDE DEF b1, f1
  <2>2. /\ b1.mode = Opening(c) /\ b1.quote = c /\ b1.part = <<>> /\ b1.current = <<>>
        /\ b1.done = done \o EndDone(f)
        /\ f1.mode = Opening(c) /\ f1.quote = c /\ f1.part = <<>> /\ f1.current = <<>>
        /\ f1.done = EndDone(f)
    BY <1>1, <2>1 DEF SqlAt
  <2>3. QED
    BY <1>5, <1>6, <2>2 DEF Behind, Same, b1, f1
<1>7. CASE Opening(c) = "plain" /\ c \in Blanks
  <2>1. /\ b1 = SqlAt("plain", b.quote, b.part, <<>>, EndDone(b))
        /\ f1 = SqlAt("plain", f.quote, f.part, <<>>, EndDone(f))
        /\ f1 \in SqlState
    BY <1>7, TokenStepParts DEF EndDone
  <2> HIDE DEF b1, f1
  <2>2. /\ b1.mode = "plain" /\ b1.current = <<>> /\ b1.done = done \o EndDone(f)
        /\ f1.mode = "plain" /\ f1.current = <<>> /\ f1.done = EndDone(f)
    BY <1>1, <2>1 DEF SqlAt
  <2>3. EndDone(f1) = EndDone(f)
    BY <2>1, <2>2, EndDoneOf
  <2>4. QED
    BY <1>7, <2>2, <2>3 DEF Behind, b1, f1
<1>8. CASE Opening(c) = "plain" /\ c \notin Blanks
  <2>1. /\ b1 = SqlAt("plain", b.quote, b.part,
                      IF c \in Punctuation THEN <<>> ELSE Append(b.current, c),
                      IF c \in Punctuation THEN Append(EndDone(b), <<c>>)
                      ELSE TokenClosed(b).done)
        /\ f1 = SqlAt("plain", f.quote, f.part,
                      IF c \in Punctuation THEN <<>> ELSE Append(f.current, c),
                      IF c \in Punctuation THEN Append(EndDone(f), <<c>>)
                      ELSE TokenClosed(f).done)
    BY <1>8, TokenStepParts DEF EndDone
  <2> HIDE DEF b1, f1
  <2>2. /\ b1.mode = "plain" /\ f1.mode = "plain" /\ b1.current = f1.current
        /\ b1.done = IF c \in Punctuation THEN Append(EndDone(b), <<c>>) ELSE TokenClosed(b).done
        /\ f1.done = IF c \in Punctuation THEN Append(EndDone(f), <<c>>) ELSE TokenClosed(f).done
    BY <1>4, <2>1 DEF SqlAt
  <2>3. b1.done = done \o f1.done
    BY <1>1, <1>2, <1>3, <2>2
  <2>4. QED
    BY <1>8, <2>2, <2>3 DEF Behind, b1, f1
<1>9. QED
  BY <1>6, <1>7, <1>8

LEMMA SameWithin ==
  ASSUME NEW s, NEW r, Same(s, r), NEW c
  PROVE  Within(s, c) <=> Within(r, c)
BY DEF Same, Within

\* What is begun or gone on with depends only on where the reading is.
LEMMA SameStep ==
  ASSUME NEW s \in SqlState, NEW r \in SqlState, Same(s, r), NEW c \in Items,
         s.mode = "closed" => s.quote \in Items
  PROVE  /\ Same(TokenStep(s, c), TokenStep(r, c)) /\ Same(StatementStep(s, c), TokenStep(r, c))
         /\ ~Within(r, c) => TokenStep(r, c).mode = Opening(c)
<1>1. Within(s, c) <=> Within(r, c)
  BY SameWithin
<1>2. s.mode = r.mode /\ s.quote = r.quote /\ s.part = r.part
  BY DEF Same
<1>3. CASE Within(s, c)
  <2>1. /\ TokenStep(s, c) = Inside(s, c) /\ StatementStep(s, c) = Inside(s, c)
        /\ TokenStep(r, c) = Inside(r, c)
    BY <1>1, <1>3, TokenStepParts, StatementStepParts
  <2>2. Same(Inside(s, c), Inside(r, c))
    <3>1. CASE s.mode = "quoted" /\ c = s.quote
      <4>1. /\ Inside(s, c) = SqlAt("closed", s.quote, s.part, s.current, s.done)
            /\ Inside(r, c) = SqlAt("closed", r.quote, r.part, r.current, r.done)
        BY <1>2, <3>1, InsideParts
      <4>2. QED
        BY <1>2, <4>1 DEF SqlAt, Same
    <3>2. CASE s.mode \in {"quoted", "closed"} /\ ~(s.mode = "quoted" /\ c = s.quote)
      <4> DEFINE more == Append(s.part, c)
      <4>1. /\ Inside(s, c) = SqlAt("quoted", s.quote, more, s.current, s.done)
            /\ Inside(r, c) = SqlAt("quoted", r.quote, more, r.current, r.done)
        BY <1>2, <3>2, InsideParts
      <4> HIDE DEF more
      <4>2. QED
        BY <1>2, <4>1 DEF SqlAt, Same
    <3>3. CASE s.mode \notin {"quoted", "closed"}
      BY <1>2, <3>3, InsideParts DEF SqlAt, Same
    <3>4. QED
      BY <3>1, <3>2, <3>3
  <2>3. QED
    BY <1>1, <1>3, <2>1, <2>2
<1>4. CASE ~Within(s, c)
  <2>1. /\ Opening(c) \in {"plain", "line", "block", "quoted"}
        /\ (c \in Blanks \/ c = Semicolon => Opening(c) = "plain")
    BY OpeningOf
  <2>2. /\ Opening(c) # "plain" =>
             TokenStep(s, c).mode = Opening(c) /\ TokenStep(s, c).quote = c
             /\ TokenStep(s, c).part = <<>>
        /\ Opening(c) = "plain" =>
             TokenStep(s, c).mode = "plain" /\ TokenStep(s, c).quote = s.quote
             /\ TokenStep(s, c).part = s.part
    BY <1>4, <2>1, TokenStepParts DEF SqlAt
  <2>3. /\ Opening(c) # "plain" =>
             TokenStep(r, c).mode = Opening(c) /\ TokenStep(r, c).quote = c
             /\ TokenStep(r, c).part = <<>>
        /\ Opening(c) = "plain" =>
             TokenStep(r, c).mode = "plain" /\ TokenStep(r, c).quote = r.quote
             /\ TokenStep(r, c).part = r.part
    BY <1>1, <1>4, <2>1, TokenStepParts DEF SqlAt
  <2>4. /\ Opening(c) # "plain" =>
             StatementStep(s, c).mode = Opening(c) /\ StatementStep(s, c).quote = c
             /\ StatementStep(s, c).part = <<>>
        /\ Opening(c) = "plain" =>
             StatementStep(s, c).mode = "plain" /\ StatementStep(s, c).quote = s.quote
             /\ StatementStep(s, c).part = s.part
    BY <1>4, <2>1, StatementStepParts DEF SqlAt
  <2>5. QED
    BY <1>2, <2>2, <2>3, <2>4 DEF Same
<1>5. QED
  BY <1>3, <1>4

\* What a statement holds, with the quoted part that is not in it yet.
Held(p) ==
  p.current \o IF p.mode = "quoted" THEN <<p.quote>> \o p.part
               ELSE IF p.mode = "closed" THEN Requoted(p.quote, p.part) ELSE <<>>

LEMMA HeldOf ==
  ASSUME NEW p \in SqlSound
  PROVE  /\ Held(p) \in Texts
         /\ p.mode \notin {"quoted", "closed"} => Held(p) = p.current
         /\ p.mode # "quoted" => StatementClosed(p).current = Held(p)
<1>1. p \in SqlState /\ (p.mode \in {"quoted", "closed"} => p.quote \in Items)
  BY SqlItems DEF SqlSound
<1>2. /\ p.current \in Texts /\ p.part \in Texts
      /\ p.mode \in {"quoted", "closed"} =>
           <<p.quote>> \o p.part \in Texts /\ Requoted(p.quote, p.part) \in Texts
  BY <1>1, SqlFields, TextFacts DEF Requoted
<1>3. p.current \o <<>> = p.current
  BY <1>2 DEF Texts
<1>4. Held(p) \in Texts
  BY <1>2, TextFacts DEF Held
<1>5. p.mode \notin {"quoted", "closed"} => Held(p) = p.current
  BY <1>3 DEF Held
<1>6. StatementClosed(p).current =
        IF p.mode = "closed" THEN p.current \o Requoted(p.quote, p.part) ELSE p.current
  BY <1>1 DEF StatementClosed, SqlState
<1>7. QED
  BY <1>3, <1>4, <1>5, <1>6 DEF Held

LEMMA HeldStep ==
  ASSUME NEW p \in SqlSound, NEW c \in Items
  PROVE  /\ p.mode = "quoted" => Held(StatementStep(p, c)) = Append(Held(p), c)
         /\ p.mode \in {"line", "block"} /\ Within(p, c) =>
              Held(StatementStep(p, c)) = Held(p)
         /\ ~Within(p, c) /\ Opening(c) = "quoted" =>
              Held(StatementStep(p, c)) = Append(Held(p), c)
         /\ ~Within(p, c) /\ Opening(c) \in {"line", "block"} =>
              Held(StatementStep(p, c)) = Append(Held(p), Space)
         /\ ~Within(p, c) /\ c = Semicolon => Held(StatementStep(p, c)) = <<>>
         /\ ~Within(p, c) /\ Opening(c) = "plain" /\ c # Semicolon =>
              Held(StatementStep(p, c)) = Append(Held(p), c)
<1> DEFINE p1 == StatementStep(p, c)
<1>1. p \in SqlState /\ (p.mode \in {"quoted", "closed"} => p.quote \in Items)
      /\ p.current \in Texts /\ p.part \in Texts /\ Held(p) \in Texts
  BY SqlItems, SqlFields, HeldOf DEF SqlSound
<1>2. p1 \in SqlSound
  BY SqlStepSound
<1>3. ASSUME p.mode = "quoted"
      PROVE  Held(p1) = Append(Held(p), c)
  <2>1. Held(p) = p.current \o (<<p.quote>> \o p.part)
    BY <1>3 DEF Held
  <2>2. p1 = Inside(p, c)
    BY <1>1, <1>3, StatementStepParts DEF Within
  <2>3. CASE c = p.quote
    <3>1. p1.mode = "closed" /\ p1.quote = p.quote /\ p1.part = p.part /\ p1.current = p.current
      BY <1>1, <1>3, <2>2, <2>3, InsideParts DEF SqlAt
    <3>2. Held(p1) = p.current \o (<<p.quote>> \o p.part \o <<c>>)
      BY <2>3, <3>1 DEF Held, Requoted
    <3> DEFINE w == <<p.quote>> \o p.part
    <3>3. w \in Seq(Items) /\ p.current \in Seq(Items)
      BY <1>1, <1>3 DEF Texts
    <3>4. Held(p) = p.current \o w /\ Held(p1) = p.current \o (w \o <<c>>)
      BY <2>1, <3>2
    <3> DEFINE a == p.current
    <3>5. a \in Seq(Items) /\ w \in Seq(Items)
      BY <3>3
    <3> HIDE DEF a, w
    <3>6. w \o <<c>> = Append(w, c)
      BY <3>5, AppendIsConcat
    <3>7. a \o Append(w, c) = Append(a \o w, c)
      BY <3>5, BehindAppend
    <3>8. QED
      BY <3>4, <3>6, <3>7 DEF a
  <2>4. CASE c # p.quote
    <3>1. p1 = SqlAt("quoted", p.quote, Append(p.part, c), p.current, p.done)
      BY <1>1, <1>3, <2>2, <2>4, InsideParts
    <3> HIDE DEF p1
    <3>2. p1.mode = "quoted" /\ p1.quote = p.quote /\ p1.part = Append(p.part, c)
          /\ p1.current = p.current
      BY <3>1 DEF SqlAt
    <3>3. Held(p1) = p.current \o (<<p.quote>> \o Append(p.part, c))
      BY <3>2 DEF Held
    <3> DEFINE w == <<p.quote>> \o p.part
    <3>4. w \in Seq(Items) /\ p.current \in Seq(Items) /\ p.part \in Seq(Items)
          /\ <<p.quote>> \in Seq(Items)
      BY <1>1, <1>3 DEF Texts
    <3>5. <<p.quote>> \o Append(p.part, c) = Append(w, c)
      BY <3>4
    <3>6. Held(p) = p.current \o w /\ Held(p1) = p.current \o Append(w, c)
      BY <2>1, <3>3, <3>5
    <3> DEFINE a == p.current
    <3>7. a \in Seq(Items) /\ w \in Seq(Items)
      BY <3>4
    <3> HIDE DEF a, w
    <3>8. a \o Append(w, c) = Append(a \o w, c)
      BY <3>7, BehindAppend
    <3>9. QED
      BY <3>6, <3>8 DEF a, p1
  <2>5. QED
    BY <2>3, <2>4
<1>4. ASSUME p.mode \in {"line", "block"}, Within(p, c)
      PROVE  Held(p1) = Held(p)
  <2>1. p1 = Inside(p, c)
    BY <1>1, <1>4, StatementStepParts
  <2>2. p1.mode \notin {"quoted", "closed"} /\ p1.current = p.current
    BY <1>1, <1>4, <2>1, InsideParts DEF SqlAt
  <2>3. QED
    BY <1>2, <1>4, <2>2, HeldOf
<1>5. ASSUME ~Within(p, c)
      PROVE  /\ Opening(c) = "quoted" => Held(p1) = Append(Held(p), c)
             /\ Opening(c) \in {"line", "block"} => Held(p1) = Append(Held(p), Space)
             /\ c = Semicolon => Held(p1) = <<>>
             /\ Opening(c) = "plain" /\ c # Semicolon => Held(p1) = Append(Held(p), c)
  <2>1. StatementClosed(p).current = Held(p)
    BY <1>5, HeldOf DEF Within
  <2>2. /\ Opening(c) = "quoted" => p1 = SqlAt("quoted", c, <<>>, Held(p), p.done)
        /\ Opening(c) \in {"line", "block"} =>
             p1 = SqlAt(Opening(c), c, <<>>, Append(Held(p), Space), p.done)
        /\ c = Semicolon =>
             p1 = SqlAt("plain", p.quote, p.part, <<>>,
                        IF Stripped(Held(p)) = <<>> THEN p.done
                        ELSE Append(p.done, Stripped(Held(p))))
        /\ Opening(c) = "plain" /\ c # Semicolon =>
             p1 = SqlAt("plain", p.quote, p.part, Append(Held(p), c), p.done)
    BY <1>1, <1>5, <2>1, StatementStepParts
  <2> HIDE DEF p1
  <2>3. ASSUME Opening(c) = "quoted" PROVE Held(p1) = Append(Held(p), c)
    <3>1. p1.mode = "quoted" /\ p1.quote = c /\ p1.part = <<>> /\ p1.current = Held(p)
      BY <2>2, <2>3 DEF SqlAt
    <3> DEFINE h == Held(p)
    <3>2. h \in Seq(Items)
      BY <1>1 DEF Texts
    <3> HIDE DEF h
    <3>3. h \o (<<c>> \o <<>>) = Append(h, c)
      BY <3>2
    <3>4. Held(p1) = h \o (<<c>> \o <<>>)
      BY <3>1 DEF Held, h
    <3>5. QED
      BY <3>3, <3>4 DEF h
  <2>4. ASSUME Opening(c) \in {"line", "block"} PROVE Held(p1) = Append(Held(p), Space)
    <3>1. p1.mode \notin {"quoted", "closed"} /\ p1.current = Append(Held(p), Space)
      BY <2>2, <2>4 DEF SqlAt
    <3>2. QED
      BY <1>2, <3>1, HeldOf DEF p1
  <2>5. ASSUME c = Semicolon PROVE Held(p1) = <<>>
    <3>1. p1.mode \notin {"quoted", "closed"} /\ p1.current = <<>>
      BY <2>2, <2>5 DEF SqlAt
    <3>2. QED
      BY <1>2, <3>1, HeldOf DEF p1
  <2>6. ASSUME Opening(c) = "plain", c # Semicolon PROVE Held(p1) = Append(Held(p), c)
    <3>1. p1.mode \notin {"quoted", "closed"} /\ p1.current = Append(Held(p), c)
      BY <2>2, <2>6 DEF SqlAt
    <3>2. QED
      BY <1>2, <3>1, HeldOf DEF p1
  <2>7. QED
    BY <2>3, <2>4, <2>5, <2>6
<1>6. QED
  BY <1>3, <1>4, <1>5

LEMMA LexedLed ==
  ASSUME NEW u \in Texts, NEW c \in Items
  PROVE  /\ Lexed(Led(Append(u, c))) = TokenStep(Lexed(Led(u)), c)
         /\ Lexed(Stripped(Append(u, c))) =
              IF c \in Blanks THEN Lexed(Stripped(u)) ELSE TokenStep(Lexed(Led(u)), c)
<1>1. /\ Led(u) \in Texts
      /\ Led(Append(u, c)) = IF c \in Blanks /\ Led(u) = <<>> THEN <<>> ELSE Append(Led(u), c)
      /\ Stripped(Append(u, c)) = IF c \in Blanks THEN Stripped(u) ELSE Append(Led(u), c)
  BY LedAppend, StrippedAppend DEF Texts
<1>2. Lexed(Append(Led(u), c)) = TokenStep(Lexed(Led(u)), c)
  BY <1>1, LexedSteps
<1>3. c \in Blanks => TokenStep(SqlStart, c) = SqlStart
  <2>1. /\ SqlStart.mode = "plain" /\ SqlStart.quote = "none" /\ SqlStart.part = <<>>
        /\ SqlStart.current = <<>> /\ SqlStart.done = <<>>
        /\ SqlStart = SqlAt("plain", "none", <<>>, <<>>, <<>>)
    BY DEF SqlStart, SqlAt
  <2>2. EndDone(SqlStart) = <<>>
    BY <2>1, SqlStartType, EndDoneOf
  <2>3. c \in Blanks => ~Within(SqlStart, c)
    BY <2>1 DEF Within
  <2>4. c \in Blanks => TokenStep(SqlStart, c) =
          SqlAt("plain", SqlStart.quote, SqlStart.part, <<>>, EndDone(SqlStart))
    BY <2>3, SqlStartType, TokenStepParts DEF EndDone
  <2>5. QED
    BY <2>1, <2>2, <2>4
<1>4. QED
  BY <1>1, <1>2, <1>3, LexedSteps

\* How split_statements (p) and tokenize stand to each other after the same items, the
\* latter over the text (t) and over it with blanks for the semicolons that separate (b):
\* they are in the same kind of part, and b is where a tokenize that was begun at the
\* statement (f) is, behind the tokens of the statements that are done.  Blanks at the
\* statement's end make no difference (g), and every statement that is done is readable.
SqlKeeps(p, t, b) ==
  LET f == Lexed(Led(Held(p)))
      g == Lexed(Stripped(Held(p)))
  IN /\ Same(p, t) /\ Same(p, b)
     /\ Behind(b, f, Flat(p.done))
     /\ p.mode \in {"quoted", "closed"} => Same(p, f)
     /\ p.mode \notin {"quoted", "closed"} => f.mode = "plain"
     /\ p.mode # "quoted" => g.mode \in {"plain", "closed"} /\ EndDone(g) = EndDone(f)
     /\ \A k \in DOMAIN p.done : SqlRead(Lexed(p.done[k]))

LEMMA SqlKeepsStart == SqlKeeps(SqlStart, SqlStart, SqlStart)
<1>1. Held(SqlStart) = <<>>
  <2>1. SqlStart.mode = "plain" /\ SqlStart.current = <<>>
    BY DEF SqlStart
  <2>2. QED
    BY <2>1, SqlStepSound, HeldOf
<1>2. Lexed(Led(<<>>)) = SqlStart /\ Lexed(Stripped(<<>>)) = SqlStart
  BY LedEmpty, LexedSteps
<1>3. /\ SqlStart.mode = "plain" /\ SqlStart.done = <<>> /\ SqlStart.current = <<>>
      /\ DOMAIN SqlStart.done = {}
  BY DEF SqlStart
<1>4. Flat(<<>>) = <<>> /\ <<>> \o <<>> = <<>>
  BY FlatAppend
<1>5. QED
  BY <1>1, <1>2, <1>3, <1>4 DEF SqlKeeps, Same, Behind

\* The statement that a semicolon or the end of the text completes.
LEMMA StatementDone ==
  ASSUME NEW p \in SqlSound, NEW t \in SqlSound, NEW b \in SqlSound, SqlKeeps(p, t, b),
         p.mode # "quoted"
  PROVE  LET held == Stripped(Held(p))
             done == IF held = <<>> THEN p.done ELSE Append(p.done, held)
         IN /\ done \in TextLists /\ Flat(done) = EndDone(b)
            /\ \A k \in DOMAIN done : SqlRead(Lexed(done[k]))
<1> DEFINE held == Stripped(Held(p))
           f == Lexed(Led(Held(p)))
           g == Lexed(held)
<1>1. held \in Texts /\ Led(Held(p)) \in Texts /\ p.done \in TextLists /\ b \in SqlState
  BY HeldOf, TextFacts, SqlFields DEF SqlSound
<1>2. /\ Behind(b, f, Flat(p.done)) /\ g.mode \in {"plain", "closed"} /\ EndDone(g) = EndDone(f)
      /\ \A k \in DOMAIN p.done : SqlRead(Lexed(p.done[k]))
  BY DEF SqlKeeps
<1>3. f \in SqlState /\ Flat(p.done) \in TextLists
  BY <1>1, LexedSteps, FlatAppend DEF SqlSound
<1> HIDE DEF f
<1>4. EndDone(b) = Flat(p.done) \o EndDone(g)
  BY <1>1, <1>2, <1>3, BehindEnd
<1> HIDE DEF held
<1>5. CASE held = <<>>
  <2>1. g = SqlStart
    BY <1>5, LexedSteps
  <2>2. EndDone(SqlStart) = <<>>
    <3>1. SqlStart.mode = "plain" /\ SqlStart.current = <<>> /\ SqlStart.done = <<>>
      BY DEF SqlStart
    <3>2. QED
      BY <3>1, SqlStartType, EndDoneOf
  <2>3. Flat(p.done) \o <<>> = Flat(p.done)
    BY <1>3 DEF TextLists
  <2>4. QED
    BY <1>1, <1>2, <1>4, <1>5, <2>1, <2>2, <2>3 DEF held
<1>6. CASE held # <<>>
  <2> DEFINE done == Append(p.done, held)
  <2>1. done \in TextLists /\ Flat(done) = EndDone(b)
    BY <1>1, <1>4, FlatAppend, TextFacts
  <2>2. ASSUME NEW k \in DOMAIN done PROVE SqlRead(Lexed(done[k]))
    <3>1. (k \in DOMAIN p.done /\ done[k] = p.done[k]) \/ done[k] = held
      BY <1>1 DEF TextLists
    <3>2. SqlRead(g)
      BY <1>2 DEF SqlRead
    <3>3. QED
      BY <1>2, <3>1, <3>2
  <2>3. QED
    BY <1>6, <2>1, <2>2 DEF held
<1>7. QED
  BY <1>5, <1>6

LEMMA SqlKeepsStep ==
  ASSUME NEW p \in SqlSound, NEW t \in SqlSound, NEW b \in SqlSound, SqlKeeps(p, t, b),
         NEW c \in Items, ~(t.mode = "closed" /\ c = t.quote),
         NEW d, d = IF c = Semicolon /\ ~Within(t, Semicolon) THEN Space ELSE c
  PROVE  SqlKeeps(StatementStep(p, c), TokenStep(t, c), TokenStep(b, d))
<1> DEFINE held == Held(p)
           f == Lexed(Led(held))
           g == Lexed(Stripped(held))
           p1 == StatementStep(p, c)
           b1 == TokenStep(b, d)
           f1 == Lexed(Led(Held(p1)))
           g1 == Lexed(Stripped(Held(p1)))
<1>1. /\ p \in SqlState /\ t \in SqlState /\ b \in SqlState
      /\ (p.mode \in {"quoted", "closed"} => p.quote \in Quotes)
      /\ (p.mode = "closed" => p.quote \in Items)
  BY SqlItems DEF SqlSound
<1>2. held \in Texts /\ Led(held) \in Texts /\ Stripped(held) \in Texts
  BY HeldOf, TextFacts
<1>3. /\ Same(p, t) /\ Same(p, b)
      /\ Behind(b, f, Flat(p.done))
      /\ p.mode \in {"quoted", "closed"} => Same(p, f)
      /\ p.mode \notin {"quoted", "closed"} => f.mode = "plain"
      /\ p.mode # "quoted" => g.mode \in {"plain", "closed"} /\ EndDone(g) = EndDone(f)
      /\ \A k \in DOMAIN p.done : SqlRead(Lexed(p.done[k]))
  BY DEF SqlKeeps
<1>4. f \in SqlState /\ p.done \in TextLists /\ Flat(p.done) \in TextLists
  BY <1>1, <1>2, LexedSteps, FlatAppend, SqlFields DEF SqlSound
<1>5. d \in Items /\ (Within(p, c) => d = c) /\ (c # Semicolon => d = c)
      /\ (c = Semicolon /\ ~Within(p, c) => d = Space)
      /\ (Within(p, c) <=> Within(t, c)) /\ (Within(p, c) <=> Within(b, c))
  BY <1>3, SameWithin, SqlItems
<1>6. Same(p1, TokenStep(t, c)) /\ Same(p1, TokenStep(b, c))
  BY <1>1, <1>3, SameStep
<1>7. p1 \in SqlSound
  BY SqlStepSound
<1>8. ASSUME NEW x \in Items
      PROVE  /\ Lexed(Led(Append(held, x))) = TokenStep(f, x)
             /\ Lexed(Stripped(Append(held, x))) = IF x \in Blanks THEN g ELSE TokenStep(f, x)
  BY <1>2, LexedLed
<1> HIDE DEF held, f, g
<1>9. SUFFICES /\ Same(p1, b1) /\ Behind(b1, f1, Flat(p1.done))
               /\ p1.mode \in {"quoted", "closed"} => Same(p1, f1)
               /\ p1.mode \notin {"quoted", "closed"} => f1.mode = "plain"
               /\ p1.mode # "quoted" => g1.mode \in {"plain", "closed"} /\ EndDone(g1) = EndDone(f1)
               /\ \A k \in DOMAIN p1.done : SqlRead(Lexed(p1.done[k]))
  BY <1>6 DEF SqlKeeps
<1>10. CASE Within(p, c) /\ p.mode \in {"quoted", "closed"}
  <2>1. p.mode = "quoted"
    BY <1>3, <1>5, <1>10 DEF Same, Within
  <2>2. Held(p1) = Append(held, c)
    BY <2>1, HeldStep DEF held
  <2>3. f1 = TokenStep(f, c) /\ (c \notin Blanks => g1 = f1)
    BY <1>8, <2>2
  <2>4. p1 = Inside(p, c) /\ b1 = Inside(b, c)
    BY <1>1, <1>5, <1>10, StatementStepParts, TokenStepParts
  <2>5. f1 = Inside(f, c)
    <3>1. Within(f, c)
      BY <1>3, <1>10, SameWithin
    <3>2. QED
      BY <1>4, <2>3, <3>1, TokenStepParts
  <2>6. p.mode = "quoted" /\ b.mode = "quoted" /\ f.mode = "quoted" /\ b.quote = p.quote
        /\ f.quote = p.quote /\ b.part = p.part /\ f.part = p.part /\ b.current = f.current
        /\ b.done = Flat(p.done) \o f.done
    BY <1>3, <2>1 DEF Same, Behind
  <2>7. CASE c = p.quote
    <3>1. /\ p1 = SqlAt("closed", p.quote, p.part, p.current, p.done)
          /\ b1 = SqlAt("closed", b.quote, b.part, b.current, b.done)
          /\ f1 = SqlAt("closed", f.quote, f.part, f.current, f.done)
      BY <1>1, <1>4, <2>4, <2>5, <2>6, <2>7, InsideParts
    <3> HIDE DEF p1, b1, f1, g1
    <3>2. /\ p1.mode = "closed" /\ p1.quote = p.quote /\ p1.part = p.part /\ p1.done = p.done
          /\ b1.mode = "closed" /\ b1.quote = p.quote /\ b1.part = p.part
          /\ b1.current = b.current /\ b1.done = b.done
          /\ f1.mode = "closed" /\ f1.quote = p.quote /\ f1.part = p.part
          /\ f1.current = f.current /\ f1.done = f.done
      BY <2>6, <3>1 DEF SqlAt
    <3>3. g1 = f1
      BY <1>1, <2>1, <2>3, <2>7, SpaceIsBlank
    <3>4. QED
      BY <1>3, <2>6, <3>2, <3>3 DEF Same, Behind
  <2>8. CASE c # p.quote
    <3> DEFINE more == Append(p.part, c)
    <3>1. /\ p1 = SqlAt("quoted", p.quote, more, p.current, p.done)
          /\ b1 = SqlAt("quoted", b.quote, more, b.current, b.done)
          /\ f1 = SqlAt("quoted", f.quote, more, f.current, f.done)
      BY <1>1, <1>4, <2>4, <2>5, <2>6, <2>8, InsideParts
    <3> HIDE DEF p1, b1, f1, g1, more
    <3>2. /\ p1.mode = "quoted" /\ p1.quote = p.quote /\ p1.part = more /\ p1.done = p.done
          /\ b1.mode = "quoted" /\ b1.quote = p.quote /\ b1.part = more
          /\ b1.current = b.current /\ b1.done = b.done
          /\ f1.mode = "quoted" /\ f1.quote = p.quote /\ f1.part = more
          /\ f1.current = f.current /\ f1.done = f.done
      BY <2>6, <3>1 DEF SqlAt
    <3>3. QED
      BY <1>3, <2>6, <3>2 DEF Same, Behind
  <2>9. QED
    BY <2>7, <2>8
<1>11. CASE Within(p, c) /\ p.mode \notin {"quoted", "closed"}
  <2>1. p.mode \in {"line", "block"} /\ b.mode = p.mode
    BY <1>3, <1>11 DEF Within, Same
  <2>2. Held(p1) = held
    BY <1>11, <2>1, HeldStep DEF held
  <2>3. f1 = f /\ g1 = g
    BY <2>2 DEF f, g
  <2>4. p1 = Inside(p, c) /\ b1 = Inside(b, c)
    BY <1>1, <1>5, <1>11, StatementStepParts, TokenStepParts
  <2>5. p1.mode \notin {"quoted", "closed"} /\ p1.done = p.done
    BY <1>1, <1>11, <2>1, <2>4, InsideParts DEF SqlAt
  <2>6. b1.mode \notin {"quoted", "closed"} /\ b1.current = b.current /\ b1.done = b.done
    BY <1>1, <2>1, <2>4, InsideParts DEF SqlAt
  <2>7. Same(p1, b1)
    BY <1>5, <1>6, <1>11
  <2> HIDE DEF p1, b1, f1, g1
  <2>8. QED
    BY <1>3, <1>11, <2>1, <2>3, <2>5, <2>6, <2>7 DEF Behind
<1>12. CASE ~Within(p, c)
  <2>1. p.mode # "quoted" /\ ~Within(b, c)
    BY <1>5, <1>12 DEF Within
  <2>2. ~Within(f, c)
    BY <1>3, <1>12, SameWithin DEF Within
  <2>3. CASE Opening(c) = "quoted"
    <3>1. c # Semicolon /\ c \notin Blanks
      BY <2>3, OpeningOf
    <3>2. Held(p1) = Append(held, c)
      BY <1>12, <2>3, HeldStep DEF held
    <3>3. f1 = TokenStep(f, c)
      BY <1>8, <3>2
    <3>4. b1 = TokenStep(b, c)
      BY <1>5, <3>1
    <3>5. Behind(b1, f1, Flat(p.done)) /\ Same(b1, f1)
      BY <1>1, <1>3, <1>4, <2>1, <2>2, <2>3, <3>3, <3>4, BehindStep
    <3>6. p1.mode = "quoted" /\ p1.done = p.done
      BY <1>1, <1>12, <2>3, StatementStepParts DEF SqlAt
    <3>7. Same(p1, b1)
      BY <1>6, <3>4
    <3> HIDE DEF p1, b1, f1, g1
    <3>8. QED
      BY <1>3, <3>5, <3>6, <3>7 DEF Same
  <2>4. CASE Opening(c) \in {"line", "block"}
    <3>1. c # Semicolon /\ c \notin Blanks
      BY <2>4, OpeningOf
    <3>2. Held(p1) = Append(held, Space)
      BY <1>12, <2>4, HeldStep DEF held
    <3>3. f1 = TokenStep(f, Space) /\ g1 = g
      BY <1>8, <3>2, SqlItems, SpaceIsBlank
    <3>4. b1 = TokenStep(b, c)
      BY <1>5, <3>1
    <3>5. b1 = SqlAt(Opening(c), c, <<>>, <<>>, EndDone(b))
      BY <1>1, <2>1, <2>4, <3>4, TokenStepParts DEF EndDone
    <3>6. f1 = SqlAt("plain", f.quote, f.part, <<>>, EndDone(f)) /\ EndDone(f1) = EndDone(f)
      <4>1. ~Within(f, Space)
        <5>1. p.mode = "closed" => p.quote # Space
          BY <1>1, SpaceIsBlank
        <5>2. CASE p.mode = "closed"
          BY <1>3, <5>1, <5>2 DEF Same, Within
        <5>3. CASE p.mode # "closed"
          BY <1>3, <2>1, <5>3 DEF Within
        <5>4. QED
          BY <5>2, <5>3
      <4>2. f1 = SqlAt("plain", f.quote, f.part, <<>>, EndDone(f))
        BY <1>4, <3>3, <4>1, SqlItems, SpaceIsBlank, TokenStepParts DEF EndDone
      <4>3. f1 \in SqlState
        BY <1>4, <3>3, SqlItems, TokenStepParts
      <4> HIDE DEF f1
      <4>4. f1.mode = "plain" /\ f1.current = <<>> /\ f1.done = EndDone(f)
        BY <4>2 DEF SqlAt
      <4>5. EndDone(f1) = EndDone(f)
        BY <4>3, <4>4, EndDoneOf
      <4>6. QED
        BY <4>2, <4>5
    <3>7. EndDone(b) = Flat(p.done) \o EndDone(f)
      BY <1>1, <1>3, <1>4, BehindEnd
    <3>8. p1.mode = Opening(c) /\ p1.done = p.done
      BY <1>1, <1>12, <2>4, StatementStepParts DEF SqlAt
    <3>9. Same(p1, b1)
      BY <1>6, <3>4
    <3> HIDE DEF p1, b1, f1, g1
    <3>10. /\ b1.mode = Opening(c) /\ b1.current = <<>> /\ b1.done = EndDone(b)
           /\ f1.mode = "plain" /\ f1.current = <<>> /\ f1.done = EndDone(f)
      BY <3>5, <3>6 DEF SqlAt
    <3>11. Behind(b1, f1, Flat(p1.done))
      BY <2>4, <3>7, <3>8, <3>10 DEF Behind
    <3>12. QED
      BY <1>3, <2>1, <2>4, <3>3, <3>6, <3>8, <3>9, <3>10, <3>11
  <2>5. CASE c = Semicolon
    <3> DEFINE done == IF Stripped(held) = <<>> THEN p.done ELSE Append(p.done, Stripped(held))
    <3>1. done \in TextLists /\ Flat(done) = EndDone(b) /\ \A k \in DOMAIN done : SqlRead(Lexed(done[k]))
      BY <2>1, StatementDone DEF held
    <3>2. Held(p1) = <<>>
      BY <1>12, <2>5, HeldStep
    <3>3. f1 = SqlStart /\ g1 = SqlStart
      BY <3>2, LedEmpty, LexedSteps
    <3>4. b1 = TokenStep(b, Space)
      BY <1>5, <1>12, <2>5
    <3>5. ~Within(b, Space)
      <4>1. p.mode = "closed" => p.quote # Space
        BY <1>1, SpaceIsBlank
      <4>2. p.mode = "line" => FALSE
        <5>1. Semicolon # "nl"
          BY Zenon DEF Semicolon
        <5>2. QED
          BY <1>12, <2>5, <5>1 DEF Within
      <4>3. p.mode # "block"
        BY <1>12 DEF Within
      <4>4. QED
        BY <1>3, <2>1, <4>1, <4>2, <4>3 DEF Same, Within
    <3>6. b1 = SqlAt("plain", b.quote, b.part, <<>>, EndDone(b))
      BY <1>1, <3>4, <3>5, SqlItems, SpaceIsBlank, TokenStepParts DEF EndDone
    <3>7. p1 = SqlAt("plain", p.quote, p.part, <<>>, done)
      <4>1. StatementClosed(p).current = held
        BY <2>1, HeldOf DEF held
      <4>2. QED
        BY <1>1, <1>12, <2>5, <4>1, StatementStepParts
    <3> HIDE DEF p1, b1, f1, g1, done
    <3>8. /\ p1.mode = "plain" /\ p1.quote = p.quote /\ p1.part = p.part /\ p1.done = done
          /\ b1.mode = "plain" /\ b1.quote = b.quote /\ b1.part = b.part /\ b1.current = <<>>
          /\ b1.done = EndDone(b)
      BY <3>6, <3>7 DEF SqlAt
    <3>9. SqlStart.mode = "plain" /\ SqlStart.current = <<>> /\ SqlStart.done = <<>>
      BY DEF SqlStart
    <3>10. EndDone(b) = EndDone(b) \o <<>>
      <4>1. EndDone(b) \in TextLists
        BY <1>1, EndDoneOf
      <4>2. QED
        BY <4>1 DEF TextLists
    <3>11. Behind(b1, f1, Flat(p1.done))
      BY <3>1, <3>3, <3>8, <3>9, <3>10 DEF Behind
    <3>12. Same(p1, b1)
      BY <1>3, <3>8 DEF Same
    <3>13. QED
      BY <3>1, <3>3, <3>8, <3>9, <3>11, <3>12
  <2>6. CASE Opening(c) = "plain" /\ c # Semicolon
    <3>1. Held(p1) = Append(held, c)
      BY <1>12, <2>6, HeldStep DEF held
    <3>2. f1 = TokenStep(f, c) /\ g1 = IF c \in Blanks THEN g ELSE f1
      BY <1>8, <3>1
    <3>3. b1 = TokenStep(b, c)
      BY <1>5, <2>6
    <3>4. /\ Behind(b1, f1, Flat(p.done)) /\ f1.mode = "plain"
          /\ c \in Blanks => EndDone(f1) = EndDone(f)
      BY <1>1, <1>3, <1>4, <2>1, <2>2, <2>6, <3>2, <3>3, BehindStep
    <3>5. p1.mode = "plain" /\ p1.done = p.done
      BY <1>1, <1>12, <2>6, StatementStepParts DEF SqlAt
    <3>6. Same(p1, b1)
      BY <1>6, <3>3
    <3> HIDE DEF p1, b1, f1, g1
    <3>7. QED
      BY <1>3, <2>1, <3>2, <3>4, <3>5, <3>6
  <2>7. QED
    BY <2>3, <2>4, <2>5, <2>6, OpeningOf
<1>13. QED
  BY <1>10, <1>11, <1>12

LEMMA StatementsAgree ==
  ASSUME NEW u \in Texts, ~DoublesQuotes(u)
  PROVE  LET statements == Statements(u)
             reference  == ReferenceSql(u)
         IN /\ statements.ok <=> reference.ok
            /\ statements.ok => FlattenSeq(statements.tokens) = reference.tokens
<1> DEFINE n == Len(u)
           v == [i \in DOMAIN u |-> IF Separates(u, i) THEN Space ELSE u[i]]
           P == StatementStates(u)
           R == TokenStates(u)
           B == TokenStates(v)
<1>1. n \in Nat /\ DOMAIN u = 1..n /\ \A i \in 1..n : u[i] \in Items
  BY DEF Texts
<1>2. v \in Texts /\ Len(v) = n /\ \A i \in 1..n : v[i] = IF Separates(u, i) THEN Space ELSE u[i]
  BY <1>1, SqlItems DEF Texts
<1>3. /\ P \in [0..n -> SqlSound] /\ P[0] = SqlStart
      /\ \A i \in 1..n : P[i] = StatementStep(P[i - 1], u[i])
  BY StatementRuns
<1>4. /\ R \in [0..n -> SqlSound] /\ R[0] = SqlStart
      /\ \A i \in 1..n : R[i] = TokenStep(R[i - 1], u[i])
  BY TokenRuns
<1>5. \A i \in 1..n : ~(R[i - 1].mode = "closed" /\ u[i] = R[i - 1].quote)
  BY <1>1 DEF DoublesQuotes
<1>6. \A i \in 1..n : Separates(u, i) <=> (u[i] = Semicolon /\ ~Within(R[i - 1], Semicolon))
  BY DEF Separates
<1>7. Statements(u) = LET split == SplitStatements(P[n])
                      IN BuiltStatements(split, [i \in DOMAIN split.raws |-> SqlTokens(split.raws[i])])
  BY DEF Statements
<1>8. ReferenceSql(u) = SqlTokens(v)
  BY DEF ReferenceSql
<1> HIDE DEF n, v, P, R
<1>9. /\ B \in [0..n -> SqlSound] /\ B[0] = SqlStart
      /\ \A i \in 1..n : B[i] = TokenStep(B[i - 1], v[i])
  BY <1>2, TokenRuns
<1>10. B[n] = Lexed(v)
  BY <1>2 DEF Lexed
<1> HIDE DEF B
<1> DEFINE T == {i \in 0..n : SqlKeeps(P[i], R[i], B[i])}
<1>11. 0 \in T
  BY <1>1, <1>3, <1>4, <1>9, SqlKeepsStart
<1>12. ASSUME NEW i \in 1..n, i - 1 \in T
       PROVE  i \in T
  <2> DEFINE k == i - 1
  <2>1. k \in 0..n /\ i \in 0..n /\ SqlKeeps(P[k], R[k], B[k])
    BY <1>1, <1>12
  <2>2. /\ P[i] = StatementStep(P[k], u[i]) /\ R[i] = TokenStep(R[k], u[i])
        /\ B[i] = TokenStep(B[k], v[i])
    BY <1>3, <1>4, <1>9
  <2>3. /\ ~(R[k].mode = "closed" /\ u[i] = R[k].quote)
        /\ v[i] = IF u[i] = Semicolon /\ ~Within(R[k], Semicolon) THEN Space ELSE u[i]
    BY <1>2, <1>5, <1>6
  <2> HIDE DEF k
  <2>4. P[k] \in SqlSound /\ R[k] \in SqlSound /\ B[k] \in SqlSound /\ u[i] \in Items
    BY <1>1, <1>3, <1>4, <1>9, <2>1
  <2>5. SqlKeeps(P[i], R[i], B[i])
    BY <2>1, <2>2, <2>3, <2>4, SqlKeepsStep
  <2>6. QED
    BY <2>1, <2>5
<1> DEFINE p == P[n]
           b == B[n]
<1>13. SqlKeeps(p, R[n], b)
  <2> HIDE DEF T
  <2>1. \A i \in 0..n : i \in T
    BY <1>1, <1>11, <1>12, AllAlong
  <2>2. QED
    BY <1>1, <2>1 DEF T
<1>14. p \in SqlSound /\ R[n] \in SqlSound /\ b \in SqlSound /\ p \in SqlState
  BY <1>1, <1>3, <1>4, <1>9 DEF SqlSound
<1>15. ReferenceSql(u).ok = SqlRead(b) /\ ReferenceSql(u).tokens = EndDone(b)
  BY <1>2, <1>8, <1>10, TokensOf
<1>16. SqlRead(p) <=> SqlRead(b)
  BY <1>13 DEF SqlKeeps, Same, SqlRead
<1> DEFINE raws == StatementEnded(StatementClosed(p)).done
           lexed == [i \in DOMAIN raws |-> SqlTokens(raws[i])]
<1>17. /\ Statements(u).ok <=> SqlRead(p) /\ \A i \in DOMAIN lexed : lexed[i].ok
       /\ Statements(u).tokens = [i \in DOMAIN lexed |-> lexed[i].tokens]
  <2> DEFINE split == SplitStatements(p)
  <2>1. split.ok = SqlRead(p) /\ split.raws = raws
    BY DEF SplitStatements
  <2>2. Statements(u) = BuiltStatements(split, [i \in DOMAIN split.raws |-> SqlTokens(split.raws[i])])
    BY <1>7
  <2> HIDE DEF split, raws
  <2>3. Statements(u) = BuiltStatements(split, lexed)
    BY <2>1, <2>2
  <2> HIDE DEF lexed
  <2>4. Statements(u).ok = (split.ok /\ \A i \in DOMAIN lexed : lexed[i].ok)
    BY <2>3 DEF BuiltStatements
  <2>5. Statements(u).tokens = [i \in DOMAIN lexed |-> lexed[i].tokens]
    BY <2>3 DEF BuiltStatements
  <2>6. Statements(u).ok = (SqlRead(p) /\ \A i \in DOMAIN lexed : lexed[i].ok)
    BY <2>1, <2>4
  <2>7. QED
    BY <2>5, <2>6
<1> HIDE DEF p, b
<1>18. CASE SqlRead(p)
  <2>1. p.mode # "quoted"
    BY <1>18 DEF SqlRead
  <2> DEFINE held == Stripped(Held(p))
             done == IF held = <<>> THEN p.done ELSE Append(p.done, held)
  <2>2. done \in TextLists /\ Flat(done) = EndDone(b) /\ \A k \in DOMAIN done : SqlRead(Lexed(done[k]))
    BY <1>13, <1>14, <2>1, StatementDone
  <2>3. raws = done
    <3> DEFINE t == StatementClosed(p)
    <3>1. p.mode = "closed" => p.quote \in Items
      BY <1>14, SqlItems DEF SqlSound
    <3>2. t \in SqlState /\ t.mode = "plain" /\ t.done = p.done /\ t.current = Held(p)
      <4>1. t \in SqlState
        BY <1>14, <3>1, StatementParts
      <4>2. t.mode = "plain" /\ t.done = p.done
        BY <1>14 DEF StatementClosed, SqlState
      <4>3. QED
        BY <1>14, <2>1, <4>1, <4>2, HeldOf
    <3> HIDE DEF t
    <3>3. StatementEnded(t) = SqlAt(t.mode, t.quote, t.part, <<>>,
              IF Stripped(t.current) = <<>> THEN t.done
              ELSE Append(t.done, Stripped(t.current)))
      BY <3>2, StatementParts
    <3>4. QED
      BY <3>2, <3>3 DEF SqlAt, t
  <2> HIDE DEF done, raws
  <2>4. \A k \in DOMAIN raws : raws[k] \in Texts
    BY <2>2, <2>3 DEF TextLists
  <2>5. \A k \in DOMAIN raws : SqlTokens(raws[k]).ok
    BY <2>2, <2>3, <2>4, TokensOf
  <2>6. Statements(u).ok
    BY <1>17, <1>18, <2>5
  <2>7. FlattenSeq(Statements(u).tokens) = Flat(raws)
    <3>1. [i \in DOMAIN lexed |-> lexed[i].tokens] = [i \in DOMAIN raws |-> SqlTokens(raws[i]).tokens]
      OBVIOUS
    <3>2. QED
      BY <1>17, <3>1 DEF Flat
  <2>8. QED
    BY <1>15, <1>16, <1>18, <2>2, <2>3, <2>6, <2>7
<1>19. CASE ~SqlRead(p)
  BY <1>15, <1>16, <1>17, <1>19
<1>20. QED
  BY <1>18, <1>19

\* What is typed consists of the items that a text may have.
TextTyped == tongue \in Typed => text \in Texts

LEMMA TextTypedHolds == Spec => []TextTyped
<1>1. Init => TextTyped
  <2>1. <<>> \in Texts
    BY TextFacts
  <2>2. \A piece \in Pieces : piece.tongue \notin Typed
    BY InspectionConstants DEF SoundPiece, PieceType, Typed
  <2>3. "path" \notin Typed
    BY DEF Typed
  <2>4. QED
    BY <2>1, <2>2, <2>3 DEF Init, TextTyped
<1>2. TextTyped /\ [Next]_vars => TextTyped'
  <2> SUFFICES ASSUME TextTyped, [Next]_vars, tongue' \in Typed
               PROVE  text' \in Texts
    BY DEF TextTyped
  <2>1. CASE \E t \in Typed : \E c \in Alphabet[t] : Type(c)
    <3>1. PICK t \in Typed : \E c \in Alphabet[t] : Type(c)
      BY <2>1
    <3>2. PICK c \in Alphabet[t] : Type(c)
      BY <3>1
    <3>3. tongue \in Typed /\ text' = Append(text, c) /\ text \in Texts
      BY <3>2 DEF Type, TextTyped
    <3>4. c \in Items
      BY <3>1, <3>2 DEF Typed, Items
    <3>5. QED
      BY <3>3, <3>4, TextFacts
  <2>2. CASE UNCHANGED vars
    BY <2>2 DEF TextTyped, vars
  <2>3. CASE tongue \notin Typed /\ Next
    BY <2>3 DEF Next, Type, Descend, Follow, Lead, Trail, Wrap, LooksAlike, Conceal, QuoteWord,
                CommentOut, Disguise, Work
  <2>4. CASE tongue \in Typed /\ Next
    <3>1. tongue \notin Composed /\ tongue # "path"
      BY <2>4 DEF Typed, Composed
    <3>2. QED
      BY <2>1, <2>4, <3>1
         DEF Next, Descend, Follow, Lead, Trail, Wrap, LooksAlike, Conceal, QuoteWord, CommentOut,
             Disguise, Work
  <2>5. QED
    BY <2>2, <2>3, <2>4
<1>3. QED
  BY <1>1, <1>2, PTL DEF Spec

\* Whatever SQL is typed, unless a quote is doubled in it: cut into statements, each of
\* which is written anew and tokenized again, it has the tokens of the text that was
\* handed in, and is readable whenever that is.
THEOREM StatementsKeepTokensCorrect == Spec => []StatementsKeepTokens
<1>1. TextTyped => StatementsKeepTokens
  <2>1. "sqlText" \in Typed
    BY DEF Typed
  <2>2. QED
    BY <2>1, StatementsAgree DEF TextTyped, StatementsKeepTokens
<1>2. QED
  BY <1>1, TextTypedHolds, PTL

-----------------------------------------------------------------------------
(* The splitter and the lexer of command text.                             *)

Out == {"between", "word"}

LexModes == Out \cup {"escape"} \cup Quotes

LexState ==
  [mode : LexModes, back : {"word", Double}, token : Texts, quoted : BOOLEAN,
   tokens : TextLists]

\* What an escaped character leaves.
Escaped(back, c) == IF back \in Quotes /\ c \notin {"\\", back} THEN <<"\\", c>> ELSE <<c>>

LEMMA ShellItems ==
  /\ Double \in Quotes /\ "'" \in Quotes /\ Double # "'"
  /\ \A q \in Quotes : q \notin {"between", "word", "escape", "none", "\\", "&", "|"} /\ q \notin Separators
  /\ "\\" \notin Blanks /\ "\\" \notin Separators /\ "\\" \notin {"&", "|"}
  /\ "&" \notin Separators /\ "|" \in Separators
  /\ \A q \in Quotes : q = Double \/ q = "'"
<1>1. Double \in Quotes /\ "'" \in Quotes /\ \A q \in Quotes : q = Double \/ q = "'"
  BY DEF Quotes
<1>2. Double # "'"
  BY Zenon DEF Double
<1>3. ASSUME NEW q \in Quotes
      PROVE  q \notin {"between", "word", "escape", "none", "\\", "&", "|"} /\ q \notin Separators
  BY Zenon DEF Quotes, Double, Separators, Semicolon
<1>4. "\\" \notin Blanks /\ "\\" \notin Separators /\ "\\" \notin {"&", "|"}
  BY Zenon DEF Blanks, Separators, Space, Semicolon
<1>5. "&" \notin Separators /\ "|" \in Separators
  BY Zenon DEF Separators, Semicolon
<1>6. QED
  BY <1>1, <1>2, <1>3, <1>4, <1>5

LEMMA EscapedType ==
  ASSUME NEW c \in Items, NEW b
  PROVE  Escaped(b, c) \in Texts /\ <<c>> \in Texts
<1>1. <<"\\", c>> \in Texts /\ <<c>> \in Texts
  BY SqlItems DEF Texts
<1>2. QED
  BY <1>1 DEF Escaped

LEMMA LexStartType == LexStart \in LexState
BY TextFacts DEF LexStart, LexState, LexModes, Out

LEMMA LexFields ==
  ASSUME NEW s \in LexState
  PROVE  /\ s.mode \in LexModes /\ s.back \in {"word", Double} /\ s.token \in Texts
         /\ s.quoted \in BOOLEAN /\ s.tokens \in TextLists
         /\ s.mode \in Out \/ s.mode = "escape" \/ s.mode \in Quotes
BY DEF LexState, LexModes

LEMMA EmitParts ==
  ASSUME NEW s \in LexState
  PROVE  /\ Emit(s) \in LexState
         /\ Emit(s).mode = "between" /\ Emit(s).token = <<>> /\ Emit(s).quoted = FALSE
         /\ Emit(s).tokens = IF s.token # <<>> \/ s.quoted THEN Append(s.tokens, s.token)
                             ELSE s.tokens
         /\ Emit(Emit(s)).tokens = Emit(s).tokens
<1>1. <<>> \in Texts /\ "between" \in LexModes /\ Append(s.tokens, s.token) \in TextLists
  BY TextFacts, LexFields DEF LexModes, Out
<1>2. Emit(s) \in LexState
  BY <1>1 DEF Emit, LexState
<1>3. /\ Emit(s).mode = "between" /\ Emit(s).token = <<>> /\ Emit(s).quoted = FALSE
      /\ Emit(s).tokens = IF s.token # <<>> \/ s.quoted THEN Append(s.tokens, s.token)
                          ELSE s.tokens
  BY DEF Emit, LexState
<1> DEFINE e == Emit(s)
<1>4. e \in LexState /\ e.token = <<>> /\ e.quoted = FALSE
  BY <1>2, <1>3
<1> HIDE DEF e
<1>5. Emit(e).tokens = e.tokens
  BY <1>4 DEF Emit, LexState
<1>6. QED
  BY <1>2, <1>3, <1>5 DEF e

\* One item of shlex.
LEMMA LexStepParts ==
  ASSUME NEW s \in LexState, NEW c \in Items
  PROVE  /\ LexStep(s, c) \in LexState
         /\ s.mode = "escape" =>
              /\ LexStep(s, c).mode = s.back
              /\ LexStep(s, c).token = s.token \o Escaped(s.back, c)
              /\ LexStep(s, c).quoted = s.quoted /\ LexStep(s, c).tokens = s.tokens
         /\ s.mode \in Quotes =>
              /\ LexStep(s, c).mode = IF c = s.mode THEN "word"
                                      ELSE IF s.mode = Double /\ c = "\\" THEN "escape" ELSE s.mode
              /\ s.mode = Double /\ c = "\\" => LexStep(s, c).back = Double
              /\ LexStep(s, c).token = IF c = s.mode \/ (s.mode = Double /\ c = "\\") THEN s.token
                                       ELSE s.token \o <<c>>
              /\ LexStep(s, c).quoted = TRUE /\ LexStep(s, c).tokens = s.tokens
         /\ s.mode \in Out /\ c \in Blanks => LexStep(s, c) = Emit(s)
         /\ s.mode \in Out /\ c \notin Blanks =>
              /\ LexStep(s, c).mode = IF c = "\\" THEN "escape" ELSE IF c \in Quotes THEN c ELSE "word"
              /\ c = "\\" => LexStep(s, c).back = "word"
              /\ LexStep(s, c).token = IF c = "\\" \/ c \in Quotes THEN s.token ELSE s.token \o <<c>>
              /\ LexStep(s, c).quoted = s.quoted /\ LexStep(s, c).tokens = s.tokens
<1> DEFINE r == LexStep(s, c)
<1>1. /\ s.mode \in LexModes /\ s.back \in {"word", Double} /\ s.token \in Texts
      /\ s.quoted \in BOOLEAN /\ s.tokens \in TextLists
      /\ s.mode \in Out \/ s.mode = "escape" \/ s.mode \in Quotes
  BY LexFields
<1>2. /\ {"word", "escape", Double} \subseteq LexModes /\ Quotes \subseteq LexModes
      /\ Double \in Quotes
  BY ShellItems DEF LexModes, Out
<1>3. s.token \o Escaped(s.back, c) \in Texts /\ s.token \o <<c>> \in Texts
  BY <1>1, EscapedType, TextFacts
<1>4. "escape" \notin Quotes /\ \A m \in Out : m \notin Quotes /\ m # "escape"
  BY ShellItems DEF Out
<1>5. CASE s.mode = "escape"
  <2>1. r = [[s EXCEPT !.token = @ \o Escaped(s.back, c)] EXCEPT !.mode = s.back]
    BY <1>5 DEF LexStep, Keep, Escaped
  <2>2. r \in LexState
    BY <1>1, <1>2, <1>3, <2>1 DEF LexState
  <2>3. /\ r.mode = s.back /\ r.token = s.token \o Escaped(s.back, c)
        /\ r.quoted = s.quoted /\ r.tokens = s.tokens
    BY <2>1 DEF LexState
  <2>4. QED
    BY <1>4, <1>5, <2>2, <2>3
<1>6. CASE s.mode \in Quotes
  <2>1. s.mode # "escape" /\ s.mode \notin Out
    BY <1>4, <1>6
  <2>2. CASE c = s.mode
    <3>1. r = [s EXCEPT !.mode = "word", !.quoted = TRUE]
      BY <1>6, <2>1, <2>2 DEF LexStep
    <3>2. r \in LexState
      BY <1>2, <3>1 DEF LexState
    <3>3. r.mode = "word" /\ r.token = s.token /\ r.quoted = TRUE /\ r.tokens = s.tokens
      BY <3>1 DEF LexState
    <3>4. ~(s.mode = Double /\ c = "\\")
      BY <1>6, <2>2, ShellItems
    <3>5. QED
      BY <1>6, <2>1, <2>2, <3>2, <3>3, <3>4
  <2>3. CASE c # s.mode /\ s.mode = Double /\ c = "\\"
    <3>1. r = [s EXCEPT !.mode = "escape", !.back = Double, !.quoted = TRUE]
      BY <1>6, <2>1, <2>3 DEF LexStep
    <3>2. r \in LexState
      BY <1>2, <3>1 DEF LexState
    <3>3. /\ r.mode = "escape" /\ r.back = Double /\ r.token = s.token /\ r.quoted = TRUE
          /\ r.tokens = s.tokens
      BY <3>1 DEF LexState
    <3>4. QED
      BY <1>6, <2>1, <2>3, <3>2, <3>3
  <2>4. CASE c # s.mode /\ ~(s.mode = Double /\ c = "\\")
    <3>1. r = [[s EXCEPT !.token = @ \o <<c>>] EXCEPT !.quoted = TRUE]
      BY <1>6, <2>1, <2>4 DEF LexStep, Keep
    <3>2. r \in LexState
      BY <1>3, <3>1 DEF LexState
    <3>3. r.mode = s.mode /\ r.token = s.token \o <<c>> /\ r.quoted = TRUE /\ r.tokens = s.tokens
      BY <3>1 DEF LexState
    <3>4. QED
      BY <1>6, <2>1, <2>4, <3>2, <3>3
  <2>5. QED
    BY <2>2, <2>3, <2>4
<1>7. CASE s.mode \in Out
  <2>1. s.mode # "escape" /\ s.mode \notin Quotes /\ s.mode # Double
    BY <1>2, <1>4, <1>7
  <2>2. CASE c \in Blanks
    <3>1. r = Emit(s)
      BY <2>1, <2>2 DEF LexStep
    <3>2. QED
      BY <2>1, <2>2, <3>1, EmitParts
  <2>3. CASE c \notin Blanks /\ c = "\\"
    <3>1. r = [s EXCEPT !.mode = "escape", !.back = "word"]
      BY <2>1, <2>3 DEF LexStep
    <3>2. r \in LexState
      BY <1>2, <3>1 DEF LexState
    <3>3. /\ r.mode = "escape" /\ r.back = "word" /\ r.token = s.token /\ r.quoted = s.quoted
          /\ r.tokens = s.tokens
      BY <3>1 DEF LexState
    <3>4. QED
      BY <2>1, <2>3, <3>2, <3>3
  <2>4. CASE c \notin Blanks /\ c # "\\" /\ c \in Quotes
    <3>1. r = [s EXCEPT !.mode = c]
      BY <2>1, <2>4 DEF LexStep
    <3>2. r \in LexState
      BY <1>2, <2>4, <3>1 DEF LexState
    <3>3. r.mode = c /\ r.token = s.token /\ r.quoted = s.quoted /\ r.tokens = s.tokens
      BY <3>1 DEF LexState
    <3>4. QED
      BY <2>1, <2>4, <3>2, <3>3
  <2>5. CASE c \notin Blanks /\ c # "\\" /\ c \notin Quotes
    <3>1. r = [[s EXCEPT !.token = @ \o <<c>>] EXCEPT !.mode = "word"]
      BY <2>1, <2>5 DEF LexStep, Keep
    <3>2. r \in LexState
      BY <1>2, <1>3, <3>1 DEF LexState
    <3>3. r.mode = "word" /\ r.token = s.token \o <<c>> /\ r.quoted = s.quoted /\ r.tokens = s.tokens
      BY <3>1 DEF LexState
    <3>4. QED
      BY <2>1, <2>5, <3>2, <3>3
  <2>6. QED
    BY <2>2, <2>3, <2>4, <2>5
<1>8. QED
  BY <1>1, <1>5, <1>6, <1>7

LEMMA LexLetter ==
  ASSUME NEW s \in LexState, NEW c \in Items, s.mode \in Out, c \notin Blanks
  PROVE  /\ LexStep(s, c).mode = IF c = "\\" THEN "escape" ELSE IF c \in Quotes THEN c ELSE "word"
         /\ c = "\\" => LexStep(s, c).back = "word"
         /\ LexStep(s, c).token = IF c = "\\" \/ c \in Quotes THEN s.token ELSE s.token \o <<c>>
         /\ LexStep(s, c).quoted = s.quoted /\ LexStep(s, c).tokens = s.tokens
<1>1. s.mode \in Out /\ c \notin Blanks =>
              /\ LexStep(s, c).mode = IF c = "\\" THEN "escape" ELSE IF c \in Quotes THEN c ELSE "word"
              /\ c = "\\" => LexStep(s, c).back = "word"
              /\ LexStep(s, c).token = IF c = "\\" \/ c \in Quotes THEN s.token ELSE s.token \o <<c>>
              /\ LexStep(s, c).quoted = s.quoted /\ LexStep(s, c).tokens = s.tokens
  BY LexStepParts, Zenon
<1>2. QED
  BY <1>1, Zenon

LEMMA LexQuoted ==
  ASSUME NEW s \in LexState, NEW c \in Items, s.mode \in Quotes
  PROVE  /\ LexStep(s, c).mode = IF c = s.mode THEN "word"
                                 ELSE IF s.mode = Double /\ c = "\\" THEN "escape" ELSE s.mode
         /\ s.mode = Double /\ c = "\\" => LexStep(s, c).back = Double
         /\ LexStep(s, c).token = IF c = s.mode \/ (s.mode = Double /\ c = "\\") THEN s.token
                                  ELSE s.token \o <<c>>
         /\ LexStep(s, c).quoted = TRUE /\ LexStep(s, c).tokens = s.tokens
<1>1. s.mode \in Quotes =>
              /\ LexStep(s, c).mode = IF c = s.mode THEN "word"
                                      ELSE IF s.mode = Double /\ c = "\\" THEN "escape" ELSE s.mode
              /\ s.mode = Double /\ c = "\\" => LexStep(s, c).back = Double
              /\ LexStep(s, c).token = IF c = s.mode \/ (s.mode = Double /\ c = "\\") THEN s.token
                                       ELSE s.token \o <<c>>
              /\ LexStep(s, c).quoted = TRUE /\ LexStep(s, c).tokens = s.tokens
  BY LexStepParts, Zenon
<1>2. QED
  BY <1>1, Zenon

LEMMA LexEscaped ==
  ASSUME NEW s \in LexState, NEW c \in Items, s.mode = "escape"
  PROVE  /\ LexStep(s, c).mode = s.back
         /\ LexStep(s, c).token = s.token \o Escaped(s.back, c)
         /\ LexStep(s, c).quoted = s.quoted /\ LexStep(s, c).tokens = s.tokens
BY LexStepParts, Zenon

LEMMA LexBlank ==
  ASSUME NEW s \in LexState, NEW c \in Items, s.mode \in Out, c \in Blanks
  PROVE  LexStep(s, c) = Emit(s)
BY LexStepParts

LEMMA LexQuotedOn ==
  ASSUME NEW s \in LexState, NEW c \in Items, s.mode \in Quotes, c # s.mode, c # "\\"
  PROVE  LexStep(s, c).mode = s.mode
<1>1. LexStep(s, c).mode = IF c = s.mode THEN "word"
                           ELSE IF s.mode = Double /\ c = "\\" THEN "escape" ELSE s.mode
  BY LexQuoted
<1>2. QED
  BY <1>1

Chains == Seq(Items \cup {c \o c : c \in Items})

SplitState ==
  [quote : Quotes \cup {"none"}, escaped : BOOLEAN, half : BOOLEAN, current : Texts,
   raws : TextLists, operators : Chains]

LEMMA ChainFacts ==
  /\ <<>> \in Chains
  /\ \A o \in Chains, c \in Items :
       o \o <<>> \in Chains /\ o \o <<c>> \in Chains /\ o \o <<c \o c>> \in Chains
<1> DEFINE S == Items \cup {c \o c : c \in Items}
<1>1. \A c \in Items : c \in S /\ c \o c \in S
  OBVIOUS
<1> HIDE DEF S
<1>2. \A o \in Seq(S), x \in S : o \o <<x>> \in Seq(S) /\ o \o <<>> \in Seq(S)
  OBVIOUS
<1>3. \A o \in Seq(S) : o \o <<>> \in Seq(S)
  OBVIOUS
<1>4. <<>> \in Seq(S)
  OBVIOUS
<1>5. Chains = Seq(S)
  BY DEF Chains, S
<1>6. QED
  BY <1>1, <1>2, <1>3, <1>4, <1>5

LEMMA SplitStartType == SplitStart \in SplitState
BY TextFacts, ChainFacts DEF SplitStart, SplitState

LEMMA SplitFields ==
  ASSUME NEW p \in SplitState
  PROVE  /\ p.quote = "none" \/ p.quote \in Quotes
         /\ p.escaped \in BOOLEAN /\ p.half \in BOOLEAN /\ p.current \in Texts
         /\ p.raws \in TextLists /\ p.operators \in Chains
BY DEF SplitState

LEMMA CutParts ==
  ASSUME NEW p \in SplitState, NEW o, p.operators \o o \in Chains
  PROVE  /\ Cut(p, o) \in SplitState
         /\ Cut(p, o).quote = p.quote /\ Cut(p, o).escaped = p.escaped /\ Cut(p, o).half = p.half
         /\ Cut(p, o).current = <<>>
         /\ Cut(p, o).raws = IF Stripped(p.current) = <<>> THEN p.raws
                             ELSE Append(p.raws, Stripped(p.current))
<1>1. Append(p.raws, Stripped(p.current)) \in TextLists /\ <<>> \in Texts
  BY SplitFields, TextFacts
<1>2. Cut(p, o) \in SplitState
  BY <1>1 DEF Cut, SplitState
<1>3. /\ Cut(p, o).quote = p.quote /\ Cut(p, o).escaped = p.escaped /\ Cut(p, o).half = p.half
      /\ Cut(p, o).current = <<>>
      /\ Cut(p, o).raws = IF Stripped(p.current) = <<>> THEN p.raws
                          ELSE Append(p.raws, Stripped(p.current))
  BY DEF Cut, SplitState
<1>4. QED
  BY <1>2, <1>3

LEMMA TakeParts ==
  ASSUME NEW p \in SplitState, NEW c \in Items
  PROVE  /\ Take(p, c) \in SplitState
         /\ Take(p, c).quote = p.quote /\ Take(p, c).escaped = p.escaped
         /\ Take(p, c).half = p.half /\ Take(p, c).current = Append(p.current, c)
         /\ Take(p, c).raws = p.raws
<1>1. Append(p.current, c) \in Texts
  BY SplitFields, TextFacts
<1>2. Take(p, c) \in SplitState
  BY <1>1 DEF Take, SplitState
<1>3. /\ Take(p, c).quote = p.quote /\ Take(p, c).escaped = p.escaped
      /\ Take(p, c).half = p.half /\ Take(p, c).current = Append(p.current, c)
      /\ Take(p, c).raws = p.raws
  BY DEF Take, SplitState
<1>4. QED
  BY <1>2, <1>3

\* Outside quotes and escapes, where the item is or begins an operator.
Cuts(p, u, i) ==
  ~p.escaped /\ p.quote = "none" /\ (Doubled(u, i) \/ u[i] \in Separators)

\* One item of the splitter.
LEMMA SplitStepParts ==
  ASSUME NEW p \in SplitState, NEW u \in Texts, NEW i \in 1..Len(u)
  PROVE  LET c == u[i]
             r == SplitStep(p, u, i)
         IN /\ r \in SplitState
            /\ p.half =>
                 /\ r.half = FALSE /\ r.quote = p.quote /\ r.escaped = p.escaped
                 /\ r.current = p.current /\ r.raws = p.raws
            /\ ~p.half /\ Cuts(p, u, i) =>
                 /\ r.half = Doubled(u, i) /\ r.quote = "none" /\ r.escaped = FALSE
                 /\ r.current = <<>>
                 /\ r.raws = IF Stripped(p.current) = <<>> THEN p.raws
                             ELSE Append(p.raws, Stripped(p.current))
            /\ ~p.half /\ ~Cuts(p, u, i) =>
                 /\ r.half = FALSE /\ r.current = Append(p.current, c) /\ r.raws = p.raws
                 /\ r.escaped = (~p.escaped /\ c = "\\")
                 /\ r.quote = IF p.escaped \/ c = "\\" THEN p.quote
                              ELSE IF p.quote # "none"
                                   THEN IF c = p.quote THEN "none" ELSE p.quote
                              ELSE IF c \in Quotes THEN c ELSE "none"
<1> DEFINE c == u[i]
           r == SplitStep(p, u, i)
           t == Take(p, c)
<1>1. c \in Items
  BY DEF Texts
<1>2. /\ p.quote = "none" \/ p.quote \in Quotes
      /\ p.escaped \in BOOLEAN /\ p.half \in BOOLEAN
      /\ p.operators \in Chains
  BY SplitFields
<1>3. /\ t \in SplitState /\ t.quote = p.quote /\ t.escaped = p.escaped
      /\ t.half = p.half /\ t.current = Append(p.current, c) /\ t.raws = p.raws
  BY <1>1, TakeParts
<1>4. /\ "none" \in Quotes \cup {"none"} /\ TRUE \in BOOLEAN /\ FALSE \in BOOLEAN
      /\ p.quote \in Quotes \cup {"none"}
  BY <1>2
<1>5. Doubled(u, i) \in BOOLEAN /\ (Doubled(u, i) => c \in {"&", "|"})
  BY DEF Doubled
<1>6. /\ c = "\\" => c \notin Separators /\ ~Doubled(u, i) /\ c \notin Quotes
      /\ c \in Quotes => c \notin Separators /\ ~Doubled(u, i) /\ c # "\\"
  BY <1>5, ShellItems
<1> HIDE DEF c, t
<1>7. r = IF p.half THEN [p EXCEPT !.half = FALSE]
          ELSE IF p.escaped THEN [t EXCEPT !.escaped = FALSE]
          ELSE IF c = "\\" THEN [t EXCEPT !.escaped = TRUE]
          ELSE IF p.quote # "none" THEN [t EXCEPT !.quote = IF c = @ THEN "none" ELSE @]
          ELSE IF c \in Quotes THEN [t EXCEPT !.quote = c]
          ELSE IF Doubled(u, i) THEN [Cut(p, <<c \o c>>) EXCEPT !.half = TRUE]
          ELSE IF c \in Separators THEN Cut(p, <<c>>)
          ELSE t
  BY DEF SplitStep, c, t
<1> HIDE DEF r
<1>8. CASE p.half
  <2>1. r = [p EXCEPT !.half = FALSE]
    BY <1>7, <1>8
  <2>2. r \in SplitState
    BY <1>4, <2>1 DEF SplitState
  <2>3. /\ r.half = FALSE /\ r.quote = p.quote /\ r.escaped = p.escaped
        /\ r.current = p.current /\ r.raws = p.raws
    BY <2>1 DEF SplitState
  <2>4. QED
    BY <1>8, <2>2, <2>3 DEF r
<1>9. CASE ~p.half /\ Cuts(p, u, i)
  <2>1. ~p.escaped /\ p.quote = "none" /\ c # "\\" /\ c \notin Quotes
        /\ (Doubled(u, i) \/ c \in Separators)
    BY <1>6, <1>9 DEF Cuts, c
  <2>2. CASE Doubled(u, i)
    <3> DEFINE k == Cut(p, <<c \o c>>)
    <3>1. r = [k EXCEPT !.half = TRUE]
      BY <1>7, <1>9, <2>1, <2>2
    <3>2. p.operators \o <<c \o c>> \in Chains
      BY <1>1, <1>2, ChainFacts DEF c
    <3>3. /\ k \in SplitState /\ k.quote = p.quote /\ k.escaped = p.escaped /\ k.half = p.half
          /\ k.current = <<>>
          /\ k.raws = IF Stripped(p.current) = <<>> THEN p.raws
                      ELSE Append(p.raws, Stripped(p.current))
      BY <3>2, CutParts
    <3> HIDE DEF k
    <3>4. r \in SplitState
      BY <1>4, <3>1, <3>3 DEF SplitState
    <3>5. /\ r.half = TRUE /\ r.quote = k.quote /\ r.escaped = k.escaped
          /\ r.current = k.current /\ r.raws = k.raws
      BY <3>1, <3>3 DEF SplitState
    <3>6. r.half = Doubled(u, i) /\ r.escaped = FALSE /\ r.quote = "none"
      BY <1>2, <1>5, <2>1, <2>2, <3>3, <3>5
    <3>7. QED
      BY <1>9, <3>3, <3>4, <3>5, <3>6 DEF r
  <2>3. CASE ~Doubled(u, i)
    <3> DEFINE k == Cut(p, <<c>>)
    <3>1. r = k
      BY <1>7, <1>9, <2>1, <2>3
    <3>2. p.operators \o <<c>> \in Chains
      BY <1>1, <1>2, ChainFacts DEF c
    <3>3. /\ k \in SplitState /\ k.quote = p.quote /\ k.escaped = p.escaped /\ k.half = p.half
          /\ k.current = <<>>
          /\ k.raws = IF Stripped(p.current) = <<>> THEN p.raws
                      ELSE Append(p.raws, Stripped(p.current))
      BY <3>2, CutParts
    <3> HIDE DEF k
    <3>4. r.half = Doubled(u, i) /\ r.escaped = FALSE /\ r.quote = "none"
      BY <1>2, <1>5, <1>9, <2>1, <2>3, <3>1, <3>3
    <3>5. QED
      BY <1>9, <3>1, <3>3, <3>4 DEF r
  <2>4. QED
    BY <2>2, <2>3
<1>10. CASE ~p.half /\ ~Cuts(p, u, i)
  <2> DEFINE q == IF p.escaped \/ c = "\\" THEN p.quote
                  ELSE IF p.quote # "none" THEN IF c = p.quote THEN "none" ELSE p.quote
                  ELSE IF c \in Quotes THEN c ELSE "none"
  <2>1. CASE p.escaped
    <3>1. r = [t EXCEPT !.escaped = FALSE]
      BY <1>7, <1>10, <2>1
    <3>2. r \in SplitState
      BY <1>3, <1>4, <3>1 DEF SplitState
    <3>3. /\ r.half = t.half /\ r.current = t.current /\ r.raws = t.raws /\ r.escaped = FALSE
          /\ r.quote = t.quote
      BY <1>3, <3>1 DEF SplitState
    <3>4. r.half = FALSE /\ r.escaped = (~p.escaped /\ c = "\\") /\ r.quote = q
      BY <1>2, <1>3, <1>10, <2>1, <3>3
    <3>5. QED
      BY <1>3, <1>10, <3>2, <3>3, <3>4 DEF r, c
  <2>2. CASE ~p.escaped /\ c = "\\"
    <3>1. r = [t EXCEPT !.escaped = TRUE]
      BY <1>7, <1>10, <2>2
    <3>2. r \in SplitState
      BY <1>3, <1>4, <3>1 DEF SplitState
    <3>3. /\ r.half = t.half /\ r.current = t.current /\ r.raws = t.raws /\ r.escaped = TRUE
          /\ r.quote = t.quote
      BY <1>3, <3>1 DEF SplitState
    <3>4. r.half = FALSE /\ r.escaped = (~p.escaped /\ c = "\\") /\ r.quote = q
      BY <1>2, <1>3, <1>10, <2>2, <3>3
    <3>5. QED
      BY <1>3, <1>10, <3>2, <3>3, <3>4 DEF r, c
  <2>3. CASE ~p.escaped /\ c # "\\" /\ p.quote # "none"
    <3>1. r = [t EXCEPT !.quote = IF c = t.quote THEN "none" ELSE t.quote]
      BY <1>7, <1>10, <2>3
    <3>2. r \in SplitState
      BY <1>3, <1>4, <3>1 DEF SplitState
    <3>3. /\ r.half = t.half /\ r.current = t.current /\ r.raws = t.raws /\ r.escaped = t.escaped
          /\ r.quote = IF c = t.quote THEN "none" ELSE t.quote
      BY <1>3, <3>1 DEF SplitState
    <3>4. r.half = FALSE /\ r.escaped = (~p.escaped /\ c = "\\") /\ r.quote = q
      BY <1>2, <1>3, <1>10, <2>3, <3>3
    <3>5. QED
      BY <1>3, <1>10, <3>2, <3>3, <3>4 DEF r, c
  <2>4. CASE ~p.escaped /\ c # "\\" /\ p.quote = "none" /\ c \in Quotes
    <3>1. r = [t EXCEPT !.quote = c]
      BY <1>7, <1>10, <2>4
    <3>2. r \in SplitState
      BY <1>3, <1>4, <2>4, <3>1 DEF SplitState
    <3>3. /\ r.half = t.half /\ r.current = t.current /\ r.raws = t.raws /\ r.escaped = t.escaped
          /\ r.quote = c
      BY <1>3, <3>1 DEF SplitState
    <3>4. r.half = FALSE /\ r.escaped = (~p.escaped /\ c = "\\") /\ r.quote = q
      BY <1>2, <1>3, <1>10, <2>4, <3>3
    <3>5. QED
      BY <1>3, <1>10, <3>2, <3>3, <3>4 DEF r, c
  <2>5. CASE ~p.escaped /\ c # "\\" /\ p.quote = "none" /\ c \notin Quotes
    <3>1. ~Doubled(u, i) /\ c \notin Separators
      BY <1>10, <2>5 DEF Cuts, c
    <3>2. r = t
      BY <1>7, <1>10, <2>5, <3>1
    <3>3. r.half = FALSE /\ r.escaped = (~p.escaped /\ c = "\\") /\ r.quote = q
      BY <1>2, <1>3, <1>10, <2>5, <3>2
    <3>4. QED
      BY <1>3, <1>10, <3>2, <3>3 DEF r, c
  <2>6. QED
    BY <2>1, <2>2, <2>3, <2>4, <2>5
<1>11. QED
  BY <1>8, <1>9, <1>10

LEMMA SplitHalf ==
  ASSUME NEW p \in SplitState, NEW u \in Texts, NEW i \in 1..Len(u), p.half
  PROVE  /\ SplitStep(p, u, i).half = FALSE /\ SplitStep(p, u, i).quote = p.quote
         /\ SplitStep(p, u, i).escaped = p.escaped /\ SplitStep(p, u, i).current = p.current
         /\ SplitStep(p, u, i).raws = p.raws
<1> DEFINE r == SplitStep(p, u, i)
<1>1. p.half => /\ r.half = FALSE /\ r.quote = p.quote /\ r.escaped = p.escaped
                /\ r.current = p.current /\ r.raws = p.raws
  BY SplitStepParts, Zenon
<1>2. QED
  BY <1>1

LEMMA SplitCuts ==
  ASSUME NEW p \in SplitState, NEW u \in Texts, NEW i \in 1..Len(u), ~p.half, Cuts(p, u, i)
  PROVE  /\ SplitStep(p, u, i).half = Doubled(u, i) /\ SplitStep(p, u, i).quote = "none"
         /\ SplitStep(p, u, i).escaped = FALSE /\ SplitStep(p, u, i).current = <<>>
         /\ SplitStep(p, u, i).raws = IF Stripped(p.current) = <<>> THEN p.raws
                                      ELSE Append(p.raws, Stripped(p.current))
<1> DEFINE r == SplitStep(p, u, i)
<1>1. ~p.half /\ Cuts(p, u, i) =>
                 /\ r.half = Doubled(u, i) /\ r.quote = "none" /\ r.escaped = FALSE
                 /\ r.current = <<>>
                 /\ r.raws = IF Stripped(p.current) = <<>> THEN p.raws
                             ELSE Append(p.raws, Stripped(p.current))
  BY SplitStepParts, Zenon
<1>2. QED
  BY <1>1

LEMMA SplitTakes ==
  ASSUME NEW p \in SplitState, NEW u \in Texts, NEW i \in 1..Len(u), ~p.half, ~Cuts(p, u, i)
  PROVE  /\ SplitStep(p, u, i).half = FALSE
         /\ SplitStep(p, u, i).current = Append(p.current, u[i])
         /\ SplitStep(p, u, i).raws = p.raws
         /\ SplitStep(p, u, i).escaped = (~p.escaped /\ u[i] = "\\")
         /\ SplitStep(p, u, i).quote =
              IF p.escaped \/ u[i] = "\\" THEN p.quote
              ELSE IF p.quote # "none" THEN IF u[i] = p.quote THEN "none" ELSE p.quote
              ELSE IF u[i] \in Quotes THEN u[i] ELSE "none"
<1> DEFINE c == u[i]
           r == SplitStep(p, u, i)
<1>1. ~p.half /\ ~Cuts(p, u, i) =>
                 /\ r.half = FALSE /\ r.current = Append(p.current, c) /\ r.raws = p.raws
                 /\ r.escaped = (~p.escaped /\ c = "\\")
                 /\ r.quote = IF p.escaped \/ c = "\\" THEN p.quote
                              ELSE IF p.quote # "none"
                                   THEN IF c = p.quote THEN "none" ELSE p.quote
                              ELSE IF c \in Quotes THEN c ELSE "none"
  BY SplitStepParts, Zenon
<1>2. QED
  BY <1>1

-----------------------------------------------------------------------------
(* Command text read to its end.                                           *)

LEMMA LexStepType ==
  LexStart \in LexState /\ \A s \in LexState, c \in Items : LexStep(s, c) \in LexState
BY LexStartType, LexStepParts

LEMMA LexRuns ==
  ASSUME NEW u \in Texts
  PROVE  /\ LexStates(u) \in [0..Len(u) -> LexState]
         /\ LexStates(u)[0] = LexStart
         /\ \A i \in 1..Len(u) : LexStates(u)[i] = LexStep(LexStates(u)[i - 1], u[i])
<1> DEFINE n == Len(u)
           step == [i \in 1..n |-> [s \in LexState |-> LexStep(s, u[i])]]
           Reads(h) == h = [i \in 0..n |-> IF i = 0 THEN LexStart ELSE LexStep(h[i - 1], u[i])]
<1>1. n \in Nat /\ \A i \in 1..n : u[i] \in Items
  BY DEF Texts
<1>2. LexStart \in LexState /\ \A i \in 1..n : \A s \in LexState : LexStep(s, u[i]) \in LexState
  BY <1>1, LexStepType
<1>3. LexStates(u) = CHOOSE h : Reads(h)
  BY DEF LexStates
<1> HIDE DEF n
<1>4. step \in [1..n -> [LexState -> LexState]]
  BY <1>2
<1>5. \A i \in 1..n : \A s \in LexState : step[i][s] = LexStep(s, u[i])
  OBVIOUS
<1> HIDE DEF step
<1>6. PICK f : Runs(f, n, LexState, LexStart, step)
  BY <1>1, <1>2, <1>4, StatesExist
<1>7. f \in [0..n -> LexState] /\ f[0] = LexStart /\ \A i \in 1..n : f[i] = step[i][f[i - 1]]
  BY <1>6 DEF Runs
<1>8. ASSUME NEW i \in 1..n
      PROVE  f[i] = LexStep(f[i - 1], u[i])
  <2>1. i - 1 \in 0..n
    BY <1>1
  <2>2. f[i - 1] \in LexState
    BY <1>7, <2>1
  <2>3. QED
    BY <1>5, <1>7, <2>2
<1>9. Reads(f)
  BY <1>1, <1>7, <1>8
<1>10. Reads(LexStates(u))
  BY <1>3, <1>9, Zenon
<1> DEFINE h == LexStates(u)
<1> HIDE DEF h
<1>11. h = [i \in 0..n |-> IF i = 0 THEN LexStart ELSE LexStep(h[i - 1], u[i])]
  BY <1>10 DEF h
<1>12. h[0] = LexStart /\ \A i \in 1..n : h[i] = LexStep(h[i - 1], u[i])
  BY <1>1, <1>11
<1> DEFINE T == {i \in 0..n : h[i] \in LexState}
<1>13. 0 \in T
  BY <1>1, <1>2, <1>12
<1>14. ASSUME NEW i \in 1..n, i - 1 \in T
       PROVE  i \in T
  <2>1. i \in 0..n /\ h[i - 1] \in LexState
    BY <1>1, <1>14
  <2>2. h[i] \in LexState
    BY <1>2, <1>12, <2>1
  <2>3. QED
    BY <2>1, <2>2
<1>15. \A i \in 0..n : h[i] \in LexState
  <2> HIDE DEF T
  <2>1. \A i \in 0..n : i \in T
    BY <1>1, <1>13, <1>14, AllAlong
  <2>2. QED
    BY <2>1 DEF T
<1>16. h \in [0..n -> LexState]
  BY <1>11, <1>15
<1>17. QED
  BY <1>12, <1>16 DEF h, n

LEMMA SplitStepType ==
  ASSUME NEW u \in Texts
  PROVE  SplitStart \in SplitState
         /\ \A s \in SplitState, i \in 1..Len(u) : SplitStep(s, u, i) \in SplitState
BY SplitStartType, SplitStepParts

LEMMA SplitRuns ==
  ASSUME NEW u \in Texts
  PROVE  /\ SplitStates(u) \in [0..Len(u) -> SplitState]
         /\ SplitStates(u)[0] = SplitStart
         /\ \A i \in 1..Len(u) : SplitStates(u)[i] = SplitStep(SplitStates(u)[i - 1], u, i)
<1> DEFINE n == Len(u)
           step == [i \in 1..n |-> [s \in SplitState |-> SplitStep(s, u, i)]]
           Reads(h) == h = [i \in 0..n |-> IF i = 0 THEN SplitStart ELSE SplitStep(h[i - 1], u, i)]
<1>1. n \in Nat /\ \A i \in 1..n : u[i] \in Items
  BY DEF Texts
<1>2. SplitStart \in SplitState /\ \A i \in 1..n : \A s \in SplitState : SplitStep(s, u, i) \in SplitState
  BY <1>1, SplitStepType
<1>3. SplitStates(u) = CHOOSE h : Reads(h)
  BY DEF SplitStates
<1> HIDE DEF n
<1>4. step \in [1..n -> [SplitState -> SplitState]]
  BY <1>2
<1>5. \A i \in 1..n : \A s \in SplitState : step[i][s] = SplitStep(s, u, i)
  OBVIOUS
<1> HIDE DEF step
<1>6. PICK f : Runs(f, n, SplitState, SplitStart, step)
  BY <1>1, <1>2, <1>4, StatesExist
<1>7. f \in [0..n -> SplitState] /\ f[0] = SplitStart /\ \A i \in 1..n : f[i] = step[i][f[i - 1]]
  BY <1>6 DEF Runs
<1>8. ASSUME NEW i \in 1..n
      PROVE  f[i] = SplitStep(f[i - 1], u, i)
  <2>1. i - 1 \in 0..n
    BY <1>1
  <2>2. f[i - 1] \in SplitState
    BY <1>7, <2>1
  <2>3. QED
    BY <1>5, <1>7, <2>2
<1>9. Reads(f)
  BY <1>1, <1>7, <1>8
<1>10. Reads(SplitStates(u))
  BY <1>3, <1>9, Zenon
<1> DEFINE h == SplitStates(u)
<1> HIDE DEF h
<1>11. h = [i \in 0..n |-> IF i = 0 THEN SplitStart ELSE SplitStep(h[i - 1], u, i)]
  BY <1>10 DEF h
<1>12. h[0] = SplitStart /\ \A i \in 1..n : h[i] = SplitStep(h[i - 1], u, i)
  BY <1>1, <1>11
<1> DEFINE T == {i \in 0..n : h[i] \in SplitState}
<1>13. 0 \in T
  BY <1>1, <1>2, <1>12
<1>14. ASSUME NEW i \in 1..n, i - 1 \in T
       PROVE  i \in T
  <2>1. i \in 0..n /\ h[i - 1] \in SplitState
    BY <1>1, <1>14
  <2>2. h[i] \in SplitState
    BY <1>2, <1>12, <2>1
  <2>3. QED
    BY <2>1, <2>2
<1>15. \A i \in 0..n : h[i] \in SplitState
  <2> HIDE DEF T
  <2>1. \A i \in 0..n : i \in T
    BY <1>1, <1>13, <1>14, AllAlong
  <2>2. QED
    BY <2>1 DEF T
<1>16. h \in [0..n -> SplitState]
  BY <1>11, <1>15
<1>17. QED
  BY <1>12, <1>16 DEF h, n

\* Where shlex is after a text.
Read(u) == LexStates(u)[Len(u)]

LEMMA ReadSteps ==
  /\ Read(<<>>) = LexStart
  /\ \A u \in Texts : Read(u) \in LexState
  /\ \A u \in Texts, c \in Items : Read(Append(u, c)) = LexStep(Read(u), c)
<1>1. Read(<<>>) = LexStart
  <2>1. <<>> \in Texts /\ Len(<<>>) = 0
    BY TextFacts
  <2>2. QED
    BY <2>1, LexRuns DEF Read
<1>2. ASSUME NEW u \in Texts PROVE Read(u) \in LexState
  <2>1. Len(u) \in 0..Len(u)
    BY DEF Texts
  <2>2. QED
    BY <2>1, LexRuns DEF Read
<1>3. ASSUME NEW u \in Texts, NEW c \in Items
      PROVE  Read(Append(u, c)) = LexStep(Read(u), c)
  <2> DEFINE v == Append(u, c)
             n == Len(u)
             g == LexStates(u)
             h == LexStates(v)
  <2>1. v \in Texts /\ n \in Nat /\ Len(v) = n + 1 /\ v[n + 1] = c /\ \A i \in 1..n : v[i] = u[i]
    BY DEF Texts
  <2> HIDE DEF v, n
  <2>2. g[0] = LexStart /\ \A i \in 1..n : g[i] = LexStep(g[i - 1], u[i])
    BY LexRuns DEF n
  <2>3. h[0] = LexStart /\ \A i \in 1..(n + 1) : h[i] = LexStep(h[i - 1], v[i])
    BY <2>1, LexRuns
  <2> HIDE DEF g, h
  <2> DEFINE T == {i \in 0..n : g[i] = h[i]}
  <2>4. 0 \in T
    BY <2>1, <2>2, <2>3
  <2>5. ASSUME NEW i \in 1..n, i - 1 \in T
        PROVE  i \in T
    <3>1. i \in 0..n /\ i \in 1..(n + 1) /\ g[i - 1] = h[i - 1] /\ v[i] = u[i]
      BY <2>1, <2>5
    <3>2. g[i] = LexStep(g[i - 1], u[i]) /\ h[i] = LexStep(h[i - 1], v[i])
      BY <2>2, <2>3, <3>1
    <3>3. g[i] = h[i]
      BY <3>1, <3>2
    <3>4. QED
      BY <3>1, <3>3
  <2>6. g[n] = h[n]
    <3> HIDE DEF T
    <3>1. \A i \in 0..n : i \in T
      BY <2>1, <2>4, <2>5, AllAlong
    <3>2. QED
      BY <2>1, <3>1 DEF T
  <2>7. n + 1 \in 1..(n + 1) /\ (n + 1) - 1 = n
    BY <2>1
  <2>8. h[n + 1] = LexStep(h[n], c)
    BY <2>1, <2>3, <2>7
  <2>9. QED
    BY <2>1, <2>6, <2>8 DEF Read, g, h, n, v
<1>4. QED
  BY <1>1, <1>2, <1>3

LEMMA ReadLed ==
  ASSUME NEW u \in Texts, NEW c \in Items
  PROVE  /\ Read(Led(Append(u, c))) = LexStep(Read(Led(u)), c)
         /\ Read(Stripped(Append(u, c))) =
              IF c \in Blanks THEN Read(Stripped(u)) ELSE LexStep(Read(Led(u)), c)
<1>1. /\ Led(u) \in Texts
      /\ Led(Append(u, c)) = IF c \in Blanks /\ Led(u) = <<>> THEN <<>> ELSE Append(Led(u), c)
      /\ Stripped(Append(u, c)) = IF c \in Blanks THEN Stripped(u) ELSE Append(Led(u), c)
  BY LedAppend, StrippedAppend DEF Texts
<1>2. Read(Append(Led(u), c)) = LexStep(Read(Led(u)), c)
  BY <1>1, ReadSteps
<1>3. c \in Blanks => LexStep(LexStart, c) = LexStart
  <2>1. LexStart.mode \in Out /\ LexStart.token = <<>> /\ LexStart.quoted = FALSE
        /\ LexStart.mode = "between"
    BY DEF LexStart, Out
  <2>2. Emit(LexStart) = LexStart
    <3> DEFINE s == LexStart
               e == Emit(s)
    <3>1. s \in LexState /\ e \in LexState
      BY LexStartType, EmitParts
    <3>2. s.mode = "between" /\ s.token = <<>> /\ s.quoted = FALSE
      BY <2>1
    <3> HIDE DEF s
    <3>3. /\ e.mode = s.mode /\ e.back = s.back /\ e.token = s.token /\ e.quoted = s.quoted
          /\ e.tokens = s.tokens
      BY <3>1, <3>2 DEF Emit, LexState
    <3> HIDE DEF e
    <3>4. e = s
      BY <3>1, <3>3 DEF LexState
    <3>5. QED
      BY <3>4 DEF e, s
  <2>3. QED
    BY <2>1, <2>2, LexStartType, LexStepParts
<1>4. QED
  BY <1>1, <1>2, <1>3, ReadSteps

\* The words of commands, one after the other.
WordsIn(raws) == FlattenSeq([k \in DOMAIN raws |-> Tokenize(raws[k]).tokens])

LEMMA WordsOf ==
  ASSUME NEW u \in Texts
  PROVE  /\ Tokenize(u).ok = (Read(u).mode \in Out)
         /\ Tokenize(u).tokens = Emit(Read(u)).tokens /\ Emit(Read(u)).tokens \in TextLists
<1>1. Read(u) \in LexState
  BY ReadSteps
<1>2. Emit(Read(u)).tokens \in TextLists
  BY <1>1, EmitParts, LexFields
<1>3. Tokenize(u) = [ok |-> Read(u).mode \in Out, tokens |-> Emit(Read(u)).tokens]
  BY DEF Tokenize, LexEnd, Read, Out
<1>4. QED
  BY <1>2, <1>3

LEMMA WordsInAppend ==
  /\ WordsIn(<<>>) = <<>>
  /\ \A raws \in TextLists : WordsIn(raws) \in TextLists
  /\ \A raws \in TextLists, u \in Texts :
       WordsIn(Append(raws, u)) = WordsIn(raws) \o Emit(Read(u)).tokens
<1> DEFINE tok == [u \in Texts |-> Tokenize(u).tokens]
<1>1. tok \in [Texts -> TextLists] /\ \A u \in Texts : tok[u] = Emit(Read(u)).tokens
  BY WordsOf
<1>2. ASSUME NEW raws \in TextLists PROVE WordsIn(raws) = Over(tok, raws)
  <2>1. \A k \in DOMAIN raws : raws[k] \in Texts
    BY DEF TextLists
  <2>2. [k \in DOMAIN raws |-> Tokenize(raws[k]).tokens] = [k \in DOMAIN raws |-> tok[raws[k]]]
    BY <2>1
  <2>3. QED
    BY <2>2 DEF WordsIn, Over
<1> HIDE DEF tok
<1>3. WordsIn(<<>>) = <<>>
  BY <1>1, <1>2, OverAppend, TextFacts
<1>4. ASSUME NEW raws \in TextLists PROVE WordsIn(raws) \in TextLists
  BY <1>1, <1>2, OverAppend
<1>5. ASSUME NEW raws \in TextLists, NEW u \in Texts
      PROVE  WordsIn(Append(raws, u)) = WordsIn(raws) \o Emit(Read(u)).tokens
  <2>1. Append(raws, u) \in TextLists
    BY TextFacts
  <2>2. Over(tok, Append(raws, u)) = Over(tok, raws) \o tok[u]
    BY <1>1, OverAppend
  <2>3. QED
    BY <1>1, <1>2, <2>1, <2>2
<1>6. QED
  BY <1>3, <1>4, <1>5

-----------------------------------------------------------------------------
(* The operators.                                                          *)

\* A lexer in the quotes and escapes that the splitter is in.
Reads(s, p) ==
  /\ p.escaped => /\ s.mode = "escape" /\ p.quote # "'"
                  /\ s.back = IF p.quote = "none" THEN "word" ELSE p.quote
  /\ ~p.escaped /\ p.quote = "none" => s.mode \in Out
  /\ ~p.escaped /\ p.quote # "none" => s.mode = p.quote

LEMMA ReadsOutside ==
  ASSUME NEW s \in LexState, NEW p \in SplitState, Reads(s, p)
  PROVE  /\ s.mode \in Out <=> ~p.escaped /\ p.quote = "none"
         /\ s.mode = "escape" <=> p.escaped
         /\ s.mode = "'" <=> ~p.escaped /\ p.quote = "'"
<1>1. /\ p.quote = "none" \/ p.quote \in Quotes
      /\ p.escaped \in BOOLEAN
  BY SplitFields
<1>2. /\ "escape" \notin Out /\ "'" \notin Out /\ "escape" # "'"
      /\ \A q \in Quotes : q \notin Out /\ q # "escape"
      /\ "none" # "'"
  BY ShellItems DEF Out
<1>3. QED
  BY <1>1, <1>2 DEF Reads

LEMMA ReadsStep ==
  ASSUME NEW s \in LexState, NEW p \in SplitState, NEW u \in Texts, NEW i \in 1..Len(u),
         Reads(s, p), ~(u[i] = "\\" /\ ~p.escaped /\ p.quote = "'"),
         p.half => ~p.escaped /\ p.quote = "none" /\ u[i] \in {"&", "|"},
         NEW d \in Items, d = u[i] \/ (d = Space /\ (p.half \/ Cuts(p, u, i)))
  PROVE  Reads(LexStep(s, d), SplitStep(p, u, i))
<1> DEFINE c == u[i]
           s1 == LexStep(s, d)
           p1 == SplitStep(p, u, i)
<1>1. c \in Items
  BY DEF Texts
<1>2. /\ p.quote = "none" \/ p.quote \in Quotes
      /\ p.escaped \in BOOLEAN /\ p.half \in BOOLEAN
  BY SplitFields
<1>3. /\ p.half =>
           p1.quote = p.quote /\ p1.escaped = p.escaped
      /\ ~p.half /\ Cuts(p, u, i) => p1.quote = "none" /\ p1.escaped = FALSE
      /\ ~p.half /\ ~Cuts(p, u, i) =>
           /\ p1.escaped = (~p.escaped /\ c = "\\")
           /\ p1.quote = IF p.escaped \/ c = "\\" THEN p.quote
                         ELSE IF p.quote # "none" THEN IF c = p.quote THEN "none" ELSE p.quote
                         ELSE IF c \in Quotes THEN c ELSE "none"
  BY SplitStepParts
<1>4. /\ s.mode = "escape" => s1.mode = s.back
      /\ s.mode \in Quotes =>
           /\ s1.mode = IF d = s.mode THEN "word"
                        ELSE IF s.mode = Double /\ d = "\\" THEN "escape" ELSE s.mode
           /\ s.mode = Double /\ d = "\\" => s1.back = Double
      /\ s.mode \in Out /\ d \in Blanks => s1.mode = "between"
      /\ s.mode \in Out /\ d \notin Blanks =>
           /\ s1.mode = IF d = "\\" THEN "escape" ELSE IF d \in Quotes THEN d ELSE "word"
           /\ d = "\\" => s1.back = "word"
  <2>1. s.mode = "escape" => s1.mode = s.back
    BY LexStepParts
  <2>2. s.mode \in Quotes =>
           /\ s1.mode = IF d = s.mode THEN "word"
                        ELSE IF s.mode = Double /\ d = "\\" THEN "escape" ELSE s.mode
           /\ s.mode = Double /\ d = "\\" => s1.back = Double
    BY LexStepParts
  <2>3. s.mode \in Out /\ d \in Blanks => s1.mode = "between"
    <3>1. s.mode \in Out /\ d \in Blanks => s1 = Emit(s)
      BY LexBlank
    <3>2. Emit(s).mode = "between"
      BY EmitParts
    <3>3. QED
      BY <3>1, <3>2
  <2>4. s.mode \in Out /\ d \notin Blanks =>
           /\ s1.mode = IF d = "\\" THEN "escape" ELSE IF d \in Quotes THEN d ELSE "word"
           /\ d = "\\" => s1.back = "word"
    <3>1. ASSUME s.mode \in Out, d \notin Blanks
          PROVE  s1.mode = IF d = "\\" THEN "escape" ELSE IF d \in Quotes THEN d ELSE "word"
      BY <3>1, LexLetter
    <3>2. ASSUME s.mode \in Out, d \notin Blanks, d = "\\"
          PROVE  s1.back = "word"
      BY <3>2, LexStepParts
    <3>3. QED
      BY <3>1, <3>2
  <2> HIDE DEF s1
  <2>5. QED
    BY <2>1, <2>2, <2>3, <2>4
<1>5. /\ Double \in Quotes /\ Double # "'" /\ "'" \in Quotes
      /\ \A q \in Quotes : q = Double \/ q = "'"
      /\ \A q \in Quotes : q # "none" /\ q # "\\" /\ q \notin Separators /\ q \notin {"&", "|"}
      /\ "\\" \notin Separators /\ "\\" \notin {"&", "|"} /\ "\\" \notin Blanks
      /\ "word" \in Out /\ "between" \in Out
  BY ShellItems DEF Out
<1>6. Doubled(u, i) => c \in {"&", "|"}
  BY DEF Doubled
<1>7. Quotes \cap Blanks = {} /\ Space \in Blanks
  BY SpaceIsBlank
<1> HIDE DEF c, s1, p1
<1>8. CASE p.half \/ Cuts(p, u, i)
  <2>1. ~p.escaped /\ p.quote = "none" /\ (c \in {"&", "|"} \/ c \in Separators)
    BY <1>6, <1>8 DEF Cuts, c
  <2>2. s.mode \in Out
    BY <2>1 DEF Reads
  <2>3. d # "\\" /\ d \notin Quotes
    BY <1>5, <1>7, <2>1 DEF c
  <2>4. s1.mode \in Out
    BY <1>4, <1>5, <2>2, <2>3
  <2>5. p1.quote = "none" /\ p1.escaped = FALSE
    BY <1>2, <1>3, <1>8, <2>1
  <2>6. QED
    BY <2>4, <2>5 DEF Reads, s1, p1
<1>9. CASE ~p.half /\ ~Cuts(p, u, i)
  <2>1. d = c
    BY <1>9 DEF c
  <2>2. CASE p.escaped
    <3>1. p1.escaped = FALSE /\ p1.quote = p.quote
      BY <1>3, <1>9, <2>2
    <3>2. s1.mode = IF p.quote = "none" THEN "word" ELSE p.quote
      BY <1>4, <2>2 DEF Reads
    <3>3. QED
      BY <1>5, <3>1, <3>2 DEF Reads, s1, p1
  <2>3. CASE ~p.escaped /\ c = "\\"
    <3>1. p1.escaped = TRUE /\ p1.quote = p.quote
      BY <1>3, <1>9, <2>3
    <3>2. p.quote = "none" \/ p.quote = Double
      BY <1>2, <1>5, <2>3 DEF c
    <3>3. CASE p.quote = "none"
      <4>1. s.mode \in Out
        BY <2>3, <3>3 DEF Reads
      <4>2. s1.mode = "escape" /\ s1.back = "word"
        BY <1>4, <1>5, <2>1, <2>3, <4>1
      <4>3. "none" # "'"
        OBVIOUS
      <4>4. QED
        BY <3>1, <3>3, <4>2, <4>3 DEF Reads, s1, p1
    <3>4. CASE p.quote = Double
      <4>1. s.mode = Double /\ Double # "none"
        BY <1>5, <2>3, <3>4 DEF Reads
      <4>2. s1.mode = "escape" /\ s1.back = Double
        BY <1>4, <1>5, <2>1, <2>3, <4>1
      <4>3. QED
        BY <1>5, <3>1, <3>4, <4>1, <4>2 DEF Reads, s1, p1
    <3>5. QED
      BY <3>2, <3>3, <3>4
  <2>4. CASE ~p.escaped /\ c # "\\" /\ p.quote # "none"
    <3>1. s.mode = p.quote /\ s.mode \in Quotes
      BY <1>2, <2>4 DEF Reads
    <3>2. s1.mode = IF c = p.quote THEN "word" ELSE p.quote
      BY <1>4, <2>1, <2>4, <3>1
    <3>3. p1.escaped = FALSE /\ p1.quote = IF c = p.quote THEN "none" ELSE p.quote
      BY <1>3, <1>9, <2>4
    <3>4. QED
      BY <1>5, <2>4, <3>2, <3>3 DEF Reads, s1, p1
  <2>5. CASE ~p.escaped /\ c # "\\" /\ p.quote = "none"
    <3>1. s.mode \in Out
      BY <2>5 DEF Reads
    <3>2. IF c \in Quotes THEN s1.mode = c ELSE s1.mode \in Out
      BY <1>4, <1>5, <1>7, <2>1, <2>5, <3>1
    <3>3. p1.escaped = FALSE /\ p1.quote = IF c \in Quotes THEN c ELSE "none"
      BY <1>3, <1>9, <2>5
    <3>4. QED
      BY <1>5, <3>2, <3>3 DEF Reads, s1, p1
  <2>6. QED
    BY <1>2, <2>2, <2>3, <2>4, <2>5
<1>10. QED
  BY <1>8, <1>9

LEMMA AmpersandRuns ==
  ASSUME NEW u \in Texts
  PROVE  /\ Ampersands(u) \in [0..Len(u) -> Nat] /\ Ampersands(u)[0] = 0
         /\ \A i \in 1..Len(u) :
              Ampersands(u)[i] = IF u[i] = "&" /\ Outside(u, i) THEN Ampersands(u)[i - 1] + 1 ELSE 0
<1> DEFINE n == Len(u)
           step == [i \in 1..n |-> [k \in Nat |-> IF u[i] = "&" /\ Outside(u, i) THEN k + 1 ELSE 0]]
           Counts(h) == h = [i \in 0..n |-> IF i > 0 /\ u[i] = "&" /\ Outside(u, i)
                                            THEN h[i - 1] + 1 ELSE 0]
<1>1. n \in Nat
  BY DEF Texts
<1>2. Ampersands(u) = CHOOSE h : Counts(h)
  BY DEF Ampersands
<1> HIDE DEF n
<1>3. step \in [1..n -> [Nat -> Nat]]
  OBVIOUS
<1>4. \A i \in 1..n : \A k \in Nat : step[i][k] = IF u[i] = "&" /\ Outside(u, i) THEN k + 1 ELSE 0
  OBVIOUS
<1> HIDE DEF step
<1>5. PICK f : Runs(f, n, Nat, 0, step)
  BY <1>1, <1>3, StatesExist
<1>6. f \in [0..n -> Nat] /\ f[0] = 0 /\ \A i \in 1..n : f[i] = step[i][f[i - 1]]
  BY <1>5 DEF Runs
<1>7. ASSUME NEW i \in 1..n
      PROVE  f[i] = IF u[i] = "&" /\ Outside(u, i) THEN f[i - 1] + 1 ELSE 0
  <2>1. i - 1 \in 0..n
    BY <1>1
  <2>2. f[i - 1] \in Nat
    BY <1>6, <2>1
  <2>3. QED
    BY <1>4, <1>6, <2>2
<1>8. Counts(f)
  BY <1>1, <1>6, <1>7
<1>9. Counts(Ampersands(u))
  BY <1>2, <1>8, Zenon
<1> DEFINE h == Ampersands(u)
<1> HIDE DEF h
<1>10. h = [i \in 0..n |-> IF i > 0 /\ u[i] = "&" /\ Outside(u, i) THEN h[i - 1] + 1 ELSE 0]
  BY <1>9 DEF h
<1>11. h[0] = 0 /\ \A i \in 1..n : h[i] = IF u[i] = "&" /\ Outside(u, i) THEN h[i - 1] + 1 ELSE 0
  BY <1>1, <1>10
<1> DEFINE T == {i \in 0..n : h[i] \in Nat}
<1>12. 0 \in T
  BY <1>1, <1>11
<1>13. ASSUME NEW i \in 1..n, i - 1 \in T
       PROVE  i \in T
  BY <1>1, <1>11, <1>13
<1>14. \A i \in 0..n : h[i] \in Nat
  <2> HIDE DEF T
  <2>1. \A i \in 0..n : i \in T
    BY <1>1, <1>12, <1>13, AllAlong
  <2>2. QED
    BY <2>1 DEF T
<1>15. h \in [0..n -> Nat]
  BY <1>10, <1>14
<1>16. QED
  BY <1>11, <1>15 DEF h, n

\* Where the splitter is in the text: a half operator is followed by its other half, and
\* the ampersands that the reference counts are paired as it pairs them.
InText(p, u, i, run) ==
  /\ p.half => /\ i \in 1..(Len(u) - 1) /\ u[i + 1] = u[i] /\ u[i] \in {"&", "|"}
               /\ ~p.escaped /\ p.quote = "none" /\ p.current = <<>>
  /\ i < Len(u) /\ u[i + 1] = "&" /\ ~p.escaped /\ p.quote = "none" => (p.half <=> run % 2 = 1)

LEMMA InTextStep ==
  ASSUME NEW s \in LexState, NEW p \in SplitState, NEW u \in Texts, NEW k \in 0..(Len(u) - 1),
         NEW run \in Nat, NEW run1, Reads(s, p), InText(p, u, k, run),
         run1 = IF u[k + 1] = "&" /\ s.mode \in Out THEN run + 1 ELSE 0
  PROVE  InText(SplitStep(p, u, k + 1), u, k + 1, run1)
<1> DEFINE i == k + 1
           c == u[i]
           p1 == SplitStep(p, u, i)
<1>1. i \in 1..Len(u) /\ Len(u) \in Nat /\ i \in Nat /\ i = k + 1
  BY DEF Texts
<1> HIDE DEF i
<1>2. /\ p.quote = "none" \/ p.quote \in Quotes
      /\ p.escaped \in BOOLEAN /\ p.half \in BOOLEAN
  BY SplitFields
<1>3. /\ p.half =>
           p1.half = FALSE /\ p1.quote = p.quote /\ p1.escaped = p.escaped
      /\ ~p.half /\ Cuts(p, u, i) =>
           /\ p1.half = Doubled(u, i) /\ p1.quote = "none" /\ p1.escaped = FALSE
           /\ p1.current = <<>>
      /\ ~p.half /\ ~Cuts(p, u, i) => p1.half = FALSE
  <2>1. p.half => p1.half = FALSE /\ p1.quote = p.quote /\ p1.escaped = p.escaped
    BY <1>1, SplitHalf
  <2>2. ASSUME ~p.half, Cuts(p, u, i)
        PROVE  /\ p1.half = Doubled(u, i) /\ p1.quote = "none" /\ p1.escaped = FALSE
               /\ p1.current = <<>>
    BY <1>1, <2>2, SplitStepParts
  <2>3. ASSUME ~p.half, ~Cuts(p, u, i) PROVE p1.half = FALSE
    BY <1>1, <2>3, SplitStepParts
  <2>4. QED
    BY <2>1, <2>2, <2>3
<1>4. Doubled(u, i) <=> c \in {"&", "|"} /\ i < Len(u) /\ u[i + 1] = c
  BY DEF Doubled
<1>5. s.mode \in Out <=> ~p.escaped /\ p.quote = "none"
  BY ReadsOutside
<1> HIDE DEF p1
<1>6. p1.half => ~p.half /\ Cuts(p, u, i) /\ Doubled(u, i)
  BY <1>2, <1>3
<1>7. p1.half => /\ i \in 1..(Len(u) - 1) /\ u[i + 1] = u[i] /\ u[i] \in {"&", "|"}
                 /\ ~p1.escaped /\ p1.quote = "none" /\ p1.current = <<>>
  <2>1. ASSUME p1.half
        PROVE  i \in 1..(Len(u) - 1) /\ u[i + 1] = u[i] /\ u[i] \in {"&", "|"}
    BY <1>1, <1>4, <1>6, <2>1
  <2>2. ASSUME p1.half
        PROVE  p1.escaped = FALSE /\ p1.quote = "none" /\ p1.current = <<>>
    BY <1>3, <1>6, <2>2
  <2>3. QED
    BY <2>1, <2>2
<1>8. ASSUME i < Len(u), u[i + 1] = "&"
      PROVE  p1.half <=> run1 % 2 = 1
  <2>1. CASE c = "&" /\ s.mode \in Out
    <3>1. run1 = run + 1 /\ ~p.escaped /\ p.quote = "none"
      BY <1>1, <1>5, <2>1
    <3>2. k < Len(u) /\ u[k + 1] = "&"
      BY <1>1, <2>1
    <3>3. p.half <=> run % 2 = 1
      BY <3>1, <3>2 DEF InText
    <3>4. Doubled(u, i) /\ Cuts(p, u, i)
      BY <1>4, <1>8, <2>1, <3>1 DEF Cuts
    <3>5. p1.half <=> ~p.half
      BY <1>2, <1>3, <3>4
    <3>6. run % 2 = 1 <=> ~((run + 1) % 2 = 1)
      OBVIOUS
    <3>7. QED
      BY <3>1, <3>3, <3>5, <3>6
  <2>2. CASE ~(c = "&" /\ s.mode \in Out)
    <3>1. run1 = 0
      BY <1>1, <2>2
    <3>2. ~p1.half
      <4>1. SUFFICES ASSUME p1.half PROVE FALSE
        OBVIOUS
      <4>2. ~p.escaped /\ p.quote = "none" /\ Doubled(u, i)
        BY <1>6, <4>1 DEF Cuts
      <4>3. c = "&"
        BY <1>4, <1>8, <4>2
      <4>4. QED
        BY <1>5, <2>2, <4>2, <4>3
    <3>3. 0 % 2 # 1
      OBVIOUS
    <3>4. QED
      BY <3>1, <3>2, <3>3
  <2>3. QED
    BY <2>1, <2>2
<1>9. QED
  BY <1>7, <1>8 DEF InText, p1, i

\* Where the splitter cuts is where the reference has an operator.
LEMMA OperatorsAgree ==
  ASSUME NEW u \in Texts, ~EscapesInSingleQuotes(u)
  PROVE  /\ \A i \in 0..Len(u) : /\ Reads(LexStates(u)[i], SplitStates(u)[i])
                                 /\ InText(SplitStates(u)[i], u, i, Ampersands(u)[i])
         /\ \A i \in 1..Len(u) :
              LiveOperator(u, i) <=>
                (SplitStates(u)[i - 1].half \/ Cuts(SplitStates(u)[i - 1], u, i))
<1> DEFINE n == Len(u)
           P == SplitStates(u)
           L == LexStates(u)
           run == Ampersands(u)
<1>1. n \in Nat /\ \A i \in 1..n : u[i] \in Items
  BY DEF Texts
<1>2. /\ P \in [0..n -> SplitState] /\ P[0] = SplitStart
      /\ \A i \in 1..n : P[i] = SplitStep(P[i - 1], u, i)
  BY SplitRuns
<1>3. /\ L \in [0..n -> LexState] /\ L[0] = LexStart
      /\ \A i \in 1..n : L[i] = LexStep(L[i - 1], u[i])
  BY LexRuns
<1>4. \A i \in 1..n : Outside(u, i) <=> L[i - 1].mode \in Out
  BY DEF Outside, Out
<1>5. /\ run \in [0..n -> Nat] /\ run[0] = 0
      /\ \A i \in 1..n : run[i] = IF u[i] = "&" /\ L[i - 1].mode \in Out THEN run[i - 1] + 1 ELSE 0
  BY <1>4, AmpersandRuns
<1>6. \A i \in 1..n : ~(u[i] = "\\" /\ L[i - 1].mode = "'")
  BY <1>1 DEF EscapesInSingleQuotes, Texts
<1>7. \A i \in 1..n : LiveOperator(u, i) <=>
        /\ L[i - 1].mode \in Out
        /\ \/ u[i] \in Separators
           \/ run[i] > 0 /\ run[i] % 2 = 0
           \/ run[i] % 2 = 1 /\ i < n /\ run[i + 1] > 0
  BY <1>4 DEF LiveOperator
<1> HIDE DEF n, P, L, run
<1> DEFINE T == {i \in 0..n : Reads(L[i], P[i]) /\ InText(P[i], u, i, run[i])}
<1>8. 0 \in T
  <2>1. SplitStart.quote = "none" /\ ~SplitStart.escaped /\ ~SplitStart.half
    BY DEF SplitStart
  <2>2. LexStart.mode \in Out
    BY DEF LexStart, Out
  <2>3. Reads(LexStart, SplitStart)
    BY <2>1, <2>2 DEF Reads
  <2>4. 0 % 2 # 1
    OBVIOUS
  <2>5. InText(SplitStart, u, 0, 0)
    BY <2>1, <2>4 DEF InText
  <2>6. QED
    BY <1>1, <1>2, <1>3, <1>5, <2>3, <2>5
<1>9. ASSUME NEW i \in 1..n, i - 1 \in T
      PROVE  i \in T
  <2> DEFINE k == i - 1
  <2>1. k \in 0..n /\ i \in 0..n /\ Reads(L[k], P[k]) /\ InText(P[k], u, k, run[k])
    BY <1>1, <1>9
  <2>2. /\ P[i] = SplitStep(P[k], u, i) /\ L[i] = LexStep(L[k], u[i])
        /\ run[i] = IF u[i] = "&" /\ L[k].mode \in Out THEN run[k] + 1 ELSE 0
        /\ ~(u[i] = "\\" /\ L[k].mode = "'")
    BY <1>2, <1>3, <1>5, <1>6
  <2>3. k + 1 = i /\ k \in 0..(Len(u) - 1) /\ i \in 1..Len(u)
    BY <1>1 DEF n
  <2> HIDE DEF k
  <2>4. P[k] \in SplitState /\ L[k] \in LexState /\ run[k] \in Nat /\ u[i] \in Items
    BY <1>1, <1>2, <1>3, <1>5, <2>1
  <2>5. ~(u[i] = "\\" /\ ~P[k].escaped /\ P[k].quote = "'")
    BY <2>1, <2>2, <2>4, ReadsOutside
  <2>6. P[k].half => ~P[k].escaped /\ P[k].quote = "none" /\ u[i] \in {"&", "|"}
    BY <2>1, <2>3 DEF InText
  <2>7. Reads(L[i], P[i])
    BY <2>1, <2>2, <2>3, <2>4, <2>5, <2>6, ReadsStep
  <2>8. InText(P[i], u, i, run[i])
    BY <2>1, <2>2, <2>3, <2>4, InTextStep
  <2>9. QED
    BY <2>1, <2>7, <2>8
<1>10. \A i \in 0..n : Reads(L[i], P[i]) /\ InText(P[i], u, i, run[i])
  <2> HIDE DEF T
  <2>1. \A i \in 0..n : i \in T
    BY <1>1, <1>8, <1>9, AllAlong
  <2>2. QED
    BY <2>1 DEF T
<1>11. ASSUME NEW i \in 1..n
       PROVE  LiveOperator(u, i) <=> (P[i - 1].half \/ Cuts(P[i - 1], u, i))
  <2> DEFINE k == i - 1
             p == P[k]
             c == u[i]
  <2>1. k \in 0..n /\ i \in 0..n /\ k + 1 = i /\ i \in 1..Len(u) /\ k < Len(u) /\ n = Len(u)
    BY <1>1 DEF n
  <2>2. /\ P[i] = SplitStep(p, u, i) /\ p \in SplitState /\ L[k] \in LexState /\ run[k] \in Nat
        /\ P[i] \in SplitState /\ L[i] \in LexState
        /\ run[i] = IF c = "&" /\ L[k].mode \in Out THEN run[k] + 1 ELSE 0
    BY <1>2, <1>3, <1>5, <2>1
  <2>3. LiveOperator(u, i) <=>
          /\ L[k].mode \in Out
          /\ \/ c \in Separators
             \/ run[i] > 0 /\ run[i] % 2 = 0
             \/ run[i] % 2 = 1 /\ i < n /\ run[i + 1] > 0
    BY <1>7
  <2>4. i < n => run[i + 1] = IF u[i + 1] = "&" /\ L[i].mode \in Out THEN run[i] + 1 ELSE 0
    <3>1. i < n => i + 1 \in 1..n /\ (i + 1) - 1 = i
      BY <1>1
    <3>2. QED
      BY <1>5, <3>1
  <2>5. Reads(L[k], p) /\ InText(p, u, k, run[k]) /\ Reads(L[i], P[i])
    BY <1>10, <2>1
  <2> HIDE DEF k
  <2>6. p.escaped \in BOOLEAN /\ p.half \in BOOLEAN
    BY <2>2, SplitFields
  <2>7. L[k].mode \in Out <=> ~p.escaped /\ p.quote = "none"
    BY <2>2, <2>5, ReadsOutside
  <2>8. p.half => ~p.escaped /\ p.quote = "none" /\ c \in {"&", "|"}
    BY <2>1, <2>5 DEF InText
  <2>9. "&" \notin Separators /\ "|" \in Separators
    BY ShellItems
  <2>10. Doubled(u, i) <=> c \in {"&", "|"} /\ i < n /\ u[i + 1] = c
    BY <2>1 DEF Doubled
  <2>11. SUFFICES LiveOperator(u, i) <=> (p.half \/ Cuts(p, u, i))
    BY <2>1 DEF k
  <2> HIDE DEF p, c
  <2>12. CASE L[k].mode \notin Out
    BY <2>3, <2>7, <2>8, <2>12 DEF Cuts
  <2>13. CASE L[k].mode \in Out /\ c # "&"
    <3>1. run[i] = 0
      BY <2>2, <2>13
    <3>2. LiveOperator(u, i) <=> c \in Separators
      BY <2>3, <2>13, <3>1
    <3>3. QED
      BY <2>7, <2>8, <2>9, <2>10, <2>13, <3>2 DEF Cuts, c
  <2>14. CASE L[k].mode \in Out /\ c = "&"
    <3>1. run[i] = run[k] + 1 /\ ~p.escaped /\ p.quote = "none"
      BY <2>2, <2>7, <2>14
    <3>2. p.half <=> run[k] % 2 = 1
      BY <2>1, <2>5, <2>14, <3>1 DEF InText, c
    <3>3. CASE p.half
      <4>1. run[k] % 2 = 1 => (run[k] + 1) % 2 = 0 /\ run[k] + 1 > 0
        BY <2>2
      <4>2. QED
        BY <2>3, <2>14, <3>1, <3>2, <3>3, <4>1
    <3>4. CASE ~p.half
      <4>1. run[k] % 2 # 1 => (run[k] + 1) % 2 = 1 /\ (run[k] + 1) % 2 # 0
        BY <2>2
      <4>2. LiveOperator(u, i) <=> i < n /\ run[i + 1] > 0
        BY <2>3, <2>9, <2>14, <3>1, <3>2, <3>4, <4>1
      <4>3. run[i] \in Nat
        BY <2>2, <3>1
      <4>4. i < n => (run[i + 1] > 0 <=> u[i + 1] = "&" /\ L[i].mode \in Out)
        BY <2>4, <4>3
      <4>5. Cuts(p, u, i) <=> Doubled(u, i)
        BY <2>9, <2>14, <3>1 DEF Cuts, c
      <4>6. Doubled(u, i) => L[i].mode \in Out
        <5>1. ASSUME Doubled(u, i) PROVE L[i].mode \in Out
          <6>1. Cuts(p, u, i)
            BY <4>5, <5>1
          <6>2. P[i].quote = "none" /\ P[i].escaped = FALSE
            <7>1. SplitStep(p, u, i).quote = "none" /\ SplitStep(p, u, i).escaped = FALSE
              BY <2>1, <2>2, <3>4, <6>1, SplitCuts
            <7>2. QED
              BY <2>2, <7>1
          <6>3. QED
            BY <2>5, <6>2 DEF Reads
        <5>2. QED
          BY <5>1
      <4>7. QED
        BY <2>10, <2>14, <3>4, <4>2, <4>4, <4>5, <4>6
    <3>5. QED
      BY <3>3, <3>4
  <2>15. QED
    BY <2>12, <2>13, <2>14
<1>12. QED
  BY <1>10, <1>11 DEF n, P, L, run

-----------------------------------------------------------------------------
(* A command line and its commands, read side by side.                     *)

\* Where shlex would be after the command so far: as it stands, whatever follows it, and
\* as it would be handed over if it were cut here.
Ahead(p) == Read(Led(p.current))
Inner(p) == Read(Stripped(p.current))

LEMMA CommandRead ==
  ASSUME NEW p \in SplitState
  PROVE  /\ Ahead(p) \in LexState /\ Inner(p) \in LexState
         /\ p.current = <<>> => Ahead(p) = LexStart /\ Inner(p) = LexStart
         /\ \A q \in SplitState, c \in Items : q.current = Append(p.current, c) =>
              /\ Ahead(q) = LexStep(Ahead(p), c)
              /\ Inner(q) = IF c \in Blanks THEN Inner(p) ELSE LexStep(Ahead(p), c)
<1>1. p.current \in Texts
  BY SplitFields
<1>2. Ahead(p) \in LexState /\ Inner(p) \in LexState
  BY <1>1, TextFacts, ReadSteps DEF Ahead, Inner
<1>3. p.current = <<>> => Ahead(p) = LexStart /\ Inner(p) = LexStart
  BY LedEmpty, ReadSteps DEF Ahead, Inner
<1>4. ASSUME NEW q \in SplitState, NEW c \in Items, q.current = Append(p.current, c)
      PROVE  /\ Ahead(q) = LexStep(Ahead(p), c)
             /\ Inner(q) = IF c \in Blanks THEN Inner(p) ELSE LexStep(Ahead(p), c)
  BY <1>1, <1>4, ReadLed DEF Ahead, Inner
<1>5. QED
  BY <1>2, <1>3, <1>4

\* The commands cut so far can be read.
Whole(raws) == \A k \in DOMAIN raws : Tokenize(raws[k]).ok

LEMMA WholeAppend ==
  /\ Whole(<<>>)
  /\ \A raws \in TextLists, u \in Texts :
       Whole(Append(raws, u)) <=> Whole(raws) /\ Read(u).mode \in Out
<1>1. Whole(<<>>)
  BY DEF Whole
<1>2. ASSUME NEW raws \in TextLists, NEW u \in Texts
      PROVE  Whole(Append(raws, u)) <=> Whole(raws) /\ Read(u).mode \in Out
  <2> DEFINE more == Append(raws, u)
             n == Len(raws)
  <2>1. /\ n \in Nat /\ DOMAIN raws = 1..n /\ DOMAIN more = 1..(n + 1) /\ more[n + 1] = u
        /\ \A k \in 1..n : more[k] = raws[k]
    BY DEF TextLists
  <2>2. Tokenize(u).ok <=> Read(u).mode \in Out
    BY WordsOf
  <2> HIDE DEF more, n
  <2>3. (\A k \in DOMAIN more : Tokenize(more[k]).ok) <=>
          ((\A k \in DOMAIN raws : Tokenize(raws[k]).ok) /\ Tokenize(u).ok)
    <3>1. ASSUME \A k \in DOMAIN more : Tokenize(more[k]).ok
          PROVE  (\A k \in DOMAIN raws : Tokenize(raws[k]).ok) /\ Tokenize(u).ok
      <4>1. n + 1 \in DOMAIN more /\ \A k \in DOMAIN raws : k \in DOMAIN more
        BY <2>1
      <4>2. QED
        BY <2>1, <3>1, <4>1
    <3>2. ASSUME \A k \in DOMAIN raws : Tokenize(raws[k]).ok, Tokenize(u).ok
          PROVE  \A k \in DOMAIN more : Tokenize(more[k]).ok
      <4>1. \A k \in DOMAIN more : k \in DOMAIN raws \/ k = n + 1
        BY <2>1
      <4>2. QED
        BY <2>1, <3>2, <4>1
    <3>3. QED
      BY <3>1, <3>2
  <2>4. QED
    BY <2>2, <2>3 DEF Whole, more
<1>3. QED
  BY <1>1, <1>2

\* Two lexers at the same word, the one with more words behind it.
Alike(r, f, behind) == r.token = f.token /\ r.quoted = f.quoted /\ r.tokens = behind \o f.tokens

LEMMA AlikeEmit ==
  ASSUME NEW r \in LexState, NEW f \in LexState, NEW w \in TextLists, Alike(r, f, w)
  PROVE  Emit(r).tokens = w \o Emit(f).tokens /\ Alike(Emit(r), Emit(f), w)
<1>1. /\ r.token = f.token /\ r.quoted = f.quoted /\ r.tokens = w \o f.tokens
      /\ f.tokens \in TextLists /\ f.token \in Texts
  BY LexFields DEF Alike
<1> DEFINE ft == f.tokens
           more == Append(ft, f.token)
<1>2. Append(w \o ft, f.token) = w \o more
  <2> HIDE DEF ft
  <2>1. ft \in TextLists
    BY <1>1 DEF ft
  <2>2. QED
    BY <1>1, <2>1, BehindLists
<1> HIDE DEF more
<1>3. Emit(f).tokens = IF f.token # <<>> \/ f.quoted THEN more ELSE ft
  BY EmitParts DEF more
<1>4. Emit(r).tokens = IF f.token # <<>> \/ f.quoted THEN w \o more ELSE w \o ft
  BY <1>1, <1>2, EmitParts
<1>5. Emit(r).tokens = w \o Emit(f).tokens
  BY <1>3, <1>4
<1>6. /\ Emit(r).token = <<>> /\ Emit(f).token = <<>>
      /\ Emit(r).quoted = FALSE /\ Emit(f).quoted = FALSE
  BY EmitParts
<1>7. QED
  BY <1>5, <1>6 DEF Alike

LEMMA AlikeStep ==
  ASSUME NEW r \in LexState, NEW f \in LexState, NEW w \in TextLists, NEW p \in SplitState,
         NEW c \in Items, Reads(r, p), Reads(f, p), Alike(r, f, w)
  PROVE  Alike(LexStep(r, c), LexStep(f, c), w)
<1>1. r.token = f.token /\ r.quoted = f.quoted /\ r.tokens = w \o f.tokens
  BY DEF Alike
<1>2. /\ r.mode \in Out <=> f.mode \in Out
      /\ r.mode \notin Out => r.mode = f.mode
      /\ r.mode = "escape" => r.back = f.back
  <2>1. p.escaped \in BOOLEAN /\ (p.quote = "none" \/ p.quote \in Quotes)
    BY SplitFields
  <2>2. CASE p.escaped
    BY <2>2 DEF Reads
  <2>3. CASE ~p.escaped /\ p.quote = "none"
    <3>1. r.mode \in Out /\ f.mode \in Out /\ "escape" \notin Out
      BY <2>3 DEF Reads, Out
    <3>2. QED
      BY <3>1
  <2>4. CASE ~p.escaped /\ p.quote # "none"
    <3>1. r.mode = p.quote /\ f.mode = p.quote /\ p.quote # "escape"
      BY <2>1, <2>4, ShellItems DEF Reads
    <3>2. QED
      BY <3>1
  <2>5. QED
    BY <2>1, <2>2, <2>3, <2>4
<1>3. r.mode \in Out \/ r.mode = "escape" \/ r.mode \in Quotes
  BY LexFields
<1> DEFINE r1 == LexStep(r, c)
           f1 == LexStep(f, c)
<1>4. CASE r.mode = "escape"
  <2>1. f.mode = "escape" /\ r.back = f.back
    BY <1>2, <1>4 DEF Out
  <2>2. r1.token = r.token \o Escaped(r.back, c) /\ r1.quoted = r.quoted /\ r1.tokens = r.tokens
    BY <1>4, LexEscaped
  <2>3. f1.token = f.token \o Escaped(f.back, c) /\ f1.quoted = f.quoted /\ f1.tokens = f.tokens
    BY <2>1, LexEscaped
  <2>4. QED
    BY <1>1, <2>1, <2>2, <2>3 DEF Alike
<1>5. CASE r.mode \in Quotes
  <2>1. f.mode = r.mode
    BY <1>2, <1>5, ShellItems DEF Out
  <2>2. f.mode \in Quotes
    BY <1>5, <2>1
  <2>3. /\ r1.token = IF c = r.mode \/ (r.mode = Double /\ c = "\\") THEN r.token
                      ELSE r.token \o <<c>>
        /\ r1.quoted = TRUE /\ r1.tokens = r.tokens
    BY <1>5, LexQuoted
  <2>4. /\ f1.token = IF c = f.mode \/ (f.mode = Double /\ c = "\\") THEN f.token
                      ELSE f.token \o <<c>>
        /\ f1.quoted = TRUE /\ f1.tokens = f.tokens
    BY <2>2, LexQuoted
  <2> HIDE DEF r1, f1
  <2>5. r1.token = f1.token
    BY <1>1, <2>1, <2>3, <2>4
  <2>6. QED
    BY <1>1, <2>3, <2>4, <2>5 DEF Alike, r1, f1
<1>6. CASE r.mode \in Out /\ c \in Blanks
  <2>1. r1 = Emit(r) /\ f1 = Emit(f)
    BY <1>2, <1>6, LexStepParts
  <2>2. QED
    BY <2>1, AlikeEmit
<1>7. CASE r.mode \in Out /\ c \notin Blanks
  <2>1. /\ r1.token = IF c = "\\" \/ c \in Quotes THEN r.token ELSE r.token \o <<c>>
        /\ r1.quoted = r.quoted /\ r1.tokens = r.tokens
    BY <1>7, LexLetter
  <2>2. /\ f1.token = IF c = "\\" \/ c \in Quotes THEN f.token ELSE f.token \o <<c>>
        /\ f1.quoted = f.quoted /\ f1.tokens = f.tokens
    BY <1>2, <1>7, LexLetter
  <2> HIDE DEF r1, f1
  <2>3. QED
    BY <1>1, <2>1, <2>2 DEF Alike, r1, f1
<1>8. QED
  BY <1>3, <1>4, <1>5, <1>6, <1>7

\* The command so far, read as it stands and as it would be handed over.
HandedOver(p) ==
  /\ Reads(Ahead(p), p)
  /\ Ahead(p).mode \in Out =>
       \/ Inner(p).mode = "escape"
       \/ Inner(p).mode \in Out /\ Emit(Inner(p)).tokens = Emit(Ahead(p)).tokens
  /\ Ahead(p).mode = "escape" => Inner(p).mode = "escape"

\* The command so far and the line so far, its operators blanked.
SameWords(p, r) == Whole(p.raws) => Alike(r, Ahead(p), WordsIn(p.raws))

\* Without a backslash nothing is escaped, and every command is readable.
NoEscape(p) == ~p.escaped /\ Inner(p).mode # "escape" /\ Whole(p.raws)

LexersKeep(p, r) == Reads(r, p) /\ HandedOver(p) /\ SameWords(p, r)

LEMMA LexersStart ==
  LexersKeep(SplitStart, LexStart) /\ NoEscape(SplitStart)
<1> DEFINE p == SplitStart
<1>1. /\ p \in SplitState /\ p.current = <<>> /\ p.raws = <<>> /\ p.escaped = FALSE
      /\ p.quote = "none"
  BY SplitStartType DEF SplitStart
<1> HIDE DEF p
<1>2. Ahead(p) = LexStart /\ Inner(p) = LexStart
  BY <1>1, CommandRead
<1>3. /\ LexStart.mode \in Out /\ LexStart.mode # "escape" /\ LexStart.token = <<>>
      /\ LexStart.quoted = FALSE /\ LexStart.tokens = <<>>
  BY DEF LexStart, Out
<1>4. Reads(LexStart, p)
  BY <1>1, <1>3 DEF Reads
<1>5. HandedOver(p)
  BY <1>2, <1>3, <1>4 DEF HandedOver
<1>6. WordsIn(<<>>) = <<>> /\ Whole(<<>>) /\ <<>> \o <<>> = <<>>
  BY WordsInAppend, WholeAppend
<1>7. SameWords(p, LexStart)
  BY <1>1, <1>2, <1>3, <1>6 DEF SameWords, Alike
<1>8. NoEscape(p)
  BY <1>1, <1>2, <1>3, <1>6 DEF NoEscape
<1>9. QED
  BY <1>4, <1>5, <1>7, <1>8 DEF LexersKeep, p

\* What is handed over when the command is cut, or ends, outside quotes and escapes.
LEMMA CommandCut ==
  ASSUME NEW p \in SplitState, NEW r \in LexState, LexersKeep(p, r),
         ~p.escaped, p.quote = "none",
         NEW raws, raws = IF Stripped(p.current) = <<>> THEN p.raws
                          ELSE Append(p.raws, Stripped(p.current))
  PROVE  /\ raws \in TextLists
         /\ Whole(raws) => Emit(r).tokens = WordsIn(raws)
         /\ Whole(p.raws) /\ Inner(p).mode # "escape" => Whole(raws)
<1> DEFINE u == Stripped(p.current)
           f == Ahead(p)
           g == Inner(p)
           w == WordsIn(p.raws)
<1>1. u \in Texts /\ p.raws \in TextLists /\ w \in TextLists
  BY SplitFields, TextFacts, WordsInAppend
<1>2. f \in LexState /\ g \in LexState /\ g = Read(u)
  BY CommandRead DEF Inner
<1>3. f.mode \in Out
  BY DEF LexersKeep, HandedOver, Reads
<1>4. g.mode = "escape" \/ (g.mode \in Out /\ Emit(g).tokens = Emit(f).tokens)
  BY <1>3 DEF LexersKeep, HandedOver
<1>5. "escape" \notin Out
  BY DEF Out
<1>6. Whole(p.raws) => Alike(r, f, w)
  BY DEF LexersKeep, SameWords
<1>7. raws = IF u = <<>> THEN p.raws ELSE Append(p.raws, u)
  OBVIOUS
<1>8. u = <<>> => g = LexStart
  BY <1>2, ReadSteps
<1> HIDE DEF u, f, g
<1>9. raws \in TextLists
  BY <1>1, <1>7, TextFacts
<1>10. Whole(p.raws) /\ g.mode # "escape" => Whole(raws)
  BY <1>1, <1>2, <1>4, <1>7, WholeAppend
<1>11. ASSUME Whole(raws) PROVE Emit(r).tokens = WordsIn(raws)
  <2>1. Whole(p.raws) /\ g.mode \in Out
    <3>1. CASE u = <<>>
      <4>1. LexStart.mode \in Out
        BY DEF LexStart, Out
      <4>2. QED
        BY <1>7, <1>8, <1>11, <3>1, <4>1
    <3>2. CASE u # <<>>
      BY <1>1, <1>2, <1>7, <1>11, <3>2, WholeAppend
    <3>3. QED
      BY <3>1, <3>2
  <2>2. Emit(g).tokens = Emit(f).tokens
    BY <1>4, <1>5, <2>1
  <2>3. Emit(r).tokens = w \o Emit(f).tokens
    BY <1>1, <1>2, <1>6, <2>1, AlikeEmit
  <2>4. WordsIn(raws) = w \o Emit(g).tokens
    <3>1. CASE u = <<>>
      <4>1. LexStart.tokens = <<>> /\ LexStart.token = <<>> /\ LexStart.quoted = FALSE
        BY DEF LexStart
      <4>2. Emit(g).tokens = <<>>
        BY <1>8, <3>1, <4>1, LexStartType, EmitParts
      <4>3. w \o <<>> = w
        <5> HIDE DEF w
        <5>1. w \in Seq(Texts)
          BY <1>1 DEF TextLists
        <5>2. QED
          BY <5>1
      <4>4. QED
        BY <1>7, <3>1, <4>2, <4>3
    <3>2. CASE u # <<>>
      BY <1>1, <1>2, <1>7, <3>2, WordsInAppend
    <3>3. QED
      BY <3>1, <3>2
  <2>5. QED
    BY <2>2, <2>3, <2>4
<1>12. QED
  BY <1>9, <1>10, <1>11 DEF g

\* One more item of the line; an operator is a blank.
LEMMA LexersKeepStep ==
  ASSUME NEW p \in SplitState, NEW r \in LexState, NEW u \in Texts, NEW i \in 1..Len(u),
         LexersKeep(p, r), ~(u[i] = "\\" /\ ~p.escaped /\ p.quote = "'"),
         p.half => /\ u[i] \in {"&", "|"} /\ ~p.escaped /\ p.quote = "none"
                   /\ p.current = <<>>,
         NEW d, d = IF p.half \/ Cuts(p, u, i) THEN Space ELSE u[i]
  PROVE  /\ LexersKeep(SplitStep(p, u, i), LexStep(r, d))
         /\ SplitStep(p, u, i).escaped => u[i] = "\\"
         /\ NoEscape(p) /\ u[i] # "\\" => NoEscape(SplitStep(p, u, i))
<1> DEFINE c == u[i]
           p1 == SplitStep(p, u, i)
           r1 == LexStep(r, d)
           f == Ahead(p)
           g == Inner(p)
<1>1. c \in Items /\ d \in Items
  BY SqlItems DEF Texts
<1>2. p1 \in SplitState /\ r1 \in LexState
  BY <1>1, SplitStepType, LexStepType
<1>3. f \in LexState /\ g \in LexState
  BY CommandRead
<1>4. Reads(r1, p1)
  BY <1>1, ReadsStep DEF LexersKeep
<1>5. Reads(f, p) /\ Reads(r, p)
  BY DEF LexersKeep, HandedOver
<1>6. c \in Blanks => c # "\\"
  BY ShellItems
<1>7. CASE p.half \/ Cuts(p, u, i)
  <2>1. d = Space /\ d \in Blanks
    BY <1>7, SpaceIsBlank
  <2>2. ~p.escaped /\ p.quote = "none" /\ c # "\\"
    BY <1>7, ShellItems DEF Cuts, Doubled
  <2>3. r.mode \in Out
    BY <1>5, <2>2 DEF Reads
  <2>4. r1 = Emit(r)
    BY <1>1, <2>1, <2>3, LexBlank
  <2>5. p1.quote = "none" /\ p1.escaped = FALSE /\ p1.current = <<>>
    <3>1. CASE p.half
      <4>1. p1.quote = p.quote /\ p1.escaped = p.escaped /\ p1.current = p.current
        BY <3>1, SplitHalf
      <4>2. p.escaped \in BOOLEAN
        BY SplitFields
      <4>3. QED
        BY <2>2, <3>1, <4>1, <4>2
    <3>2. CASE ~p.half
      BY <1>7, <3>2, SplitCuts
    <3>3. QED
      BY <3>1, <3>2
  <2>6. /\ p1.raws \in TextLists
        /\ Whole(p1.raws) => Emit(r).tokens = WordsIn(p1.raws)
        /\ NoEscape(p) => Whole(p1.raws)
    <3>1. CASE p.half
      <4>1. p1.raws = p.raws
        BY <3>1, SplitHalf
      <4>2. p.current = <<>>
        BY <3>1
      <4>3. Stripped(p.current) = <<>>
        BY <4>2, LedEmpty
      <4>4. p1.raws = IF Stripped(p.current) = <<>> THEN p.raws
                      ELSE Append(p.raws, Stripped(p.current))
        BY <4>1, <4>3
      <4> HIDE DEF p1
      <4>5. QED
        BY <2>2, <4>4, CommandCut DEF NoEscape
    <3>2. CASE ~p.half
      <4>1. p1.raws = IF Stripped(p.current) = <<>> THEN p.raws
                      ELSE Append(p.raws, Stripped(p.current))
        BY <1>7, <3>2, SplitCuts
      <4> HIDE DEF p1
      <4>2. QED
        BY <2>2, <4>1, CommandCut DEF NoEscape
    <3>3. QED
      BY <3>1, <3>2
  <2> HIDE DEF p1, r1
  <2>7. Ahead(p1) = LexStart /\ Inner(p1) = LexStart
    BY <1>2, <2>5, CommandRead
  <2>8. /\ LexStart.mode \in Out /\ LexStart.mode # "escape" /\ LexStart.token = <<>>
        /\ LexStart.quoted = FALSE /\ LexStart.tokens = <<>>
    BY DEF LexStart, Out
  <2>9. HandedOver(p1)
    <3>1. Reads(LexStart, p1)
      BY <2>5, <2>8 DEF Reads
    <3>2. QED
      BY <2>7, <2>8, <3>1 DEF HandedOver
  <2>10. SameWords(p1, r1)
    <3>1. SUFFICES ASSUME Whole(p1.raws) PROVE Alike(r1, LexStart, WordsIn(p1.raws))
      BY <2>7 DEF SameWords
    <3> DEFINE w == WordsIn(p1.raws)
    <3>2. w \in TextLists /\ Emit(r).tokens = w
      BY <2>6, <3>1, WordsInAppend
    <3> HIDE DEF w
    <3>3. w \o <<>> = w
      BY <3>2 DEF TextLists
    <3>4. Emit(r).token = <<>> /\ Emit(r).quoted = FALSE
      BY EmitParts
    <3>5. Alike(r1, LexStart, w)
      BY <2>4, <2>8, <3>2, <3>3, <3>4 DEF Alike
    <3>6. QED
      BY <3>5 DEF w
  <2>11. NoEscape(p) => NoEscape(p1)
    BY <2>5, <2>6, <2>7, <2>8 DEF NoEscape
  <2>12. LexersKeep(p1, r1)
    BY <1>4, <2>9, <2>10 DEF LexersKeep, p1, r1
  <2>13. QED
    BY <2>5, <2>11, <2>12 DEF p1, r1
<1>8. CASE ~p.half /\ ~Cuts(p, u, i)
  <2> DEFINE f1 == LexStep(f, c)
  <2>1. d = c
    BY <1>8
  <2>2. /\ p1.current = Append(p.current, c) /\ p1.raws = p.raws
        /\ p1.escaped = (~p.escaped /\ c = "\\")
    BY <1>8, SplitTakes
  <2>3. Ahead(p1) = f1 /\ Inner(p1) = IF c \in Blanks THEN g ELSE f1
    BY <1>1, <1>2, <2>2, CommandRead
  <2>4. Reads(f1, p1)
    BY <1>1, <1>3, <1>5, <1>8, ReadsStep
  <2>5. SameWords(p1, r1)
    <3>1. ASSUME Whole(p.raws) PROVE Alike(r1, f1, WordsIn(p.raws))
      <4>1. Alike(r, f, WordsIn(p.raws))
        BY <3>1 DEF LexersKeep, SameWords
      <4>2. WordsIn(p.raws) \in TextLists
        BY SplitFields, WordsInAppend
      <4> HIDE DEF f
      <4>3. QED
        BY <1>1, <1>3, <1>5, <2>1, <4>1, <4>2, AlikeStep
    <3> HIDE DEF p1, r1, f1
    <3>2. QED
      BY <2>2, <2>3, <3>1 DEF SameWords
  <2>6. c \in Blanks => /\ f.mode \in Out => f1 = Emit(f)
                        /\ f.mode = "escape" => f1.mode \in Out \/ f1.mode \in Quotes
                        /\ f.mode \in Quotes => f1.mode = f.mode
    <3> HIDE DEF f
    <3>1. ASSUME c \in Blanks, f.mode \in Out PROVE f1 = Emit(f)
      BY <1>1, <1>3, <3>1, LexBlank
    <3>2. ASSUME f.mode = "escape" PROVE f1.mode \in Out \/ f1.mode \in Quotes
      <4>1. f1.mode = f.back
        BY <1>1, <1>3, <3>2, LexEscaped
      <4>2. f.back \in {"word", Double}
        BY <1>3, LexFields
      <4>3. QED
        BY <4>1, <4>2, ShellItems DEF Out
    <3>3. ASSUME c \in Blanks, f.mode \in Quotes PROVE f1.mode = f.mode
      <4>1. c # f.mode /\ c # "\\"
        BY <1>6, <3>3, SpaceIsBlank
      <4>2. QED
        BY <1>1, <1>3, <3>3, <4>1, LexQuotedOn
    <3>4. QED
      BY <3>1, <3>2, <3>3
  <2>7. /\ f.mode \in Out \/ f.mode = "escape" \/ f.mode \in Quotes
        /\ "escape" \notin Out /\ "escape" \notin Quotes /\ \A q \in Quotes : q \notin Out
    BY <1>3, LexFields, ShellItems DEF Out
  <2>8. /\ f.mode \in Out => \/ g.mode = "escape"
                             \/ g.mode \in Out /\ Emit(g).tokens = Emit(f).tokens
        /\ f.mode = "escape" => g.mode = "escape"
    BY DEF LexersKeep, HandedOver
  <2>9. Emit(Emit(f)).tokens = Emit(f).tokens /\ Emit(f).mode = "between"
    BY <1>3, EmitParts
  <2> HIDE DEF p1, r1, f, g, f1
  <2>10. /\ Ahead(p1).mode \in Out =>
              \/ Inner(p1).mode = "escape"
              \/ Inner(p1).mode \in Out /\ Emit(Inner(p1)).tokens = Emit(Ahead(p1)).tokens
         /\ Ahead(p1).mode = "escape" => Inner(p1).mode = "escape"
    <3>1. CASE c \in Blanks
      <4>1. Ahead(p1) = f1 /\ Inner(p1) = g
        BY <2>3, <3>1
      <4>2. f1.mode # "escape"
        <5>1. CASE f.mode \in Out
          BY <2>6, <2>7, <2>9, <3>1, <5>1
        <5>2. CASE f.mode = "escape"
          BY <2>6, <2>7, <3>1, <5>2
        <5>3. CASE f.mode \in Quotes
          BY <2>6, <2>7, <3>1, <5>3
        <5>4. QED
          BY <2>7, <5>1, <5>2, <5>3
      <4>3. ASSUME f1.mode \in Out
            PROVE  g.mode = "escape" \/ (g.mode \in Out /\ Emit(g).tokens = Emit(f1).tokens)
        <5>1. CASE f.mode \in Out
          <6>1. f1 = Emit(f)
            BY <2>6, <3>1, <5>1
          <6>2. QED
            BY <2>8, <2>9, <5>1, <6>1
        <5>2. CASE f.mode = "escape"
          BY <2>8, <5>2
        <5>3. CASE f.mode \in Quotes
          BY <2>6, <2>7, <3>1, <4>3, <5>3
        <5>4. QED
          BY <2>7, <5>1, <5>2, <5>3
      <4>4. QED
        BY <4>1, <4>2, <4>3
    <3>2. CASE c \notin Blanks
      <4>1. Ahead(p1) = f1 /\ Inner(p1) = f1
        BY <2>3, <3>2
      <4>2. QED
        BY <4>1
    <3>3. QED
      BY <3>1, <3>2
  <2>11. HandedOver(p1)
    BY <2>3, <2>4, <2>10 DEF HandedOver
  <2>12. p1.escaped => c = "\\"
    BY <2>2
  <2>13. ASSUME NoEscape(p), c # "\\" PROVE NoEscape(p1)
    <3>1. ~p.escaped /\ g.mode # "escape" /\ Whole(p.raws)
      BY <2>13 DEF NoEscape, g
    <3>2. p1.escaped = FALSE
      BY <2>2, <2>13
    <3>3. f1.mode # "escape"
      <4>1. p1.quote = "none" \/ p1.quote \in Quotes
        BY <1>2, SplitFields
      <4>2. CASE p1.quote = "none"
        BY <2>4, <2>7, <3>2, <4>2 DEF Reads
      <4>3. CASE p1.quote \in Quotes
        <5>1. p1.quote # "none"
          BY <4>3, ShellItems
        <5>2. QED
          BY <2>4, <2>7, <3>2, <4>3, <5>1 DEF Reads
      <4>4. QED
        BY <4>1, <4>2, <4>3
    <3>4. Inner(p1).mode # "escape"
      BY <2>3, <3>1, <3>3
    <3>5. QED
      BY <2>2, <3>1, <3>2, <3>4 DEF NoEscape
  <2>14. LexersKeep(p1, r1)
    BY <1>4, <2>5, <2>11 DEF LexersKeep
  <2>15. QED
    BY <2>12, <2>13, <2>14 DEF p1, r1
<1>9. QED
  BY <1>7, <1>8

LEMMA CommandsAgree ==
  ASSUME NEW u \in Texts, ~EscapesInSingleQuotes(u)
  PROVE  LET segments  == Segments(u)
             reference == ReferenceTokens(u)
         IN /\ segments.ok => \/ reference.ok /\ FlattenSeq(segments.tokens) = reference.tokens
                              \/ ~reference.ok /\ Last(u) = "\\"
            /\ (reference.ok /\ ~Contains(u, "\\")) => segments.ok
<1> DEFINE n == Len(u)
           v == [i \in DOMAIN u |-> IF LiveOperator(u, i) THEN Space ELSE u[i]]
           P == SplitStates(u)
           L == LexStates(u)
           R == LexStates(v)
<1>1. n \in Nat /\ DOMAIN u = 1..n /\ \A i \in 1..n : u[i] \in Items
  BY DEF Texts
<1>2. v \in Texts /\ Len(v) = n /\ \A i \in 1..n : v[i] = IF LiveOperator(u, i) THEN Space ELSE u[i]
  BY <1>1, SqlItems DEF Texts
<1>3. /\ P \in [0..n -> SplitState] /\ P[0] = SplitStart
      /\ \A i \in 1..n : P[i] = SplitStep(P[i - 1], u, i)
  BY SplitRuns
<1>4. /\ \A i \in 0..n : Reads(L[i], P[i]) /\ InText(P[i], u, i, Ampersands(u)[i])
      /\ \A i \in 1..n : LiveOperator(u, i) <=> (P[i - 1].half \/ Cuts(P[i - 1], u, i))
  BY OperatorsAgree
<1>5. L \in [0..n -> LexState]
  BY LexRuns
<1>6. \A i \in 1..n : ~(u[i] = "\\" /\ L[i - 1].mode = "'")
  BY <1>1 DEF EscapesInSingleQuotes
<1>7. Segments(u) = LET split == SplitEnd(P[n])
                    IN Built(split, [i \in DOMAIN split.raws |-> Tokenize(split.raws[i])])
  BY DEF Segments, SplitSegments
<1>8. ReferenceTokens(u) = Tokenize(v)
  BY DEF ReferenceTokens
<1> HIDE DEF v, P, L
<1>9. /\ R \in [0..n -> LexState] /\ R[0] = LexStart
      /\ \A i \in 1..n : R[i] = LexStep(R[i - 1], v[i])
  BY <1>2, LexRuns
<1>10. R[n] = Read(v)
  BY <1>2 DEF Read
<1> HIDE DEF n, R
<1> DEFINE plain == \A i \in 1..n : u[i] # "\\"
           T == {i \in 0..n : /\ LexersKeep(P[i], R[i])
                              /\ P[i].escaped => i > 0 /\ u[i] = "\\"
                              /\ plain => NoEscape(P[i])}
<1> HIDE DEF plain
<1>11. 0 \in T
  <2>1. SplitStart.escaped = FALSE
    BY DEF SplitStart
  <2>2. QED
    BY <1>1, <1>3, <1>9, <2>1, LexersStart
<1>12. ASSUME NEW i \in 1..n, i - 1 \in T
       PROVE  i \in T
  <2> DEFINE k == i - 1
  <2>1. k \in 0..n /\ i \in 0..n /\ i > 0 /\ LexersKeep(P[k], R[k]) /\ (plain => NoEscape(P[k]))
    BY <1>1, <1>12
  <2>2. /\ P[i] = SplitStep(P[k], u, i) /\ R[i] = LexStep(R[k], v[i])
        /\ v[i] = IF P[k].half \/ Cuts(P[k], u, i) THEN Space ELSE u[i]
        /\ ~(u[i] = "\\" /\ L[k].mode = "'")
    BY <1>2, <1>3, <1>4, <1>6, <1>9
  <2>3. Reads(L[k], P[k]) /\ InText(P[k], u, k, Ampersands(u)[k])
    BY <1>4, <2>1
  <2>4. k + 1 = i /\ i \in 1..Len(u)
    BY <1>1 DEF n
  <2> HIDE DEF k
  <2>5. P[k] \in SplitState /\ L[k] \in LexState /\ R[k] \in LexState
    BY <1>3, <1>5, <1>9, <2>1
  <2>6. ~(u[i] = "\\" /\ ~P[k].escaped /\ P[k].quote = "'")
    BY <2>2, <2>3, <2>5, ReadsOutside
  <2>7. P[k].half => /\ u[i] \in {"&", "|"} /\ ~P[k].escaped /\ P[k].quote = "none"
                     /\ P[k].current = <<>>
    BY <2>3, <2>4 DEF InText
  <2>8. /\ LexersKeep(P[i], R[i]) /\ (P[i].escaped => u[i] = "\\")
        /\ NoEscape(P[k]) /\ u[i] # "\\" => NoEscape(P[i])
    BY <2>1, <2>2, <2>4, <2>5, <2>6, <2>7, LexersKeepStep
  <2>9. plain => u[i] # "\\"
    BY DEF plain
  <2>10. QED
    BY <2>1, <2>8, <2>9
<1>13. n \in T
  <2> HIDE DEF T
  <2>1. \A i \in 0..n : i \in T
    BY <1>1, <1>11, <1>12, AllAlong
  <2>2. QED
    BY <1>1, <2>1
<1> DEFINE p == P[n]
           r == R[n]
<1>14. LexersKeep(p, r) /\ (p.escaped => n > 0 /\ u[n] = "\\") /\ (plain => NoEscape(p))
  BY <1>13
<1>15. p \in SplitState /\ r \in LexState /\ r = Read(v)
  BY <1>1, <1>3, <1>9, <1>10
<1> DEFINE split == SplitEnd(p)
           raws == split.raws
           lexed == [i \in DOMAIN raws |-> Tokenize(raws[i])]
<1>16. Segments(u) = Built(split, lexed)
  BY <1>7
<1> HIDE DEF p, r, T
<1>17. /\ split.ok = (p.quote = "none")
       /\ raws = Cut(IF p.escaped THEN Take(p, "\\") ELSE p, <<>>).raws
  BY DEF SplitEnd
<1>18. Segments(u).ok <=> p.quote = "none" /\ Whole(raws)
  <2> HIDE DEF split
  <2>1. Segments(u).ok = (split.ok /\ \A i \in DOMAIN lexed : lexed[i].ok)
    BY <1>16 DEF Built
  <2>2. (\A i \in DOMAIN lexed : lexed[i].ok) <=> Whole(raws)
    BY DEF Whole
  <2>3. QED
    BY <1>17, <2>1, <2>2
<1>19. FlattenSeq(Segments(u).tokens) = WordsIn(raws)
  <2> HIDE DEF split
  <2>1. Segments(u).tokens = [i \in DOMAIN lexed |-> lexed[i].tokens]
    BY <1>16 DEF Built
  <2>2. [i \in DOMAIN lexed |-> lexed[i].tokens] = [i \in DOMAIN raws |-> Tokenize(raws[i]).tokens]
    OBVIOUS
  <2>3. QED
    BY <2>1, <2>2 DEF WordsIn
<1>20. ReferenceTokens(u).ok = (r.mode \in Out) /\ ReferenceTokens(u).tokens = Emit(r).tokens
  BY <1>2, <1>8, <1>15, WordsOf
<1>21. r.mode \in Out <=> ~p.escaped /\ p.quote = "none"
  BY <1>14, <1>15, ReadsOutside DEF LexersKeep
<1>22. p.escaped \in BOOLEAN /\ p.operators \in Chains
  BY <1>15, SplitFields
<1> HIDE DEF split, raws, lexed
<1>23. ~p.escaped => raws = IF Stripped(p.current) = <<>> THEN p.raws
                            ELSE Append(p.raws, Stripped(p.current))
  <2>1. p.operators \o <<>> \in Chains
    BY <1>22, ChainFacts
  <2>2. Cut(p, <<>>).raws = IF Stripped(p.current) = <<>> THEN p.raws
                            ELSE Append(p.raws, Stripped(p.current))
    BY <1>15, <2>1, CutParts
  <2>3. QED
    BY <1>17, <2>2
<1>24. ~p.escaped /\ p.quote = "none" =>
         /\ Whole(raws) => Emit(r).tokens = WordsIn(raws)
         /\ Whole(p.raws) /\ Inner(p).mode # "escape" => Whole(raws)
  BY <1>14, <1>15, <1>23, CommandCut
<1>25. Segments(u).ok => \/ /\ ReferenceTokens(u).ok
                            /\ FlattenSeq(Segments(u).tokens) = ReferenceTokens(u).tokens
                         \/ ~ReferenceTokens(u).ok /\ Last(u) = "\\"
  <2>1. SUFFICES ASSUME p.quote = "none", Whole(raws)
                 PROVE  \/ /\ ReferenceTokens(u).ok
                           /\ FlattenSeq(Segments(u).tokens) = ReferenceTokens(u).tokens
                        \/ ~ReferenceTokens(u).ok /\ Last(u) = "\\"
    BY <1>18
  <2>2. CASE ~p.escaped
    BY <1>19, <1>20, <1>21, <1>24, <2>1, <2>2
  <2>3. CASE p.escaped
    <3>1. ~ReferenceTokens(u).ok
      BY <1>20, <1>21, <2>3
    <3>2. Last(u) = "\\"
      BY <1>14, <2>3 DEF Last, n
    <3>3. QED
      BY <3>1, <3>2
  <2>4. QED
    BY <2>2, <2>3
<1>26. ReferenceTokens(u).ok /\ ~Contains(u, "\\") => Segments(u).ok
  <2>1. SUFFICES ASSUME ReferenceTokens(u).ok, ~Contains(u, "\\") PROVE Segments(u).ok
    OBVIOUS
  <2>2. plain
    BY <2>1 DEF Contains, plain, n
  <2>3. ~p.escaped /\ p.quote = "none"
    BY <1>20, <1>21, <2>1
  <2>4. Inner(p).mode # "escape" /\ Whole(p.raws)
    BY <1>14, <2>2 DEF NoEscape
  <2>5. QED
    BY <1>18, <1>24, <2>3, <2>4
<1>27. QED
  BY <1>25, <1>26

\* Whatever command line is typed, unless a backslash stands in single quotes: the
\* commands that the splitter cuts it into have the words that shlex reads in the whole
\* line, in their order, and a line without backslashes that shlex reads is not refused.
\* No operator that only one of the two sees hides a command.
THEOREM LexersAgreeCorrect == Spec => []LexersAgree
<1>1. TextTyped => LexersAgree
  <2>1. "shellText" \in Typed
    BY DEF Typed
  <2>2. QED
    BY <2>1, CommandsAgree DEF TextTyped, LexersAgree
<1>2. QED
  BY <1>1, TextTypedHolds, PTL

-----------------------------------------------------------------------------
(* Texts put together: what shlex makes of the parts and of the whole.     *)

\* It does not look ahead.
LEMMA SameStart ==
  ASSUME NEW u \in Texts, NEW v \in Texts, NEW n \in 0..Len(u), n <= Len(v),
         \A i \in 1..n : u[i] = v[i]
  PROVE  LexStates(u)[n] = LexStates(v)[n]
<1> DEFINE f == LexStates(u)
           g == LexStates(v)
<1>1. n \in Nat /\ Len(u) \in Nat /\ Len(v) \in Nat
  BY DEF Texts
<1>2. f[0] = LexStart /\ \A i \in 1..Len(u) : f[i] = LexStep(f[i - 1], u[i])
  BY LexRuns
<1>3. g[0] = LexStart /\ \A i \in 1..Len(v) : g[i] = LexStep(g[i - 1], v[i])
  BY LexRuns
<1> HIDE DEF f, g
<1> DEFINE T == {i \in 0..n : f[i] = g[i]}
<1>4. 0 \in T
  BY <1>1, <1>2, <1>3
<1>5. ASSUME NEW i \in 1..n, i - 1 \in T
      PROVE  i \in T
  <2>1. i \in 0..n /\ i \in 1..Len(u) /\ i \in 1..Len(v) /\ f[i - 1] = g[i - 1] /\ u[i] = v[i]
    BY <1>1, <1>5
  <2>2. f[i] = LexStep(f[i - 1], u[i]) /\ g[i] = LexStep(g[i - 1], v[i])
    BY <1>2, <1>3, <2>1
  <2>3. QED
    BY <2>1, <2>2
<1>6. QED
  <2> HIDE DEF T
  <2>1. \A i \in 0..n : i \in T
    BY <1>1, <1>4, <1>5, AllAlong
  <2>2. n \in T
    BY <1>1, <2>1
  <2>3. QED
    BY <2>2 DEF T, f, g

\* Two lexers in the same quotes, and at the same escape.
SameQuotes(s, t) ==
  /\ s.mode \in Out <=> t.mode \in Out
  /\ s.mode \notin Out => s.mode = t.mode
  /\ s.mode = "escape" => s.back = t.back

LEMMA SameQuotesStep ==
  ASSUME NEW s \in LexState, NEW t \in LexState, NEW c \in Items, SameQuotes(s, t)
  PROVE  SameQuotes(LexStep(s, c), LexStep(t, c))
<1>1. /\ "escape" \notin Out \cup Quotes /\ Out \cap Quotes = {} /\ "between" \in Out /\ "word" \in Out
      /\ "\\" \notin Quotes /\ "\\" \notin Blanks
  BY ShellItems DEF Out, Quotes, Double
<1>2. ASSUME NEW r \in LexState, r.mode \in Out
      PROVE  /\ c \in Quotes => LexStep(r, c).mode = c
             /\ c = "\\" => LexStep(r, c).mode = "escape" /\ LexStep(r, c).back = "word"
             /\ c \notin Quotes \cup {"\\"} => LexStep(r, c).mode \in Out
  <2>1. CASE c \in Blanks
    <3>1. c \notin Quotes
      BY <2>1, SpaceIsBlank
    <3>2. LexStep(r, c) = Emit(r)
      BY <1>2, <2>1, LexBlank
    <3>3. Emit(r).mode = "between"
      BY DEF Emit, LexState
    <3>4. QED
      BY <1>1, <2>1, <3>1, <3>2, <3>3
  <2>2. CASE c \notin Blanks
    <3>1. /\ LexStep(r, c).mode = IF c = "\\" THEN "escape" ELSE IF c \in Quotes THEN c ELSE "word"
          /\ c = "\\" => LexStep(r, c).back = "word"
      BY <1>2, <2>2, LexLetter
    <3>2. QED
      BY <1>1, <3>1
  <2>3. QED
    BY <2>1, <2>2
<1>3. ASSUME NEW r \in LexState, r.mode \in Quotes
      PROVE  /\ c = r.mode => LexStep(r, c).mode \in Out
             /\ r.mode = Double /\ c = "\\" => LexStep(r, c).mode = "escape" /\ LexStep(r, c).back = Double
             /\ c # r.mode /\ ~(r.mode = Double /\ c = "\\") => LexStep(r, c).mode = r.mode
  <2>1. /\ LexStep(r, c).mode = IF c = r.mode THEN "word"
                                ELSE IF r.mode = Double /\ c = "\\" THEN "escape" ELSE r.mode
        /\ r.mode = Double /\ c = "\\" => LexStep(r, c).back = Double
    BY <1>3, LexQuoted
  <2>2. QED
    BY <1>1, <1>3, <2>1
<1>4. CASE s.mode \in Out
  <2>1. t.mode \in Out
    BY <1>4 DEF SameQuotes
  <2>2. QED
    BY <1>1, <1>2, <1>4, <2>1 DEF SameQuotes
<1>5. CASE s.mode \in Quotes
  <2>1. s.mode = t.mode
    BY <1>1, <1>5 DEF SameQuotes
  <2>2. QED
    BY <1>1, <1>3, <1>5, <2>1 DEF SameQuotes
<1>6. CASE s.mode = "escape"
  <2>1. t.mode = "escape" /\ s.back = t.back
    BY <1>1, <1>6 DEF SameQuotes
  <2>2. LexStep(s, c).mode = s.back /\ LexStep(t, c).mode = s.back
    BY <1>6, <2>1, LexEscaped
  <2>3. s.back # "escape"
    BY <1>1, ShellItems DEF LexState
  <2>4. QED
    BY <2>2, <2>3 DEF SameQuotes
<1>7. QED
  BY <1>4, <1>5, <1>6 DEF LexState, LexModes

\* Behind a text that closes its quotes a text is in quotes where it is so by itself.
LEMMA QuotesBehind ==
  ASSUME NEW u \in Texts, NEW v \in Texts, Read(u).mode \in Out
  PROVE  Read(u \o v).mode \in Out <=> Read(v).mode \in Out
<1> DEFINE w == u \o v
           n == Len(u)
           m == Len(v)
           f == LexStates(w)
           g == LexStates(v)
<1>1. /\ n \in Nat /\ m \in Nat /\ w \in Texts /\ Len(w) = n + m
      /\ \A i \in 1..n : w[i] = u[i]
      /\ \A i \in 1..m : w[n + i] = v[i] /\ v[i] \in Items
  BY DEF Texts
<1> HIDE DEF w, n, m
<1>2. f \in [0..(n + m) -> LexState] /\ \A i \in 1..(n + m) : f[i] = LexStep(f[i - 1], w[i])
  BY <1>1, LexRuns
<1>3. g \in [0..m -> LexState] /\ g[0] = LexStart /\ \A i \in 1..m : g[i] = LexStep(g[i - 1], v[i])
  BY LexRuns DEF m
<1>4. f[n] = Read(u)
  <2>1. n = Len(u)
    BY DEF n
  <2>2. n \in 0..Len(u) /\ n <= Len(w) /\ \A i \in 1..n : u[i] = w[i]
    BY <1>1, <2>1
  <2>3. LexStates(u)[n] = LexStates(w)[n]
    BY <1>1, <2>2, SameStart
  <2>4. QED
    BY <2>1, <2>3 DEF Read, f
<1> HIDE DEF f, g
<1> DEFINE T == {i \in 0..m : SameQuotes(f[n + i], g[i])}
<1>5. 0 \in T
  <2>1. /\ "escape" \notin Out /\ LexStart.mode \in Out
        /\ \A x \in Out : x # "escape"
    BY DEF Out, LexStart
  <2>2. SameQuotes(f[n], g[0])
    BY <1>3, <1>4, <2>1 DEF SameQuotes
  <2>3. n + 0 = n
    BY <1>1
  <2>4. QED
    BY <1>1, <2>2, <2>3
<1>6. ASSUME NEW i \in 1..m, i - 1 \in T
      PROVE  i \in T
  <2>1. /\ i \in 0..m /\ i - 1 \in 0..m /\ n + i \in 1..(n + m) /\ n + (i - 1) = (n + i) - 1
        /\ n + (i - 1) \in 0..(n + m)
    BY <1>1, <1>6
  <2>2. SameQuotes(f[n + (i - 1)], g[i - 1])
    BY <1>6
  <2>3. f[n + i] = LexStep(f[n + (i - 1)], v[i]) /\ g[i] = LexStep(g[i - 1], v[i])
    BY <1>1, <1>2, <1>3, <2>1
  <2>4. f[n + (i - 1)] \in LexState /\ g[i - 1] \in LexState
    BY <1>2, <1>3, <2>1
  <2>5. SameQuotes(f[n + i], g[i])
    BY <1>1, <2>2, <2>3, <2>4, SameQuotesStep
  <2>6. QED
    BY <2>1, <2>5
<1>7. SameQuotes(f[n + m], g[m])
  <2> HIDE DEF T
  <2>1. \A i \in 0..m : i \in T
    BY <1>1, <1>5, <1>6, AllAlong
  <2>2. m \in T
    BY <1>1, <2>1
  <2>3. QED
    BY <2>2 DEF T
<1>8. Read(w) = f[n + m] /\ Read(v) = g[m]
  BY <1>1 DEF Read, f, g, m
<1>9. QED
  BY <1>7, <1>8 DEF SameQuotes, w

\* A token that is read is never taken back.
LEMMA TokensStep ==
  ASSUME NEW s \in LexState, NEW c \in Items
  PROVE  LexStep(s, c).tokens = s.tokens \/ \E t \in Texts : LexStep(s, c).tokens = Append(s.tokens, t)
<1>1. CASE s.mode \in Out /\ c \in Blanks
  <2>1. LexStep(s, c) = Emit(s)
    BY <1>1, LexBlank
  <2>2. Emit(s).tokens = IF s.token # <<>> \/ s.quoted THEN Append(s.tokens, s.token) ELSE s.tokens
    BY DEF Emit, LexState
  <2>3. s.token \in Texts
    BY DEF LexState
  <2>4. QED
    BY <2>1, <2>2, <2>3
<1>2. CASE s.mode \in Out /\ c \notin Blanks
  BY <1>2, LexLetter
<1>3. CASE s.mode \in Quotes
  BY <1>3, LexQuoted
<1>4. CASE s.mode = "escape"
  BY <1>4, LexEscaped
<1>5. QED
  BY <1>1, <1>2, <1>3, <1>4 DEF LexState, LexModes

LEMMA TokensGrow ==
  ASSUME NEW u \in Texts, NEW k \in 0..Len(u), LexStates(u)[k].tokens # <<>>
  PROVE  Read(u).tokens # <<>> /\ Read(u).tokens[1] = LexStates(u)[k].tokens[1]
<1> DEFINE f == LexStates(u)
           n == Len(u) - k
<1>1. n \in Nat /\ Len(u) \in Nat /\ k \in Nat
  BY DEF Texts
<1>2. f \in [0..Len(u) -> LexState] /\ \A i \in 1..Len(u) : f[i] = LexStep(f[i - 1], u[i])
  BY LexRuns
<1>3. \A i \in 1..Len(u) : u[i] \in Items
  BY DEF Texts
<1> HIDE DEF f
<1> DEFINE first == f[k].tokens[1]
<1> HIDE DEF first
<1> DEFINE T == {i \in 0..n : f[k + i].tokens # <<>> /\ f[k + i].tokens[1] = first}
<1>4. 0 \in T
  <2>1. k + 0 = k
    BY <1>1
  <2>2. f[k].tokens # <<>>
    BY DEF f
  <2>3. QED
    BY <1>1, <2>1, <2>2 DEF first
<1>5. ASSUME NEW i \in 1..n, i - 1 \in T
      PROVE  i \in T
  <2>1. i \in 0..n /\ k + i \in 1..Len(u) /\ k + (i - 1) = (k + i) - 1 /\ k + (i - 1) \in 0..Len(u)
    BY <1>1, <1>5 DEF n
  <2> DEFINE s == f[k + (i - 1)]
             r == f[k + i]
  <2>2. s.tokens # <<>> /\ s.tokens[1] = first
    BY <1>5
  <2>3. s \in LexState /\ s.tokens \in TextLists
    BY <1>2, <2>1 DEF LexState
  <2>4. r = LexStep(s, u[k + i]) /\ u[k + i] \in Items
    BY <1>2, <1>3, <2>1
  <2> HIDE DEF s, r
  <2>5. r.tokens = s.tokens \/ \E t \in Texts : r.tokens = Append(s.tokens, t)
    BY <2>3, <2>4, TokensStep
  <2>6. r.tokens # <<>> /\ r.tokens[1] = first
    BY <2>2, <2>3, <2>5 DEF TextLists
  <2>7. QED
    BY <2>1, <2>6 DEF r
<1>6. QED
  <2> HIDE DEF T
  <2>1. \A i \in 0..n : i \in T
    <3> HIDE DEF n
    <3>1. QED
      BY <1>1, <1>4, <1>5, AllAlong
  <2>2. n \in T /\ k + n = Len(u)
    BY <1>1, <2>1
  <2>3. QED
    BY <2>2 DEF T, Read, f, first

\* The first word of what begins with a word and a blank, whatever follows.
LEMMA FirstWord ==
  ASSUME NEW u \in Texts, Len(u) > 1, u[1] \notin Significant, u[2] \in Blanks
  PROVE  Read(u).tokens # <<>> /\ Read(u).tokens[1] = <<u[1]>>
<1> DEFINE f == LexStates(u)
<1>1. u[1] \in Items /\ u[2] \in Items /\ 1 \in 1..Len(u) /\ 2 \in 1..Len(u) /\ 2 \in 0..Len(u)
  BY DEF Texts
<1>2. f[0] = LexStart /\ f[1] = LexStep(f[0], u[1]) /\ f[2] = LexStep(f[1], u[2])
  <2>1. \A i \in 1..Len(u) : f[i] = LexStep(f[i - 1], u[i])
    BY LexRuns
  <2>2. 1 - 1 = 0 /\ 2 - 1 = 1
    OBVIOUS
  <2>3. QED
    BY <1>1, <2>1, <2>2, LexRuns
<1> HIDE DEF f
<1> DEFINE s == f[1]
<1>3. u[1] \notin Blanks /\ u[1] \notin Quotes /\ u[1] # "\\"
  BY DEF Significant
<1>4. LexStart \in LexState /\ LexStart.mode \in Out /\ LexStart.token = <<>> /\ LexStart.tokens = <<>>
  BY LexStepType DEF LexStart, Out
<1>5. /\ s \in LexState
      /\ s.mode = IF u[1] = "\\" THEN "escape" ELSE IF u[1] \in Quotes THEN u[1] ELSE "word"
      /\ s.token = IF u[1] = "\\" \/ u[1] \in Quotes THEN LexStart.token ELSE LexStart.token \o <<u[1]>>
      /\ s.tokens = LexStart.tokens
  <2>1. s = LexStep(LexStart, u[1])
    BY <1>2
  <2> DEFINE r == LexStep(LexStart, u[1])
  <2>2. /\ r.mode = IF u[1] = "\\" THEN "escape" ELSE IF u[1] \in Quotes THEN u[1] ELSE "word"
        /\ r.token = IF u[1] = "\\" \/ u[1] \in Quotes THEN LexStart.token ELSE LexStart.token \o <<u[1]>>
        /\ r.tokens = LexStart.tokens
    BY <1>1, <1>3, <1>4, LexLetter
  <2>3. r \in LexState
    BY <1>1, <1>4, LexStepType
  <2>4. s = r
    BY <2>1
  <2> HIDE DEF r
  <2>5. QED
    BY <2>2, <2>3, <2>4
<1>6. s.mode \in Out /\ s.token = <<u[1]>> /\ s.tokens = <<>>
  <2>1. <<>> \o <<u[1]>> = <<u[1]>>
    OBVIOUS
  <2>2. QED
    BY <1>3, <1>4, <1>5, <2>1 DEF Out
<1>7. f[2] = Emit(s)
  BY <1>1, <1>2, <1>5, <1>6, LexBlank
<1>8. f[2].tokens = <<<<u[1]>>>>
  <2>1. Emit(s).tokens = IF s.token # <<>> \/ s.quoted THEN Append(s.tokens, s.token) ELSE s.tokens
    BY <1>5 DEF Emit, LexState
  <2>2. s.token # <<>>
    BY <1>6
  <2>3. QED
    BY <1>6, <1>7, <2>1, <2>2
<1>9. f[2].tokens # <<>> /\ f[2].tokens[1] = <<u[1]>>
  BY <1>8
<1>10. QED
  BY <1>1, <1>9, TokensGrow DEF f

\* Two lexers at the same word, of which the second knows it to be quoted.
Echo(s, t) ==
  /\ s.mode = t.mode /\ s.token = t.token /\ s.tokens = t.tokens
  /\ s.token = <<>> => s.quoted = t.quoted

LEMMA EchoEmit ==
  ASSUME NEW s \in LexState, NEW t \in LexState, Echo(s, t)
  PROVE  Emit(s).tokens = Emit(t).tokens /\ Echo(Emit(s), Emit(t))
<1>1. \A r \in LexState :
        /\ Emit(r).mode = "between" /\ Emit(r).token = <<>> /\ Emit(r).quoted = FALSE
        /\ Emit(r).tokens = IF r.token # <<>> \/ r.quoted THEN Append(r.tokens, r.token) ELSE r.tokens
  BY DEF Emit, LexState
<1>2. Emit(s).tokens = Emit(t).tokens
  <2>1. Emit(s).tokens = IF s.token # <<>> \/ s.quoted THEN Append(s.tokens, s.token) ELSE s.tokens
    BY <1>1
  <2>2. Emit(t).tokens = IF t.token # <<>> \/ t.quoted THEN Append(t.tokens, t.token) ELSE t.tokens
    BY <1>1
  <2>3. QED
    BY <2>1, <2>2 DEF Echo
<1>3. QED
  BY <1>1, <1>2 DEF Echo

\* Outside quotes, where no quote comes.
LEMMA EchoStep ==
  ASSUME NEW s \in LexState, NEW t \in LexState, NEW c \in Items, Echo(s, t), s.mode \in Out,
         c \notin Quotes, c # "\\"
  PROVE  Echo(LexStep(s, c), LexStep(t, c)) /\ LexStep(s, c).mode \in Out
<1>1. t.mode \in Out
  BY DEF Echo
<1>2. CASE c \in Blanks
  <2>1. LexStep(s, c) = Emit(s) /\ LexStep(t, c) = Emit(t)
    BY <1>1, <1>2, LexBlank
  <2>2. Emit(s).mode \in Out
    BY DEF Emit, LexState, Out
  <2>3. QED
    BY <2>1, <2>2, EchoEmit
<1>3. CASE c \notin Blanks
  <2>1. ASSUME NEW r \in LexState, r.mode \in Out
        PROVE  /\ LexStep(r, c).mode = "word" /\ LexStep(r, c).token = r.token \o <<c>>
               /\ LexStep(r, c).tokens = r.tokens
    <3>1. /\ LexStep(r, c).mode = IF c = "\\" THEN "escape" ELSE IF c \in Quotes THEN c ELSE "word"
          /\ LexStep(r, c).token = IF c = "\\" \/ c \in Quotes THEN r.token ELSE r.token \o <<c>>
          /\ LexStep(r, c).tokens = r.tokens
      BY <1>3, <2>1, LexLetter
    <3>2. QED
      BY <3>1
  <2>2. s.token \o <<c>> # <<>>
    BY DEF LexState, Texts
  <2>3. /\ LexStep(s, c).mode = "word" /\ LexStep(s, c).token = s.token \o <<c>>
        /\ LexStep(s, c).tokens = s.tokens
    BY <2>1
  <2>4. /\ LexStep(t, c).mode = "word" /\ LexStep(t, c).token = t.token \o <<c>>
        /\ LexStep(t, c).tokens = t.tokens
    BY <1>1, <2>1
  <2>5. QED
    BY <2>2, <2>3, <2>4 DEF Echo, Out
<1>4. QED
  BY <1>2, <1>3

\* Quoting a whole word.
LEMMA EchoQuoted ==
  ASSUME NEW s \in LexState, NEW x \in Items, NEW q \in Items, s.mode \in Out, q \in Quotes,
         x \notin Blanks \cup Quotes, x # "\\"
  PROVE  /\ Echo(LexStep(s, x), LexStep(LexStep(LexStep(s, q), x), q))
         /\ LexStep(s, x).mode \in Out
<1> DEFINE a == LexStep(s, x)
           b == LexStep(s, q)
           c == LexStep(b, x)
           d == LexStep(c, q)
<1>1. a \in LexState /\ b \in LexState /\ c \in LexState /\ d \in LexState
  BY LexStepType
<1>2. q \notin Blanks /\ q # "\\" /\ x # q
  BY SpaceIsBlank, ShellItems DEF Quotes, Double
<1>3. /\ a.mode = "word" /\ a.token = s.token \o <<x>> /\ a.tokens = s.tokens
  <2>1. /\ a.mode = IF x = "\\" THEN "escape" ELSE IF x \in Quotes THEN x ELSE "word"
        /\ a.token = IF x = "\\" \/ x \in Quotes THEN s.token ELSE s.token \o <<x>>
        /\ a.tokens = s.tokens
    BY LexLetter
  <2>2. QED
    BY <2>1
<1>4. b.mode = q /\ b.token = s.token /\ b.tokens = s.tokens
  <2>1. /\ b.mode = IF q = "\\" THEN "escape" ELSE IF q \in Quotes THEN q ELSE "word"
        /\ b.token = IF q = "\\" \/ q \in Quotes THEN s.token ELSE s.token \o <<q>>
        /\ b.tokens = s.tokens
    BY <1>2, LexLetter
  <2>2. QED
    BY <1>2, <2>1
<1> HIDE DEF b
<1>5. c.mode = q /\ c.token = s.token \o <<x>> /\ c.tokens = s.tokens
  <2>1. /\ c.mode = IF x = b.mode THEN "word"
                    ELSE IF b.mode = Double /\ x = "\\" THEN "escape" ELSE b.mode
        /\ c.token = IF x = b.mode \/ (b.mode = Double /\ x = "\\") THEN b.token ELSE b.token \o <<x>>
        /\ c.tokens = b.tokens
    BY <1>1, <1>4, LexQuoted
  <2>2. QED
    BY <1>2, <1>4, <2>1
<1> HIDE DEF c
<1>6. d.mode = "word" /\ d.token = s.token \o <<x>> /\ d.tokens = s.tokens
  <2>1. /\ d.mode = IF q = c.mode THEN "word"
                    ELSE IF c.mode = Double /\ q = "\\" THEN "escape" ELSE c.mode
        /\ d.token = IF q = c.mode \/ (c.mode = Double /\ q = "\\") THEN c.token ELSE c.token \o <<q>>
        /\ d.tokens = c.tokens
    <3>1. c \in LexState /\ c.mode \in Quotes
      BY <1>1, <1>5
    <3>2. QED
      BY <3>1, LexQuoted
  <2>2. QED
    BY <1>5, <2>1
<1>7. s.token \o <<x>> # <<>>
  BY DEF LexState, Texts
<1> HIDE DEF a, d
<1>8. Echo(a, d) /\ a.mode \in Out
  BY <1>3, <1>6, <1>7 DEF Echo, Out
<1>9. QED
  BY <1>8 DEF a, d, b, c

\* v is u with quotes around the word at p.
WordQuoted(u, v, p) ==
  /\ p \in 1..Len(u) /\ Len(v) = Len(u) + 2
  /\ u[p] \notin Blanks \cup Separators \cup {"&"}
  /\ \A i \in 1..Len(u) : u[i] \notin Quotes /\ u[i] # "\\"
  /\ \A i \in 1..(p - 1) : v[i] = u[i]
  /\ v[p] = Double /\ v[p + 1] = u[p] /\ v[p + 2] = Double
  /\ \A i \in (p + 1)..Len(u) : v[i + 2] = u[i]

LEMMA WordQuotedReads ==
  ASSUME NEW u \in Texts, NEW v \in Texts, NEW p, WordQuoted(u, v, p)
  PROVE  /\ \A k \in 0..Len(u) : LexStates(u)[k].mode \in Out
         /\ \A k \in 0..(p - 1) : LexStates(v)[k] = LexStates(u)[k]
         /\ \A k \in p..Len(u) : Echo(LexStates(u)[k], LexStates(v)[k + 2])
<1> DEFINE f == LexStates(u)
           g == LexStates(v)
           n == Len(u)
<1>1. n \in Nat /\ p \in 1..n /\ p \in Nat /\ Len(v) = n + 2 /\ \A i \in 1..n : u[i] \in Items
  BY DEF Texts, WordQuoted
<1>2. f \in [0..n -> LexState] /\ f[0] = LexStart /\ \A i \in 1..n : f[i] = LexStep(f[i - 1], u[i])
  BY LexRuns
<1>3. g \in [0..(n + 2) -> LexState] /\ \A i \in 1..(n + 2) : g[i] = LexStep(g[i - 1], v[i])
  BY <1>1, LexRuns
<1>4. \A i \in 1..n : u[i] \notin Quotes /\ u[i] # "\\"
  BY DEF WordQuoted
<1>5. \A k \in 0..(p - 1) : g[k] = f[k]
  <2>1. SUFFICES ASSUME NEW k \in 0..(p - 1) PROVE g[k] = f[k]
    OBVIOUS
  <2>2. k \in 0..Len(v) /\ k <= Len(u) /\ \A i \in 1..k : v[i] = u[i]
    BY <1>1, <2>1 DEF WordQuoted
  <2>3. QED
    BY <2>2, SameStart
<1> HIDE DEF f, g, n
<1> DEFINE R == {k \in 0..n : f[k].mode \in Out}
<1>6. \A k \in 0..n : k \in R
  <2>1. 0 \in R
    BY <1>1, <1>2 DEF LexStart, Out
  <2>2. ASSUME NEW k \in 1..n, k - 1 \in R PROVE k \in R
    <3>1. k \in 0..n /\ k - 1 \in 0..n
      BY <1>1, <2>2
    <3>2. f[k - 1] \in LexState /\ f[k - 1].mode \in Out /\ Echo(f[k - 1], f[k - 1])
      BY <1>2, <2>2, <3>1 DEF Echo
    <3>3. f[k] = LexStep(f[k - 1], u[k]) /\ u[k] \in Items /\ u[k] \notin Quotes /\ u[k] # "\\"
      BY <1>1, <1>2, <1>4, <2>2
    <3>4. f[k].mode \in Out
      BY <3>2, <3>3, EchoStep
    <3>5. QED
      BY <3>1, <3>4
  <2> HIDE DEF R
  <2>3. QED
    BY <1>1, <2>1, <2>2, AllAlong
<1>7. Echo(f[p], g[p + 2])
  <2> DEFINE s == f[p - 1]
  <2>1. p - 1 \in 0..n /\ p \in 0..n /\ p \in 1..n /\ p \in 1..(n + 2) /\ p + 1 \in 1..(n + 2) /\ p + 2 \in 1..(n + 2)
        /\ (p + 1) - 1 = p /\ (p + 2) - 1 = p + 1 /\ p - 1 \in 0..(p - 1)
    BY <1>1
  <2>2. f[p] = LexStep(s, u[p]) /\ s \in LexState /\ s.mode \in Out
    BY <1>2, <1>6, <2>1
  <2>3. /\ g[p] = LexStep(s, Double) /\ g[p + 1] = LexStep(g[p], u[p])
        /\ g[p + 2] = LexStep(g[p + 1], Double)
    <3>1. v[p] = Double /\ v[p + 1] = u[p] /\ v[p + 2] = Double
      BY DEF WordQuoted
    <3>2. QED
      BY <1>3, <1>5, <2>1, <3>1
  <2>4. u[p] \in Items /\ u[p] \notin Blanks \cup Quotes /\ u[p] # "\\" /\ Double \in Quotes /\ Double \in Items
    BY <1>1, <1>4, ShellItems, SqlItems DEF WordQuoted
  <2> HIDE DEF s
  <2>5. Echo(LexStep(s, u[p]), LexStep(LexStep(LexStep(s, Double), u[p]), Double))
    BY <2>2, <2>4, EchoQuoted
  <2>6. QED
    BY <2>2, <2>3, <2>5
<1> DEFINE m == n - p
           T == {k \in 0..m : Echo(f[p + k], g[(p + k) + 2])}
<1>8. \A k \in 0..m : k \in T
  <2>1. 0 \in T
    <3>1. p + 0 = p /\ 0 \in 0..m
      BY <1>1
    <3>2. QED
      BY <1>7, <3>1
  <2>2. ASSUME NEW k \in 1..m, k - 1 \in T PROVE k \in T
    <3>1. /\ k \in 0..m /\ p + k \in 1..n /\ p + (k - 1) = (p + k) - 1 /\ p + (k - 1) \in 0..n
          /\ (p + k) + 2 \in 1..(n + 2) /\ (p + (k - 1)) + 2 = ((p + k) + 2) - 1
          /\ (p + (k - 1)) + 2 \in 0..(n + 2) /\ p + k \in (p + 1)..n
      BY <1>1, <2>2
    <3> DEFINE s == f[p + (k - 1)]
               t == g[(p + (k - 1)) + 2]
               c == u[p + k]
    <3>2. Echo(s, t)
      BY <2>2
    <3>3. s \in LexState /\ t \in LexState /\ s.mode \in Out
      BY <1>2, <1>3, <1>6, <3>1
    <3>4. f[p + k] = LexStep(s, c)
      BY <1>2, <3>1
    <3>5. v[(p + k) + 2] = c
      BY <3>1 DEF WordQuoted, n
    <3>6. g[(p + k) + 2] = LexStep(t, c)
      BY <1>3, <3>1, <3>5
    <3>7. c \in Items /\ c \notin Quotes /\ c # "\\"
      BY <1>1, <1>4, <3>1
    <3> HIDE DEF s, t, c
    <3>8. Echo(f[p + k], g[(p + k) + 2])
      BY <3>2, <3>3, <3>4, <3>6, <3>7, EchoStep
    <3>9. QED
      BY <3>1, <3>8
  <2>3. m \in Nat
    BY <1>1
  <2> HIDE DEF T, m
  <2>4. QED
    BY <2>1, <2>2, <2>3, AllAlong
<1>9. \A k \in p..n : Echo(f[k], g[k + 2])
  <2>1. SUFFICES ASSUME NEW k \in p..n PROVE Echo(f[k], g[k + 2])
    OBVIOUS
  <2>2. k - p \in 0..m /\ p + (k - p) = k
    BY <1>1
  <2>3. k - p \in T
    BY <1>8, <2>2
  <2>4. QED
    BY <2>2, <2>3
<1>10. QED
  BY <1>5, <1>6, <1>9 DEF f, g, n

LEMMA SeqWider ==
  ASSUME NEW S, NEW T, S \subseteq T, NEW u \in Seq(S)
  PROVE  u \in Seq(T)
OBVIOUS

LEMMA BothParts ==
  ASSUME NEW u \in Texts, NEW v \in Texts
  PROVE  /\ u \o v \in Texts /\ Len(u \o v) = Len(u) + Len(v)
         /\ \A i \in 1..Len(u) : (u \o v)[i] = u[i]
         /\ \A i \in 1..Len(v) : (u \o v)[Len(u) + i] = v[i]
<1>1. u \in Seq(Items) /\ v \in Seq(Items) /\ Len(u) \in Nat /\ Len(v) \in Nat
  BY DEF Texts
<1>2. /\ u \o v \in Seq(Items)
      /\ Len(u \o v) = Len(u) + Len(v)
      /\ \A i \in 1..(Len(u) + Len(v)) :
           (u \o v)[i] = IF i <= Len(u) THEN u[i] ELSE v[i - Len(u)]
  BY <1>1, ConcatProperties
<1>3. \A i \in 1..Len(v) : (Len(u) + i) - Len(u) = i /\ ~(Len(u) + i <= Len(u))
  BY <1>1
<1>4. QED
  BY <1>1, <1>2, <1>3 DEF Texts

\* What stands outside quotes and has none.
LEMMA UnquotedReads ==
  ASSUME NEW u \in Texts, \A i \in 1..Len(u) : u[i] \notin Quotes /\ u[i] # "\\"
  PROVE  Read(u).mode \in Out
<1> DEFINE n == Len(u)
           f == LexStates(u)
<1>1. n \in Nat /\ \A i \in 1..n : u[i] \in Items /\ u[i] \notin Quotes /\ u[i] # "\\"
  BY DEF Texts
<1>2. f \in [0..n -> LexState] /\ f[0] = LexStart /\ \A i \in 1..n : f[i] = LexStep(f[i - 1], u[i])
  BY LexRuns
<1> HIDE DEF f, n
<1> DEFINE T == {i \in 0..n : f[i].mode \in Out}
<1>3. 0 \in T
  <2>1. LexStart.mode \in Out
    BY DEF LexStart, Out
  <2>2. QED
    BY <1>1, <1>2, <2>1
<1>4. ASSUME NEW i \in 1..n, i - 1 \in T PROVE i \in T
  <2>1. i \in 0..n /\ i - 1 \in 0..n
    BY <1>1, <1>4
  <2> DEFINE s == f[i - 1]
             c == u[i]
  <2>2. s \in LexState /\ s.mode \in Out /\ f[i] = LexStep(s, c)
    BY <1>2, <1>4, <2>1
  <2>3. c \in Items /\ c \notin Quotes /\ c # "\\"
    BY <1>1
  <2> HIDE DEF s, c
  <2>4. Echo(s, s)
    BY DEF Echo
  <2>5. LexStep(s, c).mode \in Out
    BY <2>2, <2>3, <2>4, EchoStep
  <2>6. QED
    BY <2>1, <2>2, <2>5
<1>5. n \in T
  <2> HIDE DEF T
  <2>1. \A i \in 0..n : i \in T
    BY <1>1, <1>3, <1>4, AllAlong
  <2>2. QED
    BY <1>1, <2>1
<1>6. QED
  BY <1>5 DEF Read, f, n

-----------------------------------------------------------------------------
(* Where an operator stands in a command line.                             *)

Standing(u, j) == Outside(u, j) /\ u[j] \in Separators \cup {"&"}

HasOperator(u) == \E j \in 1..Len(u) : Standing(u, j)

LEMMA OperatorQuoted ==
  ASSUME NEW u \in Texts, NEW v \in Texts, NEW p, WordQuoted(u, v, p), HasOperator(u)
  PROVE  HasOperator(v)
<1>1. PICK j \in 1..Len(u) : Standing(u, j)
  BY DEF HasOperator
<1>2. /\ Len(u) \in Nat /\ p \in 1..Len(u) /\ Len(v) = Len(u) + 2 /\ j \in Nat /\ p \in Nat
      /\ u[p] \notin Separators /\ u[p] # "&"
      /\ \A i \in 1..(p - 1) : v[i] = u[i]
      /\ \A i \in (p + 1)..Len(u) : v[i + 2] = u[i]
  BY <1>1 DEF WordQuoted, Texts
<1>3. /\ \A k \in 0..Len(u) : LexStates(u)[k].mode \in Out
      /\ \A k \in 0..(p - 1) : LexStates(v)[k] = LexStates(u)[k]
      /\ \A k \in p..Len(u) : Echo(LexStates(u)[k], LexStates(v)[k + 2])
  BY WordQuotedReads
<1>4. CASE j < p
  <2>1. j \in 1..Len(v) /\ v[j] = u[j] /\ j - 1 \in 0..(p - 1)
    BY <1>2, <1>4
  <2>2. Outside(v, j)
    BY <1>1, <1>3, <2>1 DEF Standing, Outside
  <2>3. QED
    BY <1>1, <2>1, <2>2 DEF Standing, HasOperator
<1>5. CASE j > p
  <2>1. /\ j + 2 \in 1..Len(v) /\ v[j + 2] = u[j] /\ j - 1 \in p..Len(u) /\ j - 1 \in 0..Len(u)
        /\ (j + 2) - 1 = (j - 1) + 2
    BY <1>2, <1>5
  <2>2. Outside(v, j + 2)
    BY <1>3, <2>1 DEF Outside, Echo, Out
  <2>3. QED
    BY <1>1, <2>1, <2>2 DEF Standing, HasOperator
<1>6. CASE j = p
  BY <1>1, <1>2, <1>6 DEF Standing
<1>7. QED
  BY <1>2, <1>4, <1>5, <1>6

\* What follows a text does not take its operators away.
LEMMA OperatorStays ==
  ASSUME NEW u \in Texts, NEW v \in Texts, HasOperator(u)
  PROVE  HasOperator(u \o v)
<1> DEFINE w == u \o v
<1>1. PICK j \in 1..Len(u) : Standing(u, j)
  BY DEF HasOperator
<1>2. /\ w \in Texts /\ Len(u) \in Nat /\ Len(v) \in Nat /\ Len(w) = Len(u) + Len(v)
      /\ \A i \in 1..Len(u) : w[i] = u[i]
  BY DEF Texts
<1> HIDE DEF w
<1>3. j \in 1..Len(w) /\ w[j] = u[j] /\ j - 1 \in 0..Len(u) /\ j - 1 <= Len(w)
      /\ \A i \in 1..(j - 1) : u[i] = w[i]
  BY <1>2
<1>4. LexStates(u)[j - 1] = LexStates(w)[j - 1]
  BY <1>2, <1>3, SameStart
<1>5. QED
  BY <1>1, <1>3, <1>4 DEF Standing, HasOperator, Outside, w

\* The operators that texts are composed with, and how they are spelled.
Operators == Separators \cup {"&&", "&"}

LEMMA SpelledItems ==
  ASSUME NEW operator \in Operators
  PROVE  /\ Spelled(operator) \in Texts
         /\ \A i \in 1..Len(Spelled(operator)) :
              /\ Spelled(operator)[i] \in Significant
              /\ Spelled(operator)[i] # "\\" /\ Spelled(operator)[i] \notin Quotes
         /\ \E i \in 1..Len(Spelled(operator)) : Spelled(operator)[i] \in Separators \cup {"&"}
<1> DEFINE C == Separators \cup {"&", Space}
<1>1. \A c \in C : c \in Items /\ c \in Significant /\ c # "\\" /\ c \notin Quotes
  <2>1. \A c \in C : c \in Significant
    BY SpaceIsBlank DEF Significant
  <2>2. \A c \in C : c # "\\" /\ c \notin Quotes
    BY Zenon DEF Separators, Semicolon, Quotes, Double, Space
  <2>3. \A c \in C : c \in Items
    BY SpaceIsBlank, SqlItems DEF Items, Significant
  <2>4. QED
    BY <2>1, <2>2, <2>3
<1>2. Space \in C /\ "&" \in C /\ Separators \subseteq C /\ Separators \cup {"&"} \subseteq C
  OBVIOUS
<1> DEFINE Composes(o) == o \in Seq(C) /\ \E i \in 1..Len(o) : o[i] \in Separators \cup {"&"}
<1>3. Composes(Spelled(operator))
  <2> HIDE DEF C
  <2>1. CASE operator = "&&"
    <3>1. Spelled(operator) = <<"&", "&">>
      BY <2>1 DEF Spelled
    <3>2. <<"&", "&">> \in Seq(C) /\ Len(<<"&", "&">>) = 2 /\ <<"&", "&">>[1] = "&"
      BY <1>2
    <3>3. QED
      BY <3>1, <3>2
  <2>2. CASE operator = "&"
    <3>1. Spelled(operator) = <<Space, "&", Space>>
      BY <2>2 DEF Spelled
    <3>2. /\ <<Space, "&", Space>> \in Seq(C) /\ Len(<<Space, "&", Space>>) = 3
          /\ <<Space, "&", Space>>[2] = "&"
      BY <1>2
    <3>3. QED
      BY <3>1, <3>2
  <2>3. CASE operator # "&&" /\ operator # "&"
    <3>1. Spelled(operator) = <<operator>> /\ operator \in Separators
      BY <2>3 DEF Spelled, Operators
    <3>2. <<operator>> \in Seq(C) /\ Len(<<operator>>) = 1 /\ <<operator>>[1] = operator
      BY <1>2, <3>1
    <3>3. QED
      BY <3>1, <3>2
  <2>4. QED
    BY <2>1, <2>2, <2>3
<1> HIDE DEF C
<1>4. C \subseteq Items
  BY <1>1
<1>5. QED
  BY <1>1, <1>3, <1>4, SeqWider DEF Texts

\* Behind a text that closes its quotes.
LEMMA OperatorBehind ==
  ASSUME NEW u \in Texts, Read(u).mode \in Out, NEW operator \in Operators
  PROVE  HasOperator(u \o Spelled(operator))
<1> DEFINE o == Spelled(operator)
           w == u \o o
           n == Len(u)
<1>1. /\ o \in Texts /\ \A i \in 1..Len(o) : o[i] # "\\" /\ o[i] \notin Quotes
      /\ \E i \in 1..Len(o) : o[i] \in Separators \cup {"&"}
  BY SpelledItems
<1> HIDE DEF o
<1>2. PICK i \in 1..Len(o) : o[i] \in Separators \cup {"&"}
  BY <1>1
<1> DEFINE k == SubSeq(o, 1, i - 1)
<1>3. /\ i \in Nat /\ i - 1 \in Nat /\ k \in Texts /\ Len(k) = i - 1
      /\ \A l \in 1..(i - 1) : k[l] = o[l] /\ l \in 1..Len(o)
  BY <1>1, <1>2 DEF Texts
<1> HIDE DEF k
<1>4. Read(k).mode \in Out
  BY <1>1, <1>3, UnquotedReads
<1>5. Read(u \o k).mode \in Out
  BY <1>3, <1>4, QuotesBehind
<1> DEFINE x == u \o k
<1>6. /\ x \in Texts /\ Len(x) = n + (i - 1) /\ n \in Nat
      /\ \A l \in 1..n : x[l] = u[l]
      /\ \A l \in 1..(i - 1) : x[n + l] = k[l]
  <2>1. /\ x \in Texts /\ Len(x) = Len(u) + Len(k)
        /\ \A l \in 1..Len(u) : x[l] = u[l]
        /\ \A l \in 1..Len(k) : x[Len(u) + l] = k[l]
    BY <1>3, BothParts
  <2>2. QED
    BY <1>3, <2>1 DEF Texts
<1>7. /\ w \in Texts /\ Len(w) = n + Len(o)
      /\ \A l \in 1..n : w[l] = u[l]
      /\ \A l \in 1..Len(o) : w[n + l] = o[l]
  BY <1>1, BothParts
<1> HIDE DEF w, n, x
<1>8. Len(o) \in Nat
  BY <1>1 DEF Texts
<1>9. n + i \in 1..Len(w) /\ (n + i) - 1 = Len(x) /\ Len(x) \in 0..Len(x) /\ Len(x) <= Len(w)
  BY <1>2, <1>3, <1>6, <1>7, <1>8
<1>10. \A l \in 1..Len(x) : x[l] = w[l]
  <2>1. SUFFICES ASSUME NEW l \in 1..Len(x) PROVE x[l] = w[l]
    OBVIOUS
  <2>2. CASE l <= n
    BY <1>6, <1>7, <2>2
  <2>3. CASE l > n
    <3> DEFINE m == l - n
    <3>1. m \in 1..(i - 1) /\ n + m = l
      BY <1>3, <1>6, <2>3
    <3> HIDE DEF m
    <3>2. x[n + m] = k[m] /\ k[m] = o[m] /\ w[n + m] = o[m]
      BY <1>3, <1>6, <1>7, <3>1
    <3>3. QED
      BY <3>1, <3>2
  <2>4. QED
    BY <1>6, <2>2, <2>3
<1>11. LexStates(x)[Len(x)] = LexStates(w)[Len(x)]
  BY <1>6, <1>7, <1>9, <1>10, SameStart
<1>12. Outside(w, n + i)
  BY <1>5, <1>9, <1>11 DEF Outside, Out, Read, x
<1>13. Standing(w, n + i)
  BY <1>2, <1>7, <1>12 DEF Standing
<1>14. QED
  BY <1>9, <1>13 DEF HasOperator, w, o

\* Ahead of any text.
LEMMA OperatorAhead ==
  ASSUME NEW u \in Texts, NEW operator \in Operators
  PROVE  HasOperator(Spelled(operator) \o u)
<1>1. Read(<<>>).mode \in Out /\ <<>> \in Texts
  BY ReadSteps, TextFacts DEF LexStart, Out
<1>2. Spelled(operator) \in Texts /\ <<>> \o Spelled(operator) = Spelled(operator)
  BY SpelledItems DEF Texts
<1>3. HasOperator(Spelled(operator))
  BY <1>1, <1>2, OperatorBehind
<1>4. QED
  BY <1>2, <1>3, OperatorStays

\* What the splitter does not know of them is a single &.
LEMMA StandingIsLive ==
  ASSUME NEW u \in Texts, NEW j \in 1..Len(u), Standing(u, j), ~Backgrounds(u)
  PROVE  LiveOperator(u, j)
<1>1. j \in DOMAIN u
  BY DEF Texts
<1>2. CASE u[j] \in Separators
  BY <1>2 DEF Standing, LiveOperator
<1>3. CASE u[j] = "&"
  BY <1>1, <1>3 DEF Standing, Backgrounds
<1>4. QED
  BY <1>2, <1>3 DEF Standing

\* What the splitter has cut it remembers.
LEMMA OperatorsStep ==
  ASSUME NEW p \in SplitState, NEW u \in Texts, NEW i \in 1..Len(u)
  PROVE  LET r == SplitStep(p, u, i)
         IN /\ p.operators # <<>> => r.operators # <<>>
            /\ ~p.half /\ Cuts(p, u, i) => r.operators # <<>>
            /\ r.half => r.operators # <<>>
<1> DEFINE c == u[i]
           r == SplitStep(p, u, i)
           t == Take(p, c)
<1>1. c \in Items
  BY DEF Texts
<1>2. p.half \in BOOLEAN /\ p.operators \in Chains
  BY SplitFields
<1>3. t \in SplitState /\ t.operators = p.operators /\ t.half = p.half
  <2>1. t.operators = p.operators
    BY DEF Take, SplitState
  <2>2. QED
    BY <1>1, <2>1, TakeParts
<1>4. /\ c = "\\" => c \notin Separators /\ ~Doubled(u, i)
      /\ c \in Quotes => c \notin Separators /\ ~Doubled(u, i)
  BY ShellItems DEF Doubled
<1>5. \A o \in {<<c>>, <<c \o c>>} :
        /\ p.operators \o o \in Chains
        /\ Cut(p, o).operators = p.operators \o o /\ Cut(p, o).operators # <<>>
  <2>1. SUFFICES ASSUME NEW o \in {<<c>>, <<c \o c>>}
                 PROVE  /\ p.operators \o o \in Chains
                        /\ Cut(p, o).operators = p.operators \o o /\ Cut(p, o).operators # <<>>
    OBVIOUS
  <2>2. p.operators \o o \in Chains
    BY <1>1, <1>2, <2>1, ChainFacts DEF c
  <2>3. Cut(p, o).operators = p.operators \o o
    BY DEF Cut, SplitState
  <2>4. p.operators \o o # <<>>
    <3>1. ASSUME NEW e PROVE p.operators \o <<e>> # <<>>
      <4> DEFINE S == Items \cup {d \o d : d \in Items}
                 k == p.operators
      <4>1. k \in Seq(S)
        BY <1>2 DEF Chains
      <4> HIDE DEF k, S
      <4>2. Len(k \o <<e>>) = Len(k) + 1 /\ Len(k) \in Nat
        BY <4>1
      <4>3. Len(<<>>) = 0
        OBVIOUS
      <4>4. QED
        BY <4>2, <4>3 DEF k
    <3>2. QED
      BY <2>1, <3>1
  <2>5. QED
    BY <2>2, <2>3, <2>4
<1> HIDE DEF c, t
<1>6. r = IF p.half THEN [p EXCEPT !.half = FALSE]
          ELSE IF p.escaped THEN [t EXCEPT !.escaped = FALSE]
          ELSE IF c = "\\" THEN [t EXCEPT !.escaped = TRUE]
          ELSE IF p.quote # "none" THEN [t EXCEPT !.quote = IF c = @ THEN "none" ELSE @]
          ELSE IF c \in Quotes THEN [t EXCEPT !.quote = c]
          ELSE IF Doubled(u, i) THEN [Cut(p, <<c \o c>>) EXCEPT !.half = TRUE]
          ELSE IF c \in Separators THEN Cut(p, <<c>>)
          ELSE t
  BY DEF SplitStep, c, t
<1> HIDE DEF r
<1>7. CASE p.half
  <2>1. r = [p EXCEPT !.half = FALSE]
    BY <1>6, <1>7
  <2>2. r.half = FALSE /\ r.operators = p.operators
    BY <2>1 DEF SplitState
  <2>3. QED
    BY <1>7, <2>2 DEF r
<1>8. CASE ~p.half /\ Cuts(p, u, i)
  <2>1. ~p.escaped /\ p.quote = "none" /\ c # "\\" /\ c \notin Quotes
        /\ (Doubled(u, i) \/ c \in Separators)
    BY <1>4, <1>8 DEF Cuts, c
  <2>2. CASE Doubled(u, i)
    <3> DEFINE k == Cut(p, <<c \o c>>)
    <3>1. r = [k EXCEPT !.half = TRUE]
      BY <1>6, <1>8, <2>1, <2>2
    <3>2. k \in SplitState /\ k.operators # <<>>
      BY <1>5, CutParts
    <3> HIDE DEF k
    <3>3. r.operators = k.operators
      BY <3>1, <3>2 DEF SplitState
    <3>4. QED
      BY <3>2, <3>3 DEF r
  <2>3. CASE ~Doubled(u, i)
    <3>1. r = Cut(p, <<c>>)
      BY <1>6, <1>8, <2>1, <2>3
    <3>2. QED
      BY <1>5, <3>1 DEF r
  <2>4. QED
    BY <2>2, <2>3
<1>9. CASE ~p.half /\ ~Cuts(p, u, i)
  <2>1. \/ r = [t EXCEPT !.escaped = FALSE]
        \/ r = [t EXCEPT !.escaped = TRUE]
        \/ r = [t EXCEPT !.quote = IF c = t.quote THEN "none" ELSE t.quote]
        \/ r = [t EXCEPT !.quote = c]
        \/ r = t
    BY <1>6, <1>9 DEF Cuts, c
  <2>2. r.operators = t.operators /\ r.half = t.half
    BY <1>3, <2>1 DEF SplitState
  <2>3. QED
    BY <1>3, <1>9, <2>2 DEF r
<1>10. QED
  BY <1>7, <1>8, <1>9

\* Every operator of the reference is one that the splitter reports.
LEMMA OperatorFound ==
  ASSUME NEW u \in Texts, ~EscapesInSingleQuotes(u), NEW j \in 1..Len(u), LiveOperator(u, j)
  PROVE  Segments(u).operators # <<>>
<1> DEFINE P == SplitStates(u)
           n == Len(u)
<1>1. n \in Nat
  BY DEF Texts
<1>2. P \in [0..n -> SplitState] /\ P[0] = SplitStart /\ \A i \in 1..n : P[i] = SplitStep(P[i - 1], u, i)
  BY SplitRuns
<1>3. \A i \in 1..n : LiveOperator(u, i) <=> P[i - 1].half \/ Cuts(P[i - 1], u, i)
  BY OperatorsAgree
<1> HIDE DEF P
<1> DEFINE T == {i \in 0..n : /\ P[i].half => P[i].operators # <<>>
                              /\ i >= j => P[i].operators # <<>>}
<1>4. 0 \in T
  <2>1. SplitStart.half = FALSE
    BY DEF SplitStart
  <2>2. QED
    BY <1>1, <1>2, <2>1
<1>5. ASSUME NEW i \in 1..n, i - 1 \in T PROVE i \in T
  <2>1. i \in 0..n /\ i - 1 \in 0..n /\ i \in Int /\ j \in Int
    BY <1>1, <1>5
  <2> DEFINE p == P[i - 1]
             r == P[i]
  <2>2. /\ p.half => p.operators # <<>>
        /\ i - 1 >= j => p.operators # <<>>
    BY <1>5
  <2>3. p \in SplitState /\ r = SplitStep(p, u, i)
    BY <1>2, <2>1
  <2>4. i = j => p.half \/ Cuts(p, u, i)
    BY <1>3
  <2> HIDE DEF p, r
  <2>5. /\ p.operators # <<>> => r.operators # <<>>
        /\ ~p.half /\ Cuts(p, u, i) => r.operators # <<>>
        /\ r.half => r.operators # <<>>
    BY <2>3, OperatorsStep
  <2>6. i >= j => r.operators # <<>>
    <3>1. i >= j => i = j \/ i - 1 >= j
      BY <2>1
    <3>2. QED
      BY <2>2, <2>4, <2>5, <3>1
  <2>7. QED
    BY <2>1, <2>5, <2>6 DEF r
<1>6. P[n].operators # <<>>
  <2> HIDE DEF T
  <2>1. \A i \in 0..n : i \in T
    BY <1>1, <1>4, <1>5, AllAlong
  <2>2. n \in T /\ n >= j
    BY <1>1, <2>1
  <2>3. QED
    BY <2>2 DEF T
<1>7. Segments(u).operators = P[n].operators
  BY DEF Segments, Built, SplitSegments, SplitEnd, P
<1>8. QED
  BY <1>6, <1>7

-----------------------------------------------------------------------------
(* What is allowed.                                                        *)

\* The engine's rules block or are silent.
LEMMA EngineBlocks ==
  ASSUME NEW analysis
  PROVE  Decisions!EngineVerdict(RulesOn(analysis)) \in {"unknown", "block"}
<1> DEFINE rules == RulesOn(analysis)
<1>1. DOMAIN BuiltinRules \subseteq Nat
  <2>1. FilesystemRules \in Seq(ToSet(FilesystemRules))
    BY DEF FilesystemRules, ToSet
  <2>2. RiskRules \in Seq(ToSet(RiskRules))
    BY DEF RiskRules, ToSet
  <2> DEFINE S == ToSet(FilesystemRules) \cup ToSet(RiskRules)
  <2> HIDE DEF S
  <2>3. FilesystemRules \in Seq(S) /\ RiskRules \in Seq(S)
    BY <2>1, <2>2 DEF S
  <2>4. BuiltinRules \in Seq(S)
    BY <2>3 DEF BuiltinRules
  <2>5. QED
    BY <2>4
<1>2. /\ DOMAIN rules = DOMAIN BuiltinRules
      /\ \A i \in DOMAIN rules : rules[i].response = "block" /\ rules[i].match \in {"yes", "no"}
  BY DEF RulesOn
<1> HIDE DEF rules
<1>3. CASE Decisions!Deciding(rules) = {}
  BY <1>3 DEF Decisions!EngineVerdict, rules
<1>4. CASE Decisions!Deciding(rules) # {}
  <2>1. Decisions!Deciding(rules) \in SUBSET Nat /\ Decisions!Deciding(rules) \subseteq DOMAIN rules
    BY <1>1, <1>2 DEF Decisions!Deciding
  <2>2. \E i \in Decisions!Deciding(rules) : \A j \in Decisions!Deciding(rules) : i <= j
    BY <1>4, <2>1, LeastExists
  <2>3. Decisions!First(rules) \in Decisions!Deciding(rules)
    BY <2>2 DEF Decisions!First
  <2> DEFINE first == rules[Decisions!First(rules)]
  <2>4. first.response = "block" /\ first.match # "raises"
    <3>1. first.response = "block" /\ first.match \in {"yes", "no"}
      BY <1>2, <2>1, <2>3
    <3>2. QED
      BY <3>1
  <2> HIDE DEF first
  <2>5. Decisions!EngineVerdict(rules) = Decisions!ResponseVerdict[first.response]
    BY <1>4, <2>4 DEF Decisions!EngineVerdict, first
  <2>6. Decisions!ResponseVerdict["block"] = "block"
    BY DEF Decisions!ResponseVerdict
  <2>7. QED
    BY <2>4, <2>5, <2>6 DEF rules
<1>5. QED
  BY <1>3, <1>4

\* What the verdict "allow" asks of the analyses.
LEMMA AllowedFacts ==
  ASSUME NEW t, Verdict(t) = "allow"
  PROVE  /\ AnalyzeOperation(t).operation \in SafeOperations
         /\ AnalyzeCommand(t).valid /\ Alone(AnalyzeCommand(t))
<1> DEFINE analysis == Analyses(t)
           f == FactsOf(analysis)
           rules == RulesOn(analysis)
           options == [mode |-> "none", profile |-> "none"]
           result == Decisions!Evaluated(f, rules)
<1>1. Decisions!Decide(f, rules, options).verdict = "allow"
  BY DEF Verdict, DecidedOn
<1>2. Decisions!EngineVerdict(rules) \in {"unknown", "block"}
  BY EngineBlocks
<1>3. /\ f.known => AnalyzeOperation(t).operation \in SafeOperations
      /\ f.command = AnalyzeCommand(t).valid /\ f.plain = Alone(AnalyzeCommand(t))
  BY DEF FactsOf, Analyses
<1> HIDE DEF f, rules, options
<1>4. result.verdict = "allow" => Decisions!AutoAllows(f)
  <2> DEFINE verdict == Decisions!EngineVerdict(rules)
  <2> HIDE DEF verdict
  <2>1. \/ result = Decisions!Failed
        \/ Decisions!AutoAllows(f)
        \/ \E source, risk, rule : result = Decisions!Result(verdict, source, risk, rule)
    BY Zenon DEF Decisions!Evaluated, verdict
  <2>2. Decisions!Failed.verdict = "error"
    BY DEF Decisions!Failed, Decisions!Result
  <2>3. \A source, risk, rule : Decisions!Result(verdict, source, risk, rule).verdict = verdict
    BY DEF Decisions!Result
  <2>4. verdict # "allow"
    BY <1>2 DEF verdict
  <2> HIDE DEF result
  <2>5. QED
    BY <2>1, <2>2, <2>3, <2>4
<1>5. Decisions!ApplyMode(result, options) = result
  <2>1. Decisions!SelectedMode(options) = "none"
    BY DEF Decisions!SelectedMode, options
  <2> HIDE DEF result
  <2>2. QED
    BY <2>1, Zenon DEF Decisions!ApplyMode
<1>6. result.verdict = "allow"
  <2>1. Decisions!Validated(result, f).verdict = "allow"
    BY <1>1, <1>5 DEF Decisions!Decide
  <2>2. Decisions!Failed.verdict # "allow"
    BY DEF Decisions!Failed, Decisions!Result
  <2> HIDE DEF result
  <2>3. Decisions!Validated(result, f) = Decisions!Failed \/ Decisions!Validated(result, f) = result
    BY DEF Decisions!Validated
  <2>4. QED
    BY <2>1, <2>2, <2>3
<1>7. f.known /\ f.command /\ f.plain
  BY <1>4, <1>6 DEF Decisions!AutoAllows
<1>8. QED
  BY <1>3, <1>7

\* A line that is one command without operators has the words that shlex reads in it.
LEMMA OneSegment ==
  ASSUME NEW u \in Texts, ~EscapesInSingleQuotes(u),
         Segments(u).ok, Len(Segments(u).raws) = 1, Segments(u).operators = <<>>
  PROVE  /\ \A j \in 1..Len(u) : ~LiveOperator(u, j)
         /\ Len(Segments(u).tokens) = 1
         /\ Tokenize(u).ok => Segments(u).tokens[1] = Tokenize(u).tokens
         /\ Tokenize(u).ok \/ Last(u) = "\\"
<1> DEFINE raws == Segments(u).raws
           tokens == Segments(u).tokens
<1>1. \A j \in 1..Len(u) : ~LiveOperator(u, j)
  BY OperatorFound
<1>2. ReferenceTokens(u) = Tokenize(u)
  <2>1. [i \in DOMAIN u |-> IF LiveOperator(u, i) THEN Space ELSE u[i]] = u
    <3>1. DOMAIN u = 1..Len(u)
      BY DEF Texts
    <3>2. \A i \in DOMAIN u : (IF LiveOperator(u, i) THEN Space ELSE u[i]) = u[i]
      BY <1>1, <3>1
    <3>3. u = [i \in DOMAIN u |-> u[i]]
      BY DEF Texts
    <3>4. QED
      BY <3>2, <3>3, Zenon
  <2>2. QED
    BY <2>1 DEF ReferenceTokens
<1>3. raws \in TextLists
  <2> DEFINE p == SplitStates(u)[Len(u)]
             q == IF p.escaped THEN Take(p, "\\") ELSE p
  <2>1. Len(u) \in 0..Len(u)
    BY DEF Texts
  <2>2. p \in SplitState
    BY <2>1, SplitRuns
  <2>3. "\\" \in Items
    BY SqlItems
  <2> HIDE DEF p
  <2>4. q \in SplitState
    BY <2>2, <2>3, TakeParts
  <2>5. q.operators \o <<>> \in Chains
    BY <2>4, ChainFacts, SplitFields
  <2> HIDE DEF q
  <2>6. Cut(q, <<>>) \in SplitState
    BY <2>4, <2>5, CutParts
  <2>7. raws = Cut(q, <<>>).raws
    BY DEF Segments, Built, SplitSegments, SplitEnd, p, q
  <2>8. QED
    BY <2>6, <2>7, SplitFields
<1>4. tokens = [i \in DOMAIN raws |-> Tokenize(raws[i]).tokens]
  <2> DEFINE split == SplitSegments(u)
             lexed == [i \in DOMAIN split.raws |-> Tokenize(split.raws[i])]
  <2>1. Segments(u) = Built(split, lexed)
    BY DEF Segments
  <2> HIDE DEF split
  <2>2. raws = split.raws /\ tokens = [i \in DOMAIN lexed |-> lexed[i].tokens]
    BY <2>1 DEF Built
  <2>3. QED
    BY <2>2
<1>5. Len(raws) = 1
  OBVIOUS
<1> HIDE DEF raws, tokens
<1>6. DOMAIN raws = {1} /\ raws[1] \in Texts
  BY <1>3, <1>5 DEF TextLists
<1>7. Tokenize(raws[1]).tokens \in TextLists
  BY <1>6, WordsOf
<1> DEFINE t == Tokenize(raws[1]).tokens
<1> HIDE DEF t
<1>8. tokens = <<t>> /\ t \in TextLists
  <2>1. tokens = [i \in 1..1 |-> t]
    BY <1>4, <1>6 DEF t
  <2>2. QED
    BY <1>7, <2>1 DEF t
<1>9. FlattenSeq(tokens) = t
  <2>1. <<>> \in Seq(Seq(Texts)) /\ t \in Seq(Texts) /\ Append(<<>>, t) = <<t>> /\ <<>> \o t = t
    BY <1>8 DEF TextLists
  <2>2. FlattenSeq(Append(<<>>, t)) = FlattenSeq(<<>>) \o t
    BY <2>1, FlattenAppend
  <2>3. QED
    BY <1>8, <2>1, <2>2, FlattenEmpty
<1>10. /\ Tokenize(u).ok => FlattenSeq(tokens) = Tokenize(u).tokens
       /\ Tokenize(u).ok \/ Last(u) = "\\"
  <2>1. Segments(u).ok => \/ ReferenceTokens(u).ok
                             /\ FlattenSeq(Segments(u).tokens) = ReferenceTokens(u).tokens
                          \/ ~ReferenceTokens(u).ok /\ Last(u) = "\\"
    BY CommandsAgree
  <2>2. QED
    BY <1>2, <2>1 DEF tokens
<1>11. QED
  BY <1>1, <1>8, <1>9, <1>10 DEF tokens

-----------------------------------------------------------------------------
(* What normalization makes of a text.                                     *)

\* Of one item.
NormalForm(c) == IF c \in DOMAIN Plain THEN Plain[c] ELSE <<c>>

LEMMA NormalFormType == \A c \in Items : NormalForm(c) \in Texts
<1>1. ASSUME NEW c \in Items PROVE NormalForm(c) \in Texts
  <2>1. CASE c \in DOMAIN Plain
    <3>1. Plain[c] \in Seq(STRING)
      BY <2>1, InspectionConstants
    <3>2. STRING \subseteq Items
      BY DEF Items
    <3>3. QED
      BY <2>1, <3>1, <3>2, SeqWider DEF NormalForm, Texts
  <2>2. CASE c \notin DOMAIN Plain
    BY <2>2, TextFacts DEF NormalForm
  <2>3. QED
    BY <2>1, <2>2
<1>2. QED
  BY <1>1

LEMMA NormalizedAppend ==
  ASSUME NEW u \in Texts, NEW c \in Items
  PROVE  Normalized(Append(u, c)) = Normalized(u) \o NormalForm(c)
<1> DEFINE v == Append(u, c)
           a == [i \in DOMAIN u |-> NormalForm(u[i])]
           b == [i \in DOMAIN v |-> NormalForm(v[i])]
<1>1. /\ v \in Texts /\ Len(u) \in Nat /\ DOMAIN u = 1..Len(u) /\ DOMAIN v = 1..(Len(u) + 1)
      /\ v[Len(u) + 1] = c /\ \A i \in 1..Len(u) : v[i] = u[i] /\ u[i] \in Items
  BY DEF Texts
<1>2. Normalized(u) = FlattenSeq(a) /\ Normalized(v) = FlattenSeq(b)
  BY DEF Normalized, NormalForm
<1>3. a \in Seq(Texts) /\ Len(a) = Len(u) /\ NormalForm(c) \in Texts
  <2>1. \A i \in 1..Len(u) : NormalForm(u[i]) \in Texts
    BY <1>1, NormalFormType
  <2>2. a \in [1..Len(u) -> Texts]
    BY <1>1, <2>1
  <2> HIDE DEF a
  <2>3. a \in Seq(Texts) /\ Len(a) = Len(u)
    BY <1>1, <2>2
  <2>4. QED
    BY <2>3, NormalFormType
<1> HIDE DEF v
<1>4. b = Append(a, NormalForm(c))
  <2> DEFINE e == Append(a, NormalForm(c))
  <2>1. e \in Seq(Texts) /\ Len(e) = Len(u) + 1 /\ e[Len(u) + 1] = NormalForm(c)
        /\ \A i \in 1..Len(u) : e[i] = a[i]
    <3> HIDE DEF a
    <3>1. QED
      BY <1>3
  <2>2. DOMAIN b = 1..(Len(u) + 1) /\ b[Len(u) + 1] = NormalForm(c)
        /\ \A i \in 1..Len(u) : b[i] = a[i]
    BY <1>1
  <2>3. e = [i \in 1..(Len(u) + 1) |-> e[i]] /\ b = [i \in 1..(Len(u) + 1) |-> b[i]]
    <3>1. b = [i \in 1..(Len(u) + 1) |-> b[i]]
      BY <1>1
    <3> HIDE DEF e, b
    <3>2. e = [i \in 1..(Len(u) + 1) |-> e[i]]
      BY <2>1
    <3>3. QED
      BY <3>1, <3>2
  <2> HIDE DEF e, b, a
  <2>4. \A i \in 1..(Len(u) + 1) : e[i] = b[i]
    <3>1. SUFFICES ASSUME NEW i \in 1..(Len(u) + 1) PROVE e[i] = b[i]
      OBVIOUS
    <3>2. i \in 1..Len(u) \/ i = Len(u) + 1
      BY <1>1
    <3>3. QED
      BY <2>1, <2>2, <3>2
  <2>5. QED
    BY <2>3, <2>4 DEF e
<1>5. QED
  <2> HIDE DEF a, b
  <2>1. FlattenSeq(Append(a, NormalForm(c))) = FlattenSeq(a) \o NormalForm(c)
    BY <1>3, FlattenAppend DEF Texts
  <2>2. QED
    BY <1>2, <1>4, <2>1 DEF v

LEMMA NormalizedEmpty == Normalized(<<>>) = <<>>
<1>1. [i \in DOMAIN <<>> |-> IF <<>>[i] \in DOMAIN Plain THEN Plain[<<>>[i]] ELSE <<<<>>[i]>>] = <<>>
  OBVIOUS
<1>2. QED
  BY <1>1, FlattenEmpty DEF Normalized

LEMMA NormalizedType == \A u \in Texts : Normalized(u) \in Texts
<1>1. ASSUME NEW u \in Texts PROVE Normalized(u) \in Texts
  <2> DEFINE a == [i \in DOMAIN u |-> NormalForm(u[i])]
  <2>1. Normalized(u) = FlattenSeq(a)
    BY DEF Normalized, NormalForm
  <2>2. DOMAIN u = 1..Len(u) /\ Len(u) \in Nat /\ \A i \in 1..Len(u) : u[i] \in Items
    BY DEF Texts
  <2>3. \A i \in 1..Len(u) : NormalForm(u[i]) \in Texts
    BY <2>2, NormalFormType
  <2>4. a \in [1..Len(u) -> Texts]
    BY <2>2, <2>3
  <2> HIDE DEF a
  <2>5. a \in Seq(Seq(Items))
    BY <2>2, <2>4 DEF Texts
  <2>6. QED
    BY <2>1, <2>5, FlattenType DEF Texts
<1>2. QED
  BY <1>1

\* Of a part at a time.
LEMMA NormalizedParts ==
  ASSUME NEW u \in Texts, NEW v \in Texts
  PROVE  Normalized(u \o v) = Normalized(u) \o Normalized(v)
<1> DEFINE n == Len(v)
           p(k) == SubSeq(v, 1, k)
<1>1. n \in Nat /\ \A i \in 1..n : v[i] \in Items
  BY DEF Texts
<1>2. /\ p(0) = <<>> /\ p(n) = v
      /\ \A k \in 0..n : p(k) \in Texts
      /\ \A k \in 1..n : p(k) = Append(p(k - 1), v[k])
  BY DEF Texts
<1> HIDE DEF p, n
<1> DEFINE T == {k \in 0..n : Normalized(u \o p(k)) = Normalized(u) \o Normalized(p(k))}
<1>3. 0 \in T
  <2>1. Normalized(u) \in Texts
    BY NormalizedType
  <2>2. u \o <<>> = u /\ Normalized(u) \o <<>> = Normalized(u)
    BY <2>1 DEF Texts
  <2>3. Normalized(u \o p(0)) = Normalized(u) /\ Normalized(u) \o Normalized(p(0)) = Normalized(u)
    BY <1>2, <2>2, NormalizedEmpty, Zenon
  <2>4. QED
    BY <1>1, <2>3
<1>4. ASSUME NEW k \in 1..n, k - 1 \in T PROVE k \in T
  <2> DEFINE q == p(k - 1)
             c == v[k]
  <2>1. k \in 0..n /\ k - 1 \in 0..n
    BY <1>1, <1>4
  <2>2. q \in Texts /\ c \in Items /\ p(k) = Append(q, c)
    BY <1>1, <1>2, <2>1
  <2>3. Normalized(u \o q) = Normalized(u) \o Normalized(q)
    BY <1>4
  <2> HIDE DEF q, c
  <2>4. u \o Append(q, c) = Append(u \o q, c) /\ u \o q \in Texts
    BY <2>2 DEF Texts
  <2>5. /\ Normalized(Append(u \o q, c)) = Normalized(u \o q) \o NormalForm(c)
        /\ Normalized(Append(q, c)) = Normalized(q) \o NormalForm(c)
    BY <2>2, <2>4, NormalizedAppend
  <2>6. Normalized(u) \in Texts /\ Normalized(q) \in Texts /\ NormalForm(c) \in Texts
    BY <2>2, NormalizedType, NormalFormType
  <2>7. (Normalized(u) \o Normalized(q)) \o NormalForm(c) = Normalized(u) \o (Normalized(q) \o NormalForm(c))
    BY <2>6 DEF Texts
  <2>8. Normalized(u \o p(k)) = Normalized(u) \o Normalized(p(k))
    BY <2>2, <2>3, <2>4, <2>5, <2>7
  <2>9. QED
    BY <2>1, <2>8
<1>5. n \in T
  <2> HIDE DEF T
  <2>1. \A k \in 0..n : k \in T
    BY <1>1, <1>3, <1>4, AllAlong
  <2>2. QED
    BY <1>1, <2>1
<1>6. QED
  BY <1>2, <1>5

LEMMA NormalizedOne == \A c \in Items : Normalized(<<c>>) = NormalForm(c)
<1>1. ASSUME NEW c \in Items PROVE Normalized(<<c>>) = NormalForm(c)
  <2>1. <<>> \in Texts /\ Append(<<>>, c) = <<c>>
    BY TextFacts
  <2>2. Normalized(Append(<<>>, c)) = <<>> \o NormalForm(c)
    BY <1>1, <2>1, NormalizedAppend, NormalizedEmpty
  <2>3. <<>> \o NormalForm(c) = NormalForm(c)
    BY <1>1, NormalFormType DEF Texts
  <2>4. QED
    BY <2>1, <2>2, <2>3
<1>2. QED
  BY <1>1

\* What is written plainly is left as it is.
LEMMA NormalizedPlainly ==
  ASSUME NEW u \in Texts, \A i \in 1..Len(u) : u[i] \notin DOMAIN Plain
  PROVE  Normalized(u) = u
<1> DEFINE n == Len(u)
           p(k) == SubSeq(u, 1, k)
<1>1. n \in Nat /\ \A i \in 1..n : u[i] \in Items /\ u[i] \notin DOMAIN Plain
  BY DEF Texts
<1>2. /\ p(0) = <<>> /\ p(n) = u
      /\ \A k \in 0..n : p(k) \in Texts
      /\ \A k \in 1..n : p(k) = Append(p(k - 1), u[k])
  BY DEF Texts
<1> HIDE DEF p, n
<1> DEFINE T == {k \in 0..n : Normalized(p(k)) = p(k)}
<1>3. 0 \in T
  BY <1>1, <1>2, NormalizedEmpty
<1>4. ASSUME NEW k \in 1..n, k - 1 \in T PROVE k \in T
  <2> DEFINE q == p(k - 1)
             c == u[k]
  <2>1. k \in 0..n /\ k - 1 \in 0..n
    BY <1>1, <1>4
  <2>2. q \in Texts /\ c \in Items /\ c \notin DOMAIN Plain /\ p(k) = Append(q, c) /\ Normalized(q) = q
    BY <1>1, <1>2, <1>4, <2>1
  <2> HIDE DEF q, c
  <2>3. Normalized(Append(q, c)) = q \o <<c>>
    BY <2>2, NormalizedAppend DEF NormalForm
  <2>4. q \o <<c>> = Append(q, c)
    BY <2>2 DEF Texts
  <2>5. QED
    BY <2>1, <2>2, <2>3, <2>4
<1>5. n \in T
  <2> HIDE DEF T
  <2>1. \A k \in 0..n : k \in T
    BY <1>1, <1>3, <1>4, AllAlong
  <2>2. QED
    BY <1>1, <2>1
<1>6. QED
  BY <1>2, <1>5

\* One item replaced by several.
UpTo(u, i) == SubSeq(u, 1, i - 1)
From(u, i) == SubSeq(u, i + 1, Len(u))

LEMMA NormalizedReplaced ==
  ASSUME NEW u \in Texts, NEW i \in 1..Len(u), NEW items \in Texts
  PROVE  /\ UpTo(u, i) \in Texts /\ From(u, i) \in Texts
         /\ Normalized(UpTo(u, i) \o items \o From(u, i))
              = Normalized(UpTo(u, i)) \o Normalized(items) \o Normalized(From(u, i))
         /\ Normalized(u) = Normalized(UpTo(u, i)) \o NormalForm(u[i]) \o Normalized(From(u, i))
<1> DEFINE a == UpTo(u, i)
           b == From(u, i)
<1>0. a = SubSeq(u, 1, i - 1) /\ b = SubSeq(u, i + 1, Len(u))
  BY DEF UpTo, From
<1> HIDE DEF a, b
<1> USE <1>0
<1>1. a \in Texts /\ b \in Texts /\ u[i] \in Items /\ <<u[i]>> \in Texts
  BY DEF Texts
<1>2. u = a \o <<u[i]>> \o b
  <2> DEFINE w == a \o <<u[i]>> \o b
             n == Len(u)
  <2>1. n \in Nat /\ i \in 1..n /\ u = [j \in 1..n |-> u[j]]
    BY DEF Texts
  <2>2. Len(a) = i - 1 /\ \A j \in 1..(i - 1) : a[j] = u[j]
    <3>1. i - 1 \in Int /\ 1 \in Int /\ \A j \in 1..(i - 1) : u[j] \in Items /\ (1 + j) - 1 = j
      BY <2>1 DEF Texts
    <3>2. /\ Len(SubSeq(u, 1, i - 1)) = IF 1 <= i - 1 THEN (i - 1) - 1 + 1 ELSE 0
          /\ \A j \in 1..((i - 1) - 1 + 1) : SubSeq(u, 1, i - 1)[j] = u[1 + j - 1]
      BY <3>1, SubSeqProperties
    <3>3. (i - 1) - 1 + 1 = i - 1 /\ i \in Int /\ 1 <= i
      BY <2>1
    <3>4. Len(SubSeq(u, 1, i - 1)) = i - 1
      BY <3>2, <3>3
    <3>5. \A j \in 1..(i - 1) : SubSeq(u, 1, i - 1)[j] = u[j]
      BY <3>1, <3>2, <3>3
    <3>6. QED
      BY <3>4, <3>5
  <2>3. Len(b) = n - i /\ \A j \in 1..(n - i) : b[j] = u[i + j]
    BY DEF Texts
  <2> DEFINE x == u[i]
             v == a \o <<x>>
  <2> HIDE DEF x
  <2>4. v \in Texts /\ Len(v) = Len(a) + 1 /\ v[Len(a) + 1] = x /\ \A j \in 1..Len(a) : v[j] = a[j]
    BY <1>1 DEF Texts, x
  <2> HIDE DEF v
  <2>5. /\ v \o b \in Texts /\ Len(v \o b) = Len(v) + Len(b)
        /\ \A j \in 1..Len(v) : (v \o b)[j] = v[j]
        /\ \A j \in 1..Len(b) : (v \o b)[Len(v) + j] = b[j]
    BY <1>1, <2>4, BothParts
  <2>6. w = v \o b
    BY DEF v, x
  <2>7. /\ \A j \in 1..Len(a) : w[j] = a[j]
        /\ w[Len(a) + 1] = u[i]
        /\ \A j \in 1..Len(b) : w[(Len(a) + 1) + j] = b[j]
        /\ w \in Texts /\ Len(w) = (Len(a) + 1) + Len(b)
    <3>1. Len(a) \in Nat
      BY <1>1 DEF Texts
    <3> HIDE DEF w
    <3>2. \A j \in 1..Len(a) : j \in 1..Len(v)
      BY <2>4, <3>1
    <3>3. Len(a) + 1 \in 1..Len(v)
      BY <2>4, <3>1
    <3>4. \A j \in 1..Len(b) : w[Len(v) + j] = b[j]
      BY <2>5, <2>6
    <3>5. QED
      BY <2>4, <2>5, <2>6, <3>2, <3>3, <3>4 DEF x
  <2> HIDE DEF w, n
  <2>8. Len(w) = n
    BY <2>1, <2>2, <2>3, <2>7
  <2>9. \A j \in 1..n : w[j] = u[j]
    <3>1. SUFFICES ASSUME NEW j \in 1..n PROVE w[j] = u[j]
      OBVIOUS
    <3>2. CASE j < i
      <4>1. j \in 1..(i - 1) /\ j \in 1..Len(a)
        BY <2>1, <2>2, <3>2
      <4>2. QED
        BY <2>2, <2>7, <4>1
    <3>3. CASE j = i
      BY <2>1, <2>2, <2>7, <3>3
    <3>4. CASE j > i
      <4> DEFINE k == j - i
      <4>1. k \in 1..(n - i) /\ i + k = j /\ (i - 1 + 1) + k = j
        BY <2>1, <3>4
      <4> HIDE DEF k
      <4>2. w[(i - 1 + 1) + k] = b[k] /\ b[k] = u[i + k]
        BY <2>2, <2>3, <2>7, <4>1
      <4>3. QED
        BY <4>1, <4>2
    <3>5. QED
      BY <2>1, <3>2, <3>3, <3>4
  <2>10. w = [j \in 1..n |-> w[j]]
    BY <2>8, <2>7 DEF Texts
  <2>11. QED
    BY <2>1, <2>9, <2>10 DEF w
<1>3. ASSUME NEW w \in Texts
      PROVE  /\ a \o w \o b \in Texts
             /\ Normalized(a \o w \o b) = Normalized(a) \o Normalized(w) \o Normalized(b)
  <2>1. a \o w \in Texts
    BY <1>1, TextFacts
  <2>2. Normalized(a \o w) = Normalized(a) \o Normalized(w)
    BY <1>1, NormalizedParts
  <2>3. Normalized((a \o w) \o b) = Normalized(a \o w) \o Normalized(b)
    BY <1>1, <2>1, NormalizedParts
  <2>4. QED
    BY <1>1, <2>1, <2>2, <2>3, TextFacts
<1>4. Normalized(<<u[i]>>) = NormalForm(u[i])
  BY <1>1, NormalizedOne
<1>5. QED
  <2>1. Normalized(a \o items \o b) = Normalized(a) \o Normalized(items) \o Normalized(b)
    BY <1>3
  <2>2. Normalized(u) = Normalized(a) \o NormalForm(u[i]) \o Normalized(b)
    BY <1>1, <1>2, <1>3, <1>4, Zenon
  <2>3. QED
    BY <1>1, <2>1, <2>2, Zenon DEF a, b

\* Whatever text is allowed without a rule, unless a backslash stands in single quotes: none
\* of the operators that split_segments knows is live anywhere in what the inspectors read of
\* it, and its words, as shlex reads them in the whole of it, are those of a safe operation
\* that none of the detectors objects to; but for a backslash at its end it is a readable line.
LEMMA AllowedIsOneOperation ==
  ASSUME NEW t \in Texts, ~EscapesInSingleQuotes(Normalized(t)), Verdict(t) = "allow"
  PROVE  /\ \A j \in 1..Len(Normalized(t)) : ~LiveOperator(Normalized(t), j)
         /\ \/ Tokenize(Normalized(t)).ok /\ KnownSafe(Tokenize(Normalized(t)).tokens)
            \/ ~Tokenize(Normalized(t)).ok /\ Last(Normalized(t)) = "\\"
<1> DEFINE u == Normalized(t)
           segments == Segments(u)
<1>0. u \in Texts
  BY NormalizedType
<1>1. /\ AnalyzeOperation(t).operation \in SafeOperations
      /\ AnalyzeCommand(t).valid /\ Alone(AnalyzeCommand(t))
  BY AllowedFacts
<1>2. AnalyzeOperation(t) = OperationOfTokens(FirstSegment(segments))
  BY DEF AnalyzeOperation
<1>3. AnalyzeCommand(t) = Assessed(NestedDanger, u, segments)
  BY DEF AnalyzeCommand, CommandAnalysis
<1> HIDE DEF u
<1>4. segments.ok /\ Len(segments.raws) = 1 /\ segments.operators = <<>>
      /\ AnalyzeCommand(t).risks = {}
  <2>1. AnalyzeCommand(t).segments = segments /\ AnalyzeCommand(t).valid = segments.ok
    BY <1>3 DEF Assessed
  <2>2. QED
    BY <1>1, <2>1 DEF Alone
<1>5. /\ \A j \in 1..Len(u) : ~LiveOperator(u, j)
      /\ Len(segments.tokens) = 1
      /\ Tokenize(u).ok => segments.tokens[1] = Tokenize(u).tokens
      /\ Tokenize(u).ok \/ Last(u) = "\\"
  BY <1>0, <1>4, OneSegment DEF u
<1> HIDE DEF segments
<1>6. segments.tokens # <<>>
  <2>1. Len(<<>>) # 1
    OBVIOUS
  <2>2. QED
    BY <1>5, <2>1, Zenon
<1>7. FirstSegment(segments) = segments.tokens[1]
  BY <1>4, <1>6 DEF FirstSegment
<1>8. SegmentRisks(NestedDanger, segments.tokens[1]) = {}
  <2>1. 1 \in DOMAIN segments.tokens
    <3>1. segments.tokens = [i \in DOMAIN segments.tokens |-> segments.tokens[i]]
      BY DEF segments, Segments, Built
    <3>2. DOMAIN segments.tokens = DOMAIN segments.raws
      BY DEF segments, Segments, Built
    <3>3. QED
      BY <1>4, <1>5, <3>1, <3>2
  <2>2. AnalyzeCommand(t).risks =
          UNION {SegmentRisks(NestedDanger, segments.tokens[i]) : i \in DOMAIN segments.tokens}
            \cup TextRisks(u)
            \cup {"cmd_remote_script_to_shell" :
                    i \in {j \in DOMAIN segments.tokens : PipesToShell(segments, j)}}
    BY <1>3, <1>4, <1>6 DEF Assessed
  <2>3. QED
    BY <1>4, <2>1, <2>2
<1>9. Tokenize(u).ok => KnownSafe(Tokenize(u).tokens)
  BY <1>1, <1>2, <1>5, <1>7, <1>8 DEF KnownSafe
<1>10. QED
  BY <1>5, <1>9 DEF u

-----------------------------------------------------------------------------
(* Texts that are composed.                                                 *)

LEMMA SafeNamesPlain ==
  /\ \A c \in Significant : c \notin SafeNames
  /\ \A c \in {"/*", "*/", "--", "aside", "several"} : c \notin SafeNames
<1> DEFINE L == {"new-item", "mv", "move", "ren", "rename", "cp", "copy", "xcopy", "chmod", "icacls",
                 "attrib", "mkdir", "md", "touch"}
<1>1. \A operation \in SafeOperations : OperationOf[operation] \subseteq L
  <2>1. /\ OperationOf["move"] = {"mv", "move", "ren", "rename"}
        /\ OperationOf["copy"] = {"cp", "copy", "xcopy"}
        /\ OperationOf["chmod"] = {"chmod", "icacls", "attrib"}
        /\ OperationOf["create_dir"] = {"mkdir", "md"}
        /\ OperationOf["create_file"] = {"touch"}
    BY DEF OperationOf
  <2>2. QED
    BY <2>1 DEF SafeOperations
<1>2. SafeNames \subseteq L
  BY <1>1 DEF SafeNames
<1>3. ASSUME NEW c \in L
      PROVE  c \notin Significant /\ c \notin {"/*", "*/", "--", "aside", "several"}
  BY <1>3, Zenon DEF Significant, Blanks, Separators, Quotes, Space, Semicolon, Double
<1>4. QED
  BY <1>2, <1>3

\* The name of a known safe command is one of these.
LEMMA SafeByName ==
  ASSUME NEW tokens, KnownSafe(tokens)
  PROVE  tokens # <<>> /\ Word(tokens[1]) \in SafeNames
<1> DEFINE name == Word(tokens[1])
           args == Tail(tokens)
           operation == OperationName(name, Words(args))
           targets == IF operation \in {"delete", "move", "copy", "chmod"}
                        THEN Targets(IF operation = "delete" THEN name ELSE "none", args) ELSE {}
<1>1. OperationOfTokens(tokens).operation \in SafeOperations
  BY DEF KnownSafe
<1>2. OperationOfTokens(tokens) = IF tokens = <<>> THEN NoOperation ELSE OperationOn(operation, targets, args)
  BY DEF OperationOfTokens
<1>3. "unknown" \notin SafeOperations
  BY DEF SafeOperations
<1>4. NoOperation.operation = "unknown" /\ OperationOn(operation, targets, args).operation = operation
  BY DEF NoOperation, OperationOn
<1> HIDE DEF operation, targets
<1>5. tokens # <<>> /\ operation \in SafeOperations
  BY <1>1, <1>2, <1>3, <1>4
<1> DEFINE named == {o \in DOMAIN OperationOf : name \in OperationOf[o]}
<1>6. \/ name = "new-item"
      \/ named = {} /\ operation = "unknown"
      \/ named # {} /\ operation = CHOOSE o \in named : TRUE
  BY DEF OperationName, operation
<1>7. CASE name = "new-item"
  BY <1>5, <1>7 DEF SafeNames
<1>8. CASE named # {} /\ operation = CHOOSE o \in named : TRUE
  <2>1. operation \in named
    BY <1>8
  <2>2. name \in OperationOf[operation]
    BY <2>1
  <2> HIDE DEF name
  <2>3. QED
    BY <1>5, <2>2 DEF SafeNames, name
<1>9. QED
  BY <1>3, <1>5, <1>6, <1>7, <1>8

\* The words consist of what the text does, and of backslashes.
LEMMA WordsWithinStep ==
  ASSUME NEW S, S \subseteq Items, "\\" \in S, NEW s \in LexState, NEW c \in S,
         s.token \in Seq(S), s.tokens \in Seq(Seq(S))
  PROVE  LET r == LexStep(s, c)
         IN r.token \in Seq(S) /\ r.tokens \in Seq(Seq(S))
<1> DEFINE r == LexStep(s, c)
<1>1. c \in Items /\ <<c>> \in Seq(S) /\ s.token \o <<c>> \in Seq(S) /\ <<>> \in Seq(S)
      /\ Append(s.tokens, s.token) \in Seq(Seq(S))
  OBVIOUS
<1>2. CASE s.mode \in Out /\ c \in Blanks
  <2>1. r = Emit(s)
    BY <1>1, <1>2, LexBlank
  <2>2. Emit(s).token = <<>>
    BY DEF Emit, LexState
  <2>3. Emit(s).tokens = IF s.token # <<>> \/ s.quoted THEN Append(s.tokens, s.token) ELSE s.tokens
    BY EmitParts
  <2>4. QED
    BY <1>1, <2>1, <2>2, <2>3
<1>3. CASE s.mode \in Out /\ c \notin Blanks
  <2>1. /\ r.token = IF c = "\\" \/ c \in Quotes THEN s.token ELSE s.token \o <<c>>
        /\ r.tokens = s.tokens
    BY <1>1, <1>3, LexLetter
  <2> HIDE DEF r
  <2>2. QED
    BY <1>1, <2>1 DEF r
<1>4. CASE s.mode \in Quotes
  <2>1. /\ r.token = IF c = s.mode \/ (s.mode = Double /\ c = "\\") THEN s.token ELSE s.token \o <<c>>
        /\ r.tokens = s.tokens
    BY <1>1, <1>4, LexQuoted
  <2> HIDE DEF r
  <2>2. QED
    BY <1>1, <2>1 DEF r
<1>5. CASE s.mode = "escape"
  <2>1. r.token = s.token \o Escaped(s.back, c) /\ r.tokens = s.tokens
    BY <1>1, <1>5, LexEscaped
  <2>2. Escaped(s.back, c) \in Seq(S)
    <3>1. <<"\\", c>> \in Seq(S)
      OBVIOUS
    <3>2. QED
      BY <1>1, <3>1 DEF Escaped
  <2> HIDE DEF r
  <2>3. QED
    BY <2>1, <2>2 DEF r
<1>6. QED
  BY <1>2, <1>3, <1>4, <1>5, LexFields

LEMMA WordsWithin ==
  ASSUME NEW S, S \subseteq Items, "\\" \in S, NEW u \in Seq(S)
  PROVE  Tokenize(u).tokens \in Seq(Seq(S))
<1> DEFINE n == Len(u)
           f == LexStates(u)
<1>1. u \in Texts /\ n \in Nat /\ \A i \in 1..n : u[i] \in S
  <2>1. u \in Texts
    BY SeqWider DEF Texts
  <2>2. QED
    BY <2>1
<1>2. f \in [0..n -> LexState] /\ f[0] = LexStart /\ \A i \in 1..n : f[i] = LexStep(f[i - 1], u[i])
  BY <1>1, LexRuns
<1> HIDE DEF f, n
<1> DEFINE Kept(s) == s.token \in Seq(S) /\ s.tokens \in Seq(Seq(S))
           T == {i \in 0..n : Kept(f[i])}
<1>3. 0 \in T
  <2>1. LexStart.token = <<>> /\ LexStart.tokens = <<>>
    BY DEF LexStart
  <2>2. <<>> \in Seq(S) /\ <<>> \in Seq(Seq(S))
    OBVIOUS
  <2>3. Kept(f[0])
    BY <1>2, <2>1, <2>2
  <2>4. QED
    BY <1>1, <2>3
<1>4. ASSUME NEW i \in 1..n, i - 1 \in T PROVE i \in T
  <2>1. i \in 0..n /\ i - 1 \in 0..n
    BY <1>1, <1>4
  <2> DEFINE s == f[i - 1]
             c == u[i]
  <2>2. Kept(s)
    BY <1>4
  <2>3. s \in LexState /\ c \in S /\ f[i] = LexStep(s, c)
    BY <1>1, <1>2, <2>1
  <2> HIDE DEF s, c
  <2>4. Kept(LexStep(s, c))
    BY <2>2, <2>3, WordsWithinStep
  <2>5. QED
    BY <2>1, <2>3, <2>4
<1>5. Kept(f[n]) /\ f[n] \in LexState
  <2> HIDE DEF T
  <2>1. \A i \in 0..n : i \in T
    BY <1>1, <1>3, <1>4, AllAlong
  <2>2. n \in T /\ n \in 0..n
    BY <1>1, <2>1
  <2>3. QED
    BY <1>2, <2>2 DEF T
<1> DEFINE e == f[n]
<1> HIDE DEF e
<1>6. Tokenize(u).tokens = Emit(e).tokens
  BY DEF Tokenize, LexEnd, e, f, n
<1>7. Emit(e).tokens = IF e.token # <<>> \/ e.quoted THEN Append(e.tokens, e.token) ELSE e.tokens
  BY <1>5, EmitParts DEF e
<1>8. e.token \in Seq(S) /\ e.tokens \in Seq(Seq(S))
  BY <1>5 DEF e
<1>9. QED
  BY <1>6, <1>7, <1>8

\* A text without a safe name is no known safe command.
LEMMA NamelessIsNotSafe ==
  ASSUME NEW u \in Seq(Items \ SafeNames)
  PROVE  ~KnownSafe(Tokenize(u).tokens)
<1> DEFINE S == Items \ SafeNames
           tokens == Tokenize(u).tokens
<1>1. u \in Seq(S)
  OBVIOUS
<1>2. S \subseteq Items /\ "\\" \in S /\ \A c \in S : c \notin SafeNames
  <2>1. "\\" \in Significant
    BY DEF Significant
  <2>2. QED
    BY <2>1, SafeNamesPlain, SqlItems
<1> HIDE DEF S
<1>3. tokens \in Seq(Seq(S))
  BY <1>1, <1>2, WordsWithin
<1> HIDE DEF tokens
<1>4. ASSUME tokens # <<>> PROVE Word(tokens[1]) \notin SafeNames
  <2> DEFINE token == tokens[1]
  <2>1. token \in Seq(S)
    BY <1>3, <1>4
  <2> HIDE DEF token
  <2>2. CASE Len(token) = 1
    BY <1>2, <2>1, <2>2 DEF Word, token
  <2>3. CASE Len(token) # 1
    <3>1. Word(token) = "several"
      BY <2>3 DEF Word
    <3>2. QED
      BY <3>1, SafeNamesPlain DEF token
  <2>4. QED
    BY <2>2, <2>3
<1>5. QED
  BY <1>4, SafeByName DEF tokens

\* The first word is that of an interpreter, or another that is no safe operation's.
Foreign(u) == Read(u).tokens # <<>> /\ Word(Read(u).tokens[1]) \notin SafeNames

LEMMA ForeignStays ==
  ASSUME NEW u \in Texts, NEW v \in Texts, Foreign(u)
  PROVE  Foreign(u \o v)
<1> DEFINE w == u \o v
           n == Len(u)
<1>1. /\ w \in Texts /\ n \in Nat /\ Len(w) = n + Len(v) /\ Len(v) \in Nat
      /\ \A i \in 1..n : u[i] = w[i]
  BY DEF Texts
<1> HIDE DEF w, n
<1>2. n \in 0..n /\ n <= Len(w) /\ n \in 0..Len(w)
  BY <1>1
<1>3. LexStates(w)[n] = Read(u)
  BY <1>1, <1>2, SameStart DEF Read, n
<1>4. Read(w).tokens # <<>> /\ Read(w).tokens[1] = Read(u).tokens[1]
  BY <1>1, <1>2, <1>3, TokensGrow DEF Foreign
<1>5. QED
  BY <1>4 DEF Foreign, w

LEMMA ForeignIsNotSafe ==
  ASSUME NEW u \in Texts, Foreign(u)
  PROVE  ~KnownSafe(Tokenize(u).tokens)
<1> DEFINE e == Read(u)
           tokens == Tokenize(u).tokens
<1>1. e \in LexState /\ e.tokens \in TextLists /\ e.token \in Texts
  BY ReadSteps, LexFields
<1>2. tokens = Emit(e).tokens
  BY WordsOf
<1> HIDE DEF e, tokens
<1>3. Emit(e).tokens = IF e.token # <<>> \/ e.quoted THEN Append(e.tokens, e.token) ELSE e.tokens
  BY <1>1, EmitParts
<1>4. e.tokens # <<>> /\ Word(e.tokens[1]) \notin SafeNames
  BY DEF Foreign, e
<1>5. tokens[1] = e.tokens[1]
  BY <1>1, <1>2, <1>3, <1>4 DEF TextLists
<1>6. QED
  BY <1>4, <1>5, SafeByName DEF tokens

\* The items of composed texts: those that normalization leaves, takes or replaces by a word.
Spellings == (Items \ DOMAIN Plain) \cup Invisible \cup {Lookalike[w] : w \in DOMAIN Lookalike}

LEMMA SpellingsAre ==
  /\ Spellings \subseteq Items
  /\ \A c \in Spellings : c \notin DOMAIN Plain => NormalForm(c) = <<c>>
  /\ \A c \in Spellings : c \in Invisible => NormalForm(c) = <<>>
  /\ \A c \in Spellings : c \in DOMAIN Plain /\ c \notin Invisible =>
       \E w \in Items : NormalForm(c) = <<w>> /\ w \notin Significant
  /\ \A c \in Significant \cup {"/*", "*/", "--", "aside"} : c \in Spellings /\ c \notin DOMAIN Plain
  /\ \A w \in DOMAIN Lookalike : /\ w \in Items => NormalForm(w) = <<w>>
                                 /\ Lookalike[w] \in Spellings /\ NormalForm(Lookalike[w]) = <<w>>
<1>1. /\ DOMAIN Plain \subseteq STRING
      /\ DOMAIN Plain \cap (Significant \cup DOMAIN Lookalike \cup {"/*", "*/", "--", "aside"}) = {}
      /\ \A w \in DOMAIN Lookalike :
           w \notin Significant /\ Lookalike[w] \in DOMAIN Plain /\ Plain[Lookalike[w]] = <<w>>
      /\ \A c \in Invisible : c \in DOMAIN Plain /\ Plain[c] = <<>>
  BY InspectionConstants
<1>2. DOMAIN Plain \subseteq Items
  BY <1>1 DEF Items
<1>3. Spellings \subseteq Items
  BY <1>1, <1>2 DEF Spellings
<1>4. \A w \in DOMAIN Lookalike : w \in Items
  <2>1. ASSUME NEW w \in DOMAIN Lookalike PROVE w \in Items
    <3>1. NormalForm(Lookalike[w]) = <<w>> /\ Lookalike[w] \in Items
      BY <1>1, <1>2 DEF NormalForm
    <3>2. <<w>> \in Texts
      BY <3>1, NormalFormType
    <3>3. <<w>>[1] \in Items
      BY <3>2 DEF Texts
    <3>4. QED
      BY <3>3
  <2>2. QED
    BY <2>1
<1>5. \A c \in Significant \cup {"/*", "*/", "--", "aside"} : c \in Items
  BY DEF Items
<1>6. ASSUME NEW c \in Spellings, c \in DOMAIN Plain, c \notin Invisible
      PROVE  \E w \in Items : NormalForm(c) = <<w>> /\ w \notin Significant
  <2>1. PICK w \in DOMAIN Lookalike : c = Lookalike[w]
    BY <1>6 DEF Spellings
  <2>2. QED
    BY <1>1, <1>4, <1>6, <2>1 DEF NormalForm
<1>7. QED
  BY <1>1, <1>3, <1>4, <1>5, <1>6 DEF Spellings, NormalForm

\* Everything that normalization makes of a text's items.
LEMMA NormalizedIn ==
  ASSUME NEW S, NEW t \in Texts, \A i \in 1..Len(t) : NormalForm(t[i]) \in Seq(S)
  PROVE  Normalized(t) \in Seq(S)
<1> DEFINE a == [i \in DOMAIN t |-> NormalForm(t[i])]
<1>1. Normalized(t) = FlattenSeq(a)
  BY DEF Normalized, NormalForm
<1>2. DOMAIN t = 1..Len(t) /\ Len(t) \in Nat
  BY DEF Texts
<1>3. a \in [1..Len(t) -> Seq(S)]
  BY <1>2
<1> HIDE DEF a
<1>4. a \in Seq(Seq(S))
  BY <1>2, <1>3
<1>5. QED
  BY <1>1, <1>4, FlattenType

\* A text without quotes and escapes is read without them.
Bare == Items \ (Quotes \cup {"\\"})

LEMMA NormalizedUnquoted ==
  ASSUME NEW t \in Seq(Spellings), \A i \in 1..Len(t) : t[i] \notin Quotes \cup {"\\"}
  PROVE  Normalized(t) \in Seq(Bare)
<1>1. t \in Texts /\ \A i \in 1..Len(t) : t[i] \in Spellings
  BY SpellingsAre, SeqWider DEF Texts
<1>2. ASSUME NEW i \in 1..Len(t) PROVE NormalForm(t[i]) \in Seq(Bare)
  <2> DEFINE c == t[i]
  <2>1. c \in Spellings /\ c \in Items /\ c \in Bare
    BY <1>1, SpellingsAre DEF Bare
  <2>2. Quotes \cup {"\\"} \subseteq Significant
    BY DEF Significant
  <2> HIDE DEF c
  <2>3. CASE c \notin DOMAIN Plain
    <3>1. NormalForm(c) = <<c>>
      BY <2>1, <2>3, SpellingsAre
    <3>2. QED
      BY <2>1, <3>1 DEF c
  <2>4. CASE c \in Invisible
    <3>1. NormalForm(c) = <<>>
      BY <2>1, <2>4, SpellingsAre
    <3>2. QED
      BY <3>1 DEF c
  <2>5. CASE c \in DOMAIN Plain /\ c \notin Invisible
    <3>1. PICK w \in Items : NormalForm(c) = <<w>> /\ w \notin Significant
      BY <2>1, <2>5, SpellingsAre
    <3>2. w \in Bare
      BY <2>2, <3>1 DEF Bare
    <3>3. QED
      BY <3>1, <3>2 DEF c
  <2>6. QED
    BY <2>3, <2>4, <2>5
<1>3. QED
  BY <1>1, <1>2, NormalizedIn

\* A word put in quotes is the same word to shlex.
LEMMA QuotedText ==
  ASSUME NEW a \in Texts, NEW b \in Texts, NEW x \in Items, x \notin Blanks \cup Separators \cup {"&"},
         a \o <<x>> \o b \in Seq(Bare)
  PROVE  WordQuoted(a \o <<x>> \o b, a \o <<Double, x, Double>> \o b, Len(a) + 1)
<1> DEFINE u == a \o <<x>> \o b
           v == a \o <<Double, x, Double>> \o b
           n == Len(a)
           m == Len(b)
<1>1. n \in Nat /\ m \in Nat /\ Double \in Items
  BY SqlItems, ShellItems DEF Texts
<1>2. /\ Len(u) = n + 1 + m /\ u[n + 1] = x
      /\ \A i \in 1..n : u[i] = a[i]
      /\ \A i \in 1..m : u[n + 1 + i] = b[i]
  <2> DEFINE k == a \o <<x>>
  <2>1. <<x>> \in Texts /\ Len(<<x>>) = 1 /\ <<x>>[1] = x
    BY DEF Texts
  <2>2. k \in Texts /\ Len(k) = n + 1 /\ k[n + 1] = x /\ \A i \in 1..n : k[i] = a[i]
    BY <2>1, BothParts
  <2> HIDE DEF k
  <2>3. /\ Len(k \o b) = Len(k) + m
        /\ \A i \in 1..Len(k) : (k \o b)[i] = k[i]
        /\ \A i \in 1..m : (k \o b)[Len(k) + i] = b[i]
    BY <2>2, BothParts
  <2>4. u = k \o b
    BY DEF k
  <2> HIDE DEF u, n, m
  <2>5. QED
    BY <1>1, <2>2, <2>3, <2>4
<1>3. /\ Len(v) = n + 3 + m /\ v[n + 1] = Double /\ v[n + 2] = x /\ v[n + 3] = Double
      /\ \A i \in 1..n : v[i] = a[i]
      /\ \A i \in 1..m : v[n + 3 + i] = b[i]
  <2> DEFINE q == <<Double, x, Double>>
             k == a \o q
  <2>1. q \in Texts /\ Len(q) = 3 /\ q[1] = Double /\ q[2] = x /\ q[3] = Double
    BY <1>1 DEF Texts
  <2> HIDE DEF q
  <2>2. /\ k \in Texts /\ Len(k) = n + 3
        /\ \A i \in 1..n : k[i] = a[i]
        /\ \A i \in 1..3 : k[n + i] = q[i]
    <3>1. /\ a \o q \in Texts /\ Len(a \o q) = Len(a) + Len(q)
          /\ \A i \in 1..Len(a) : (a \o q)[i] = a[i]
          /\ \A i \in 1..Len(q) : (a \o q)[Len(a) + i] = q[i]
      BY <2>1, BothParts
    <3>2. QED
      BY <2>1, <3>1
  <2> HIDE DEF k
  <2>3. /\ Len(k \o b) = Len(k) + m
        /\ \A i \in 1..Len(k) : (k \o b)[i] = k[i]
        /\ \A i \in 1..m : (k \o b)[Len(k) + i] = b[i]
    BY <2>2, BothParts
  <2>4. v = k \o b
    BY DEF k, q
  <2> HIDE DEF v, n, m
  <2>5. k[n + 1] = Double /\ k[n + 2] = x /\ k[n + 3] = Double
    BY <2>1, <2>2
  <2>6. QED
    BY <1>1, <2>2, <2>3, <2>4, <2>5
<1>4. u \in Seq(Bare)
  OBVIOUS
<1> HIDE DEF u, v, n, m
<1>5. n + 1 \in 1..Len(u) /\ Len(v) = Len(u) + 2
  BY <1>1, <1>2, <1>3
<1>6. \A i \in 1..Len(u) : u[i] \notin Quotes /\ u[i] # "\\"
  BY <1>4 DEF Bare
<1>7. \A i \in 1..((n + 1) - 1) : v[i] = u[i]
  BY <1>1, <1>2, <1>3
<1>8. v[n + 1] = Double /\ v[(n + 1) + 1] = u[n + 1] /\ v[(n + 1) + 2] = Double
  BY <1>1, <1>2, <1>3
<1>9. \A i \in ((n + 1) + 1)..Len(u) : v[i + 2] = u[i]
  <2>1. SUFFICES ASSUME NEW i \in ((n + 1) + 1)..Len(u) PROVE v[i + 2] = u[i]
    OBVIOUS
  <2>2. /\ i - (n + 1) \in 1..m /\ n + 1 + (i - (n + 1)) = i /\ n + 3 + (i - (n + 1)) = i + 2
    BY <1>1, <1>2
  <2>3. QED
    BY <1>2, <1>3, <2>2
<1>10. WordQuoted(u, v, n + 1)
  BY <1>2, <1>5, <1>6, <1>7, <1>8, <1>9 DEF WordQuoted
<1>11. QED
  BY <1>10 DEF u, v, n

LEMMA QuotedSame ==
  ASSUME NEW u \in Texts, NEW v \in Texts, NEW p, WordQuoted(u, v, p)
  PROVE  /\ HasOperator(u) => HasOperator(v)
         /\ Foreign(u) => Foreign(v)
         /\ Tokenize(v).tokens = Tokenize(u).tokens
         /\ Read(u).mode \in Out => Read(v).mode \in Out
<1> DEFINE s == Read(u)
           t == Read(v)
<1>1. Echo(s, t)
  <2>1. Len(v) = Len(u) + 2 /\ Len(u) \in p..Len(u)
    BY DEF WordQuoted, Texts
  <2>2. \A k \in p..Len(u) : Echo(LexStates(u)[k], LexStates(v)[k + 2])
    BY WordQuotedReads
  <2>3. QED
    BY <2>1, <2>2 DEF Read
<1>2. s \in LexState /\ t \in LexState
  BY ReadSteps
<1>3. Tokenize(u).tokens = Emit(s).tokens /\ Tokenize(v).tokens = Emit(t).tokens
  BY WordsOf
<1>4. HasOperator(u) => HasOperator(v)
  BY OperatorQuoted
<1> HIDE DEF s, t
<1>5. Emit(s).tokens = Emit(t).tokens
  BY <1>1, <1>2, EchoEmit
<1>6. Foreign(u) => Foreign(v)
  BY <1>1 DEF Echo, Foreign, s, t
<1>7. QED
  BY <1>1, <1>3, <1>4, <1>5, <1>6 DEF Echo, s, t

\* Something written plainly, put before or behind a text.
LEMMA JoinedText ==
  ASSUME NEW t \in Seq(Spellings), NEW v \in Texts, \A i \in 1..Len(v) : v[i] \notin DOMAIN Plain
  PROVE  /\ v \in Seq(Spellings)
         /\ Normalized(v) = v
         /\ t \o v \in Seq(Spellings) /\ Normalized(t \o v) = Normalized(t) \o v
         /\ v \o t \in Seq(Spellings) /\ Normalized(v \o t) = v \o Normalized(t)
<1>1. t \in Texts
  BY SpellingsAre, SeqWider DEF Texts
<1>2. v \in Seq(Spellings)
  <2>1. \A i \in 1..Len(v) : v[i] \in Spellings
    BY DEF Spellings, Texts
  <2>2. QED
    BY <2>1 DEF Texts
<1>3. Normalized(v) = v
  BY NormalizedPlainly
<1>4. Normalized(t \o v) = Normalized(t) \o Normalized(v) /\ Normalized(v \o t) = Normalized(v) \o Normalized(t)
  BY <1>1, NormalizedParts
<1>5. t \o v \in Seq(Spellings) /\ v \o t \in Seq(Spellings)
  BY <1>2
<1>6. QED
  BY <1>2, <1>3, <1>4, <1>5

\* One item of a text replaced by others.
LEMMA DisguisedText ==
  ASSUME NEW t \in Seq(Spellings), NEW i \in DOMAIN t, NEW items \in Seq(Spellings)
  PROVE  /\ UpTo(t, i) \o items \o From(t, i) \in Seq(Spellings)
         /\ \E a, b \in Texts : /\ Normalized(UpTo(t, i) \o items \o From(t, i))
                                    = a \o Normalized(items) \o b
                                /\ Normalized(t) = a \o NormalForm(t[i]) \o b
<1> DEFINE a == UpTo(t, i)
           b == From(t, i)
<1>1. t \in Texts /\ items \in Texts /\ i \in 1..Len(t)
  BY SpellingsAre, SeqWider DEF Texts
<1>2. a \in Seq(Spellings) /\ b \in Seq(Spellings)
  BY DEF UpTo, From
<1>3. /\ a \in Texts /\ b \in Texts
      /\ Normalized(a \o items \o b) = Normalized(a) \o Normalized(items) \o Normalized(b)
      /\ Normalized(t) = Normalized(a) \o NormalForm(t[i]) \o Normalized(b)
  BY <1>1, NormalizedReplaced
<1> HIDE DEF a, b
<1>4. a \o items \o b \in Seq(Spellings)
  BY <1>2
<1>5. Normalized(a) \in Texts /\ Normalized(b) \in Texts
  BY <1>3, NormalizedType
<1>6. \E x, y \in Texts : /\ Normalized(a \o items \o b) = x \o Normalized(items) \o y
                          /\ Normalized(t) = x \o NormalForm(t[i]) \o y
  BY <1>3, <1>5
<1>7. QED
  BY <1>4, <1>6 DEF a, b

\* What ends in no backslash.
LEMMA NoEscapes ==
  ASSUME NEW u \in Texts, \A i \in 1..Len(u) : u[i] # "\\"
  PROVE  ~EndsInEscape(u)
<1>1. CASE u # <<>>
  <2>1. Len(u) \in 1..Len(u) /\ Last(u) = u[Len(u)]
    BY <1>1 DEF Texts, Last
  <2>2. QED
    BY <2>1 DEF EndsInEscape
<1>2. QED
  BY <1>1 DEF EndsInEscape

LEMMA JoinedEnds ==
  ASSUME NEW u \in Texts, NEW v \in Texts
  PROVE  /\ v # <<>> => (EndsInEscape(u \o v) <=> EndsInEscape(v))
         /\ v = <<>> => u \o v = u
<1> DEFINE w == u \o v
<1>1. /\ w \in Texts /\ Len(w) = Len(u) + Len(v)
      /\ \A i \in 1..Len(v) : w[Len(u) + i] = v[i]
  BY BothParts
<1>2. v = <<>> => w = u
  BY DEF Texts
<1> HIDE DEF w
<1>3. CASE v # <<>>
  <2>1. Len(v) \in 1..Len(v) /\ Last(v) = v[Len(v)] /\ Len(u) \in Nat
    BY <1>3 DEF Texts, Last
  <2>2. Last(w) = w[Len(w)]
    BY DEF Last
  <2>3. Last(w) = Last(v)
    BY <1>1, <2>1, <2>2
  <2>4. w # <<>>
    <3>1. Len(w) # 0
      BY <1>1, <2>1
    <3>2. Len(<<>>) = 0
      OBVIOUS
    <3>3. QED
      BY <3>1, <3>2
  <2>5. QED
    BY <1>3, <2>3, <2>4 DEF EndsInEscape, w
<1>4. QED
  BY <1>2, <1>3 DEF w

LEMMA EndsJoined ==
  ASSUME NEW u \in Texts, NEW v \in Texts, ~EndsInEscape(u), ~EndsInEscape(v)
  PROVE  ~EndsInEscape(u \o v)
BY JoinedEnds

\* What stands in the place of something else.
LEMMA ReplacedEnds ==
  ASSUME NEW a \in Texts, NEW b \in Texts, NEW u \in Texts, NEW v \in Texts,
         ~EndsInEscape(a \o u \o b), v # <<>>, ~EndsInEscape(v)
  PROVE  ~EndsInEscape(a \o v \o b)
<1>1. a \o u \in Texts /\ a \o v \in Texts
  BY TextFacts
<1>2. ~EndsInEscape(a \o v)
  BY JoinedEnds
<1>3. CASE b # <<>>
  <2>1. ~EndsInEscape(b)
    BY <1>1, <1>3, JoinedEnds
  <2>2. QED
    BY <1>1, <1>2, <2>1, EndsJoined
<1>4. CASE b = <<>>
  <2>1. (a \o v) \o b = a \o v
    BY <1>1, <1>4, JoinedEnds
  <2>2. QED
    BY <1>2, <2>1
<1>5. QED
  BY <1>3, <1>4

\* The pieces, the wrappers and the operators are written plainly.
LEMMA PlainPieces ==
  ASSUME NEW piece \in Pieces
  PROVE  /\ piece.tongue \in Composed
         /\ piece.text \in Texts /\ \A i \in 1..Len(piece.text) : piece.text[i] \notin DOMAIN Plain
         /\ ~EndsInEscape(piece.text)
         /\ piece.tongue = "sql" => piece.text \in Seq(Items \ SafeNames)
         /\ Read(piece.text).mode \in Out
         /\ piece.known <=> KnownSafe(Tokenize(piece.text).tokens)
<1> DEFINE u == piece.text
<1>1. SoundPiece(piece)
  BY InspectionConstants
<1>2. piece.tongue \in Composed /\ u \in Seq(STRING)
  BY <1>1 DEF SoundPiece, PieceType, Composed
<1>3. u \in Texts
  <2>1. STRING \subseteq Items
    BY DEF Items
  <2>2. QED
    BY <1>2, <2>1, SeqWider DEF Texts
<1>4. \A i \in DOMAIN u : u[i] \notin DOMAIN Plain
  BY <1>1 DEF SoundPiece, Plainly
<1>5. /\ Tokenize(u).ok /\ ~EndsInEscape(u)
      /\ piece.known <=> KnownSafe(Tokenize(u).tokens)
      /\ piece.tongue = "sql" => \A i \in DOMAIN u : u[i] \notin SafeNames
  BY <1>1 DEF SoundPiece, Nameless
<1> HIDE DEF u
<1>6. DOMAIN u = 1..Len(u)
  BY <1>3 DEF Texts
<1>7. piece.tongue = "sql" => u \in Seq(Items \ SafeNames)
  BY <1>3, <1>5 DEF Texts
<1>8. Read(u).mode \in Out
  BY <1>3, <1>5, WordsOf
<1>9. QED
  BY <1>2, <1>3, <1>4, <1>5, <1>6, <1>7, <1>8 DEF u

LEMMA PlainWrappers ==
  ASSUME NEW wrapper \in Wrappers
  PROVE  LET before == wrapper.before
             after  == wrapper.after
         IN /\ before \in Texts /\ \A i \in 1..Len(before) : before[i] \notin DOMAIN Plain
            /\ after \in Texts /\ \A i \in 1..Len(after) : after[i] \notin DOMAIN Plain
            /\ ~EndsInEscape(before) /\ before \in Seq(Items \ SafeNames)
            /\ ~EndsInEscape(after) /\ after \in Seq(Items \ SafeNames)
            /\ Len(before) > 1 /\ before[1] \notin Significant /\ before[2] \in Blanks
<1> DEFINE before == wrapper.before
           after == wrapper.after
           w == before \o after
<1>1. SoundWrapper(wrapper)
  BY InspectionConstants
<1>2. before \in Seq(STRING) /\ after \in Seq(STRING)
  BY <1>1 DEF SoundWrapper, WrapperType
<1>3. before \in Texts /\ after \in Texts
  <2>1. STRING \subseteq Items
    BY DEF Items
  <2>2. QED
    BY <1>2, <2>1, SeqWider DEF Texts
<1>4. \A i \in DOMAIN w : w[i] \notin DOMAIN Plain /\ w[i] \notin SafeNames
  BY <1>1 DEF SoundWrapper, Plainly, Nameless
<1>5. /\ Len(before) > 1 /\ before[1] \notin Significant /\ before[2] \in Blanks
      /\ ~EndsInEscape(before) /\ ~EndsInEscape(after)
  BY <1>1 DEF SoundWrapper
<1> HIDE DEF before, after
<1>6. /\ w \in Texts /\ Len(w) = Len(before) + Len(after)
      /\ \A i \in 1..Len(before) : w[i] = before[i]
      /\ \A i \in 1..Len(after) : w[Len(before) + i] = after[i]
  BY <1>3, BothParts
<1> HIDE DEF w
<1>7. DOMAIN w = 1..Len(w) /\ Len(before) \in Nat /\ Len(after) \in Nat
  BY <1>3, <1>6 DEF Texts
<1>8. ASSUME NEW i \in 1..Len(before)
      PROVE  before[i] \in Items /\ before[i] \notin DOMAIN Plain /\ before[i] \notin SafeNames
  <2>1. i \in DOMAIN w /\ w[i] = before[i]
    BY <1>6, <1>7
  <2>2. QED
    BY <1>3, <1>4, <2>1 DEF Texts
<1>9. ASSUME NEW i \in 1..Len(after)
      PROVE  after[i] \in Items /\ after[i] \notin DOMAIN Plain /\ after[i] \notin SafeNames
  <2>1. Len(before) + i \in DOMAIN w /\ w[Len(before) + i] = after[i]
    BY <1>6, <1>7
  <2>2. QED
    BY <1>3, <1>4, <2>1 DEF Texts
<1>10. before \in Seq(Items \ SafeNames)
  BY <1>3, <1>8 DEF Texts
<1>11. after \in Seq(Items \ SafeNames)
  BY <1>3, <1>9 DEF Texts
<1>12. QED
  BY <1>3, <1>5, <1>8, <1>9, <1>10, <1>11 DEF before, after

LEMMA PlainOperators ==
  ASSUME NEW operator \in Operators
  PROVE  LET u == Spelled(operator)
         IN /\ u \in Texts /\ \A i \in 1..Len(u) : u[i] \notin DOMAIN Plain
            /\ ~EndsInEscape(u) /\ u \in Seq(Items \ SafeNames)
            /\ Read(u).mode \in Out
<1> DEFINE u == Spelled(operator)
<1>1. /\ u \in Texts
      /\ \A i \in 1..Len(u) : u[i] \in Significant /\ u[i] # "\\" /\ u[i] \notin Quotes
  BY SpelledItems
<1> HIDE DEF u
<1>2. \A i \in 1..Len(u) : u[i] \in Items /\ u[i] \notin SafeNames /\ u[i] \notin DOMAIN Plain
  BY <1>1, SafeNamesPlain, SpellingsAre DEF Texts
<1>3. u \in Seq(Items \ SafeNames)
  BY <1>1, <1>2 DEF Texts
<1>4. ~EndsInEscape(u)
  BY <1>1, NoEscapes
<1>5. Read(u).mode \in Out
  BY <1>1, UnquotedReads
<1>6. QED
  BY <1>1, <1>2, <1>3, <1>4, <1>5 DEF u

LEMMA ChainOperatorsAre ==
  ASSUME NEW t \in Composed
  PROVE  ChainOperators[t] \subseteq Operators
<1>1. ChainOperators["shell"] = Separators \cup {"&&", "&"} /\ ChainOperators["sql"] = {Semicolon}
  BY DEF ChainOperators
<1>2. Semicolon \in Separators
  BY DEF Separators
<1>3. QED
  BY <1>1, <1>2 DEF Composed, Operators

\* What shlex reads of a composed command that is of this shape and has these pieces: an
\* operator outside its quotes, a first word that is no safe operation's, or the words of its
\* one piece.
ReadsAs(n, shape, pieces) ==
  /\ \/ shape \in {"chain", "other"} /\ HasOperator(n)
     \/ shape = "other" /\ Foreign(n)
     \/ /\ shape = "one" /\ Len(pieces) = 1 /\ pieces[1].piece \in Pieces
        /\ Tokenize(n).tokens = Tokenize(pieces[1].piece.text).tokens
  /\ shape \in {"one", "chain"} => Read(n).mode \in Out

\* The inductive invariant, of what normalization leaves of a composed text.
ComposedKept ==
  tongue \in Composed =>
    /\ text \in Seq(Spellings)
    /\ ~EndsInEscape(Normalized(text))
    /\ tongue = "sql" => Normalized(text) \in Seq(Items \ SafeNames)
    /\ tongue = "shell" => ReadsAs(Normalized(text), form, parts)

LEMMA SpellingsTexts == \A t \in Seq(Spellings) : t \in Texts /\ Normalized(t) \in Texts
BY SpellingsAre, SeqWider, NormalizedType DEF Texts

LEMMA EmptySpelling == <<>> \in Seq(Spellings) /\ Normalized(<<>>) = <<>>
BY NormalizedEmpty

LEMMA InitComposed == Init => ComposedKept
<1>1. SUFFICES ASSUME Init, tongue \in Composed
               PROVE  /\ text \in Seq(Spellings)
                      /\ ~EndsInEscape(Normalized(text))
                      /\ tongue = "sql" => Normalized(text) \in Seq(Items \ SafeNames)
                      /\ tongue = "shell" => ReadsAs(Normalized(text), form, parts)
  BY DEF ComposedKept
<1>2. PICK piece \in Pieces : /\ tongue = piece.tongue /\ text = piece.text
                              /\ parts = <<[piece |-> piece, operator |-> "none"]>>
  <2>1. tongue \notin Typed /\ tongue # "path"
    BY <1>1 DEF Composed, Typed
  <2>2. QED
    BY <1>1, <2>1 DEF Init
<1>3. form = "one" /\ Len(parts) = 1 /\ parts[1].piece = piece
  <2>1. form = "one"
    BY <1>1 DEF Init
  <2>2. QED
    BY <1>2, <2>1
<1>4. /\ text \in Texts /\ \A i \in 1..Len(text) : text[i] \notin DOMAIN Plain
      /\ ~EndsInEscape(text)
      /\ tongue = "sql" => text \in Seq(Items \ SafeNames)
      /\ Read(text).mode \in Out
  BY <1>2, PlainPieces
<1>5. text \in Seq(Spellings) /\ Normalized(text) = text
  BY <1>4, EmptySpelling, JoinedText
<1>6. ReadsAs(text, form, parts)
  BY <1>2, <1>3, <1>4 DEF ReadsAs
<1>7. QED
  BY <1>4, <1>5, <1>6

\* A further command stands behind an operator outside quotes.
LEMMA FollowKeeps ==
  ASSUME ComposedKept, NEW piece \in Pieces, NEW operator, Follow(piece, operator)
  PROVE  ComposedKept'
<1> DEFINE n == Normalized(text)
           o == Spelled(operator)
           p == piece.text
<1>1. /\ tongue \in Composed /\ tongue' = tongue /\ piece.tongue = tongue /\ form # "other"
      /\ operator \in ChainOperators[tongue] /\ text' = text \o o \o p /\ form' = "chain"
  BY DEF Follow, Work
<1>2. /\ text \in Seq(Spellings) /\ ~EndsInEscape(n)
      /\ tongue = "sql" => n \in Seq(Items \ SafeNames)
      /\ tongue = "shell" => ReadsAs(n, form, parts)
  BY <1>1 DEF ComposedKept
<1>3. operator \in Operators
  BY <1>1, ChainOperatorsAre
<1>4. /\ o \in Texts /\ \A i \in 1..Len(o) : o[i] \notin DOMAIN Plain
      /\ ~EndsInEscape(o) /\ o \in Seq(Items \ SafeNames)
      /\ Read(o).mode \in Out
  BY <1>3, PlainOperators
<1>5. /\ p \in Texts /\ \A i \in 1..Len(p) : p[i] \notin DOMAIN Plain
      /\ ~EndsInEscape(p)
      /\ tongue = "sql" => p \in Seq(Items \ SafeNames)
      /\ Read(p).mode \in Out
  BY <1>1, PlainPieces
<1> HIDE DEF o, p
<1>6. text \o o \in Seq(Spellings) /\ Normalized(text \o o) = n \o o
  BY <1>2, <1>4, JoinedText
<1>7. text' \in Seq(Spellings) /\ Normalized(text') = n \o o \o p
  <2>1. (text \o o) \o p \in Seq(Spellings) /\ Normalized((text \o o) \o p) = Normalized(text \o o) \o p
    BY <1>5, <1>6, JoinedText
  <2>2. QED
    BY <1>1, <1>6, <2>1
<1>8. n \in Texts
  BY <1>2, SpellingsTexts
<1> HIDE DEF n
<1>9. /\ n \o o \in Texts /\ ~EndsInEscape(n \o o \o p)
      /\ tongue = "sql" => n \o o \o p \in Seq(Items \ SafeNames)
  <2>1. n \o o \in Texts
    BY <1>4, <1>8, TextFacts
  <2>2. ~EndsInEscape(n \o o)
    BY <1>2, <1>4, <1>8, EndsJoined
  <2>3. ~EndsInEscape(n \o o \o p)
    BY <1>5, <2>1, <2>2, EndsJoined
  <2>4. QED
    BY <1>2, <1>4, <1>5, <2>1, <2>3
<1>10. ASSUME tongue = "shell" PROVE ReadsAs(n \o o \o p, "chain", parts')
  <2>1. Read(n).mode \in Out
    BY <1>1, <1>2, <1>10 DEF ReadsAs
  <2>2. HasOperator(n \o o \o p)
    <3>1. HasOperator(n \o o)
      BY <1>3, <1>8, <2>1, OperatorBehind DEF o
    <3>2. QED
      BY <1>5, <1>9, <3>1, OperatorStays
  <2>3. Read(n \o o).mode \in Out
    BY <1>4, <1>8, <2>1, QuotesBehind
  <2>4. Read(n \o o \o p).mode \in Out
    BY <1>5, <1>9, <2>3, QuotesBehind
  <2>5. QED
    BY <2>2, <2>4 DEF ReadsAs
<1>11. QED
  BY <1>1, <1>7, <1>9, <1>10 DEF ComposedKept

\* An operator with nothing before it.
LEMMA LeadKeeps ==
  ASSUME ComposedKept, NEW operator, Lead(operator)
  PROVE  ComposedKept'
<1> DEFINE n == Normalized(text)
           o == Spelled(operator)
<1>1. /\ tongue \in Composed /\ tongue' = tongue /\ operator \in ChainOperators[tongue] \ {"&"}
      /\ text' = o \o text /\ form' = "other"
  BY DEF Lead, Work
<1>2. /\ text \in Seq(Spellings) /\ ~EndsInEscape(n)
      /\ tongue = "sql" => n \in Seq(Items \ SafeNames)
  BY <1>1 DEF ComposedKept
<1>3. operator \in Operators
  BY <1>1, ChainOperatorsAre
<1>4. /\ o \in Texts /\ \A i \in 1..Len(o) : o[i] \notin DOMAIN Plain
      /\ ~EndsInEscape(o) /\ o \in Seq(Items \ SafeNames)
  BY <1>3, PlainOperators
<1> HIDE DEF o
<1>5. text' \in Seq(Spellings) /\ Normalized(text') = o \o n
  BY <1>1, <1>2, <1>4, JoinedText
<1>6. n \in Texts
  BY <1>2, SpellingsTexts
<1> HIDE DEF n
<1>7. ~EndsInEscape(o \o n) /\ (tongue = "sql" => o \o n \in Seq(Items \ SafeNames))
  BY <1>2, <1>4, <1>6, EndsJoined
<1>8. ReadsAs(o \o n, "other", parts')
  <2>1. HasOperator(o \o n)
    BY <1>3, <1>6, OperatorAhead DEF o
  <2>2. QED
    BY <2>1 DEF ReadsAs
<1>9. QED
  BY <1>1, <1>5, <1>7, <1>8 DEF ComposedKept

\* An operator with nothing behind it.
LEMMA TrailKeeps ==
  ASSUME ComposedKept, NEW operator, Trail(operator)
  PROVE  ComposedKept'
<1> DEFINE n == Normalized(text)
           o == Spelled(operator)
<1>1. /\ tongue \in Composed /\ tongue' = tongue /\ operator \in ChainOperators[tongue]
      /\ text' = text \o o /\ form' = "other"
  BY DEF Trail, Work
<1>2. /\ text \in Seq(Spellings) /\ ~EndsInEscape(n)
      /\ tongue = "sql" => n \in Seq(Items \ SafeNames)
      /\ tongue = "shell" => ReadsAs(n, form, parts)
  BY <1>1 DEF ComposedKept
<1>3. operator \in Operators
  BY <1>1, ChainOperatorsAre
<1>4. /\ o \in Texts /\ \A i \in 1..Len(o) : o[i] \notin DOMAIN Plain
      /\ ~EndsInEscape(o) /\ o \in Seq(Items \ SafeNames)
  BY <1>3, PlainOperators
<1> HIDE DEF o
<1>5. text' \in Seq(Spellings) /\ Normalized(text') = n \o o
  BY <1>1, <1>2, <1>4, JoinedText
<1>6. n \in Texts
  BY <1>2, SpellingsTexts
<1> HIDE DEF n
<1>7. ~EndsInEscape(n \o o) /\ (tongue = "sql" => n \o o \in Seq(Items \ SafeNames))
  BY <1>2, <1>4, <1>6, EndsJoined
<1>8. ASSUME tongue = "shell" PROVE ReadsAs(n \o o, "other", parts')
  <2>1. HasOperator(n) \/ Foreign(n) \/ Read(n).mode \in Out
    BY <1>2, <1>8 DEF ReadsAs
  <2>2. HasOperator(n \o o) \/ Foreign(n \o o)
    <3>1. CASE HasOperator(n)
      BY <1>4, <1>6, <3>1, OperatorStays
    <3>2. CASE Foreign(n)
      BY <1>4, <1>6, <3>2, ForeignStays
    <3>3. CASE Read(n).mode \in Out
      BY <1>3, <1>6, <3>3, OperatorBehind DEF o
    <3>4. QED
      BY <2>1, <3>1, <3>2, <3>3
  <2>3. QED
    BY <2>2 DEF ReadsAs
<1>9. QED
  BY <1>1, <1>5, <1>7, <1>8 DEF ComposedKept

\* Whatever an interpreter is given, the line starts with the interpreter.
LEMMA WrapKeeps ==
  ASSUME ComposedKept, NEW wrapper \in Wrappers, Wrap(wrapper)
  PROVE  ComposedKept'
<1> DEFINE n == Normalized(text)
           b == wrapper.before
           a == wrapper.after
<1>1. /\ tongue \in Composed /\ tongue' = tongue
      /\ text' = b \o text \o a /\ form' = "other"
  BY DEF Wrap, Work
<1>2. /\ text \in Seq(Spellings) /\ ~EndsInEscape(n)
      /\ tongue = "sql" => n \in Seq(Items \ SafeNames)
  BY <1>1 DEF ComposedKept
<1>3. /\ b \in Texts /\ \A i \in 1..Len(b) : b[i] \notin DOMAIN Plain
      /\ a \in Texts /\ \A i \in 1..Len(a) : a[i] \notin DOMAIN Plain
      /\ ~EndsInEscape(b) /\ b \in Seq(Items \ SafeNames)
      /\ ~EndsInEscape(a) /\ a \in Seq(Items \ SafeNames)
      /\ Len(b) > 1 /\ b[1] \notin Significant /\ b[2] \in Blanks
  BY PlainWrappers
<1> HIDE DEF a, b
<1>4. b \o text \in Seq(Spellings) /\ Normalized(b \o text) = b \o n
  BY <1>2, <1>3, JoinedText
<1>5. text' \in Seq(Spellings) /\ Normalized(text') = b \o n \o a
  <2>1. (b \o text) \o a \in Seq(Spellings) /\ Normalized((b \o text) \o a) = Normalized(b \o text) \o a
    BY <1>3, <1>4, JoinedText
  <2>2. QED
    BY <1>1, <1>4, <2>1
<1>6. n \in Texts
  BY <1>2, SpellingsTexts
<1> HIDE DEF n
<1>7. /\ b \o n \in Texts /\ ~EndsInEscape(b \o n \o a)
      /\ tongue = "sql" => b \o n \o a \in Seq(Items \ SafeNames)
  <2>1. b \o n \in Texts
    BY <1>3, <1>6, TextFacts
  <2>2. ~EndsInEscape(b \o n)
    BY <1>2, <1>3, <1>6, EndsJoined
  <2>3. ~EndsInEscape(b \o n \o a)
    BY <1>3, <2>1, <2>2, EndsJoined
  <2>4. QED
    BY <1>2, <1>3, <2>1, <2>3
<1>8. Foreign(b \o n \o a)
  <2>1. Read(b).tokens # <<>> /\ Read(b).tokens[1] = <<b[1]>>
    BY <1>3, FirstWord
  <2>2. Word(<<b[1]>>) = b[1]
    BY DEF Word
  <2>3. b[1] \notin SafeNames
    BY <1>3
  <2>4. Foreign(b)
    BY <2>1, <2>2, <2>3 DEF Foreign
  <2>5. Foreign(b \o n)
    BY <1>3, <1>6, <2>4, ForeignStays
  <2>6. QED
    BY <1>3, <1>7, <2>5, ForeignStays
<1>9. ReadsAs(b \o n \o a, "other", parts')
  BY <1>8 DEF ReadsAs
<1>10. QED
  BY <1>1, <1>5, <1>7, <1>9 DEF ComposedKept

\* A spelling that normalization takes back changes nothing.
LEMMA SpelledKeeps ==
  ASSUME ComposedKept, NEW i \in DOMAIN text, NEW items \in Seq(Spellings), Disguise(i, items),
         Normalized(items) = NormalForm(text[i])
  PROVE  ComposedKept'
<1>1. /\ tongue \in Composed /\ tongue' = tongue /\ form' = form /\ parts' = parts
      /\ text' = SubSeq(text, 1, i - 1) \o items \o SubSeq(text, i + 1, Len(text))
  BY DEF Disguise, Work
<1>2. /\ text \in Seq(Spellings) /\ ~EndsInEscape(Normalized(text))
      /\ tongue = "sql" => Normalized(text) \in Seq(Items \ SafeNames)
      /\ tongue = "shell" => ReadsAs(Normalized(text), form, parts)
  BY <1>1 DEF ComposedKept
<1>3. /\ text' \in Seq(Spellings)
      /\ \E a, b \in Texts : /\ Normalized(text') = a \o Normalized(items) \o b
                             /\ Normalized(text) = a \o NormalForm(text[i]) \o b
  BY <1>1, <1>2, DisguisedText DEF UpTo, From
<1>4. Normalized(text') = Normalized(text)
  BY <1>3
<1>5. QED
  BY <1>1, <1>2, <1>3, <1>4 DEF ComposedKept

LEMMA LooksAlikeKeeps ==
  ASSUME ComposedKept, NEW i \in DOMAIN text, LooksAlike(i)
  PROVE  ComposedKept'
<1> DEFINE w == text[i]
           items == <<Lookalike[w]>>
<1>1. w \in DOMAIN Lookalike /\ Disguise(i, items) /\ tongue \in Composed
  BY DEF LooksAlike, Disguise, Work
<1>2. text \in Seq(Spellings)
  BY <1>1 DEF ComposedKept
<1>3. w \in Items
  BY <1>2, SpellingsAre
<1> HIDE DEF w
<1>4. Lookalike[w] \in Spellings /\ Lookalike[w] \in Items
      /\ NormalForm(w) = <<w>> /\ NormalForm(Lookalike[w]) = <<w>>
  BY <1>1, <1>3, SpellingsAre
<1>5. items \in Seq(Spellings) /\ Normalized(items) = NormalForm(w)
  BY <1>4, NormalizedOne
<1> HIDE DEF items
<1>6. QED
  BY <1>1, <1>5, SpelledKeeps DEF w

LEMMA ConcealKeeps ==
  ASSUME ComposedKept, NEW i \in DOMAIN text, NEW c \in Invisible, Conceal(i, c)
  PROVE  ComposedKept'
<1> DEFINE w == text[i]
           items == <<w, c>>
<1>1. Disguise(i, items) /\ tongue \in Composed
  BY DEF Conceal, Disguise, Work
<1>2. text \in Seq(Spellings)
  BY <1>1 DEF ComposedKept
<1>3. w \in Spellings /\ w \in Items
  BY <1>2, SpellingsAre
<1> HIDE DEF w
<1>4. c \in Spellings /\ c \in Items /\ NormalForm(c) = <<>>
  BY SpellingsAre DEF Spellings
<1>5. items \in Seq(Spellings) /\ <<w>> \in Texts /\ items = Append(<<w>>, c)
  BY <1>3, <1>4 DEF Texts
<1>6. Normalized(Append(<<w>>, c)) = NormalForm(w) \o <<>>
  BY <1>3, <1>4, <1>5, NormalizedAppend, NormalizedOne
<1>7. NormalForm(w) \o <<>> = NormalForm(w)
  BY <1>3, NormalFormType DEF Texts
<1>8. Normalized(items) = NormalForm(w)
  BY <1>5, <1>6, <1>7
<1> HIDE DEF items
<1>9. QED
  BY <1>1, <1>5, <1>8, SpelledKeeps DEF w

LEMMA ThreeItems ==
  ASSUME NEW S, NEW d \in S, NEW x \in S
  PROVE  (<<d>> \o <<x>>) \o <<d>> = <<d, x, d>>
<1> DEFINE r == (<<d>> \o <<x>>) \o <<d>>
<1>1. <<d>> \in Seq(S) /\ <<x>> \in Seq(S)
  OBVIOUS
<1>2. <<d>> \o <<x>> \in Seq(S)
  BY <1>1
<1>3. /\ r \in Seq(S) /\ Len(r) = 3
      /\ r[1] = d /\ r[2] = x /\ r[3] = d
  BY <1>1, <1>2
<1> HIDE DEF r
<1>4. r = <<d, x, d>>
  BY <1>3
<1>5. QED
  BY <1>4 DEF r

\* What follows the quotes of a word is read as it was.
LEMMA QuoteWordKeeps ==
  ASSUME ComposedKept, NEW i \in DOMAIN text, QuoteWord(i)
  PROVE  ComposedKept'
<1> DEFINE c == text[i]
           items == <<Double, c, Double>>
<1>1. /\ tongue = "shell" /\ tongue' = tongue /\ tongue \in Composed /\ form' = form /\ parts' = parts
      /\ c \notin Blanks \cup Separators \cup Invisible \cup {"&"}
      /\ \A j \in DOMAIN text : text[j] \notin Quotes \cup {"\\"}
      /\ text' = SubSeq(text, 1, i - 1) \o items \o SubSeq(text, i + 1, Len(text))
  BY DEF QuoteWord, Disguise, Work
<1>2. /\ text \in Seq(Spellings) /\ ~EndsInEscape(Normalized(text))
      /\ ReadsAs(Normalized(text), form, parts)
  BY <1>1 DEF ComposedKept
<1>3. Normalized(text) \in Seq(Bare)
  <2>1. \A j \in 1..Len(text) : text[j] \notin Quotes \cup {"\\"}
    BY <1>1, <1>2
  <2>2. QED
    BY <1>2, <2>1, NormalizedUnquoted
<1>4. c \in Spellings /\ c \in Items
  BY <1>2, SpellingsAre
<1> HIDE DEF c
<1>5. PICK x \in Items : NormalForm(c) = <<x>> /\ x \notin Blanks \cup Separators \cup {"&"}
  <2>1. CASE c \in DOMAIN Plain
    <3>1. PICK x \in Items : NormalForm(c) = <<x>> /\ x \notin Significant
      BY <1>1, <1>4, <2>1, SpellingsAre
    <3>2. x \notin Blanks \cup Separators \cup {"&"}
      BY <3>1 DEF Significant
    <3>3. QED
      BY <3>1, <3>2
  <2>2. CASE c \notin DOMAIN Plain
    BY <1>1, <1>4, <2>2, SpellingsAre
  <2>3. QED
    BY <2>1, <2>2
<1>6. /\ Double \in Items /\ Double \in Spellings /\ NormalForm(Double) = <<Double>>
  <2>1. Double \in Significant
    BY ShellItems DEF Significant
  <2>2. QED
    BY <2>1, SpellingsAre
<1>7. items \in Seq(Spellings) /\ Normalized(items) = <<Double, x, Double>>
  <2>1. items \in Seq(Spellings)
    BY <1>4, <1>6
  <2> DEFINE one == <<Double>>
             two == Append(one, c)
  <2>2. one \in Texts /\ two \in Texts /\ items = Append(two, Double)
    BY <1>4, <1>6 DEF Texts
  <2>3. Normalized(one) = <<Double>>
    BY <1>6, NormalizedOne
  <2> HIDE DEF one
  <2>4. Normalized(two) = <<Double>> \o <<x>>
    BY <1>4, <1>5, <2>2, <2>3, NormalizedAppend
  <2> HIDE DEF two, items
  <2>5. Normalized(Append(two, Double)) = (<<Double>> \o <<x>>) \o <<Double>>
    BY <1>6, <2>2, <2>4, NormalizedAppend
  <2>6. (<<Double>> \o <<x>>) \o <<Double>> = <<Double, x, Double>>
    BY <1>6, ThreeItems
  <2>7. QED
    BY <2>1, <2>2, <2>5, <2>6
<1> HIDE DEF items
<1>8. /\ text' \in Seq(Spellings)
      /\ \E a, b \in Texts : /\ Normalized(text') = a \o Normalized(items) \o b
                             /\ Normalized(text) = a \o NormalForm(c) \o b
  <2>1. text' = UpTo(text, i) \o items \o From(text, i)
    BY <1>1 DEF UpTo, From
  <2>2. /\ UpTo(text, i) \o items \o From(text, i) \in Seq(Spellings)
        /\ \E a, b \in Texts : /\ Normalized(UpTo(text, i) \o items \o From(text, i))
                                   = a \o Normalized(items) \o b
                               /\ Normalized(text) = a \o NormalForm(text[i]) \o b
    BY <1>2, <1>7, DisguisedText
  <2>3. QED
    BY <2>1, <2>2 DEF c
<1>9. PICK a, b \in Texts : /\ Normalized(text') = a \o <<Double, x, Double>> \o b
                            /\ Normalized(text) = a \o <<x>> \o b
  BY <1>5, <1>7, <1>8
<1> DEFINE u == Normalized(text)
           v == Normalized(text')
<1>10. u \in Texts /\ v \in Texts
  <2>1. <<x>> \in Texts /\ <<Double, x, Double>> \in Texts
    BY <1>6 DEF Texts
  <2>2. a \o <<x>> \in Texts /\ a \o <<Double, x, Double>> \in Texts
    BY <2>1, TextFacts
  <2>3. a \o <<x>> \o b \in Texts /\ a \o <<Double, x, Double>> \o b \in Texts
    BY <2>2, TextFacts
  <2>4. QED
    BY <1>9, <2>3
<1>11. WordQuoted(u, v, Len(a) + 1)
  <2>1. a \o <<x>> \o b \in Seq(Bare)
    BY <1>3, <1>9
  <2>2. WordQuoted(a \o <<x>> \o b, a \o <<Double, x, Double>> \o b, Len(a) + 1)
    BY <1>5, <2>1, QuotedText
  <2>3. QED
    BY <1>9, <2>2
<1>12. ~EndsInEscape(u) /\ ReadsAs(u, form, parts)
  BY <1>2
<1> HIDE DEF u, v
<1>13. ~EndsInEscape(v)
  <2>1. <<x>> \in Texts /\ <<Double, x, Double>> \in Texts /\ <<Double, x, Double>> # <<>>
    BY <1>6 DEF Texts
  <2>2. ~EndsInEscape(<<Double, x, Double>>)
    <3> DEFINE r == <<Double, x, Double>>
    <3>1. r # <<>> /\ Len(r) = 3 /\ r[3] = Double
      OBVIOUS
    <3> HIDE DEF r
    <3>2. Last(r) = Double /\ Double # "\\"
      BY <3>1, ShellItems DEF Last
    <3>3. QED
      BY <3>2 DEF EndsInEscape, r
  <2>3. ~EndsInEscape(a \o <<x>> \o b)
    BY <1>2, <1>9
  <2>4. ~EndsInEscape(a \o <<Double, x, Double>> \o b)
    BY <2>1, <2>2, <2>3, ReplacedEnds
  <2>5. QED
    BY <1>9, <2>4 DEF v
<1>14. ReadsAs(v, form, parts)
  <2>1. /\ HasOperator(u) => HasOperator(v)
        /\ Foreign(u) => Foreign(v)
        /\ Tokenize(v).tokens = Tokenize(u).tokens
        /\ Read(u).mode \in Out => Read(v).mode \in Out
    BY <1>10, <1>11, QuotedSame
  <2>2. QED
    BY <1>12, <2>1 DEF ReadsAs
<1>15. QED
  BY <1>1, <1>8, <1>13, <1>14 DEF ComposedKept, v

\* A comment names no operation.
LEMMA CommentOutKeeps ==
  ASSUME ComposedKept, NEW i \in DOMAIN text, NEW comment \in SqlComments, CommentOut(i, comment)
  PROVE  ComposedKept'
<1>1. /\ tongue = "sql" /\ tongue' = tongue /\ tongue \in Composed
      /\ text' = SubSeq(text, 1, i - 1) \o comment \o SubSeq(text, i + 1, Len(text))
      /\ text[i] = Space
  BY DEF CommentOut, Disguise, Work
<1>2. /\ text \in Seq(Spellings) /\ ~EndsInEscape(Normalized(text))
      /\ Normalized(text) \in Seq(Items \ SafeNames)
  BY <1>1 DEF ComposedKept
<1>3. /\ comment \in Texts /\ \A j \in 1..Len(comment) : comment[j] \notin DOMAIN Plain
      /\ comment # <<>> /\ ~EndsInEscape(comment) /\ comment \in Seq(Items \ SafeNames)
  <2> DEFINE C == {"/*", "*/", "--", "aside", "nl"}
  <2>1. comment \in Seq(C)
    <3>1. <<"/*", "aside", "*/">> \in Seq(C) /\ <<"--", "aside", "nl">> \in Seq(C)
      OBVIOUS
    <3>2. QED
      BY <3>1 DEF SqlComments
  <2>2. "nl" \in Significant
    BY DEF Significant, Blanks
  <2>3. ASSUME NEW d \in C PROVE d \in Items /\ d \notin DOMAIN Plain /\ d \notin SafeNames /\ d # "\\"
    <3>1. d \in Significant \cup {"/*", "*/", "--", "aside"} /\ d # "\\"
      BY <2>2, <2>3
    <3>2. QED
      BY <3>1, SpellingsAre, SafeNamesPlain DEF Items
  <2> HIDE DEF C
  <2>4. comment \in Texts /\ \A j \in 1..Len(comment) : comment[j] # "\\"
    BY <2>1, <2>3 DEF Texts
  <2>5. ~EndsInEscape(comment)
    BY <2>4, NoEscapes
  <2>6. comment # <<>>
    BY DEF SqlComments
  <2>7. QED
    BY <2>1, <2>3, <2>4, <2>5, <2>6 DEF Texts
<1>4. comment \in Seq(Spellings) /\ Normalized(comment) = comment
  BY <1>3, EmptySpelling, JoinedText
<1>5. NormalForm(text[i]) = <<Space>> /\ <<Space>> \in Texts
  <2>1. Space \in Significant /\ Space \in Items
    BY SpaceIsBlank, SqlItems DEF Significant
  <2>2. QED
    BY <1>1, <2>1, SpellingsAre, TextFacts
<1>6. /\ text' \in Seq(Spellings)
      /\ \E a, b \in Texts : /\ Normalized(text') = a \o Normalized(comment) \o b
                             /\ Normalized(text) = a \o NormalForm(text[i]) \o b
  BY <1>1, <1>2, <1>4, DisguisedText DEF UpTo, From
<1>7. PICK a, b \in Texts : /\ Normalized(text') = a \o comment \o b
                            /\ Normalized(text) = a \o <<Space>> \o b
  BY <1>4, <1>5, <1>6
<1>8. ASSUME NEW S, S \subseteq Items, a \o <<Space>> \o b \in Seq(S), comment \in Seq(S)
      PROVE  a \o comment \o b \in Seq(S)
  <2> DEFINE k == a \o <<Space>>
             w == k \o b
  <2>1. /\ k \in Texts /\ Len(k) = Len(a) + Len(<<Space>>)
        /\ \A j \in 1..Len(a) : k[j] = a[j]
    BY <1>5, BothParts
  <2> HIDE DEF k
  <2>2. /\ w \in Texts /\ Len(w) = Len(k) + Len(b)
        /\ \A j \in 1..Len(k) : w[j] = k[j]
        /\ \A j \in 1..Len(b) : w[Len(k) + j] = b[j]
    BY <2>1, BothParts
  <2>3. w \in Seq(S)
    BY <1>8 DEF k
  <2> HIDE DEF w
  <2>4. Len(a) \in Nat /\ Len(b) \in Nat /\ Len(k) \in Nat /\ Len(<<Space>>) = 1
    BY <2>1 DEF Texts
  <2>5. a \in Seq(S)
    <3>1. ASSUME NEW j \in 1..Len(a) PROVE a[j] \in S
      <4>1. j \in 1..Len(k) /\ j \in 1..Len(w)
        BY <2>1, <2>2, <2>4
      <4>2. QED
        BY <2>1, <2>2, <2>3, <4>1
    <3>2. QED
      BY <3>1 DEF Texts
  <2>6. b \in Seq(S)
    <3>1. ASSUME NEW j \in 1..Len(b) PROVE b[j] \in S
      <4>1. Len(k) + j \in 1..Len(w)
        BY <2>2, <2>4
      <4>2. QED
        BY <2>2, <2>3, <4>1
    <3>2. QED
      BY <3>1 DEF Texts
  <2>7. QED
    BY <1>8, <2>5, <2>6
<1>9. ~EndsInEscape(Normalized(text')) /\ Normalized(text') \in Seq(Items \ SafeNames)
  <2>1. ~EndsInEscape(a \o comment \o b)
    BY <1>2, <1>3, <1>5, <1>7, ReplacedEnds
  <2>2. a \o comment \o b \in Seq(Items \ SafeNames)
    BY <1>2, <1>3, <1>7, <1>8
  <2>3. QED
    BY <1>7, <2>1, <2>2
<1>10. QED
  BY <1>1, <1>6, <1>9 DEF ComposedKept

LEMMA StepComposed == ComposedKept /\ [Next]_vars => ComposedKept'
<1>1. SUFFICES ASSUME ComposedKept, [Next]_vars PROVE ComposedKept'
  OBVIOUS
<1>2. ASSUME NEW t \in Typed, NEW c \in Alphabet[t], Type(c) PROVE ComposedKept'
  <2>1. tongue \in Typed /\ tongue' = tongue
    BY <1>2 DEF Type
  <2>2. QED
    BY <2>1 DEF ComposedKept, Typed, Composed
<1>3. ASSUME NEW c \in Components, Descend(c) PROVE ComposedKept'
  <2>1. tongue = "path" /\ tongue' = tongue
    BY <1>3 DEF Descend
  <2>2. QED
    BY <2>1 DEF ComposedKept, Composed
<1>4. ASSUME NEW piece \in Pieces, NEW operator \in ChainOperators.shell, Follow(piece, operator)
      PROVE  ComposedKept'
  BY <1>1, <1>4, FollowKeeps
<1>5. ASSUME NEW operator \in ChainOperators.shell, Lead(operator) \/ Trail(operator)
      PROVE  ComposedKept'
  BY <1>1, <1>5, LeadKeeps, TrailKeeps
<1>6. ASSUME NEW wrapper \in Wrappers, Wrap(wrapper) PROVE ComposedKept'
  BY <1>1, <1>6, WrapKeeps
<1>7. ASSUME NEW i \in DOMAIN text, LooksAlike(i) PROVE ComposedKept'
  BY <1>1, <1>7, LooksAlikeKeeps
<1>8. ASSUME NEW i \in DOMAIN text, NEW c \in Invisible, Conceal(i, c) PROVE ComposedKept'
  BY <1>1, <1>8, ConcealKeeps
<1>9. ASSUME NEW i \in DOMAIN text, QuoteWord(i) PROVE ComposedKept'
  BY <1>1, <1>9, QuoteWordKeeps
<1>10. ASSUME NEW i \in DOMAIN text, NEW comment \in SqlComments, CommentOut(i, comment)
       PROVE  ComposedKept'
  BY <1>1, <1>10, CommentOutKeeps
<1>11. ASSUME UNCHANGED vars PROVE ComposedKept'
  BY <1>1, <1>11 DEF ComposedKept, vars
<1>12. QED
  BY <1>1, <1>2, <1>3, <1>4, <1>5, <1>6, <1>7, <1>8, <1>9, <1>10, <1>11 DEF Next

LEMMA ComposedKeptHolds == Spec => []ComposedKept
BY InitComposed, StepComposed, PTL DEF Spec

\* What the invariant and AllowedIsOneOperation leave of an allowed text.
LEMMA AllowedIsTheOne == ComposedKept => AllowsOneOperation
<1> DEFINE n == Normalized(text)
<1>1. SUFFICES ASSUME ComposedKept, tongue \in Composed, ~EscapesInSingleQuotes(n), ~Backgrounds(n),
                      Verdict(text) = "allow"
               PROVE  form = "one" /\ parts[1].piece.known
  BY DEF AllowsOneOperation
<1>2. /\ text \in Seq(Spellings) /\ ~EndsInEscape(n)
      /\ tongue = "sql" => n \in Seq(Items \ SafeNames)
      /\ tongue = "shell" => ReadsAs(n, form, parts)
  BY <1>1 DEF ComposedKept
<1>3. text \in Texts /\ n \in Texts
  BY <1>2, SpellingsTexts
<1>4. ~Backgrounds(n)
  BY <1>1
<1>5. /\ \A j \in 1..Len(n) : ~LiveOperator(n, j)
      /\ \/ Tokenize(n).ok /\ KnownSafe(Tokenize(n).tokens)
         \/ ~Tokenize(n).ok /\ Last(n) = "\\"
  BY <1>1, <1>3, AllowedIsOneOperation
<1> HIDE DEF n
<1>6. KnownSafe(Tokenize(n).tokens)
  <2>1. CASE n = <<>>
    <3>1. Read(<<>>).mode \in Out /\ <<>> \in Texts
      BY ReadSteps, TextFacts DEF LexStart, Out
    <3>2. QED
      BY <1>5, <2>1, <3>1, WordsOf
  <2>2. CASE n # <<>>
    BY <1>2, <1>5, <2>2 DEF EndsInEscape
  <2>3. QED
    BY <2>1, <2>2
<1>7. tongue = "shell"
  <2>1. ~(n \in Seq(Items \ SafeNames))
    BY <1>2, <1>6, NamelessIsNotSafe
  <2>2. QED
    BY <1>1, <1>2, <2>1 DEF Composed
<1>8. ~HasOperator(n)
  BY <1>3, <1>4, <1>5, StandingIsLive DEF HasOperator
<1>9. ~Foreign(n)
  BY <1>3, <1>6, ForeignIsNotSafe
<1>10. /\ form = "one" /\ parts[1].piece \in Pieces
       /\ Tokenize(n).tokens = Tokenize(parts[1].piece.text).tokens
  BY <1>2, <1>7, <1>8, <1>9 DEF ReadsAs
<1>11. parts[1].piece.known <=> KnownSafe(Tokenize(parts[1].piece.text).tokens)
  BY <1>10, PlainPieces
<1>12. QED
  BY <1>6, <1>10, <1>11

\* What evaluate_command allows without being asked is one known safe operation and nothing
\* else: whatever commands a text is composed of, behind operators, in an interpreter's
\* argument, quoted, commented or disguised, the decision allows it only if it is one
\* command, and that one a known safe operation without a risk.  As the property says, this
\* holds of texts without a backslash in single quotes and without a single & outside
\* quotes, which split_segments takes for an escape and for a letter.
THEOREM AllowsOneOperationCorrect == Spec => []AllowsOneOperation
BY ComposedKeptHolds, AllowedIsTheOne, PTL
=============================================================================
