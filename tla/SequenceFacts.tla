----------------------------- MODULE SequenceFacts -----------------------------
(***************************************************************************)
(* What several of the other proofs rest on: induction and recursion over  *)
(* the naturals, stated of sets and functions, and what erasing from a     *)
(* vector and appending to it leaves of its elements.                      *)
(***************************************************************************)
EXTENDS Integers, Sequences, SequencesExt, FiniteSetTheorems, WellFoundedInduction, TLAPS

-----------------------------------------------------------------------------
(* Induction and recursion.                                                 *)

\* A non-empty set of naturals has a least element.
LEMMA LeastExists ==
    ASSUME NEW S \in SUBSET Nat, S # {}
    PROVE  \E x \in S : \A y \in S : x <= y
<1> DEFINE below(x) == {y \in S : y < x}
<1>1. PICK s \in S : TRUE
  OBVIOUS
<1> DEFINE B == 0 .. s
           family == {below(x) : x \in S \cap B}
<1>2. IsFiniteSet(B) /\ s \in B
  BY <1>1, FS_Interval
<1>3. family \subseteq FiniteSubsetsOf(B) /\ family # {}
  <2>1. FiniteSubsetsOf(B) = SUBSET B
    BY <1>2, FS_FiniteSubsetsOfFinite
  <2>2. \A x \in S \cap B : below(x) \in SUBSET B
    <3>1. \A x \in B, y \in S : y < x => y \in B
      BY <1>1
    <3> HIDE DEF B
    <3> QED
      BY <3>1
  <2> HIDE DEF below, B
  <2>3. family \subseteq SUBSET B
    BY <2>2
  <2> QED
    BY <1>1, <1>2, <2>1, <2>3
<1>4. IsWellFoundedOn(StrictSubsetOrdering(B), FiniteSubsetsOf(B))
  BY FS_StrictSubsetOrderingWellFounded
<1> HIDE DEF family
<1>5. PICK b \in family : \A c \in family : ~ (<<c, b>> \in StrictSubsetOrdering(B))
  BY <1>3, <1>4, WFMin
<1> USE DEF family
<1>6. PICK x \in S \cap B : b = below(x)
  BY <1>5
<1>7. ASSUME NEW y \in S, y < x PROVE FALSE
  <2>1. y \in S \cap B /\ \A z \in S : z < y => z < x
    BY <1>1, <1>7
  <2>2. below(y) \subseteq below(x) /\ y \in below(x)
    BY <1>7, <2>1
  <2>3. y \notin below(y)
    OBVIOUS
  <2>4. below(y) \in family /\ below(x) \in family
    BY <1>6, <2>1
  <2>5. below(y) \in SUBSET B /\ below(x) \in SUBSET B
    <3>1. \A z \in S : z < x => z \in B
      BY <1>1
    <3> HIDE DEF B
    <3> QED
      BY <1>7, <2>1, <2>2, <3>1
  <2> HIDE DEF below, family, B
  <2>6. <<below(y), below(x)>> \in StrictSubsetOrdering(B)
    BY <2>2, <2>3, <2>5 DEF StrictSubsetOrdering
  <2> QED
    BY <1>5, <1>6, <2>4, <2>6
<1> QED
  BY <1>6, <1>7

\* Min finds it.
LEMMA MinIsLeast ==
    ASSUME NEW S \in SUBSET Nat, S # {}
    PROVE  Min(S) \in S /\ \A y \in S : Min(S) <= y
BY LeastExists DEF Min

\* Induction, for a set in place of a predicate: what follows for an element
\* from all those of a lower rank holds for every element.
LEMMA Descent ==
    ASSUME NEW D, NEW rank, \A x \in D : rank[x] \in Nat,
           NEW T,
           \A x \in D : (\A y \in D : rank[y] < rank[x] => y \in T) => x \in T
    PROVE  D \subseteq T
<1> SUFFICES ASSUME D \ T # {} PROVE FALSE
  OBVIOUS
<1> DEFINE ranks == {rank[x] : x \in D \ T}
<1>1. ranks \in SUBSET Nat /\ ranks # {}
  OBVIOUS
<1> HIDE DEF ranks
<1>2. PICK n \in ranks : \A m \in ranks : n <= m
  BY <1>1, LeastExists
<1>3. PICK x \in D \ T : n = rank[x]
  BY DEF ranks
<1>4. \A y \in D : rank[y] < rank[x] => y \in T
  <2> SUFFICES ASSUME NEW y \in D, rank[y] < rank[x], y \notin T PROVE FALSE
    OBVIOUS
  <2>1. rank[y] \in ranks /\ rank[y] \in Nat /\ rank[x] \in Nat
    BY <1>3 DEF ranks
  <2> QED
    BY <1>2, <1>3, <2>1
<1> QED
  BY <1>3, <1>4

\* Counting up from a to b.
LEMMA CountingUp ==
    ASSUME NEW a \in Int, NEW b \in Int, NEW T, a \in T,
           \A i \in a .. b - 1 : i \in T => i + 1 \in T
    PROVE  a .. b \subseteq T
<1> DEFINE rank == [i \in a .. b |-> i - a]
<1>1. \A i \in a .. b : rank[i] \in Nat
  OBVIOUS
<1>2. ASSUME NEW i \in a .. b, \A j \in a .. b : rank[j] < rank[i] => j \in T
      PROVE  i \in T
  <2>1. CASE i = a
    BY <2>1
  <2>2. CASE i # a
    <3>1. i - 1 \in a .. b - 1 /\ i - 1 \in a .. b /\ rank[i - 1] < rank[i] /\ (i - 1) + 1 = i
      BY <2>2
    <3> QED
      BY <1>2, <3>1
  <2> QED
    BY <2>1, <2>2
<1> DEFINE D == a .. b
<1>3. /\ \A i \in D : rank[i] \in Nat
      /\ \A i \in D : (\A j \in D : rank[j] < rank[i] => j \in T) => i \in T
  BY <1>1, <1>2
<1> HIDE DEF rank, D
<1>4. D \subseteq T
  BY <1>3, Descent
<1> QED
  BY <1>4 DEF D

\* Counting down from b to a.
LEMMA CountingDown ==
    ASSUME NEW a \in Int, NEW b \in Int, NEW T, b \in T,
           \A i \in a .. b - 1 : i + 1 \in T => i \in T
    PROVE  a .. b \subseteq T
<1> DEFINE rank == [i \in a .. b |-> b - i]
<1>1. \A i \in a .. b : rank[i] \in Nat
  OBVIOUS
<1>2. ASSUME NEW i \in a .. b, \A j \in a .. b : rank[j] < rank[i] => j \in T
      PROVE  i \in T
  <2>1. CASE i = b
    BY <2>1
  <2>2. CASE i # b
    <3>1. i \in a .. b - 1 /\ i + 1 \in a .. b /\ rank[i + 1] < rank[i]
      BY <2>2
    <3> QED
      BY <1>2, <3>1
  <2> QED
    BY <2>1, <2>2
<1> DEFINE D == a .. b
<1>3. /\ \A i \in D : rank[i] \in Nat
      /\ \A i \in D : (\A j \in D : rank[j] < rank[i] => j \in T) => i \in T
  BY <1>1, <1>2
<1> HIDE DEF rank, D
<1>4. D \subseteq T
  BY <1>3, Descent
<1> QED
  BY <1>4 DEF D

\* A recursion over D with values in V: it ends in "last" with a value of
\* "base", and is else a "step" from the value at "next", whose rank is lower.
Recursion(D, V, N, rank, last, next, base, step) ==
    /\ N \in Nat /\ rank \in [D -> 0 .. N] /\ V # {}
    /\ \A x \in D :
          IF x \in last THEN base[x] \in V
          ELSE /\ next[x] \in D /\ rank[next[x]] < rank[x]
               /\ \A v \in V : step[x][v] \in V

Solves(f, D, last, next, base, step) ==
    \A x \in D : f[x] = IF x \in last THEN base[x] ELSE step[x][f[next[x]]]

\* Every recursion defines a function.
LEMMA RecursionExists ==
    ASSUME NEW D, NEW V, NEW N, NEW rank, NEW last, NEW next, NEW base, NEW step,
           Recursion(D, V, N, rank, last, next, base, step)
    PROVE  \E f \in [D -> V] : Solves(f, D, last, next, base, step)
<1> DEFINE Holds(f, x) == f[x] = IF x \in last THEN base[x] ELSE step[x][f[next[x]]]
           Upto(f, n) == \A x \in D : rank[x] <= n => Holds(f, x)
           T == {n \in 0 .. N : \E f \in [D -> V] : Upto(f, n)}
           again(f) == [x \in D |-> IF x \in last THEN base[x] ELSE step[x][f[next[x]]]]
<1> USE DEF Recursion
<1>1. \A f \in [D -> V] : again(f) \in [D -> V]
  OBVIOUS
<1>2. PICK v \in V : TRUE
  OBVIOUS
<1>3. 0 \in T
  <2> DEFINE f == again([x \in D |-> v])
  <2>1. f \in [D -> V]
    BY <1>1
  <2>2. \A x \in D : rank[x] <= 0 => x \in last
    OBVIOUS
  <2>3. Upto(f, 0)
    BY <2>2
  <2> HIDE DEF f, Upto
  <2> QED
    BY <2>1, <2>3
<1>4. ASSUME NEW n \in 0 .. N - 1, n \in T
      PROVE  n + 1 \in T
  <2>1. PICK f \in [D -> V] : Upto(f, n)
    BY <1>4
  <2> DEFINE g == again(f)
  <2>2. \A x \in D : rank[x] <= n => g[x] = f[x]
    BY <2>1
  <2>3. \A x \in D : rank[x] <= n + 1 /\ x \notin last => rank[next[x]] <= n /\ next[x] \in D
    BY <1>4
  <2>4. \A x \in D : g[x] = IF x \in last THEN base[x] ELSE step[x][f[next[x]]]
    OBVIOUS
  <2>5. g \in [D -> V]
    BY <1>1
  <2> HIDE DEF g
  <2>6. Upto(g, n + 1)
    BY <2>2, <2>3, <2>4
  <2> QED
    BY <2>5, <2>6, <1>4
<1>5. N \in T
  <2> HIDE DEF T
  <2>1. 0 .. N \subseteq T
    BY <1>3, <1>4, CountingUp
  <2> QED
    BY <2>1
<1>6. PICK f \in [D -> V] : Upto(f, N)
  BY <1>5
<1>7. \A x \in D : Holds(f, x)
  BY <1>6
<1> QED
  BY <1>7 DEF Solves

-----------------------------------------------------------------------------
(* Vectors.                                                                 *)

\* What lies between positions d and e of a sequence.
LEMMA PartOf ==
    ASSUME NEW S, NEW t \in Seq(S), NEW e \in 0 .. Len(t), NEW d \in 0 .. e
    PROVE  LET w == SubSeq(t, d + 1, e)
           IN  w \in Seq(S) /\ Len(w) = e - d /\ \A p \in 1 .. e - d : w[p] = t[d + p]
<1> DEFINE n == Len(t)
           w == SubSeq(t, d + 1, e)
<1>1. n \in Nat /\ \A p \in 1 .. n : t[p] \in S
  OBVIOUS
<1>2. d \in Nat /\ e \in Nat /\ d <= e /\ e <= n
  BY <1>1
<1> HIDE DEF n
<1>3. /\ d + 1 \in Nat
      /\ Len(w) = IF d + 1 <= e THEN e - (d + 1) + 1 ELSE 0
      /\ w = [p \in 1 .. e - (d + 1) + 1 |-> t[d + 1 + p - 1]]
  BY ONLY <1>2
<1>4. e - (d + 1) + 1 = e - d /\ (IF d + 1 <= e THEN e - (d + 1) + 1 ELSE 0) = e - d
  BY ONLY <1>2
<1>5. \A p \in 1 .. e - d : d + p \in 1 .. n /\ d + 1 + p - 1 = d + p
  BY ONLY <1>2, <1>1
<1> HIDE DEF w
<1>6. w = [p \in 1 .. e - d |-> t[d + p]]
  BY ONLY <1>3, <1>4, <1>5
<1>7. w \in Seq(S)
  <2>1. e - d \in Nat /\ w \in [1 .. e - d -> S]
    BY ONLY <1>1, <1>2, <1>5, <1>6
  <2> QED
    BY ONLY <2>1
<1>8. \A p \in 1 .. e - d : w[p] = t[d + p]
  BY ONLY <1>6
<1> QED
  BY ONLY <1>3, <1>4, <1>7, <1>8 DEF w

\* Erasing position k shifts the rows after it down by one.
LEMMA RemoveAtShifts ==
    ASSUME NEW S, NEW t \in Seq(S), NEW k \in DOMAIN t
    PROVE  /\ RemoveAt(t, k) \in Seq(S)
           /\ Len(RemoveAt(t, k)) = Len(t) - 1
           /\ \A j \in 1 .. Len(t) - 1 :
                 RemoveAt(t, k)[j] = IF j < k THEN t[j] ELSE t[j + 1]
<1> DEFINE a == SubSeq(t, 1, k - 1)
           b == SubSeq(t, k + 1, Len(t))
<1>1. k \in 1 .. Len(t) /\ Len(t) \in Nat
  OBVIOUS
<1>2. /\ a \in Seq(S) /\ Len(a) = k - 1
      /\ \A j \in 1 .. k - 1 : a[j] = t[j]
  BY <1>1
<1>3. /\ b \in Seq(S) /\ Len(b) = Len(t) - k
      /\ \A j \in 1 .. Len(t) - k : b[j] = t[k + j]
  BY <1>1
<1>4. RemoveAt(t, k) = a \o b
  BY DEF RemoveAt
<1> HIDE DEF a, b
<1>5. RemoveAt(t, k) \in Seq(S) /\ Len(RemoveAt(t, k)) = Len(t) - 1
  BY <1>1, <1>2, <1>3, <1>4
<1>6. ASSUME NEW j \in 1 .. Len(t) - 1
      PROVE  RemoveAt(t, k)[j] = IF j < k THEN t[j] ELSE t[j + 1]
  <2>1. CASE j < k
    BY <1>1, <1>2, <1>3, <1>4, <2>1
  <2>2. CASE j >= k
    <3>1. /\ j \in 1 .. Len(a) + Len(b) /\ j > Len(a)
          /\ j - Len(a) \in 1 .. Len(t) - k
          /\ k + (j - Len(a)) = j + 1
      <4> DEFINE n  == Len(t)
                 la == Len(a)
                 lb == Len(b)
      <4>1. k \in 1 .. n /\ n \in Nat /\ la = k - 1 /\ lb = n - k /\ j \in 1 .. n - 1
        BY <1>1, <1>2, <1>3
      <4> HIDE DEF n, la, lb
      <4>2. la + lb = n - 1
        <5>1. k \in Int /\ n \in Int
          BY ONLY <4>1
        <5>2. la + lb = (k - 1) + (n - k)
          BY ONLY <4>1
        <5> QED
          BY ONLY <5>1, <5>2
      <4>3. j \in 1 .. la + lb
        BY ONLY <4>1, <4>2
      <4>4. j > la /\ j - la \in 1 .. n - k /\ k + (j - la) = j + 1
        <5>1. j \in Int /\ k \in Int /\ n \in Int /\ j <= n - 1 /\ la = k - 1
          BY ONLY <4>1
        <5>2. j > k - 1 /\ j - (k - 1) \in 1 .. n - k /\ k + (j - (k - 1)) = j + 1
          BY ONLY <2>2, <5>1
        <5> QED
          BY ONLY <5>1, <5>2
      <4> QED
        BY ONLY <4>3, <4>4 DEF n, la, lb
    <3>2. (a \o b)[j] = b[j - Len(a)]
      <4>1. a \in Seq(S) /\ b \in Seq(S)
        BY ONLY <1>2, <1>3
      <4>2. ~ (j <= Len(a))
        <5>1. Len(a) \in Int
          BY ONLY <4>1
        <5>2. j \in Int
          BY ONLY j \in 1 .. Len(t) - 1
        <5> QED
          BY ONLY <3>1, <5>1, <5>2
      <4> QED
        BY ONLY <3>1, <4>1, <4>2
    <3> DEFINE m == j - Len(a)
    <3>3. b[m] = t[k + m]
      BY ONLY <1>3, <3>1
    <3>4. ~ (j < k)
      <4>1. j \in Int /\ k \in Int
        BY ONLY <1>1, j \in 1 .. Len(t) - 1
      <4> QED
        BY ONLY <2>2, <4>1
    <3>5. RemoveAt(t, k)[j] = t[j + 1]
      BY ONLY <1>4, <3>1, <3>2, <3>3
    <3> QED
      BY ONLY <3>4, <3>5
  <2> QED
    BY <1>1, <2>1, <2>2
<1> QED
  BY <1>5, <1>6

\* What is left after an erasure are the elements of the other positions, each
\* position in a place of its own.
LEMMA RemoveAtKeeps ==
    ASSUME NEW S, NEW t \in Seq(S), NEW k \in DOMAIN t
    PROVE  LET u == RemoveAt(t, k)
           IN  /\ u \in Seq(S)
               /\ Range(u) = {t[j] : j \in DOMAIN t \ {k}}
               /\ \A i, j \in DOMAIN u :
                     i # j => \E m, n \in DOMAIN t \ {k} :
                                 m # n /\ u[i] = t[m] /\ u[j] = t[n]
<1> DEFINE u == RemoveAt(t, k)
           at(i) == IF i < k THEN i ELSE i + 1
<1>1. /\ u \in Seq(S) /\ Len(u) = Len(t) - 1
      /\ \A j \in 1 .. Len(t) - 1 : u[j] = IF j < k THEN t[j] ELSE t[j + 1]
  BY RemoveAtShifts
<1> HIDE DEF u
<1>2. /\ Len(t) \in Nat /\ DOMAIN t = 1 .. Len(t) /\ DOMAIN u = 1 .. Len(t) - 1
      /\ k \in 1 .. Len(t)
  BY <1>1
<1>3. \A i \in DOMAIN u : u[i] = t[at(i)] /\ at(i) \in DOMAIN t \ {k}
  BY <1>1, <1>2
<1>4. \A i, j \in DOMAIN u : i # j => at(i) # at(j)
  BY <1>2
<1>5. \A m \in DOMAIN t \ {k} : \E i \in DOMAIN u : at(i) = m
  <2> SUFFICES ASSUME NEW m \in DOMAIN t \ {k}
               PROVE  \E i \in DOMAIN u : at(i) = m
    OBVIOUS
  <2>1. CASE m < k
    BY <1>2, <2>1
  <2>2. CASE m > k
    <3>1. m - 1 \in DOMAIN u /\ at(m - 1) = m
      BY <1>2, <2>2
    <3> QED
      BY <3>1
  <2> QED
    BY <1>2, <2>1, <2>2
<1> HIDE DEF at
<1>6. Range(u) = {t[j] : j \in DOMAIN t \ {k}}
  BY <1>3, <1>5 DEF Range
<1>7. \A i, j \in DOMAIN u :
         i # j => \E m, n \in DOMAIN t \ {k} :
                     m # n /\ u[i] = t[m] /\ u[j] = t[n]
  BY <1>3, <1>4
<1> QED
  BY <1>1, <1>6, <1>7 DEF u

\* Appending puts one more element behind the others.
LEMMA AppendKeeps ==
    ASSUME NEW S, NEW t \in Seq(S), NEW x \in S
    PROVE  LET u == Append(t, x)
           IN  /\ u \in Seq(S)
               /\ DOMAIN u = DOMAIN t \cup {Len(t) + 1}
               /\ Len(t) + 1 \notin DOMAIN t
               /\ u[Len(t) + 1] = x
               /\ \A j \in DOMAIN t : u[j] = t[j]
               /\ Range(u) = Range(t) \cup {x}
<1> DEFINE u == Append(t, x)
<1>1. /\ u \in Seq(S)
      /\ Len(t) \in Nat /\ DOMAIN t = 1 .. Len(t)
      /\ DOMAIN u = 1 .. Len(t) + 1
      /\ u[Len(t) + 1] = x
      /\ \A j \in 1 .. Len(t) : u[j] = t[j]
  OBVIOUS
<1> HIDE DEF u
<1>2. DOMAIN u = DOMAIN t \cup {Len(t) + 1} /\ Len(t) + 1 \notin DOMAIN t
  BY <1>1
<1>3. Range(u) = Range(t) \cup {x}
  BY <1>1, <1>2 DEF Range
<1> QED
  BY <1>1, <1>2, <1>3 DEF u

\* Two sequences, one after the other.
LEMMA ConcatFacts ==
    ASSUME NEW S, NEW s \in Seq(S), NEW t \in Seq(S)
    PROVE  /\ s \o t \in Seq(S) /\ Len(s \o t) = Len(s) + Len(t)
           /\ \A i \in 1 .. Len(s) : (s \o t)[i] = s[i]
           /\ \A i \in 1 .. Len(t) : (s \o t)[i + Len(s)] = t[i]
OBVIOUS

\* Equal elements make equal sequences.
LEMMA SameElements ==
    ASSUME NEW S, NEW s \in Seq(S), NEW t \in Seq(S), Len(s) = Len(t),
           \A i \in 1 .. Len(s) : s[i] = t[i]
    PROVE  s = t
<1> DEFINE n == Len(s)
<1>1. s \in [1 .. n -> S] /\ t \in [1 .. n -> S]
  OBVIOUS
<1> HIDE DEF n
<1>2. \A i \in 1 .. n : s[i] = t[i]
  BY DEF n
<1>3. s = [i \in 1 .. n |-> s[i]] /\ t = [i \in 1 .. n |-> t[i]]
  BY <1>1
<1> QED
  BY <1>2, <1>3

\* An element put before the others: these move up by one position.
LEMMA PushShifts ==
    ASSUME NEW S, NEW t \in Seq(S), NEW x \in S
    PROVE  LET u == <<x>> \o t
           IN  /\ u \in Seq(S) /\ 1 \in DOMAIN u /\ u[1] = x
               /\ \A j \in DOMAIN t : j + 1 \in DOMAIN u /\ u[j + 1] = t[j]
               /\ \A j \in DOMAIN u : j = 1 \/ (j - 1 \in DOMAIN t /\ u[j] = t[j - 1])
<1> DEFINE u == <<x>> \o t
<1>1. /\ u \in Seq(S)
      /\ Len(t) \in Nat /\ DOMAIN t = 1 .. Len(t)
      /\ DOMAIN u = 1 .. Len(t) + 1
      /\ u[1] = x
      /\ \A j \in 1 .. Len(t) : u[j + 1] = t[j]
  OBVIOUS
<1> HIDE DEF u
<1>2. \A j \in DOMAIN u : j = 1 \/ (j - 1 \in DOMAIN t /\ u[j] = t[j - 1])
  BY <1>1
<1>3. 1 \in DOMAIN u /\ \A j \in DOMAIN t : j + 1 \in DOMAIN u /\ u[j + 1] = t[j]
  BY <1>1
<1> QED
  BY <1>1, <1>2, <1>3 DEF u

\* An element before a sequence makes it one longer and is its head.
LEMMA PushLength ==
    ASSUME NEW S, NEW x \in S, NEW t \in Seq(S)
    PROVE  /\ Len(<<x>> \o t) = 1 + Len(t) /\ Len(t) \in Nat
           /\ <<x>> \o t \in Seq(S) /\ Tail(<<x>> \o t) = t
<1> DEFINE u == <<x>> \o t
           m == Len(t)
<1>1. u \in Seq(S) /\ Len(u) = 1 + m /\ m \in Nat /\ \A i \in 1 .. m : u[i + 1] = t[i]
  OBVIOUS
<1> HIDE DEF u
<1> DEFINE w == Tail(u)
<1>2. w \in Seq(S) /\ Len(w) = m /\ \A i \in 1 .. m : w[i] = u[i + 1]
  BY <1>1
<1> HIDE DEF w
<1>3. w = t
  <2>1. Len(w) = Len(t) /\ \A i \in 1 .. Len(w) : w[i] = t[i]
    BY <1>1, <1>2
  <2> QED
    BY <1>2, <2>1, SameElements
<1> QED
  BY <1>1, <1>3 DEF u, w

\* The elements of a sequence and one more before it.
LEMMA PushKeeps ==
    ASSUME NEW S, NEW t \in Seq(S), NEW x \in S
    PROVE  <<x>> \o t \in Seq(S) /\ Range(<<x>> \o t) = {x} \cup Range(t)
<1> DEFINE u == <<x>> \o t
<1>1. /\ u \in Seq(S) /\ 1 \in DOMAIN u /\ u[1] = x
      /\ \A j \in DOMAIN t : j + 1 \in DOMAIN u /\ u[j + 1] = t[j]
      /\ \A j \in DOMAIN u : j = 1 \/ (j - 1 \in DOMAIN t /\ u[j] = t[j - 1])
  BY PushShifts
<1> HIDE DEF u
<1>2. \A y : y \in Range(u) => y = x \/ y \in Range(t)
  <2>1. \A j \in DOMAIN u : u[j] = x \/ \E k \in DOMAIN t : u[j] = t[k]
    BY <1>1
  <2> QED
    BY <2>1 DEF Range
<1>3. \A y : y = x \/ y \in Range(t) => y \in Range(u)
  BY <1>1 DEF Range
<1> QED
  BY <1>1, <1>2, <1>3 DEF u

\* The first element taken away: the others move down by one position.
LEMMA PopShifts ==
    ASSUME NEW S, NEW t \in Seq(S), t # <<>>
    PROVE  LET v == Tail(t)
           IN  /\ v \in Seq(S) /\ 1 \in DOMAIN t /\ Head(t) = t[1] /\ t[1] \in S
               /\ \A j \in DOMAIN v : j + 1 \in DOMAIN t /\ v[j] = t[j + 1]
               /\ \A j \in DOMAIN t : j = 1 \/ (j - 1 \in DOMAIN v /\ t[j] = v[j - 1])
<1> DEFINE v == Tail(t)
<1>1. /\ v \in Seq(S) /\ DOMAIN v = 1 .. Len(t) - 1
      /\ Len(t) \in Nat /\ DOMAIN t = 1 .. Len(t)
      /\ Head(t) = t[1] /\ 1 \in DOMAIN t /\ t[1] \in S
      /\ \A j \in 1 .. Len(t) - 1 : v[j] = t[j + 1]
  OBVIOUS
<1> HIDE DEF v
<1>2. \A j \in DOMAIN t : j = 1 \/ (j - 1 \in DOMAIN v /\ t[j] = v[j - 1])
  BY <1>1
<1>3. \A j \in DOMAIN v : j + 1 \in DOMAIN t /\ v[j] = t[j + 1]
  BY <1>1
<1> QED
  BY <1>1, <1>2, <1>3 DEF v

\* The elements of a sequence are its first and those of the rest.
LEMMA PopKeeps ==
    ASSUME NEW S, NEW t \in Seq(S), t # <<>>
    PROVE  /\ Head(t) \in S /\ Tail(t) \in Seq(S)
           /\ Range(t) = {Head(t)} \cup Range(Tail(t))
<1> DEFINE v == Tail(t)
<1>1. /\ v \in Seq(S) /\ 1 \in DOMAIN t /\ Head(t) = t[1] /\ t[1] \in S
      /\ \A j \in DOMAIN v : j + 1 \in DOMAIN t /\ v[j] = t[j + 1]
      /\ \A j \in DOMAIN t : j = 1 \/ (j - 1 \in DOMAIN v /\ t[j] = v[j - 1])
  BY PopShifts
<1> HIDE DEF v
<1>2. \A y : y \in Range(t) => y = Head(t) \/ y \in Range(v)
  <2>1. \A j \in DOMAIN t : t[j] = Head(t) \/ \E k \in DOMAIN v : t[j] = v[k]
    BY <1>1
  <2> QED
    BY <2>1 DEF Range
<1>3. \A y : y = Head(t) \/ y \in Range(v) => y \in Range(t)
  BY <1>1 DEF Range
<1> QED
  BY <1>1, <1>2, <1>3 DEF v

=============================================================================
