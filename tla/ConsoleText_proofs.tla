--------------------------- MODULE ConsoleText_proofs ---------------------------
(***************************************************************************)
(* What explode, Cmd_TokenizeString and COM_Parse make of a text, for      *)
(* every sequence of characters and every number of tokens that are kept.  *)
(* Each is a recursion over positions: that it has a value is shown first, *)
(* then what it computes, by induction on the positions.                   *)
(***************************************************************************)
EXTENDS ConsoleText, SequenceFacts

-----------------------------------------------------------------------------
(* Fields.                                                                  *)

\* The fields of i characters, from those of one less.
NextFields(str, arr, i) ==
    IF str[i] = Space THEN Append(arr, <<>>)
    ELSE [arr EXCEPT ![Len(arr)] = Append(@, str[i])]

\* What explode computes, from itself.
FieldsUpto(str, upto) ==
    [i \in 0 .. Len(str) |->
        IF i = 0 THEN << <<>> >> ELSE NextFields(str, upto[i - 1], i)]

\* The field n of the first i characters lies between the cuts b[n] and
\* b[n + 1]: the beginning, the spaces, and the end.
CutAt(str, i, arr, b) ==
    /\ b \in [1 .. Len(arr) + 1 -> 0 .. i + 1]
    /\ b[1] = 0 /\ b[Len(arr) + 1] = i + 1
    /\ \A n \in 1 .. Len(arr) :
          /\ b[n] < b[n + 1]
          /\ arr[n] = SubSeq(str, b[n] + 1, b[n + 1] - 1)
          /\ \A p \in b[n] + 1 .. b[n + 1] - 1 : str[p] # Space
          /\ n > 1 => str[b[n]] = Space

\* There are that many cuts.
Spaces(str, i) == {p \in 1 .. i : str[p] = Space}

\* Sequences of fields: explode never returns an empty one.
FieldsOf(S) == Seq(Seq(S)) \ {<<>>}

\* A character continues the last field, a space begins another.
LEMMA NextFieldsCut ==
    ASSUME NEW S, NEW str \in Seq(S), NEW i \in 1 .. Len(str),
           NEW arr \in FieldsOf(S), NEW b, CutAt(str, i - 1, arr, b)
    PROVE  LET next == NextFields(str, arr, i)
           IN  /\ next \in FieldsOf(S)
               /\ Len(next) = IF str[i] = Space THEN Len(arr) + 1 ELSE Len(arr)
               /\ \E c : CutAt(str, i, next, c)
<1> DEFINE next == NextFields(str, arr, i)
           m == Len(arr)
<1>1. /\ m \in Nat \ {0} /\ DOMAIN arr = 1 .. m /\ \A n \in 1 .. m : arr[n] \in Seq(S)
      /\ Len(str) \in Nat /\ i \in Nat /\ str[i] \in S /\ arr \in [1 .. m -> Seq(S)]
  BY DEF FieldsOf
<1>2. /\ b \in [1 .. m + 1 -> 0 .. i] /\ b[1] = 0 /\ b[m + 1] = i
      /\ \A n \in 1 .. m :
          /\ b[n] < b[n + 1]
          /\ arr[n] = SubSeq(str, b[n] + 1, b[n + 1] - 1)
          /\ \A p \in b[n] + 1 .. b[n + 1] - 1 : str[p] # Space
          /\ n > 1 => str[b[n]] = Space
  BY <1>1 DEF CutAt
<1>3. CASE str[i] = Space
  <2>1. next = Append(arr, <<>>)
    BY <1>3 DEF NextFields
  <2>2. /\ next \in Seq(Seq(S)) /\ Len(next) = m + 1 /\ next[m + 1] = <<>>
        /\ \A n \in 1 .. m : next[n] = arr[n]
    <3>1. <<>> \in Seq(S)
      OBVIOUS
    <3> QED
      BY <1>1, <2>1, <3>1 DEF FieldsOf
  <2> DEFINE c == [n \in 1 .. m + 2 |-> IF n = m + 2 THEN i + 1 ELSE b[n]]
  <2>3. /\ c \in [1 .. m + 2 -> 0 .. i + 1] /\ c[1] = 0 /\ c[m + 2] = i + 1 /\ c[m + 1] = i
        /\ \A n \in 1 .. m : c[n] = b[n] /\ c[n + 1] = b[n + 1]
    BY <1>1, <1>2
  <2>4. SubSeq(str, i + 1, i) = <<>>
    BY <1>1
  <2> HIDE DEF c, next
  <2>5. ASSUME NEW n \in 1 .. m + 1
        PROVE  /\ c[n] < c[n + 1]
               /\ next[n] = SubSeq(str, c[n] + 1, c[n + 1] - 1)
               /\ \A p \in c[n] + 1 .. c[n + 1] - 1 : str[p] # Space
               /\ n > 1 => str[c[n]] = Space
    <3>1. CASE n \in 1 .. m
      BY <1>2, <2>2, <2>3, <3>1
    <3>2. CASE n = m + 1
      <4>1. c[n] = i /\ c[n + 1] = i + 1 /\ (i + 1) - 1 = i
        BY <1>1, <2>3, <3>2
      <4>2. next[n] = <<>> /\ SubSeq(str, c[n] + 1, c[n + 1] - 1) = <<>>
        BY ONLY <2>2, <2>4, <3>2, <4>1
      <4>3. c[n] < c[n + 1] /\ \A p \in c[n] + 1 .. c[n + 1] - 1 : FALSE
        BY ONLY <1>1, <4>1
      <4>4. str[c[n]] = Space
        BY ONLY <1>3, <4>1
      <4> QED
        BY ONLY <4>2, <4>3, <4>4
    <3> QED
      BY <1>1, <3>1, <3>2
  <2>6. CutAt(str, i, next, c)
    <3>1. Len(next) + 1 = m + 2 /\ m + 2 = (m + 1) + 1
      BY <1>1, <2>2
    <3> HIDE DEF m
    <3> QED
      BY <2>2, <2>3, <2>5, <3>1 DEF CutAt
  <2>7. next # <<>>
    BY <1>1, <2>2
  <2> QED
    BY <1>3, <2>2, <2>6, <2>7 DEF FieldsOf, next
<1>4. CASE str[i] # Space
  <2>1. next = [arr EXCEPT ![m] = Append(arr[m], str[i])]
    BY <1>4 DEF NextFields
  <2>2. /\ next \in Seq(Seq(S)) /\ Len(next) = m /\ next[m] = Append(arr[m], str[i])
        /\ \A n \in 1 .. m - 1 : next[n] = arr[n]
    <3>1. Append(arr[m], str[i]) \in Seq(S)
      BY <1>1
    <3> HIDE DEF next, m
    <3>2. /\ next \in [1 .. m -> Seq(S)] /\ next[m] = Append(arr[m], str[i])
          /\ \A n \in 1 .. m - 1 : next[n] = arr[n]
      BY <1>1, <2>1, <3>1
    <3> QED
      BY <1>1, <3>2
  <2> DEFINE c == [b EXCEPT ![m + 1] = i + 1]
  <2>3. /\ c \in [1 .. m + 1 -> 0 .. i + 1] /\ c[1] = 0 /\ c[m + 1] = i + 1
        /\ \A n \in 1 .. m : c[n] = b[n]
    <3>1. m \in Nat \ {0} /\ i \in Nat
      BY <1>1
    <3>2. b \in [1 .. m + 1 -> 0 .. i] /\ b[1] = 0
      BY <1>2
    <3> HIDE DEF m
    <3> QED
      BY ONLY <3>1, <3>2
  <2>4. /\ b[m] \in 0 .. i - 1 /\ Append(SubSeq(str, b[m] + 1, i - 1), str[i]) = SubSeq(str, b[m] + 1, i)
    <3>1. b[m] \in 0 .. i - 1
      <4>1. m \in 1 .. m /\ m \in 1 .. m + 1 /\ i \in Nat
        BY <1>1
      <4> HIDE DEF m
      <4>2. b[m] < b[m + 1]
        BY <1>2, <4>1
      <4>3. b[m] \in 0 .. i /\ b[m + 1] = i
        BY <1>2, <4>1
      <4> QED
        BY ONLY <4>1, <4>2, <4>3
    <3> DEFINE x == SubSeq(str, b[m] + 1, i - 1)
               y == SubSeq(str, b[m] + 1, i)
    <3>2. /\ x \in Seq(S) /\ Len(x) = i - 1 - b[m] /\ \A p \in 1 .. i - 1 - b[m] : x[p] = str[b[m] + p]
      <4> DEFINE d == b[m]
      <4>1. d \in 0 .. i - 1
        BY ONLY <3>1
      <4> HIDE DEF m, d
      <4>2. LET w == SubSeq(str, d + 1, i - 1)
            IN  w \in Seq(S) /\ Len(w) = i - 1 - d /\ \A p \in 1 .. i - 1 - d : w[p] = str[d + p]
        <5>1. i - 1 \in 0 .. Len(str) /\ d \in 0 .. i - 1
          BY ONLY <1>1, <4>1, i \in 1 .. Len(str)
        <5>2. str \in Seq(S)
          OBVIOUS
        <5> QED
          BY ONLY <5>1, <5>2, PartOf
      <4> QED
        BY ONLY <4>2 DEF d
    <3>3. /\ y \in Seq(S) /\ Len(y) = i - b[m] /\ \A p \in 1 .. i - b[m] : y[p] = str[b[m] + p]
      <4> DEFINE d == b[m]
      <4>1. d \in 0 .. i - 1
        BY ONLY <3>1
      <4> HIDE DEF m, d
      <4>2. LET w == SubSeq(str, d + 1, i)
            IN  w \in Seq(S) /\ Len(w) = i - d /\ \A p \in 1 .. i - d : w[p] = str[d + p]
        <5>1. i \in 0 .. Len(str) /\ d \in 0 .. i
          BY ONLY <1>1, <4>1, i \in 1 .. Len(str)
        <5>2. str \in Seq(S)
          OBVIOUS
        <5> QED
          BY ONLY <5>1, <5>2, PartOf
      <4> QED
        BY ONLY <4>2 DEF d
    <3> HIDE DEF x, y
    <3> DEFINE z == Append(x, str[i])
               l == i - b[m]
    <3>4. /\ z \in Seq(S) /\ Len(z) = l /\ z[l] = str[i] /\ l \in Nat
          /\ \A p \in 1 .. l - 1 : z[p] = x[p]
      BY <1>1, <3>1, <3>2
    <3>5. y[l] = str[i]
      <4>1. l \in 1 .. l /\ b[m] + l = i
        BY <1>1, <3>1
      <4> HIDE DEF m
      <4> QED
        BY <3>3, <4>1
    <3>10. \A p \in 1 .. l - 1 : x[p] = y[p]
      <4>1. \A p \in 1 .. l - 1 : p \in 1 .. l /\ p \in 1 .. i - 1 - b[m]
        BY <1>1, <3>1
      <4> HIDE DEF m
      <4> QED
        BY <3>2, <3>3, <4>1
    <3>6. Len(y) = l
      BY <3>3
    <3> HIDE DEF z, l
    <3>7. \A p \in 1 .. l : p = l \/ p \in 1 .. l - 1
      BY <3>4
    <3>8. z \in [1 .. l -> S] /\ y \in [1 .. l -> S]
      BY <3>3, <3>4, <3>6
    <3>9. z = y
      BY <3>4, <3>5, <3>7, <3>8, <3>10
    <3> QED
      BY <3>1, <3>9 DEF x, y, z
  <2> HIDE DEF c, next
  <2>5. ASSUME NEW n \in 1 .. m
        PROVE  /\ c[n] < c[n + 1]
               /\ next[n] = SubSeq(str, c[n] + 1, c[n + 1] - 1)
               /\ \A p \in c[n] + 1 .. c[n + 1] - 1 : str[p] # Space
               /\ n > 1 => str[c[n]] = Space
    <3>1. CASE n \in 1 .. m - 1
      <4>1. n + 1 \in 1 .. m /\ n \in 1 .. m
        BY <1>1, <3>1
      <4>2. c[n] = b[n] /\ c[n + 1] = b[n + 1] /\ next[n] = arr[n]
        BY <2>2, <2>3, <3>1, <4>1
      <4> QED
        BY <1>2, <4>1, <4>2
    <3>2. CASE n = m
      <4>1. c[n] = b[m] /\ c[n + 1] = i + 1 /\ (i + 1) - 1 = i
        BY <1>1, <2>3, <3>2
      <4>2. \A p \in b[m] + 1 .. i : p \in b[m] + 1 .. i - 1 \/ p = i
        BY <1>1, <2>4
      <4>3. next[n] = SubSeq(str, b[m] + 1, i)
        BY <1>1, <1>2, <2>2, <2>4, <3>2
      <4>4. \A p \in b[m] + 1 .. i : str[p] # Space
        <5> HIDE DEF m
        <5>1. \A p \in b[m] + 1 .. i - 1 : str[p] # Space
          <6>1. m \in 1 .. m
            BY <1>1
          <6> QED
            BY <1>2, <6>1
        <5> QED
          BY ONLY <1>4, <4>2, <5>1
      <4>5. c[n] < c[n + 1] /\ (n > 1 => str[c[n]] = Space)
        <5>1. m \in 1 .. m /\ i \in Nat /\ b[m] \in 0 .. i - 1
          BY <1>1, <2>4
        <5> HIDE DEF m
        <5>2. c[n] < c[n + 1]
          BY ONLY <4>1, <5>1
        <5>3. m > 1 => str[b[m]] = Space
          BY <1>2, <5>1
        <5> QED
          BY ONLY <3>2, <4>1, <5>2, <5>3
      <4> HIDE DEF m
      <4> QED
        BY <3>2, <4>1, <4>3, <4>4, <4>5
    <3> HIDE DEF m
    <3>3. n \in 1 .. m - 1 \/ n = m
      BY <1>1
    <3> QED
      BY <3>1, <3>2, <3>3
  <2>6. CutAt(str, i, next, c)
    BY <1>1, <2>2, <2>3, <2>5 DEF CutAt
  <2>7. next # <<>>
    BY <1>1, <2>2
  <2> QED
    BY <1>4, <2>2, <2>6, <2>7 DEF FieldsOf, next
<1> QED
  BY <1>3, <1>4

\* explode is such a computation: there is one, and it is explode's.
LEMMA ExplodeComputes ==
    ASSUME NEW S, NEW str \in Seq(S)
    PROVE  \E upto : /\ explode(str) = upto[Len(str)]
                     /\ upto = FieldsUpto(str, upto)
<1> DEFINE l == Len(str)
           D == 0 .. l
           V == FieldsOf(S)
           last == {0}
           rank == [i \in D |-> i]
           next == [i \in D |-> i - 1]
           base == [i \in D |-> << <<>> >>]
           step == [i \in D |-> [arr \in V |-> NextFields(str, arr, i)]]
           chosen == CHOOSE upto : upto = FieldsUpto(str, upto)
<1>1. explode(str) = chosen[l]
  BY DEF explode, FieldsUpto, NextFields
<1>2. l \in Nat /\ << <<>> >> \in V
  <2>1. <<>> \in Seq(S)
    OBVIOUS
  <2> HIDE DEF V
  <2>2. << <<>> >> \in Seq(Seq(S)) /\ << <<>> >> # <<>>
    BY <2>1
  <2> QED
    BY <2>2 DEF V, FieldsOf
<1>3. ASSUME NEW i \in D \ {0}, NEW arr \in V
      PROVE  NextFields(str, arr, i) \in V
  <2>1. str[i] \in S /\ <<>> \in Seq(S)
    BY <1>2
  <2> DEFINE m == Len(arr)
  <2>2. /\ m \in Nat /\ m \in 1 .. m /\ arr \in [1 .. m -> Seq(S)] /\ arr \in Seq(Seq(S))
    <3>1. arr \in Seq(Seq(S)) /\ arr # <<>>
      BY DEF FieldsOf
    <3>2. m \in Nat /\ arr \in [1 .. m -> Seq(S)]
      BY ONLY <3>1
    <3>3. m # 0
      BY ONLY <3>1
    <3> QED
      BY <3>1, <3>2, <3>3
  <2> HIDE DEF m
  <2>3. CASE str[i] = Space
    <3>1. Append(arr, <<>>) \in Seq(Seq(S)) /\ Append(arr, <<>>) # <<>>
      <4> DEFINE words == Seq(S)
                 none == <<>>
      <4>1. none \in words /\ arr \in Seq(words)
        BY <2>1, <2>2
      <4> HIDE DEF words, none
      <4> DEFINE more == Append(arr, none)
      <4>2. more \in Seq(words) /\ Len(more) # 0
        BY ONLY <4>1
      <4> HIDE DEF more
      <4>3. more # <<>>
        BY ONLY <4>2
      <4> QED
        BY ONLY <4>2, <4>3 DEF words, none, more
    <3> QED
      BY <2>3, <3>1 DEF NextFields, FieldsOf
  <2>4. CASE str[i] # Space
    <3>1. Append(arr[m], str[i]) \in Seq(S)
      BY <2>1, <2>2
    <3>2. NextFields(str, arr, i) = [arr EXCEPT ![m] = Append(arr[m], str[i])]
      BY <2>4 DEF NextFields, m
    <3>3. NextFields(str, arr, i) \in [1 .. m -> Seq(S)]
      BY <2>2, <3>1, <3>2
    <3>4. NextFields(str, arr, i) \in Seq(Seq(S)) /\ Len(NextFields(str, arr, i)) = m
      BY <2>2, <3>3
    <3>5. NextFields(str, arr, i) # <<>>
      BY <2>2, <3>4
    <3> QED
      BY <3>4, <3>5 DEF FieldsOf
  <2> QED
    BY <2>3, <2>4
<1>4. rank \in [D -> 0 .. l] /\ \A i \in D : i \in last => base[i] \in V
  <2> HIDE DEF V
  <2> QED
    BY <1>2
<1>5. \A i \in D : i \notin last => /\ next[i] \in D /\ rank[next[i]] < rank[i]
                                    /\ \A arr \in V : step[i][arr] \in V
  <2>1. \A i \in D \ {0} : i - 1 \in D /\ i - 1 < i
    BY <1>2
  <2>2. \A i \in D \ {0} : rank[next[i]] < rank[i]
    BY <2>1
  <2> HIDE DEF V
  <2>3. \A i \in D \ {0} : \A arr \in V : step[i][arr] \in V
    BY <1>3
  <2> QED
    BY <1>2, <2>1, <2>2, <2>3
<1> HIDE DEF rank, base, next, step, D, V, last, l
<1>6. PICK f \in [D -> V] : Solves(f, D, last, next, base, step)
  <2>1. Recursion(D, V, l, rank, last, next, base, step)
    BY <1>2, <1>4, <1>5 DEF Recursion
  <2> QED
    BY <2>1, RecursionExists
<1>7. f = FieldsUpto(str, f)
  <2>1. ASSUME NEW i \in D
        PROVE  f[i] = IF i = 0 THEN << <<>> >> ELSE NextFields(str, f[i - 1], i)
    <3>1. CASE i = 0
      BY <1>6, <3>1 DEF base, last, Solves
    <3>2. CASE i # 0
      <4>1. f[i] = step[i][f[next[i]]] /\ next[i] = i - 1 /\ f[next[i]] \in V
        BY <1>5, <1>6, <3>2 DEF next, last, Solves
      <4> QED
        BY <3>2, <4>1 DEF step
    <3> QED
      BY <3>1, <3>2
  <2> QED
    BY <1>6, <2>1 DEF FieldsUpto, D, l
<1>8. chosen = FieldsUpto(str, chosen)
  BY <1>7
<1> QED
  BY <1>1, <1>8 DEF l

\* explode cuts the text at its spaces.
LEMMA ExplodeCuts ==
    ASSUME NEW S, NEW str \in Seq(S)
    PROVE  /\ explode(str) \in FieldsOf(S)
           /\ Len(explode(str)) = 1 + Cardinality(Spaces(str, Len(str)))
           /\ \E b : CutAt(str, Len(str), explode(str), b)
<1> DEFINE l == Len(str)
<1>1. l \in Nat
  OBVIOUS
<1>2. PICK upto : explode(str) = upto[l] /\ upto = FieldsUpto(str, upto)
  BY ExplodeComputes
<1> HIDE DEF l
<1>3. \A i \in 0 .. l : upto[i] = IF i = 0 THEN << <<>> >> ELSE NextFields(str, upto[i - 1], i)
  BY <1>2 DEF FieldsUpto, l
<1> DEFINE Good(i) == /\ upto[i] \in FieldsOf(S)
                      /\ IsFiniteSet(Spaces(str, i))
                      /\ Len(upto[i]) = 1 + Cardinality(Spaces(str, i))
                      /\ \E b : CutAt(str, i, upto[i], b)
           T == {i \in 0 .. l : Good(i)}
<1>4. 0 \in T
  <2> DEFINE arr == << <<>> >>
             b == [n \in 1 .. 2 |-> n - 1]
  <2>1. upto[0] = arr
    BY <1>1, <1>3
  <2>2. arr \in FieldsOf(S) /\ Len(arr) = 1 /\ arr[1] = <<>>
    <3>1. <<>> \in Seq(S)
      OBVIOUS
    <3> QED
      BY <3>1 DEF FieldsOf
  <2>3. Spaces(str, 0) = {}
    BY DEF Spaces
  <2>4. IsFiniteSet({}) /\ Cardinality({}) = 0
    BY FS_EmptySet
  <2>5. SubSeq(str, 1, 0) = <<>>
    OBVIOUS
  <2>6. b \in [1 .. 2 -> 0 .. 1] /\ b[1] = 0 /\ b[2] = 1
    OBVIOUS
  <2> HIDE DEF arr, b
  <2>7. CutAt(str, 0, arr, b)
    <3>1. Len(arr) + 1 = 2 /\ 0 + 1 = 1 /\ 1 .. Len(arr) = {1} /\ ~(1 > 1)
      BY <2>2
    <3>2. /\ b[1] < b[1 + 1] /\ arr[1] = SubSeq(str, b[1] + 1, b[1 + 1] - 1)
          /\ b[1] + 1 .. b[1 + 1] - 1 = {}
      BY <2>2, <2>5, <2>6
    <3> QED
      BY <2>6, <3>1, <3>2 DEF CutAt
  <2>8. /\ IsFiniteSet(Spaces(str, 0)) /\ Len(upto[0]) = 1 + Cardinality(Spaces(str, 0))
    <3>1. Len(upto[0]) = 1
      BY <2>1, <2>2
    <3>2. IsFiniteSet(Spaces(str, 0)) /\ Cardinality(Spaces(str, 0)) = 0
      BY <2>3, <2>4
    <3> QED
      BY ONLY <3>1, <3>2
  <2> QED
    BY <1>1, <2>1, <2>2, <2>7, <2>8
<1>5. ASSUME NEW j \in 0 .. l - 1, j \in T
      PROVE  j + 1 \in T
  <2> DEFINE i == j + 1
  <2>1. i \in 1 .. l /\ i \in 0 .. l /\ i - 1 = j /\ j \in Nat
    BY <1>1
  <2>2. upto[i] = NextFields(str, upto[j], i)
    BY <1>3, <2>1
  <2>3. PICK b : CutAt(str, j, upto[j], b)
    BY <1>5
  <2> HIDE DEF i
  <2>4. /\ upto[i] \in FieldsOf(S)
        /\ Len(upto[i]) = IF str[i] = Space THEN Len(upto[j]) + 1 ELSE Len(upto[j])
        /\ \E c : CutAt(str, i, upto[i], c)
    <3>1. i \in 1 .. Len(str) /\ CutAt(str, i - 1, upto[j], b) /\ upto[j] \in FieldsOf(S)
      BY <1>5, <2>1, <2>3 DEF l
    <3> QED
      BY <2>2, <3>1, NextFieldsCut
  <2>5. Spaces(str, i) = IF str[i] = Space THEN Spaces(str, j) \cup {i} ELSE Spaces(str, j)
    BY <2>1 DEF Spaces, i
  <2>6. i \notin Spaces(str, j) /\ IsFiniteSet(Spaces(str, j))
    BY <1>5, <2>1 DEF Spaces, i
  <2>7. /\ IsFiniteSet(Spaces(str, i))
        /\ Cardinality(Spaces(str, i)) = IF str[i] = Space THEN Cardinality(Spaces(str, j)) + 1
                                         ELSE Cardinality(Spaces(str, j))
    BY <2>5, <2>6, FS_AddElement
  <2>8. Len(upto[i]) = 1 + Cardinality(Spaces(str, i))
    <3>1. Cardinality(Spaces(str, j)) \in Nat
      BY <2>6, FS_CardinalityType
    <3> QED
      BY <1>5, <2>4, <2>7, <3>1
  <2>9. i \in T
    BY <2>1, <2>4, <2>7, <2>8
  <2> QED
    BY <2>9 DEF i
<1>6. l \in T
  <2> HIDE DEF T
  <2>1. 0 .. l \subseteq T
    BY <1>1, <1>4, <1>5, CountingUp
  <2> QED
    BY <1>1, <2>1
<1> QED
  BY <1>2, <1>6 DEF l

\* Two neighbouring pieces of a text and the space between them.
LEMMA PiecesJoin ==
    ASSUME NEW S, NEW str \in Seq(S), NEW p \in 1 .. Len(str), str[p] = Space,
           NEW q \in p .. Len(str)
    PROVE  SubSeq(str, 1, p - 1) \o <<Space>> \o SubSeq(str, p + 1, q) = SubSeq(str, 1, q)
<1> DEFINE x == SubSeq(str, 1, p - 1)
           y == SubSeq(str, p + 1, q)
           z == SubSeq(str, 1, q)
           xs == Append(x, Space)
           w == x \o <<Space>> \o y
<1>1. Len(str) \in Nat /\ p \in Nat /\ q \in Nat /\ Space \in S
  OBVIOUS
<1>2. x \in Seq(S) /\ Len(x) = p - 1 /\ \A n \in 1 .. p - 1 : x[n] = str[n]
  BY <1>1
<1>3. y \in Seq(S) /\ Len(y) = q - p /\ \A n \in 1 .. q - p : y[n] = str[n + p]
  BY <1>1
<1>4. z \in Seq(S) /\ Len(z) = q /\ \A n \in 1 .. q : z[n] = str[n]
  BY <1>1
<1> HIDE DEF x, y, z
<1>5. /\ w = xs \o y /\ xs \in Seq(S) /\ Len(xs) = p
      /\ xs[p] = Space /\ \A n \in 1 .. p - 1 : xs[n] = x[n]
  BY <1>1, <1>2
<1> HIDE DEF xs
<1>6. /\ w \in Seq(S) /\ Len(w) = q
      /\ \A n \in 1 .. p : w[n] = xs[n]
      /\ \A n \in 1 .. q - p : w[n + p] = y[n]
  <2>1. /\ xs \o y \in Seq(S) /\ Len(xs \o y) = q
        /\ \A n \in 1 .. q : (xs \o y)[n] = IF n <= p THEN xs[n] ELSE y[n - p]
    BY <1>1, <1>3, <1>5
  <2> HIDE DEF w
  <2>2. \A n \in 1 .. q - p : n + p \in 1 .. q /\ ~(n + p <= p) /\ (n + p) - p = n
    BY <1>1
  <2>3. \A n \in 1 .. p : n \in 1 .. q /\ n <= p
    BY <1>1
  <2> QED
    BY <1>5, <2>1, <2>2, <2>3
<1> HIDE DEF w
<1>7. ASSUME NEW n \in 1 .. q
      PROVE  w[n] = str[n]
  <2>1. CASE n \in 1 .. p - 1
    BY <1>1, <1>2, <1>5, <1>6, <2>1
  <2>2. CASE n = p
    BY <1>1, <1>5, <1>6, <2>2
  <2>3. CASE n \in p + 1 .. q
    <3>1. n - p \in 1 .. q - p /\ (n - p) + p = n
      BY <1>1, <2>3
    <3>2. y[n - p] = str[(n - p) + p]
      BY ONLY <1>3, <3>1
    <3>3. w[(n - p) + p] = y[n - p]
      BY ONLY <1>6, <3>1
    <3> QED
      BY ONLY <3>1, <3>2, <3>3
  <2> QED
    BY <1>1, <2>1, <2>2, <2>3
<1>8. w \in [1 .. q -> S] /\ z \in [1 .. q -> S]
  BY <1>4, <1>6
<1>9. w = z
  BY <1>4, <1>7, <1>8
<1> QED
  BY <1>9 DEF w, x, y, z

\* The first fields joined by spaces, from one field less.
JoinUpto(fields, join) ==
    [n \in 1 .. Len(fields) |->
        IF n = 1 THEN fields[1] ELSE join[n - 1] \o <<Space>> \o fields[n]]

\* What lies between the cuts spells the text when it is joined again.
LEMMA JoinSpells ==
    ASSUME NEW S, NEW str \in Seq(S), NEW fields \in FieldsOf(S),
           NEW b, CutAt(str, Len(str), fields, b)
    PROVE  /\ \E join : join = JoinUpto(fields, join)
           /\ \A join : join = JoinUpto(fields, join) => join[Len(fields)] = str
<1> DEFINE m == Len(fields)
           l == Len(str)
           upto(n) == SubSeq(str, 1, b[n + 1] - 1)
<1>1. m \in Nat \ {0} /\ l \in Nat
  BY DEF FieldsOf
<1>2. /\ b \in [1 .. m + 1 -> 0 .. l + 1] /\ b[1] = 0 /\ b[m + 1] = l + 1
      /\ \A n \in 1 .. m :
          /\ b[n] < b[n + 1]
          /\ fields[n] = SubSeq(str, b[n] + 1, b[n + 1] - 1)
          /\ n > 1 => str[b[n]] = Space
  BY DEF CutAt
<1> HIDE DEF m
<1>3. upto(1) = fields[1]
  <2>1. 1 \in 1 .. m /\ 1 + 1 = 2 /\ 0 + 1 = 1
    BY <1>1
  <2> QED
    BY <1>2, <2>1
<1>4. ASSUME NEW n \in 2 .. m
      PROVE  upto(n - 1) \o <<Space>> \o fields[n] = upto(n)
  <2> DEFINE p == b[n]
             q == b[n + 1] - 1
  <2>1. n \in 1 .. m /\ n > 1 /\ n - 1 \in 1 .. m /\ (n - 1) + 1 = n /\ n + 1 \in 1 .. m + 1
    BY <1>1
  <2>2. b[n - 1] < b[n] /\ b[n] < b[n + 1]
    BY <1>2, <2>1
  <2>3. b[n - 1] \in 0 .. l + 1 /\ b[n] \in 0 .. l + 1 /\ b[n + 1] \in 0 .. l + 1
    <3>1. n - 1 \in 1 .. m + 1 /\ n \in 1 .. m + 1
      BY <1>1
    <3> QED
      BY <1>2, <2>1, <3>1
  <2>4. p \in 1 .. l /\ q \in p .. l /\ str[p] = Space
    <3>1. str[p] = Space
      BY <1>2, <2>1
    <3> HIDE DEF l
    <3>2. \A x, y, z \in 0 .. l + 1 : x < y /\ y < z => y \in 1 .. l /\ z - 1 \in y .. l
      BY <1>1
    <3> QED
      BY <2>2, <2>3, <3>1, <3>2
  <2>5. fields[n] = SubSeq(str, p + 1, q)
    BY <1>2, <2>1
  <2> HIDE DEF p, q, l
  <2>6. SubSeq(str, 1, p - 1) \o <<Space>> \o SubSeq(str, p + 1, q) = SubSeq(str, 1, q)
    <3>1. p \in 1 .. Len(str) /\ q \in p .. Len(str)
      BY <2>4 DEF l
    <3> QED
      BY <2>4, <3>1, PiecesJoin
  <2> QED
    BY <2>1, <2>5, <2>6 DEF p, q
<1>5. upto(m) = str
  <2>1. b[m + 1] - 1 = l
    BY <1>1, <1>2
  <2>2. SubSeq(str, 1, l) = str
    <3> HIDE DEF upto
    <3> DEFINE whole == SubSeq(str, 1, l)
    <3>1. whole \in Seq(S) /\ Len(whole) = l /\ \A n \in 1 .. l : whole[n] = str[n]
      BY <1>1
    <3> HIDE DEF whole
    <3>2. whole \in [1 .. l -> S] /\ str \in [1 .. l -> S]
      BY <3>1
    <3>3. whole = str
      BY <3>1, <3>2
    <3> QED
      BY <3>3 DEF whole
  <2> QED
    BY <2>1, <2>2
<1> HIDE DEF upto, l
<1>6. \E join : join = JoinUpto(fields, join)
  <2> DEFINE join == [n \in 1 .. m |-> upto(n)]
  <2>1. \A n \in 1 .. m : upto(n) = IF n = 1 THEN fields[1] ELSE join[n - 1] \o <<Space>> \o fields[n]
    <3>1. \A n \in 1 .. m : n # 1 => n \in 2 .. m /\ n - 1 \in 1 .. m
      BY <1>1
    <3>2. \A n \in 1 .. m : n # 1 => join[n - 1] = upto(n - 1)
      BY <3>1
    <3> HIDE DEF join
    <3> QED
      BY <1>3, <1>4, <3>1, <3>2
  <2>2. join = JoinUpto(fields, join)
    BY <2>1 DEF JoinUpto, m
  <2> QED
    BY <2>2
<1>7. ASSUME NEW join, join = JoinUpto(fields, join)
      PROVE  join[m] = str
  <2>1. \A n \in 1 .. m : join[n] = IF n = 1 THEN fields[1] ELSE join[n - 1] \o <<Space>> \o fields[n]
    BY <1>7 DEF JoinUpto, m
  <2> DEFINE T == {n \in 1 .. m : join[n] = upto(n)}
  <2>2. 1 \in T
    BY <1>1, <1>3, <2>1
  <2>3. ASSUME NEW n \in 1 .. m - 1, n \in T
        PROVE  n + 1 \in T
    <3>1. n + 1 \in 1 .. m /\ n + 1 \in 2 .. m /\ (n + 1) - 1 = n /\ n + 1 # 1
      BY <1>1
    <3>2. join[n + 1] = upto(n) \o <<Space>> \o fields[n + 1]
      BY <2>1, <2>3, <3>1
    <3> QED
      BY <1>4, <3>1, <3>2
  <2> HIDE DEF T
  <2>4. 1 .. m \subseteq T
    BY <1>1, <2>2, <2>3, CountingUp
  <2>5. m \in T
    BY <1>1, <2>4
  <2> QED
    BY <1>5, <2>5 DEF T
<1> QED
  BY <1>6, <1>7 DEF m

\* The fields of a text hold no space, and spell it when they are joined.
LEMMA ExplodeSpells ==
    ASSUME NEW S, NEW str \in Seq(S)
    PROVE  LET fields == explode(str)
               join[n \in 1 .. Len(fields)] ==
                   IF n = 1 THEN fields[1] ELSE join[n - 1] \o <<Space>> \o fields[n]
           IN  /\ \A n \in DOMAIN fields : Space \notin ToSet(fields[n])
               /\ join[Len(fields)] = str
               /\ str # <<>> => returnCommandParamCount(str) = Len(fields)
<1> DEFINE fields == explode(str)
           joined == CHOOSE join : join = JoinUpto(fields, join)
<1>1. /\ fields \in FieldsOf(S) /\ Len(fields) = 1 + Cardinality(Spaces(str, Len(str)))
      /\ \E b : CutAt(str, Len(str), fields, b)
  BY ExplodeCuts
<1>2. PICK b : CutAt(str, Len(str), fields, b)
  BY <1>1
<1> HIDE DEF fields
<1>3. joined = JoinUpto(fields, joined) /\ joined[Len(fields)] = str
  <2>1. joined = JoinUpto(fields, joined)
    BY <1>1, <1>2, JoinSpells
  <2> HIDE DEF joined
  <2> QED
    BY <1>1, <1>2, <2>1, JoinSpells
<1>4. ASSUME NEW n \in DOMAIN fields
      PROVE  Space \notin ToSet(fields[n])
  <2>1. /\ n \in 1 .. Len(fields) /\ n \in Nat /\ n + 1 \in 1 .. Len(fields) + 1
        /\ Len(str) \in Nat /\ n \in 1 .. Len(fields) + 1
    BY <1>1 DEF FieldsOf
  <2>2. /\ b[n] \in 0 .. Len(str) + 1 /\ b[n + 1] \in 0 .. Len(str) + 1 /\ b[n] < b[n + 1]
        /\ fields[n] = SubSeq(str, b[n] + 1, b[n + 1] - 1)
        /\ \A p \in b[n] + 1 .. b[n + 1] - 1 : str[p] # Space
    BY <1>2, <2>1 DEF CutAt
  <2> DEFINE from == b[n]
             to == b[n + 1]
  <2>3. /\ DOMAIN fields[n] = 1 .. to - from - 1
        /\ \A p \in 1 .. to - from - 1 : fields[n][p] = str[from + p]
    <3> DEFINE field == SubSeq(str, from + 1, to - 1)
    <3>1. from \in 0 .. Len(str) + 1 /\ to \in 0 .. Len(str) + 1 /\ from < to /\ fields[n] = field
      BY <2>2
    <3> HIDE DEF from, to
    <3>2. /\ DOMAIN field = 1 .. to - from - 1
          /\ \A p \in 1 .. to - from - 1 : field[p] = str[from + p]
      BY <2>1, <3>1
    <3> HIDE DEF field
    <3> QED
      BY ONLY <3>1, <3>2
  <2> HIDE DEF from, to
  <2>4. \A p \in 1 .. to - from - 1 : from + p \in from + 1 .. to - 1
    <3>1. from \in 0 .. Len(str) + 1 /\ to \in 0 .. Len(str) + 1
      BY <2>2 DEF from, to
    <3>2. from \in Int /\ to \in Int
      BY <2>1, <3>1
    <3> QED
      BY ONLY <3>2
  <2>5. \A p \in DOMAIN fields[n] : fields[n][p] # Space
    BY <2>2, <2>3, <2>4 DEF from, to
  <2> QED
    BY <2>5 DEF ToSet
<1>5. ASSUME str # <<>>
      PROVE  returnCommandParamCount(str) = Len(fields)
  <2>1. Spaces(str, Len(str)) = {i \in DOMAIN str : str[i] = Space}
    BY DEF Spaces
  <2> QED
    BY <1>1, <1>5, <2>1 DEF returnCommandParamCount
<1> QED
  BY <1>3, <1>4, <1>5 DEF fields, JoinUpto

-----------------------------------------------------------------------------
(* Reading on from a position.                                              *)

\* The least of some positions from i on is the one before which there is none.
LEMMA FirstPosition ==
    ASSUME NEW i \in Nat, NEW n \in Nat, NEW P \in SUBSET (i .. n), n \in P
    PROVE  /\ Min(P) \in P /\ \A j \in i .. Min(P) - 1 : j \notin P
           /\ \A k \in P : (\A j \in i .. k - 1 : j \notin P) => k = Min(P)
<1>1. P \in SUBSET Nat /\ P # {}
  BY SMT
<1>2. Min(P) \in P /\ \A j \in P : Min(P) <= j
  BY <1>1, MinIsLeast
<1> DEFINE m == Min(P)
<1> HIDE DEF m
<1>3. m \in P /\ m \in i .. n /\ \A j \in P : m <= j
  BY <1>2 DEF m
<1>4. \A j \in i .. m - 1 : j \notin P
  BY <1>3
<1>5. ASSUME NEW k \in P, \A j \in i .. k - 1 : j \notin P
      PROVE  k = m
  <2>1. k \in i .. n /\ m <= k
    BY <1>3
  <2>2. m < k => m \in i .. k - 1
    BY <1>3, <2>1
  <2> QED
    BY <1>3, <1>5, <2>1, <2>2
<1> QED
  BY <1>3, <1>4, <1>5 DEF m

\* The end of a text is the zero, and past it there is nothing else.
LEMMA AtEnd ==
    ASSUME NEW S, NEW text \in Seq(S)
    PROVE  /\ Len(text) \in Nat
           /\ \A i \in 1 .. Len(text) : At(text, i) = text[i] /\ text[i] \in S
           /\ At(text, Len(text) + 1) = Zero
<1>1. Len(text) \in Nat /\ DOMAIN text = 1 .. Len(text) /\ Len(text) + 1 \notin DOMAIN text
  OBVIOUS
<1> QED
  BY <1>1 DEF At

\* k is where "set" ends, from i on.
EndsAt(text, i, set, k) ==
    /\ k \in i .. Len(text) + 1
    /\ At(text, k) \notin set
    /\ \A j \in i .. k - 1 : At(text, j) \in set

\* After finds that place, which is the only one.
LEMMA AfterEnds ==
    ASSUME NEW S, NEW text \in Seq(S), NEW i \in 1 .. Len(text) + 1,
           NEW set, Zero \notin set
    PROVE  /\ EndsAt(text, i, set, After(text, i, set))
           /\ \A k : EndsAt(text, i, set, k) => k = After(text, i, set)
<1> DEFINE l == Len(text) + 1
           P == {j \in i .. l : At(text, j) \notin set}
<1>1. l \in Nat /\ i \in 1 .. l /\ i \in Nat /\ l \in i .. l /\ At(text, l) = Zero
  BY AtEnd
<1> HIDE DEF l
<1>2. P \in SUBSET (i .. l) /\ l \in P
  BY <1>1
<1> HIDE DEF P
<1>3. /\ Min(P) \in P /\ \A j \in i .. Min(P) - 1 : j \notin P
      /\ \A k \in P : (\A j \in i .. k - 1 : j \notin P) => k = Min(P)
  BY <1>1, <1>2, FirstPosition
<1>4. After(text, i, set) = Min(P)
  BY DEF After, P, l
<1>5. \A k \in i .. l : \A j \in i .. k - 1 : j \in i .. l
  BY <1>1
<1>6. EndsAt(text, i, set, Min(P))
  <2> DEFINE m == Min(P)
  <2> HIDE DEF m
  <2>1. m \in P /\ \A j \in i .. m - 1 : j \notin P
    BY <1>3 DEF m
  <2>2. m \in i .. l /\ At(text, m) \notin set
    BY <2>1 DEF P
  <2>3. \A j \in i .. m - 1 : At(text, j) \in set
    BY <1>5, <2>1, <2>2 DEF P
  <2> QED
    BY <2>2, <2>3 DEF EndsAt, l, m
<1>7. ASSUME NEW k, EndsAt(text, i, set, k)
      PROVE  k = Min(P)
  <2>1. k \in P
    BY <1>7 DEF EndsAt, P, l
  <2>2. \A j \in i .. k - 1 : j \notin P
    BY <1>7 DEF EndsAt, P
  <2> QED
    BY <1>3, <2>1, <2>2
<1> QED
  BY <1>4, <1>6, <1>7

\* k is where the first of "set", or the zero, is found.
FoundAt(text, i, set, k) ==
    /\ k \in i .. Len(text) + 1
    /\ At(text, k) \in set \cup {Zero}
    /\ \A j \in i .. k - 1 : At(text, j) \notin set \cup {Zero}

\* Find finds that place, which is the only one.
LEMMA FindFinds ==
    ASSUME NEW S, NEW text \in Seq(S), NEW i \in 1 .. Len(text) + 1, NEW set
    PROVE  /\ FoundAt(text, i, set, Find(text, i, set))
           /\ \A k : FoundAt(text, i, set, k) => k = Find(text, i, set)
<1> DEFINE l == Len(text) + 1
           P == {j \in i .. l : At(text, j) \in set \cup {Zero}}
<1>1. l \in Nat /\ i \in 1 .. l /\ i \in Nat /\ l \in i .. l /\ At(text, l) = Zero
  BY AtEnd
<1> HIDE DEF l
<1>2. P \in SUBSET (i .. l) /\ l \in P
  BY <1>1
<1> HIDE DEF P
<1>3. /\ Min(P) \in P /\ \A j \in i .. Min(P) - 1 : j \notin P
      /\ \A k \in P : (\A j \in i .. k - 1 : j \notin P) => k = Min(P)
  BY <1>1, <1>2, FirstPosition
<1>4. Find(text, i, set) = Min(P)
  BY DEF Find, P, l
<1>5. \A k \in i .. l : \A j \in i .. k - 1 : j \in i .. l
  BY <1>1
<1>6. FoundAt(text, i, set, Min(P))
  <2> DEFINE m == Min(P)
  <2> HIDE DEF m
  <2>1. m \in P /\ \A j \in i .. m - 1 : j \notin P
    BY <1>3 DEF m
  <2>2. m \in i .. l /\ At(text, m) \in set \cup {Zero}
    BY <2>1 DEF P
  <2>3. \A j \in i .. m - 1 : At(text, j) \notin set \cup {Zero}
    BY <1>5, <2>1, <2>2 DEF P
  <2> QED
    BY <2>2, <2>3 DEF FoundAt, l, m
<1>7. ASSUME NEW k, FoundAt(text, i, set, k)
      PROVE  k = Min(P)
  <2>1. k \in P
    BY <1>7 DEF FoundAt, P, l
  <2>2. \A j \in i .. k - 1 : j \notin P
    BY <1>7 DEF FoundAt, P
  <2> QED
    BY <1>3, <2>1, <2>2
<1> QED
  BY <1>4, <1>6, <1>7

\* What SkipWhite finds at position j, from what it finds later.
Blanks == {Space, NewLine}

IsComment(text, k) == At(text, k) = Slash /\ At(text, k + 1) = Slash

SkipUpto(text, skip) ==
    [j \in 1 .. Len(text) + 1 |->
        LET k == After(text, j, Blanks)
        IN  IF IsComment(text, k) THEN skip[Find(text, k, {NewLine})] ELSE k]

\* A comment is skipped to a later position, and something else is found.
LEMMA SkipWhiteStep ==
    ASSUME NEW S, NEW text \in Seq(S), NEW i \in 1 .. Len(text) + 1
    PROVE  LET k == After(text, i, Blanks)
               n == Find(text, k, {NewLine})
           IN  /\ EndsAt(text, i, Blanks, k)
               /\ IF IsComment(text, k)
                  THEN /\ FoundAt(text, k, {NewLine}, n) /\ n > k
                       /\ SkipWhite(text, i) = SkipWhite(text, n)
                  ELSE SkipWhite(text, i) = k
<1> DEFINE l == Len(text) + 1
           D == 1 .. l
           V == D
           to(j) == After(text, j, Blanks)
           last == {j \in D : ~IsComment(text, to(j))}
           rank == [j \in D |-> l - j]
           next == [j \in D |-> Find(text, to(j), {NewLine})]
           base == [j \in D |-> to(j)]
           step == [j \in D |-> [v \in V |-> v]]
           chosen == CHOOSE skip : skip = SkipUpto(text, skip)
<1>1. \A j : SkipWhite(text, j) = chosen[j]
  BY DEF SkipWhite, SkipUpto, IsComment, Blanks
<1>2. l \in Nat /\ l \in D /\ \A j \in D : j \in Nat
  BY AtEnd
<1>3. Zero \notin Blanks
  BY DEF Zero, Blanks, Space, NewLine
<1>4. ASSUME NEW j \in D
      PROVE  /\ EndsAt(text, j, Blanks, to(j)) /\ to(j) \in D /\ j <= to(j)
             /\ FoundAt(text, to(j), {NewLine}, Find(text, to(j), {NewLine}))
             /\ IsComment(text, to(j)) => /\ Find(text, to(j), {NewLine}) > to(j)
                                          /\ Find(text, to(j), {NewLine}) \in D
  <2> DEFINE k == to(j)
             n == Find(text, k, {NewLine})
  <2>1. EndsAt(text, j, Blanks, k)
    BY <1>3, AfterEnds
  <2> HIDE DEF k
  <2>2. k \in j .. l
    BY <2>1 DEF EndsAt
  <2> HIDE DEF l
  <2>3. k \in D /\ j <= k
    BY <1>2, <2>2
  <2>4. FoundAt(text, k, {NewLine}, n)
    BY <2>3, FindFinds DEF l
  <2>5. n \in k .. l /\ At(text, n) \in {NewLine, Zero}
    BY <2>4 DEF FoundAt, l
  <2> HIDE DEF n
  <2>6. IsComment(text, k) => n # k
    BY <2>5 DEF IsComment, NewLine, Zero, Slash
  <2>7. n \in D /\ (n # k => n > k)
    BY <1>2, <2>3, <2>5
  <2> QED
    BY <2>1, <2>3, <2>4, <2>6, <2>7 DEF k, n
<1> HIDE DEF to, l
<1>5. Recursion(D, V, l, rank, last, next, base, step)
  <2>1. rank \in [D -> 0 .. l] /\ V # {}
    <3>1. \A j \in D : l - j \in 0 .. l
      BY <1>2
    <3> HIDE DEF D
    <3> QED
      BY <1>2, <3>1
  <2>2. \A j \in D : j \in last => base[j] \in V
    BY <1>4
  <2>3. ASSUME NEW j \in D, j \notin last
        PROVE  /\ next[j] \in D /\ rank[next[j]] < rank[j]
               /\ \A v \in V : step[j][v] \in V
    <3>1. next[j] \in D /\ next[j] > j
      <4> DEFINE n == Find(text, to(j), {NewLine})
      <4>1. n \in D /\ n > to(j) /\ j <= to(j) /\ to(j) \in D
        BY <1>4, <2>3
      <4> HIDE DEF n
      <4>2. n > j
        BY <1>2, <4>1
      <4> QED
        BY <4>1, <4>2 DEF n
    <3> HIDE DEF next
    <3> QED
      BY <1>2, <3>1
  <2> HIDE DEF D, V, last, rank, next, base, step
  <2> QED
    BY <1>2, <2>1, <2>2, <2>3 DEF Recursion
<1> HIDE DEF D, V, last, rank, next, base, step
<1>6. PICK f \in [D -> V] : Solves(f, D, last, next, base, step)
  BY <1>5, RecursionExists
<1>7. f = SkipUpto(text, f)
  <2>1. ASSUME NEW j \in D
        PROVE  f[j] = IF IsComment(text, to(j)) THEN f[Find(text, to(j), {NewLine})] ELSE to(j)
    <3>1. CASE IsComment(text, to(j))
      <4>1. f[j] = step[j][f[next[j]]] /\ next[j] = Find(text, to(j), {NewLine}) /\ next[j] \in D
        BY <1>4, <1>6, <3>1 DEF next, last, Solves
      <4>2. f[next[j]] \in V
        BY <1>6, <4>1
      <4> QED
        BY <3>1, <4>1, <4>2 DEF step
    <3>2. CASE ~IsComment(text, to(j))
      BY <1>6, <3>2 DEF base, last, Solves
    <3> QED
      BY <3>1, <3>2
  <2> QED
    BY <1>6, <2>1 DEF SkipUpto, D, l, to
<1>8. chosen = SkipUpto(text, chosen)
  BY <1>7
<1> HIDE DEF chosen
<1>9. i \in D
  BY DEF D, l
<1>10. chosen[i] = IF IsComment(text, to(i)) THEN chosen[Find(text, to(i), {NewLine})] ELSE to(i)
  BY <1>8, <1>9 DEF SkipUpto, D, l, to
<1>11. LET k == to(i)
           n == Find(text, k, {NewLine})
       IN  /\ EndsAt(text, i, Blanks, k)
           /\ IF IsComment(text, k)
              THEN /\ FoundAt(text, k, {NewLine}, n) /\ n > k
                   /\ SkipWhite(text, i) = SkipWhite(text, n)
              ELSE SkipWhite(text, i) = k
  <2>1. /\ EndsAt(text, i, Blanks, to(i))
        /\ FoundAt(text, to(i), {NewLine}, Find(text, to(i), {NewLine}))
        /\ IsComment(text, to(i)) => Find(text, to(i), {NewLine}) > to(i)
    BY <1>4, <1>9
  <2>2. SkipWhite(text, i) = chosen[i]
    BY <1>1
  <2>3. SkipWhite(text, Find(text, to(i), {NewLine})) = chosen[Find(text, to(i), {NewLine})]
    BY <1>1
  <2>4. CASE IsComment(text, to(i))
    BY <1>10, <2>1, <2>2, <2>3, <2>4
  <2>5. CASE ~IsComment(text, to(i))
    BY <1>10, <2>1, <2>2, <2>5
  <2> QED
    BY <2>4, <2>5
<1> QED
  BY <1>11 DEF to

\* SkipWhite goes on, to something that is no blank.
LEMMA SkipWhiteStops ==
    ASSUME NEW S, NEW text \in Seq(S), NEW i \in 1 .. Len(text) + 1
    PROVE  /\ SkipWhite(text, i) \in i .. Len(text) + 1
           /\ At(text, SkipWhite(text, i)) \notin Blanks
<1> DEFINE l == Len(text) + 1
           D == 1 .. l
           rank == [j \in D |-> l - j]
           Good(j) == SkipWhite(text, j) \in j .. l /\ At(text, SkipWhite(text, j)) \notin Blanks
           T == {j \in D : Good(j)}
<1>1. l \in Nat /\ i \in D
  BY AtEnd
<1>2. \A j \in D : rank[j] \in Nat
  BY <1>1
<1>3. ASSUME NEW j \in D, \A n \in D : rank[n] < rank[j] => n \in T
      PROVE  j \in T
  <2> DEFINE k == After(text, j, Blanks)
             n == Find(text, k, {NewLine})
  <2>1. /\ EndsAt(text, j, Blanks, k)
        /\ IF IsComment(text, k)
           THEN /\ FoundAt(text, k, {NewLine}, n) /\ n > k
                /\ SkipWhite(text, j) = SkipWhite(text, n)
           ELSE SkipWhite(text, j) = k
    BY SkipWhiteStep
  <2> HIDE DEF k, n
  <2>2. k \in j .. l /\ At(text, k) \notin Blanks
    BY <2>1 DEF EndsAt
  <2>3. CASE ~IsComment(text, k)
    BY <2>1, <2>2, <2>3
  <2>4. CASE IsComment(text, k)
    <3>1. n \in k .. l /\ n > k /\ SkipWhite(text, j) = SkipWhite(text, n)
      BY <2>1, <2>4 DEF FoundAt
    <3> HIDE DEF l
    <3>2. n \in D /\ rank[n] < rank[j] /\ n > j
      BY <1>1, <2>2, <3>1
    <3>3. SkipWhite(text, n) \in n .. l /\ At(text, SkipWhite(text, n)) \notin Blanks
      BY <1>3, <3>2
    <3> QED
      BY <1>1, <3>1, <3>2, <3>3
  <2> QED
    BY <2>3, <2>4
<1> HIDE DEF D, T, rank
<1>4. D \subseteq T
  BY <1>2, <1>3, Descent
<1> QED
  BY <1>1, <1>4 DEF T

\* COM_Parse reads a token and goes on behind it.
LEMMA TokenRead ==
    ASSUME NEW S, NEW text \in Seq(S), NEW k \in 1 .. Len(text) + 1,
           At(text, k) \notin Blanks \cup {Zero}
    PROVE  LET p == COM_Parse(text, k)
           IN  /\ p.token \in Seq(S) /\ p.over \in BOOLEAN
               /\ ~p.over => p.next \in k + 1 .. Len(text) + 1
<1> DEFINE l == Len(text) + 1
<1>1. l \in Nat /\ At(text, l) = Zero /\ Len(text) = l - 1
  BY AtEnd
<1> HIDE DEF l
<1>2. k \in 1 .. l /\ k # l
  BY <1>1 DEF l
<1>3. \A m, n \in 1 .. l : SubSeq(text, m, n - 1) \in Seq(S)
  BY <1>1 DEF l
<1>4. CASE At(text, k) = Quote
  <2> DEFINE n == Find(text, k + 1, {Quote})
  <2>1. k + 1 \in 1 .. l
    BY <1>1, <1>2
  <2>2. FoundAt(text, k + 1, {Quote}, n)
    BY <2>1, FindFinds DEF l
  <2>3. n \in k + 1 .. l
    BY <2>2 DEF FoundAt, l
  <2>4. COM_Parse(text, k) = [token |-> SubSeq(text, k + 1, n - 1), next |-> n + 1,
                              over |-> At(text, n) = Zero]
    BY <1>4 DEF COM_Parse
  <2> HIDE DEF n
  <2>5. SubSeq(text, k + 1, n - 1) \in Seq(S)
    BY <1>1, <1>2, <1>3, <2>1, <2>3
  <2>6. At(text, n) # Zero => n # l
    BY <1>1
  <2>7. n # l => n + 1 \in k + 1 .. l
    BY <1>1, <1>2, <2>3
  <2>8. CASE At(text, n) = Zero
    <3> DEFINE over == At(text, n) = Zero
    <3>1. over = TRUE
      BY <2>8
    <3> HIDE DEF over
    <3>2. COM_Parse(text, k) = [token |-> SubSeq(text, k + 1, n - 1), next |-> n + 1,
                                over |-> TRUE]
      BY <2>4, <3>1 DEF over
    <3> QED
      BY <2>5, <3>2
  <2>9. CASE At(text, n) # Zero
    <3> DEFINE over == At(text, n) = Zero
    <3>1. over = FALSE
      BY <2>9
    <3> HIDE DEF over
    <3>2. COM_Parse(text, k) = [token |-> SubSeq(text, k + 1, n - 1), next |-> n + 1,
                                over |-> FALSE]
      BY <2>4, <3>1 DEF over
    <3> QED
      BY <2>5, <2>6, <2>7, <2>9, <3>2 DEF l
  <2> QED
    BY <2>8, <2>9
<1>5. CASE At(text, k) # Quote
  <2> DEFINE n == Find(text, k, {Space, NewLine})
  <2>1. FoundAt(text, k, {Space, NewLine}, n)
    BY FindFinds
  <2>2. n \in k .. l /\ At(text, n) \in Blanks \cup {Zero}
    BY <2>1 DEF FoundAt, l, Blanks
  <2>3. COM_Parse(text, k) = [token |-> SubSeq(text, k, n - 1), next |-> n, over |-> FALSE]
    BY <1>5 DEF COM_Parse, WordEnd
  <2> HIDE DEF n
  <2>4. n # k
    BY <2>2
  <2>5. n \in k + 1 .. l /\ SubSeq(text, k, n - 1) \in Seq(S)
    BY <1>1, <1>2, <1>3, <2>2, <2>4
  <2> QED
    BY <2>3, <2>5 DEF l
<1> QED
  BY <1>4, <1>5

-----------------------------------------------------------------------------
(* Tokens.                                                                  *)

\* Where what lies behind position i begins; where its first token begins; and
\* that token.
From(text, i) == After(text, i, {Space})
TokenAt(text, i) == SkipWhite(text, From(text, i))
TokenOf(text, i) == COM_Parse(text, TokenAt(text, i))

\* There is a token at i, and the reader comes to its end.
HasToken(text, i) ==
    At(text, From(text, i)) \notin {NewLine, Zero} /\ At(text, TokenAt(text, i)) # Zero
ReadsOn(text, i) == HasToken(text, i) /\ ~TokenOf(text, i).over

\* A reading of what lies behind i, of the readings of what lies behind its
\* first token.
Reading(text, i, argc, later) ==
    LET args == IF TakesArgs(argc) THEN From(text, i) ELSE 0
        kept == IF argc < MaxArgs THEN <<TokenOf(text, i).token>> ELSE <<>>
        r == later[argc + Len(kept)]
    IN  IF At(text, From(text, i)) \in {NewLine, Zero}
        THEN [argv |-> <<>>, args |-> 0, over |-> FALSE]
        ELSE IF At(text, TokenAt(text, i)) = Zero
        THEN [argv |-> <<>>, args |-> args, over |-> FALSE]
        ELSE IF TokenOf(text, i).over
        THEN [argv |-> kept, args |-> args, over |-> TRUE]
        ELSE [argv |-> kept \o r.argv,
              args |-> IF args # 0 THEN args ELSE r.args,
              over |-> r.over]

ReadUpto(text, rest) ==
    [i \in 1 .. Len(text) + 1 |->
        [argc \in 0 .. MaxArgs |-> Reading(text, i, argc, rest[TokenOf(text, i).next])]]

Readings(S, n) ==
    [0 .. MaxArgs -> [argv : Seq(Seq(S)), args : 0 .. n, over : BOOLEAN]]

\* Each token lies behind the position it is looked for from.
LEMMA TokenFacts ==
    ASSUME NEW S, NEW text \in Seq(S), NEW i \in 1 .. Len(text) + 1
    PROVE  /\ EndsAt(text, i, {Space}, From(text, i)) /\ From(text, i) \in i .. Len(text) + 1
           /\ TokenAt(text, i) \in From(text, i) .. Len(text) + 1
           /\ At(text, TokenAt(text, i)) \notin Blanks
           /\ At(text, From(text, i)) \notin {NewLine, Zero} => From(text, i) \in 1 .. Len(text)
           /\ HasToken(text, i) =>
                 TokenOf(text, i).token \in Seq(S) /\ TokenOf(text, i).over \in BOOLEAN
           /\ ReadsOn(text, i) => TokenOf(text, i).next \in i + 1 .. Len(text) + 1
<1> DEFINE l == Len(text) + 1
           j == From(text, i)
           k == TokenAt(text, i)
           p == COM_Parse(text, k)
<1>1. l \in Nat /\ At(text, l) = Zero /\ Len(text) = l - 1
  BY AtEnd
<1>2. Zero \notin {Space}
  BY DEF Zero, Space
<1>3. EndsAt(text, i, {Space}, j)
  BY <1>2, AfterEnds DEF From
<1>4. j \in i .. l
  BY <1>3 DEF EndsAt
<1> HIDE DEF j, l
<1>5. i \in 1 .. l /\ j \in 1 .. l
  BY <1>1, <1>4 DEF l
<1>6. k \in j .. l /\ At(text, k) \notin Blanks
  BY <1>5, SkipWhiteStops DEF l, TokenAt, j
<1> HIDE DEF k
<1>7. k \in 1 .. l
  BY <1>1, <1>5, <1>6
<1>8. ASSUME At(text, k) # Zero
      PROVE  /\ p.token \in Seq(S) /\ p.over \in BOOLEAN
             /\ ~p.over => p.next \in k + 1 .. l
  <2>1. At(text, k) \notin Blanks \cup {Zero}
    BY <1>6, <1>8
  <2> QED
    BY <1>7, <2>1, TokenRead DEF l
<1>9. TokenOf(text, i) = p
  BY DEF TokenOf, k
<1> HIDE DEF p
<1>10. HasToken(text, i) => At(text, k) # Zero
  BY DEF HasToken, k
<1>11. ReadsOn(text, i) => p.next \in i + 1 .. l
  <2> SUFFICES ASSUME ReadsOn(text, i) PROVE p.next \in i + 1 .. l
    OBVIOUS
  <2>1. p.next \in k + 1 .. l
    BY <1>8, <1>9, <1>10 DEF ReadsOn
  <2> QED
    BY <1>1, <1>4, <1>5, <1>6, <2>1
<1>12. At(text, j) \notin {NewLine, Zero} => j \in 1 .. Len(text)
  BY <1>1, <1>5
<1> QED
  BY <1>3, <1>4, <1>6, <1>8, <1>9, <1>10, <1>11, <1>12 DEF j, k, l

\* A reading has its type if the later one it is made of has.
LEMMA ReadingType ==
    ASSUME NEW S, NEW text \in Seq(S), NEW i \in 1 .. Len(text) + 1,
           NEW later, ReadsOn(text, i) => later \in Readings(S, Len(text))
    PROVE  [argc \in 0 .. MaxArgs |-> Reading(text, i, argc, later)] \in Readings(S, Len(text))
<1> SUFFICES ASSUME NEW argc \in 0 .. MaxArgs
             PROVE  Reading(text, i, argc, later)
                       \in [argv : Seq(Seq(S)), args : 0 .. Len(text), over : BOOLEAN]
  BY DEF Readings
<1> DEFINE j == From(text, i)
           args == IF TakesArgs(argc) THEN j ELSE 0
           token == TokenOf(text, i).token
           kept == IF argc < MaxArgs THEN <<token>> ELSE <<>>
           r == later[argc + Len(kept)]
           R == [argv : Seq(Seq(S)), args : 0 .. Len(text), over : BOOLEAN]
<1> HIDE DEF args, kept, r, R
<1>1. /\ At(text, j) \notin {NewLine, Zero} => j \in 1 .. Len(text)
      /\ HasToken(text, i) => token \in Seq(S)
      /\ Len(text) \in Nat
  <2>1. At(text, From(text, i)) \notin {NewLine, Zero} => From(text, i) \in 1 .. Len(text)
    BY TokenFacts
  <2>2. HasToken(text, i) => TokenOf(text, i).token \in Seq(S)
    BY TokenFacts
  <2>3. Len(text) \in Nat
    OBVIOUS
  <2> QED
    BY <2>1, <2>2, <2>3
<1> USE DEF args, kept, r, R
<1>2. MaxArgs \in Nat /\ argc \in Nat
  BY ConsoleTextAssumption
<1> HIDE DEF j, token
<1>3. At(text, j) \notin {NewLine, Zero} => args \in 0 .. Len(text)
  BY <1>1
<1>4. HasToken(text, i) => /\ kept \in Seq(Seq(S)) /\ argc + Len(kept) \in 0 .. MaxArgs
  BY <1>1, <1>2
<1>5. <<>> \in Seq(Seq(S)) /\ 0 \in 0 .. Len(text)
  BY <1>1
<1> HIDE DEF args, kept
<1>6. CASE ~HasToken(text, i)
  BY <1>3, <1>5, <1>6 DEF Reading, HasToken, args, j
<1>7. CASE HasToken(text, i) /\ TokenOf(text, i).over
  <2>1. Reading(text, i, argc, later) = [argv |-> kept, args |-> args, over |-> TRUE]
    BY <1>7 DEF Reading, HasToken, args, j, kept, token
  <2> QED
    BY <1>3, <1>4, <1>7, <2>1 DEF HasToken, j
<1>8. CASE ReadsOn(text, i)
  <2>1. HasToken(text, i) /\ ~TokenOf(text, i).over /\ later \in Readings(S, Len(text))
    BY <1>8 DEF ReadsOn
  <2>2. r \in R
    BY <1>4, <2>1 DEF Readings
  <2>3. Reading(text, i, argc, later) =
           [argv |-> kept \o r.argv, args |-> IF args # 0 THEN args ELSE r.args, over |-> r.over]
    BY <2>1 DEF Reading, HasToken, args, j, kept, token
  <2>4. args \in 0 .. Len(text) /\ kept \in Seq(Seq(S))
    BY <1>3, <1>4, <2>1 DEF HasToken, j
  <2> HIDE DEF r
  <2>5. kept \o r.argv \in Seq(Seq(S)) /\ r.args \in 0 .. Len(text) /\ r.over \in BOOLEAN
    BY <2>2, <2>4
  <2> QED
    BY <2>3, <2>4, <2>5
<1> QED
  BY <1>6, <1>7, <1>8 DEF ReadsOn

\* A token, if it is kept, and what follows.
Continued(text, i, argc, later) ==
    LET args == IF TakesArgs(argc) THEN From(text, i) ELSE 0
        kept == IF argc < MaxArgs THEN <<TokenOf(text, i).token>> ELSE <<>>
        r == later[argc + Len(kept)]
    IN  [argv |-> kept \o r.argv, args |-> IF args # 0 THEN args ELSE r.args,
         over |-> r.over]

\* That is what there is where the reader goes on.
LEMMA ReadingGoesOn ==
    ASSUME NEW text, NEW i, NEW argc, NEW later, ReadsOn(text, i)
    PROVE  Reading(text, i, argc, later) = Continued(text, i, argc, later)
BY DEF Reading, Continued, ReadsOn, HasToken

\* What Tokens computes: a reading for each position, each made of the one
\* behind its first token.
LEMMA TokensComputes ==
    ASSUME NEW S, NEW text \in Seq(S)
    PROVE  \E rest : /\ Tokens(text) = rest[1][0]
                     /\ \A i \in 1 .. Len(text) + 1 :
                           /\ rest[i] \in Readings(S, Len(text))
                           /\ \A argc \in 0 .. MaxArgs :
                                 rest[i][argc] = Reading(text, i, argc, rest[TokenOf(text, i).next])
<1> DEFINE l == Len(text) + 1
           D == 1 .. l
           V == Readings(S, Len(text))
           Of(i, later) == [argc \in 0 .. MaxArgs |-> Reading(text, i, argc, later)]
           last == {i \in D : ~ReadsOn(text, i)}
           rank == [i \in D |-> l - i]
           next == [i \in D |-> TokenOf(text, i).next]
           base == [i \in D |-> Of(i, <<>>)]
           step == [i \in D |-> [v \in V |-> Of(i, v)]]
           chosen == CHOOSE rest : rest = ReadUpto(text, rest)
<1>1. Tokens(text) = chosen[1][0]
  BY DEF Tokens, ReadUpto, Reading, From, TokenAt, TokenOf
<1>2. l \in Nat /\ 1 \in D
  BY AtEnd
<1>3. ASSUME NEW i \in D, ReadsOn(text, i)
      PROVE  /\ TokenOf(text, i).next \in D /\ TokenOf(text, i).next > i
  <2>1. TokenOf(text, i).next \in i + 1 .. l
    BY <1>3, TokenFacts
  <2> HIDE DEF l
  <2> QED
    BY <1>2, <2>1
<1>4. ASSUME NEW i \in D, NEW later, ReadsOn(text, i) => later \in V
      PROVE  Of(i, later) \in V
  BY <1>4, ReadingType
<1>5. ASSUME NEW i \in D, NEW later, ~ReadsOn(text, i)
      PROVE  Of(i, later) = Of(i, <<>>)
  <2>1. ASSUME NEW argc
        PROVE  Reading(text, i, argc, later) = Reading(text, i, argc, <<>>)
    <3>1. CASE At(text, From(text, i)) \in {NewLine, Zero}
      BY <3>1 DEF Reading
    <3>2. CASE /\ At(text, From(text, i)) \notin {NewLine, Zero}
               /\ At(text, TokenAt(text, i)) = Zero
      BY <3>2 DEF Reading
    <3>3. CASE HasToken(text, i) /\ TokenOf(text, i).over
      BY <3>3 DEF Reading, HasToken
    <3> QED
      BY <1>5, <3>1, <3>2, <3>3 DEF ReadsOn, HasToken
  <2> QED
    BY <2>1
<1> HIDE DEF l, V, Of
<1>6. Recursion(D, V, l, rank, last, next, base, step)
  <2>1. rank \in [D -> 0 .. l]
    <3>1. \A i \in D : l - i \in 0 .. l
      BY <1>2
    <3> HIDE DEF D
    <3> QED
      BY <3>1
  <2>2. \A i \in D : i \in last => base[i] \in V
    BY <1>4
  <2>3. V # {}
    <3> DEFINE x == [argc \in 0 .. MaxArgs |-> [argv |-> <<>>, args |-> 0, over |-> FALSE]]
    <3>1. <<>> \in Seq(Seq(S)) /\ 0 \in 0 .. Len(text)
      OBVIOUS
    <3>2. x \in V
      BY <3>1 DEF V, Readings
    <3> QED
      BY <3>2
  <2>4. ASSUME NEW i \in D, i \notin last
        PROVE  /\ next[i] \in D /\ rank[next[i]] < rank[i]
               /\ \A v \in V : step[i][v] \in V
    <3>1. ReadsOn(text, i)
      BY <2>4
    <3>2. next[i] \in D /\ next[i] > i
      BY <1>3, <3>1
    <3>3. \A v \in V : step[i][v] \in V
      BY <1>4
    <3> HIDE DEF next
    <3> QED
      BY <1>2, <3>2, <3>3
  <2> HIDE DEF D, last, rank, next, base, step
  <2> QED
    BY <1>2, <2>1, <2>2, <2>3, <2>4 DEF Recursion
<1>7. PICK f \in [D -> V] : Solves(f, D, last, next, base, step)
  <2> HIDE DEF D, last, rank, next, base, step
  <2> QED
    BY <1>6, RecursionExists
<1>8. f = ReadUpto(text, f)
  <2>1. ASSUME NEW i \in D
        PROVE  f[i] = Of(i, f[TokenOf(text, i).next])
    <3> HIDE DEF D
    <3>1. CASE ReadsOn(text, i)
      <4>1. f[i] = step[i][f[next[i]]] /\ next[i] = TokenOf(text, i).next
        BY <1>7, <3>1 DEF Solves
      <4>2. f[next[i]] \in V
        BY <1>3, <1>7, <3>1, <4>1
      <4> QED
        BY <4>1, <4>2
    <3>2. CASE ~ReadsOn(text, i)
      <4>1. f[i] = base[i]
        BY <1>7, <3>2 DEF Solves
      <4>2. Of(i, f[TokenOf(text, i).next]) = Of(i, <<>>)
        BY <1>5, <3>2
      <4> QED
        BY <4>1, <4>2
    <3> QED
      BY <3>1, <3>2
  <2> HIDE DEF next, step, base, last
  <2>2. f = [i \in D |-> Of(i, f[TokenOf(text, i).next])]
    BY <1>7, <2>1
  <2> QED
    BY <2>2 DEF ReadUpto, l, Of
<1>9. chosen = ReadUpto(text, chosen)
  BY <1>8
<1> HIDE DEF chosen, last, next, base, step, rank, D
<1>10. \A i \in D : chosen[i] = Of(i, chosen[TokenOf(text, i).next])
  BY <1>9 DEF ReadUpto, D, l, Of
<1>11. \A i \in D : chosen[i] \in V
  <2> DEFINE T == {i \in D : chosen[i] \in V}
  <2>1. \A i \in D : rank[i] \in Nat
    BY <1>2 DEF rank, D
  <2>2. ASSUME NEW i \in D, \A j \in D : rank[j] < rank[i] => j \in T
        PROVE  i \in T
    <3>1. ReadsOn(text, i) => chosen[TokenOf(text, i).next] \in V
      <4> DEFINE n == TokenOf(text, i).next
      <4> SUFFICES ASSUME ReadsOn(text, i) PROVE chosen[n] \in V
        OBVIOUS
      <4>1. n \in D /\ n > i
        BY <1>3
      <4> HIDE DEF n
      <4>2. rank[n] < rank[i]
        BY <1>2, <4>1 DEF rank, D
      <4> QED
        BY <2>2, <4>1, <4>2
    <3> QED
      BY <1>4, <1>10, <3>1
  <2> HIDE DEF T
  <2>3. D \subseteq T
    BY <2>1, <2>2, Descent
  <2> QED
    BY <2>3 DEF T
<1>12. ASSUME NEW i \in D, NEW argc \in 0 .. MaxArgs
       PROVE  chosen[i][argc] = Reading(text, i, argc, chosen[TokenOf(text, i).next])
  BY <1>10 DEF Of
<1> QED
  BY <1>1, <1>11, <1>12 DEF D, l, V

\* Tokens, the position of cmd_args and whether the reader leaves the text.
LEMMA TokensTyped ==
    ASSUME NEW S, NEW text \in Seq(S)
    PROVE  /\ Tokens(text).argv \in Seq(Seq(S)) /\ Tokens(text).args \in 0 .. Len(text)
           /\ Tokens(text).over \in BOOLEAN
<1>1. PICK rest : Tokens(text) = rest[1][0] /\ \A i \in 1 .. Len(text) + 1 : rest[i] \in Readings(S, Len(text))
  BY TokensComputes
<1>2. 1 \in 1 .. Len(text) + 1 /\ 0 \in 0 .. MaxArgs
  BY ConsoleTextAssumption
<1>3. rest[1][0] \in [argv : Seq(Seq(S)), args : 0 .. Len(text), over : BOOLEAN]
  BY <1>1, <1>2 DEF Readings
<1> QED
  BY <1>1, <1>3

-----------------------------------------------------------------------------
(* Plain texts.                                                             *)

\* A text with none of the characters that only the tokens know, and with no
\* empty field.
Plain(str) ==
    /\ \A p \in 1 .. Len(str) : str[p] \notin {Zero, NewLine, Quote, Slash}
    /\ \A n \in 1 .. Len(explode(str)) : explode(str)[n] # <<>>

\* The token that is looked for before the field n, at the space or at the
\* beginning of the text, is that field.
LEMMA FieldToken ==
    ASSUME NEW S, NEW text \in Seq(S), NEW fields \in FieldsOf(S),
           \A p \in 1 .. Len(text) : text[p] \notin {Zero, NewLine, Quote, Slash},
           NEW b, CutAt(text, Len(text), fields, b),
           NEW n \in 1 .. Len(fields), fields[n] # <<>>,
           NEW i, i = IF n = 1 THEN 1 ELSE b[n]
    PROVE  /\ i \in 1 .. Len(text) + 1 /\ b[n + 1] \in 1 .. Len(text) + 1
           /\ ReadsOn(text, i)
           /\ TokenOf(text, i).token = fields[n] /\ TokenOf(text, i).next = b[n + 1]
<1> DEFINE l == Len(text) + 1
           m == Len(fields)
           j == b[n] + 1
           k == b[n + 1]
<1>1. /\ m \in Nat \ {0} /\ l \in Nat /\ At(text, l) = Zero
      /\ \A p \in 1 .. Len(text) : At(text, p) = text[p]
  BY AtEnd DEF FieldsOf
<1>2. /\ b \in [1 .. m + 1 -> 0 .. l] /\ b[1] = 0
      /\ b[n] < b[n + 1]
      /\ fields[n] = SubSeq(text, b[n] + 1, b[n + 1] - 1)
      /\ \A p \in b[n] + 1 .. b[n + 1] - 1 : text[p] # Space
      /\ n > 1 => text[b[n]] = Space
  BY DEF CutAt
<1>3. n \in 1 .. m /\ n \in 1 .. m + 1 /\ n + 1 \in 1 .. m + 1
  BY <1>1
<1>3a. /\ n = m => k = l
       /\ n # m => text[k] = Space
  <2>1. n # m => n + 1 \in 1 .. m /\ n + 1 > 1
    BY <1>1
  <2> QED
    BY <2>1 DEF CutAt
<1> HIDE DEF m
<1>4. b[n] \in 0 .. l /\ k \in 0 .. l
  BY <1>2, <1>3
<1> HIDE DEF l
<1>5. k # j
  <2> SUFFICES ASSUME k = j PROVE FALSE
    OBVIOUS
  <2>1. b[n + 1] - 1 = b[n]
    BY <1>4
  <2>2. SubSeq(text, b[n] + 1, b[n]) = <<>>
    BY <1>4
  <2> QED
    BY <1>2, <2>1, <2>2
<1>6. j \in 1 .. l - 1 /\ k \in j + 1 .. l
  <2> DEFINE x == b[n]
             y == b[n + 1]
  <2>1. x \in 0 .. l /\ y \in 0 .. l /\ x < y /\ y # x + 1
    BY <1>2, <1>4, <1>5
  <2> HIDE DEF x, y
  <2>2. x + 1 \in 1 .. l - 1 /\ y \in (x + 1) + 1 .. l
    BY <1>1, <2>1
  <2> QED
    BY <2>2 DEF x, y
<1>7. l - 1 = Len(text)
  BY <1>1 DEF l
<1> DEFINE Odd == {Zero, NewLine, Quote, Slash}
<1>8. \A p \in 1 .. l - 1 : At(text, p) = text[p] /\ text[p] \notin Odd
  BY <1>1, <1>7
<1>9. \A p \in j .. k - 1 : At(text, p) \notin Odd \cup {Space}
  <2>1. \A p \in j .. k - 1 : p \in 1 .. l - 1
    BY <1>1, <1>6
  <2>2. \A p \in j .. k - 1 : text[p] # Space
    BY <1>2
  <2> HIDE DEF j, k, Odd
  <2> QED
    BY <1>8, <2>1, <2>2
<1>10. At(text, k) \in {Space, Zero}
  <2>1. CASE n = m
    BY <1>1, <1>3a, <2>1
  <2>2. CASE n # m
    <3>2. text[k] = Space
      BY <1>3a, <2>2
    <3>3. CASE k = l
      BY <1>1, <3>3
    <3>4. CASE k # l
      <4>1. k \in 1 .. l - 1
        <5> HIDE DEF j, k
        <5> QED
          BY ONLY <1>1, <1>6, <3>4
      <4>2. At(text, k) = text[k]
        BY ONLY <1>8, <4>1
      <4> QED
        BY ONLY <3>2, <4>2
    <3> QED
      BY <3>3, <3>4
  <2> QED
    BY <2>1, <2>2
<1>11. i \in 1 .. l /\ i <= j /\ (i # j => i = b[n] /\ At(text, i) = Space /\ i = j - 1)
  <2>1. CASE n = 1
    <3>1. i = 1 /\ j = 1
      BY <1>2, <2>1
    <3> QED
      BY <1>1, <1>6, <3>1
  <2>2. CASE n # 1
    <3>1. n > 1 /\ i = b[n]
      BY <1>1, <2>2 DEF m
    <3>2. b[n] # 0
      <4>1. n - 1 \in 1 .. m /\ (n - 1) + 1 = n /\ n - 1 \in 1 .. m + 1
        BY <1>1, <3>1 DEF m
      <4>2. b[n - 1] < b[n] /\ b[n - 1] \in 0 .. l
        BY <1>2, <4>1 DEF CutAt, m
      <4> QED
        BY <4>2
    <3>3. b[n] \in 1 .. l - 1
      BY <1>1, <1>4, <1>6, <3>2
    <3>4. text[b[n]] = Space /\ At(text, b[n]) = text[b[n]]
      BY <1>2, <1>8, <3>1, <3>3
    <3> QED
      BY <1>1, <3>1, <3>3, <3>4
  <2> QED
    BY <2>1, <2>2
<1> HIDE DEF j, k, Odd
<1>12. From(text, i) = j
  <2>1. j \in i .. l /\ \A p \in i .. j - 1 : p = i /\ i # j
    BY <1>1, <1>6, <1>11
  <2>2. At(text, j) \notin {Space}
    BY <1>6, <1>9
  <2>3. \A p \in i .. j - 1 : At(text, p) \in {Space}
    BY <1>11, <2>1
  <2>4. EndsAt(text, i, {Space}, j)
    BY <2>1, <2>2, <2>3 DEF EndsAt, l
  <2>5. Zero \notin {Space}
    BY DEF Zero, Space
  <2> QED
    BY <1>11, <2>4, <2>5, AfterEnds DEF From, l
<1>13. j \in 1 .. l /\ At(text, j) \notin Odd \cup {Space}
  BY <1>1, <1>6, <1>9
<1>14. SkipWhite(text, j) = j
  <2>1. \A p \in j .. j - 1 : FALSE
    BY <1>13
  <2>2. j \in j .. l
    BY <1>13
  <2>3. EndsAt(text, j, Blanks, j)
    BY <1>13, <2>1, <2>2 DEF EndsAt, Blanks, l, Odd
  <2>4. Zero \notin Blanks
    BY DEF Zero, Blanks, Space, NewLine
  <2>5. After(text, j, Blanks) = j
    BY <1>13, <2>3, <2>4, AfterEnds DEF l
  <2>6. ~IsComment(text, j)
    BY <1>13 DEF IsComment, Odd
  <2> QED
    BY <1>13, <2>5, <2>6, SkipWhiteStep DEF l
<1>15. Find(text, j, {Space, NewLine}) = k
  <2>1. k \in j .. l
    BY <1>6, <1>13
  <2>2. \A p \in j .. k - 1 : At(text, p) \notin {Space, NewLine} \cup {Zero}
    BY <1>9 DEF Odd
  <2>3. FoundAt(text, j, {Space, NewLine}, k)
    BY <1>10, <2>1, <2>2 DEF FoundAt, l
  <2> QED
    BY <1>13, <2>3, FindFinds DEF l
<1>16. COM_Parse(text, j) = [token |-> SubSeq(text, j, k - 1), next |-> k, over |-> FALSE]
  <2>1. At(text, j) # Quote
    BY <1>13 DEF Odd
  <2> QED
    BY <1>15, <2>1 DEF COM_Parse, WordEnd
<1>17. TokenAt(text, i) = j /\ TokenOf(text, i) = COM_Parse(text, j)
  BY <1>12, <1>14 DEF TokenAt, TokenOf
<1>18. ReadsOn(text, i)
  <2>1. At(text, j) \notin {NewLine, Zero}
    BY <1>13 DEF Odd
  <2> QED
    BY <1>12, <1>16, <1>17, <2>1 DEF ReadsOn, HasToken
<1>19. fields[n] = SubSeq(text, j, k - 1)
  BY <1>2 DEF j, k
<1>20. k \in 1 .. l
  BY <1>6, <1>13
<1> QED
  BY <1>11, <1>16, <1>17, <1>18, <1>19, <1>20 DEF k, l

\* One element and those behind it.
LEMMA ElementsFollow ==
    ASSUME NEW S, NEW s \in Seq(S), NEW n \in 1 .. Len(s), NEW q \in n .. Len(s)
    PROVE  <<s[n]>> \o SubSeq(s, n + 1, q) = SubSeq(s, n, q)
<1> DEFINE x == SubSeq(s, n + 1, q)
           y == SubSeq(s, n, q)
           w == <<s[n]>> \o x
           l == q - n + 1
<1>1. Len(s) \in Nat /\ n \in Nat /\ q \in Nat /\ s[n] \in S /\ l \in Nat
  <2>1. Len(s) \in Nat
    OBVIOUS
  <2>2. n \in Nat /\ q \in Nat /\ q >= n
    BY ONLY <2>1, n \in 1 .. Len(s), q \in n .. Len(s)
  <2>3. s[n] \in S
    OBVIOUS
  <2>4. l \in Nat
    BY ONLY <2>2
  <2> QED
    BY ONLY <2>1, <2>2, <2>3, <2>4
<1>2. x \in Seq(S) /\ Len(x) = q - n /\ \A p \in 1 .. q - n : x[p] = s[n + p]
  <2>1. q \in 0 .. Len(s) /\ n \in 0 .. q
    BY ONLY <1>1, q \in n .. Len(s)
  <2>2. s \in Seq(S)
    OBVIOUS
  <2> QED
    BY ONLY <2>1, <2>2, PartOf
<1>3. y \in Seq(S) /\ Len(y) = l /\ \A p \in 1 .. l : y[p] = s[n + p - 1]
  <2> DEFINE d == n - 1
  <2>1. q \in 0 .. Len(s) /\ d \in 0 .. q /\ d + 1 = n /\ q - d = l
    BY ONLY <1>1, n \in 1 .. Len(s), q \in n .. Len(s)
  <2>2. \A p \in 1 .. l : d + p = n + p - 1
    BY ONLY <1>1
  <2>3. s \in Seq(S)
    OBVIOUS
  <2> HIDE DEF d, l
  <2>4. LET v == SubSeq(s, d + 1, q)
        IN  v \in Seq(S) /\ Len(v) = q - d /\ \A p \in 1 .. q - d : v[p] = s[d + p]
    BY ONLY <2>1, <2>3, PartOf
  <2> QED
    BY ONLY <2>1, <2>2, <2>4
<1> HIDE DEF x, y
<1>4. /\ w \in Seq(S) /\ 1 \in DOMAIN w /\ w[1] = s[n]
      /\ \A p \in DOMAIN x : p + 1 \in DOMAIN w /\ w[p + 1] = x[p]
  <2> DEFINE z == s[n]
  <2>1. z \in S /\ x \in Seq(S)
    BY ONLY <1>1, <1>2
  <2> HIDE DEF z
  <2>2. LET u == <<z>> \o x
        IN  /\ u \in Seq(S) /\ 1 \in DOMAIN u /\ u[1] = z
            /\ \A p \in DOMAIN x : p + 1 \in DOMAIN u /\ u[p + 1] = x[p]
    BY ONLY <2>1, PushShifts
  <2> QED
    BY ONLY <2>2 DEF z
<1>5. Len(w) = l
  <2> DEFINE e == <<s[n]>>
  <2>1. e \in Seq(S) /\ Len(e) = 1
    BY <1>1
  <2> HIDE DEF e, l, w
  <2>2. Len(e \o x) = 1 + (q - n)
    <3>1. x \in Seq(S) /\ Len(x) = q - n
      BY <1>2
    <3>2. Len(e \o x) = Len(e) + Len(x)
      BY <2>1, <3>1, ConcatFacts
    <3> QED
      BY <2>1, <3>1, <3>2
  <2> QED
    BY <1>1, <2>2 DEF l, w, e
<1> HIDE DEF w
<1>6. ASSUME NEW p \in 1 .. l
      PROVE  w[p] = y[p]
  <2>1. CASE p = 1
    BY <1>1, <1>3, <1>4, <2>1
  <2>2. CASE p # 1
    <3>1. p - 1 \in 1 .. q - n /\ (p - 1) + 1 = p /\ n + (p - 1) = n + p - 1
      BY <1>1, <2>2
    <3>2. DOMAIN x = 1 .. q - n
      BY <1>2
    <3> HIDE DEF l
    <3>3. w[p] = x[p - 1] /\ x[p - 1] = s[n + p - 1]
      BY <1>2, <1>4, <3>1, <3>2
    <3> QED
      BY <1>3, <3>3
  <2> QED
    BY <2>1, <2>2
<1> HIDE DEF l
<1>7. w \in [1 .. l -> S] /\ y \in [1 .. l -> S]
  BY <1>3, <1>4, <1>5
<1>8. w = y
  <2>1. w = [p \in 1 .. l |-> w[p]] /\ y = [p \in 1 .. l |-> y[p]]
    BY <1>7
  <2> QED
    BY <1>6, <2>1
<1> QED
  BY <1>8 DEF w, x, y

\* The tokens of a plain text are its fields, up to those that are kept.
LEMMA PlainTokens ==
    ASSUME NEW S, NEW text \in Seq(S), Plain(text)
    PROVE  LET fields == explode(text)
           IN  /\ Tokens(text).argv =
                     SubSeq(fields, 1, IF Len(fields) < MaxArgs THEN Len(fields) ELSE MaxArgs)
               /\ Tokens(text).over = FALSE
<1> DEFINE fields == explode(text)
           l == Len(text) + 1
           m == Len(fields)
<1>1. /\ fields \in FieldsOf(S) /\ \E b : CutAt(text, Len(text), fields, b)
  BY ExplodeCuts
<1>2. PICK b : CutAt(text, Len(text), fields, b)
  BY <1>1
<1>3. /\ \A p \in 1 .. Len(text) : text[p] \notin {Zero, NewLine, Quote, Slash}
      /\ \A n \in 1 .. m : fields[n] # <<>>
  BY DEF Plain
<1> HIDE DEF fields
<1>4. PICK rest : /\ Tokens(text) = rest[1][0]
                  /\ \A i \in 1 .. l :
                        \A argc \in 0 .. MaxArgs :
                           rest[i][argc] = Reading(text, i, argc, rest[TokenOf(text, i).next])
  <2> QED
    BY TokensComputes
<1>5. m \in Nat \ {0} /\ l \in Nat /\ MaxArgs \in Nat /\ fields \in Seq(Seq(S))
  BY <1>1, ConsoleTextAssumption DEF FieldsOf
<1> DEFINE begin(n) == IF n = 1 THEN 1 ELSE b[n]
           to(n, argc) == IF m < n - 1 + MaxArgs - argc THEN m ELSE n - 1 + MaxArgs - argc
           Good(n) == \A argc \in 0 .. MaxArgs :
                         /\ rest[begin(n)][argc].argv = SubSeq(fields, n, to(n, argc))
                         /\ rest[begin(n)][argc].over = FALSE
           T == {n \in 1 .. m + 1 : Good(n)}
<1>6. m + 1 \in T
  <2>1. b[m + 1] = l /\ begin(m + 1) = l
    <3>1. b[m + 1] = l
      BY <1>2 DEF CutAt
    <3> QED
      BY <1>5, <3>1
  <2>2. ASSUME NEW argc \in 0 .. MaxArgs
        PROVE  Reading(text, l, argc, rest[TokenOf(text, l).next]) =
                  [argv |-> <<>>, args |-> 0, over |-> FALSE]
    <3>1. From(text, l) = l /\ At(text, l) = Zero
      <4>1. l \in 1 .. Len(text) + 1 /\ At(text, l) = Zero
        BY <1>5, AtEnd
      <4>2. From(text, l) \in l .. Len(text) + 1
        BY <4>1, TokenFacts
      <4> QED
        BY <1>5, <4>1, <4>2
    <3> QED
      BY <3>1 DEF Reading
  <2>3. \A argc \in 0 .. MaxArgs :
           rest[l][argc].argv = <<>> /\ rest[l][argc].over = FALSE
    <3>1. l \in 1 .. l
      BY <1>5
    <3> HIDE DEF l
    <3> QED
      BY <1>4, <2>2, <3>1
  <2>4. \A argc \in 0 .. MaxArgs : SubSeq(fields, m + 1, to(m + 1, argc)) = <<>>
    <3>2. SubSeq(fields, m + 1, m) = <<>>
      BY <1>5
    <3> HIDE DEF m
    <3>1. \A argc \in 0 .. MaxArgs : to(m + 1, argc) = m
      BY <1>5
    <3> HIDE DEF to
    <3> QED
      BY <3>1, <3>2
  <2> HIDE DEF m, to, begin, l
  <2>5. m + 1 \in 1 .. m + 1
    BY <1>5
  <2>6. Good(m + 1)
    BY <2>1, <2>3, <2>4
  <2> HIDE DEF Good
  <2> QED
    BY <2>5, <2>6
<1>7. ASSUME NEW n \in 1 .. m, n + 1 \in T
      PROVE  n \in T
  <2> DEFINE i == begin(n)
             k == b[n + 1]
  <2>1. /\ i \in 1 .. l /\ k \in 1 .. l
        /\ ReadsOn(text, i)
        /\ TokenOf(text, i).token = fields[n] /\ TokenOf(text, i).next = k
    <3>1. n \in 1 .. Len(fields) /\ fields[n] # <<>> /\ i = IF n = 1 THEN 1 ELSE b[n]
      BY <1>3
    <3> HIDE DEF i, m, begin
    <3> QED
      BY <1>1, <1>2, <1>3, <3>1, FieldToken
  <2>2. begin(n + 1) = k /\ n \in 1 .. m + 1
    BY <1>5
  <2> HIDE DEF i, k, begin, l
  <2>3. ASSUME NEW argc \in 0 .. MaxArgs
        PROVE  /\ rest[i][argc].argv = SubSeq(fields, n, to(n, argc))
               /\ rest[i][argc].over = FALSE
    <3> DEFINE kept == IF argc < MaxArgs THEN <<TokenOf(text, i).token>> ELSE <<>>
               r == rest[k][argc + Len(kept)]
    <3>1. rest[i][argc] = Reading(text, i, argc, rest[k])
      BY <1>4, <2>1
    <3>2. rest[i][argc].argv = kept \o r.argv /\ rest[i][argc].over = r.over
      <4> DEFINE on == [argv |-> kept \o r.argv,
                        args |-> IF (IF TakesArgs(argc) THEN From(text, i) ELSE 0) # 0
                                 THEN (IF TakesArgs(argc) THEN From(text, i) ELSE 0) ELSE r.args,
                        over |-> r.over]
      <4>1. Reading(text, i, argc, rest[k]) = on
        <5>1. ReadsOn(text, i)
          BY <2>1
        <5> HIDE DEF Good, to, m
        <5>2. Reading(text, i, argc, rest[k]) = Continued(text, i, argc, rest[k])
          BY ONLY <5>1, ReadingGoesOn
        <5> QED
          BY ONLY <5>2 DEF Continued
      <4>2. on.argv = kept \o r.argv /\ on.over = r.over
        OBVIOUS
      <4> HIDE DEF on
      <4> QED
        BY <3>1, <4>1, <4>2
    <3>3. CASE argc < MaxArgs
      <4>1. kept = <<fields[n]>> /\ argc + Len(kept) = argc + 1 /\ argc + 1 \in 0 .. MaxArgs
        BY <1>5, <2>1, <3>3
      <4>2. to(n + 1, argc + 1) = to(n, argc) /\ to(n, argc) \in n .. m
        BY <1>5, <3>3
      <4>3. r.argv = SubSeq(fields, n + 1, to(n, argc)) /\ r.over = FALSE
        BY <1>7, <2>2, <4>1, <4>2
      <4> HIDE DEF to, kept, r
      <4>4. <<fields[n]>> \o SubSeq(fields, n + 1, to(n, argc)) = SubSeq(fields, n, to(n, argc))
        <5>1. n \in 1 .. Len(fields) /\ to(n, argc) \in n .. Len(fields)
          BY <4>2 DEF m
        <5> QED
          BY <1>5, <5>1, ElementsFollow
      <4> QED
        BY <3>2, <4>1, <4>3, <4>4
    <3>4. CASE argc = MaxArgs
      <4>1. kept = <<>> /\ argc + Len(kept) = argc
        BY <1>5, <3>4
      <4>2. to(n + 1, argc) = n /\ to(n, argc) = n - 1
        BY <1>5, <3>4
      <4>3. r.argv = SubSeq(fields, n + 1, n) /\ r.over = FALSE
        BY <1>7, <2>2, <4>1, <4>2
      <4>4. SubSeq(fields, n + 1, n) = <<>> /\ SubSeq(fields, n, n - 1) = <<>>
        BY <1>5
      <4>5. <<>> \o <<>> = <<>>
        OBVIOUS
      <4> HIDE DEF to, kept, r
      <4> QED
        BY <3>2, <4>1, <4>2, <4>3, <4>4, <4>5
    <3>5. argc < MaxArgs \/ argc = MaxArgs
      BY <1>5
    <3> HIDE DEF to
    <3> QED
      BY <3>3, <3>4, <3>5
  <2> HIDE DEF to, m
  <2> QED
    BY <2>2, <2>3 DEF i
<1> HIDE DEF T
<1>8. 1 \in T
  <2> HIDE DEF m, begin, to
  <2> DEFINE u == m + 1
  <2>1. u \in Int /\ 1 \in 1 .. u /\ \A n \in 1 .. u - 1 : n \in 1 .. m
    BY <1>5
  <2>2. u \in T /\ \A n \in 1 .. u - 1 : n + 1 \in T => n \in T
    BY <1>6, <1>7, <2>1
  <2> HIDE DEF u
  <2>3. 1 .. u \subseteq T
    BY <2>1, <2>2, CountingDown
  <2> QED
    BY <2>1, <2>3
<1>9. /\ rest[1][0].argv = SubSeq(fields, 1, to(1, 0)) /\ rest[1][0].over = FALSE
  <2> HIDE DEF to
  <2> QED
    BY <1>5, <1>8 DEF T
<1>10. to(1, 0) = IF m < MaxArgs THEN m ELSE MaxArgs
  BY <1>5
<1> HIDE DEF to
<1> QED
  BY <1>4, <1>9, <1>10 DEF fields

-----------------------------------------------------------------------------
(* The text behind its first d characters.                                  *)

Behind(text, d) == SubSeq(text, d + 1, Len(text))

\* Its characters are those of the text, d positions on.
LEMMA BehindAt ==
    ASSUME NEW S, NEW text \in Seq(S), NEW d \in 0 .. Len(text)
    PROVE  /\ Behind(text, d) \in Seq(S) /\ Len(Behind(text, d)) = Len(text) - d
           /\ \A i \in Nat \ {0} : At(Behind(text, d), i) = At(text, i + d)
<1> DEFINE s == Behind(text, d)
           l == Len(text) - d
<1>1. Len(text) \in Nat /\ d \in Nat /\ l \in Nat
  OBVIOUS
<1>2. s \in Seq(S) /\ Len(s) = l /\ \A i \in 1 .. l : s[i] = text[i + d]
  BY DEF Behind
<1> HIDE DEF s
<1>3. \A i \in Nat \ {0} : At(s, i) = At(text, i + d)
  <2>1. DOMAIN s = 1 .. l /\ DOMAIN text = 1 .. Len(text)
    BY <1>2
  <2>2. \A i \in Nat \ {0} : i \in 1 .. l <=> i + d \in 1 .. Len(text)
    BY <1>1
  <2> QED
    BY <1>2, <2>1, <2>2 DEF At
<1> QED
  BY <1>2, <1>3 DEF s, l

\* Its parts are those of the text.
LEMMA BehindPart ==
    ASSUME NEW S, NEW text \in Seq(S), NEW d \in 0 .. Len(text),
           NEW m \in 1 .. Len(text) - d + 1, NEW n \in 1 .. Len(text) - d + 1
    PROVE  SubSeq(Behind(text, d), m, n - 1) = SubSeq(text, m + d, (n + d) - 1)
<1> DEFINE s == Behind(text, d)
           l == Len(text) - d
           x == SubSeq(s, m, n - 1)
           y == SubSeq(text, m + d, (n + d) - 1)
           k == IF n < m THEN 0 ELSE n - m
<1>1. Len(text) \in Nat /\ d \in Nat /\ l \in Nat
  OBVIOUS
<1>2. s \in Seq(S) /\ Len(s) = l /\ \A i \in 1 .. l : s[i] = text[i + d]
  BY DEF Behind
<1> HIDE DEF s
<1>3. x \in Seq(S) /\ Len(x) = k /\ \A p \in 1 .. k : x[p] = s[m + p - 1]
  BY <1>1, <1>2
<1>4. y \in Seq(S) /\ Len(y) = k /\ \A p \in 1 .. k : y[p] = text[m + d + p - 1]
  BY <1>1 DEF l
<1>5. \A p \in 1 .. k : m + p - 1 \in 1 .. l /\ (m + p - 1) + d = m + d + p - 1
  BY <1>1
<1> HIDE DEF x, y, k, l
<1>6. \A p \in 1 .. k : x[p] = y[p]
  BY <1>2, <1>3, <1>4, <1>5
<1>7. x = y
  BY <1>3, <1>4, <1>6, SameElements
<1> QED
  BY <1>7 DEF x, y, s

\* After and Find come to the same place.
LEMMA BehindScan ==
    ASSUME NEW S, NEW text \in Seq(S), NEW d \in 0 .. Len(text),
           NEW i \in 1 .. Len(text) - d + 1, NEW set
    PROVE  /\ Zero \notin set => After(text, i + d, set) = After(Behind(text, d), i, set) + d
           /\ Find(text, i + d, set) = Find(Behind(text, d), i, set) + d
<1> DEFINE s == Behind(text, d)
           l == Len(s) + 1
<1>1. /\ s \in Seq(S) /\ Len(s) = Len(text) - d
      /\ \A j \in Nat \ {0} : At(s, j) = At(text, j + d)
      /\ d \in Nat /\ Len(text) \in Nat
  BY BehindAt
<1> HIDE DEF s
<1>2. l \in Nat /\ i \in 1 .. l /\ i + d \in 1 .. Len(text) + 1 /\ Len(text) + 1 = l + d
  BY <1>1
<1> HIDE DEF l
<1>3. ASSUME NEW k \in i .. l
      PROVE  /\ k + d \in i + d .. l + d /\ At(text, k + d) = At(s, k)
             /\ \A j \in i + d .. k + d - 1 :
                   j - d \in i .. k - 1 /\ At(text, j) = At(s, j - d)
  <2>1. k + d \in i + d .. l + d /\ k \in Nat \ {0}
    BY <1>1, <1>2
  <2>2. ASSUME NEW j \in i + d .. k + d - 1
        PROVE  j - d \in i .. k - 1 /\ At(text, j) = At(s, j - d)
    <3>1. j - d \in i .. k - 1 /\ j - d \in Nat \ {0} /\ (j - d) + d = j
      BY <1>1, <1>2
    <3> QED
      BY <1>1, <3>1
  <2> QED
    BY <1>1, <2>1, <2>2
<1>4. ASSUME Zero \notin set
      PROVE  After(text, i + d, set) = After(s, i, set) + d
  <2> DEFINE k == After(s, i, set)
  <2>1. EndsAt(s, i, set, k)
    BY <1>1, <1>2, <1>4, AfterEnds DEF l
  <2> HIDE DEF k
  <2>2. k \in i .. l /\ At(s, k) \notin set /\ \A j \in i .. k - 1 : At(s, j) \in set
    BY <2>1 DEF EndsAt, l
  <2>3. EndsAt(text, i + d, set, k + d)
    BY <1>2, <1>3, <2>2 DEF EndsAt
  <2> QED
    BY <1>2, <1>4, <2>3, AfterEnds DEF k
<1>5. Find(text, i + d, set) = Find(s, i, set) + d
  <2> DEFINE k == Find(s, i, set)
  <2>1. FoundAt(s, i, set, k)
    BY <1>1, <1>2, FindFinds DEF l
  <2> HIDE DEF k
  <2>2. /\ k \in i .. l /\ At(s, k) \in set \cup {Zero}
        /\ \A j \in i .. k - 1 : At(s, j) \notin set \cup {Zero}
    BY <2>1 DEF FoundAt, l
  <2>3. FoundAt(text, i + d, set, k + d)
    BY <1>2, <1>3, <2>2 DEF FoundAt
  <2> QED
    BY <1>2, <2>3, FindFinds DEF k
<1> QED
  BY <1>4, <1>5 DEF s

\* So does SkipWhite.
LEMMA BehindSkip ==
    ASSUME NEW S, NEW text \in Seq(S), NEW d \in 0 .. Len(text),
           NEW i \in 1 .. Len(text) - d + 1
    PROVE  SkipWhite(text, i + d) = SkipWhite(Behind(text, d), i) + d
<1> DEFINE s == Behind(text, d)
           l == Len(s) + 1
           D == 1 .. l
           rank == [j \in D |-> l - j]
           T == {j \in D : SkipWhite(text, j + d) = SkipWhite(s, j) + d}
<1>1. /\ s \in Seq(S) /\ Len(s) = Len(text) - d
      /\ \A j \in Nat \ {0} : At(s, j) = At(text, j + d)
      /\ d \in Nat /\ Len(text) \in Nat
  BY BehindAt
<1> HIDE DEF s
<1>2. l \in Nat /\ i \in D /\ Len(text) + 1 = l + d /\ l = Len(text) - d + 1
  BY <1>1
<1>3. \A j \in D : rank[j] \in Nat
  BY <1>2
<1>4. Zero \notin Blanks
  BY DEF Zero, Blanks, Space, NewLine
<1>5. ASSUME NEW j \in D, \A n \in D : rank[n] < rank[j] => n \in T
      PROVE  j \in T
  <2> DEFINE k == After(s, j, Blanks)
             n == Find(s, k, {NewLine})
             kt == After(text, j + d, Blanks)
             nt == Find(text, kt, {NewLine})
  <2>1. /\ EndsAt(s, j, Blanks, k)
        /\ IF IsComment(s, k)
           THEN /\ FoundAt(s, k, {NewLine}, n) /\ n > k
                /\ SkipWhite(s, j) = SkipWhite(s, n)
           ELSE SkipWhite(s, j) = k
    BY <1>1, SkipWhiteStep
  <2>2. k \in j .. l
    BY <2>1 DEF EndsAt
  <2> HIDE DEF l
  <2>3. j + d \in 1 .. Len(text) + 1
    BY <1>1, <1>2
  <2>4. IF IsComment(text, kt)
        THEN SkipWhite(text, j + d) = SkipWhite(text, nt)
        ELSE SkipWhite(text, j + d) = kt
    BY <2>3, SkipWhiteStep
  <2>5. j \in 1 .. Len(text) - d + 1
    BY <1>2
  <2>6. kt = k + d
    BY <1>4, <2>5, BehindScan DEF s
  <2> HIDE DEF k, kt
  <2>7. k \in 1 .. Len(text) - d + 1 /\ k \in Nat \ {0} /\ k + 1 \in Nat \ {0} /\ (k + 1) + d = (k + d) + 1
    BY <1>1, <1>2, <2>2
  <2>8. nt = n + d
    BY <2>6, <2>7, BehindScan DEF s
  <2>9. IsComment(text, kt) <=> IsComment(s, k)
    <3>1. At(s, k) = At(text, k + d) /\ At(s, k + 1) = At(text, (k + d) + 1)
      BY <1>1, <2>7
    <3> QED
      BY <2>6, <3>1 DEF IsComment
  <2> HIDE DEF n, nt
  <2>10. CASE ~IsComment(s, k)
    BY <2>1, <2>4, <2>6, <2>9, <2>10
  <2>11. CASE IsComment(s, k)
    <3>1. n \in k .. l /\ n > k
      BY <2>1, <2>11 DEF FoundAt, l
    <3>2. n \in D /\ rank[n] < rank[j]
      BY <1>2, <2>2, <3>1
    <3>3. SkipWhite(text, n + d) = SkipWhite(s, n) + d
      BY <1>5, <3>2
    <3> QED
      BY <2>1, <2>4, <2>8, <2>9, <2>11, <3>3
  <2> QED
    BY <2>10, <2>11
<1> HIDE DEF D, T, rank
<1>6. D \subseteq T
  BY <1>3, <1>5, Descent
<1> QED
  BY <1>2, <1>6 DEF T, s

\* The quoted text at i is what lies from p to q, and n is where it is closed.
QuotedAt(text, i, p, n, q) ==
    At(text, i) = Quote /\ p = i + 1 /\ n = Find(text, p, {Quote}) /\ q = n - 1

\* It is read without its quotes.
ReadsQuoted(text, i, p, n, q) ==
    /\ COM_Parse(text, i).token = SubSeq(text, p, q)
    /\ COM_Parse(text, i).next = n + 1
    /\ At(text, n) = Zero => COM_Parse(text, i).over = TRUE
    /\ At(text, n) # Zero => COM_Parse(text, i).over = FALSE

\* The parts of a quoted token.
LEMMA QuotedToken ==
    ASSUME NEW text, NEW i, NEW p, NEW n, NEW q, QuotedAt(text, i, p, n, q)
    PROVE  ReadsQuoted(text, i, p, n, q)
<1>1. COM_Parse(text, i) =
         [token |-> SubSeq(text, p, q), next |-> n + 1, over |-> At(text, n) = Zero]
  BY DEF COM_Parse, QuotedAt
<1> DEFINE token == SubSeq(text, p, q)
           next == n + 1
<1>2. CASE At(text, n) = Zero
  <2>1. COM_Parse(text, i) = [token |-> token, next |-> next, over |-> TRUE]
    BY <1>1, <1>2
  <2> HIDE DEF token, next
  <2>2. /\ COM_Parse(text, i).token = token /\ COM_Parse(text, i).next = next
        /\ COM_Parse(text, i).over = TRUE
    BY ONLY <2>1
  <2> QED
    BY <1>2, <2>2 DEF token, next, ReadsQuoted
<1>3. CASE At(text, n) # Zero
  <2>1. COM_Parse(text, i) = [token |-> token, next |-> next, over |-> FALSE]
    BY <1>1, <1>3
  <2> HIDE DEF token, next
  <2>2. /\ COM_Parse(text, i).token = token /\ COM_Parse(text, i).next = next
        /\ COM_Parse(text, i).over = FALSE
    BY ONLY <2>1
  <2> QED
    BY <1>3, <2>2 DEF token, next, ReadsQuoted
<1> QED
  BY <1>2, <1>3

\* The parts of a word.
LEMMA WordToken ==
    ASSUME NEW text, NEW i, At(text, i) # Quote,
           NEW n, n = Find(text, i, {Space, NewLine}), NEW q, q = n - 1,
           NEW token, token = SubSeq(text, i, q)
    PROVE  /\ COM_Parse(text, i).token = token /\ COM_Parse(text, i).next = n
           /\ COM_Parse(text, i).over = FALSE
<1>1. COM_Parse(text, i) = [token |-> SubSeq(text, i, q), next |-> n, over |-> FALSE]
  BY DEF COM_Parse, WordEnd
<1>2. COM_Parse(text, i) = [token |-> token, next |-> n, over |-> FALSE]
  BY <1>1
<1> QED
  BY ONLY <1>2

\* So the same token is found, in the same way.
LEMMA BehindToken ==
    ASSUME NEW S, NEW text \in Seq(S), NEW d \in 0 .. Len(text),
           NEW i \in 1 .. Len(text) - d + 1
    PROVE  LET s == Behind(text, d)
           IN  /\ From(text, i + d) = From(s, i) + d
               /\ At(text, From(text, i + d)) = At(s, From(s, i))
               /\ At(text, TokenAt(text, i + d)) = At(s, TokenAt(s, i))
               /\ HasToken(s, i) =>
                     /\ TokenOf(text, i + d).token = TokenOf(s, i).token
                     /\ TokenOf(text, i + d).over = TokenOf(s, i).over
                     /\ TokenOf(text, i + d).next = TokenOf(s, i).next + d
<1> DEFINE s == Behind(text, d)
           l == Len(text) - d + 1
           j == From(s, i)
           k == TokenAt(s, i)
<1>1. /\ s \in Seq(S) /\ Len(s) = Len(text) - d
      /\ \A m \in Nat \ {0} : At(s, m) = At(text, m + d)
      /\ d \in Nat /\ Len(text) \in Nat
  BY BehindAt
<1> HIDE DEF s
<1>2. l \in Nat /\ l = Len(s) + 1
  BY <1>1
<1>3. /\ j \in i .. l /\ k \in j .. l /\ At(s, k) \notin Blanks
  BY <1>1, <1>2, TokenFacts
<1>4. From(text, i + d) = j + d
  <2>1. Zero \notin {Space}
    BY DEF Zero, Space
  <2> QED
    BY <2>1, BehindScan DEF From, s
<1> HIDE DEF j, l
<1>5. i \in 1 .. l /\ j \in 1 .. l /\ k \in 1 .. l /\ j \in Nat \ {0}
  BY <1>2, <1>3 DEF l
<1>6. TokenAt(text, i + d) = k + d
  BY <1>4, <1>5, BehindSkip DEF TokenAt, j, l, s
<1> HIDE DEF k
<1>7. k \in Nat \ {0}
  BY <1>5
<1>8. At(text, j + d) = At(s, j) /\ At(text, k + d) = At(s, k)
  BY <1>1, <1>5, <1>7
<1>9. ASSUME HasToken(s, i)
      PROVE  /\ COM_Parse(text, k + d).token = COM_Parse(s, k).token
             /\ COM_Parse(text, k + d).over = COM_Parse(s, k).over
             /\ COM_Parse(text, k + d).next = COM_Parse(s, k).next + d
  <2>1. At(s, k) # Zero
    BY <1>9 DEF HasToken, k
  <2>2. At(s, l) = Zero
    BY <1>1, <1>2, AtEnd
  <2>3. CASE At(s, k) = Quote
    <3> DEFINE p == k + 1
               n == Find(s, p, {Quote})
    <3>1. p \in 1 .. l
      BY <1>2, <1>5, <2>1, <2>2, <2>3
    <3> HIDE DEF p
    <3>2. FoundAt(s, p, {Quote}, n)
      BY <1>1, <1>2, <3>1, FindFinds
    <3>3. Find(text, p + d, {Quote}) = n + d
      BY <3>1, BehindScan DEF l, s
    <3>4. n \in 1 .. l /\ n \in Nat \ {0}
      BY <1>2, <3>1, <3>2 DEF FoundAt
    <3> HIDE DEF n
    <3> DEFINE kt == k + d
               pt == p + d
               nt == n + d
               q == n - 1
               qt == nt - 1
    <3>5. SubSeq(s, p, q) = SubSeq(text, pt, qt)
      BY <3>1, <3>4, BehindPart DEF l, s
    <3>6. pt = kt + 1 /\ nt + 1 = (n + 1) + d
      BY <1>1, <1>5, <3>4 DEF p
    <3>7. At(text, nt) = At(s, n) /\ At(text, kt) = Quote
      BY <1>1, <1>8, <2>3, <3>4
    <3>8. nt = Find(text, pt, {Quote}) /\ qt = nt - 1 /\ q = n - 1
      BY <3>3
    <3> HIDE DEF kt, pt, nt, q, qt
    <3>9. /\ COM_Parse(text, kt).token = SubSeq(text, pt, qt)
          /\ COM_Parse(text, kt).next = nt + 1
          /\ At(text, nt) = Zero => COM_Parse(text, kt).over = TRUE
          /\ At(text, nt) # Zero => COM_Parse(text, kt).over = FALSE
      <4>1. QuotedAt(text, kt, pt, nt, qt)
        BY ONLY <3>6, <3>7, <3>8 DEF QuotedAt
      <4>2. ReadsQuoted(text, kt, pt, nt, qt)
        BY ONLY <4>1, QuotedToken
      <4> QED
        BY ONLY <4>2 DEF ReadsQuoted
    <3>10. /\ COM_Parse(s, k).token = SubSeq(s, p, q)
           /\ COM_Parse(s, k).next = n + 1
           /\ At(s, n) = Zero => COM_Parse(s, k).over = TRUE
           /\ At(s, n) # Zero => COM_Parse(s, k).over = FALSE
      <4>1. p = k + 1 /\ n = Find(s, p, {Quote})
        BY DEF p, n
      <4>2. QuotedAt(s, k, p, n, q)
        BY ONLY <2>3, <3>8, <4>1 DEF QuotedAt
      <4>3. ReadsQuoted(s, k, p, n, q)
        BY ONLY <4>2, QuotedToken
      <4> QED
        BY ONLY <4>3 DEF ReadsQuoted
    <3>11. COM_Parse(text, kt).token = COM_Parse(s, k).token
      BY <3>5, <3>9, <3>10
    <3>12. COM_Parse(text, kt).over = COM_Parse(s, k).over
      BY <3>7, <3>9, <3>10
    <3>13. COM_Parse(text, kt).next = COM_Parse(s, k).next + d
      BY <3>6, <3>9, <3>10
    <3> QED
      BY <3>11, <3>12, <3>13 DEF kt
  <2>4. CASE At(s, k) # Quote
    <3> DEFINE n == Find(s, k, {Space, NewLine})
    <3>1. FoundAt(s, k, {Space, NewLine}, n)
      BY <1>1, <1>2, <1>5, FindFinds
    <3>2. Find(text, k + d, {Space, NewLine}) = n + d
      BY <1>5, BehindScan DEF l, s
    <3>3. n \in 1 .. l /\ n \in Nat \ {0}
      BY <1>2, <1>5, <3>1 DEF FoundAt
    <3> HIDE DEF n
    <3> DEFINE kt == k + d
               nt == n + d
               q == n - 1
               qt == nt - 1
    <3>4. SubSeq(s, k, q) = SubSeq(text, kt, qt)
      BY <1>5, <3>3, BehindPart DEF l, s
    <3>5. nt = Find(text, kt, {Space, NewLine}) /\ qt = nt - 1 /\ q = n - 1
      BY <3>2
    <3>6. At(text, kt) # Quote
      BY <1>8, <2>4
    <3>7. nt = n + d
      OBVIOUS
    <3> DEFINE token == SubSeq(s, k, q)
    <3>8. token = SubSeq(text, kt, qt)
      BY <3>4
    <3> HIDE DEF kt, nt, q, qt, token
    <3>9. /\ COM_Parse(text, kt).token = token
          /\ COM_Parse(text, kt).next = nt
          /\ COM_Parse(text, kt).over = FALSE
      BY <3>5, <3>6, <3>8, WordToken
    <3>10. n = Find(s, k, {Space, NewLine}) /\ token = SubSeq(s, k, q)
      BY DEF n, token
    <3>11. /\ COM_Parse(s, k).token = token
           /\ COM_Parse(s, k).next = n
           /\ COM_Parse(s, k).over = FALSE
      BY <2>4, <3>5, <3>10, WordToken
    <3> QED
      BY <3>7, <3>9, <3>11 DEF kt
  <2> QED
    BY <2>3, <2>4
<1>10. HasToken(s, i) =>
          /\ TokenOf(text, i + d).token = TokenOf(s, i).token
          /\ TokenOf(text, i + d).over = TokenOf(s, i).over
          /\ TokenOf(text, i + d).next = TokenOf(s, i).next + d
  BY <1>6, <1>9 DEF TokenOf, k
<1> QED
  BY <1>4, <1>6, <1>8, <1>10 DEF s, j, k

\* A reading where there is no token keeps nothing; one whose token is not
\* closed shows it.
Stops(text, i, argc, r) ==
    /\ ~HasToken(text, i) => r.argv = <<>> /\ ~r.over
    /\ At(text, From(text, i)) \in {NewLine, Zero} => r.args = 0
    /\ At(text, From(text, i)) \notin {NewLine, Zero} /\ ~HasToken(text, i) =>
          r.args = IF TakesArgs(argc) THEN From(text, i) ELSE 0
    /\ HasToken(text, i) /\ TokenOf(text, i).over => r.over

\* Every reading does so.
LEMMA ReadingStops ==
    ASSUME NEW text, NEW i, NEW argc, NEW later
    PROVE  Stops(text, i, argc, Reading(text, i, argc, later))
<1> DEFINE args == IF TakesArgs(argc) THEN From(text, i) ELSE 0
           kept == IF argc < MaxArgs THEN <<TokenOf(text, i).token>> ELSE <<>>
<1>1. CASE At(text, From(text, i)) \in {NewLine, Zero}
  <2>1. Reading(text, i, argc, later) = [argv |-> <<>>, args |-> 0, over |-> FALSE]
    BY <1>1 DEF Reading
  <2> QED
    BY <1>1, <2>1 DEF HasToken, Stops
<1>2. CASE At(text, From(text, i)) \notin {NewLine, Zero} /\ At(text, TokenAt(text, i)) = Zero
  <2>1. Reading(text, i, argc, later) = [argv |-> <<>>, args |-> args, over |-> FALSE]
    BY <1>2 DEF Reading
  <2> HIDE DEF args
  <2>2. /\ Reading(text, i, argc, later).argv = <<>>
        /\ Reading(text, i, argc, later).args = args
        /\ Reading(text, i, argc, later).over = FALSE
    BY ONLY <2>1
  <2> QED
    BY <1>2, <2>2 DEF HasToken, args, Stops
<1>3. CASE HasToken(text, i)
  <2>1. TokenOf(text, i).over =>
          Reading(text, i, argc, later) = [argv |-> kept, args |-> args, over |-> TRUE]
    BY <1>3 DEF Reading, HasToken
  <2> HIDE DEF args, kept
  <2>2. TokenOf(text, i).over => Reading(text, i, argc, later).over = TRUE
    BY <2>1
  <2> QED
    BY <1>3, <2>2 DEF HasToken, Stops
<1> QED
  BY <1>1, <1>2, <1>3 DEF HasToken

\* The readings of every position.
ReadsAll(S, text, rest) ==
    \A i \in 1 .. Len(text) + 1 :
        /\ rest[i] \in Readings(S, Len(text))
        /\ \A argc \in 0 .. MaxArgs :
              rest[i][argc] = Reading(text, i, argc, rest[TokenOf(text, i).next])

\* A reading that keeps its token is the token and the reading behind it.
Keeps(S, text, rest, i, argc) ==
    LET token == TokenOf(text, i).token
        n == TokenOf(text, i).next
        r == rest[n][argc + 1]
    IN  /\ n \in i + 1 .. Len(text) + 1 /\ argc + 1 \in 0 .. MaxArgs
        /\ token \in Seq(S)
        /\ r.argv \in Seq(Seq(S)) /\ r.args \in 0 .. Len(text) /\ r.over \in BOOLEAN
        /\ rest[i][argc].argv = <<token>> \o r.argv
        /\ rest[i][argc].over = r.over
        /\ rest[i][argc].args = IF TakesArgs(argc) THEN From(text, i) ELSE r.args

\* So it is where the reader goes on and there is room for the token.
LEMMA ReadingKeeps ==
    ASSUME NEW S, NEW text \in Seq(S), NEW rest, ReadsAll(S, text, rest),
           NEW i \in 1 .. Len(text) + 1, NEW argc \in 0 .. MaxArgs - 1, ReadsOn(text, i)
    PROVE  Keeps(S, text, rest, i, argc)
<1> DEFINE token == TokenOf(text, i).token
           n == TokenOf(text, i).next
           r == rest[n][argc + 1]
           from == From(text, i)
           args == IF TakesArgs(argc) THEN from ELSE 0
           l == Len(text) + 1
<1>1. MaxArgs \in Nat /\ argc \in Nat /\ argc < MaxArgs /\ argc + 1 \in 0 .. MaxArgs
  BY ConsoleTextAssumption
<1>2. n \in i + 1 .. Len(text) + 1 /\ token \in Seq(S) /\ from \in 1 .. Len(text)
  BY TokenFacts DEF ReadsOn, HasToken
<1>3. n \in 1 .. l
  BY <1>2
<1> HIDE DEF l, n
<1>4. r \in [argv : Seq(Seq(S)), args : 0 .. Len(text), over : BOOLEAN]
  <2>1. rest[n] \in Readings(S, Len(text))
    BY <1>3 DEF ReadsAll, l
  <2> QED
    BY <1>1, <2>1 DEF Readings
<1>5. rest[i][argc] = [argv |-> <<token>> \o r.argv,
                       args |-> IF args # 0 THEN args ELSE r.args, over |-> r.over]
  <2> DEFINE kept == IF argc < MaxArgs THEN <<token>> ELSE <<>>
  <2>1. rest[i][argc] = Reading(text, i, argc, rest[n])
    BY <1>1 DEF ReadsAll, n
  <2>2. rest[i][argc] =
           [argv |-> kept \o rest[n][argc + Len(kept)].argv,
            args |-> IF args # 0 THEN args ELSE rest[n][argc + Len(kept)].args,
            over |-> rest[n][argc + Len(kept)].over]
    <3>1. Reading(text, i, argc, rest[n]) =
             [argv |-> kept \o rest[n][argc + Len(kept)].argv,
              args |-> IF args # 0 THEN args ELSE rest[n][argc + Len(kept)].args,
              over |-> rest[n][argc + Len(kept)].over]
      <4>1. Reading(text, i, argc, rest[n]) = Continued(text, i, argc, rest[n])
        BY ONLY ReadsOn(text, i), ReadingGoesOn
      <4> QED
        BY ONLY <4>1 DEF Continued
    <3> QED
      BY ONLY <2>1, <3>1, Zenon
  <2>3. kept = <<token>> /\ Len(kept) = 1
    BY <1>1
  <2> HIDE DEF kept, token, args
  <2> QED
    BY <2>2, <2>3
<1> HIDE DEF token, r, from
<1>6. (IF args # 0 THEN args ELSE r.args) = IF TakesArgs(argc) THEN from ELSE r.args
  BY <1>2
<1> DEFINE argv == <<token>> \o r.argv
           where == IF args # 0 THEN args ELSE r.args
           over == r.over
<1>7. rest[i][argc] = [argv |-> argv, args |-> where, over |-> over]
  BY <1>5
<1>8. over \in BOOLEAN
  BY <1>4
<1> HIDE DEF argv, where, over
<1>9. rest[i][argc].argv = argv /\ rest[i][argc].args = where
  BY <1>7
<1>10. rest[i][argc].over = over
  <2>1. CASE over = TRUE
    BY <1>7, <2>1
  <2>2. CASE over = FALSE
    BY <1>7, <2>2
  <2> QED
    BY <1>8, <2>1, <2>2
<1>11. r.argv \in Seq(Seq(S)) /\ r.args \in 0 .. Len(text) /\ r.over \in BOOLEAN
  BY <1>4
<1> QED
  BY <1>1, <1>2, <1>6, <1>9, <1>10, <1>11 DEF Keeps, token, r, from, argv, where, over, n

\* What is read of the text behind its first d characters is what is read of
\* the text from there, where there is room for the tokens.
LEMMA BehindReadings ==
    ASSUME NEW S, NEW text \in Seq(S), NEW d \in 0 .. Len(text),
           NEW rt, ReadsAll(S, text, rt), NEW rs, ReadsAll(S, Behind(text, d), rs),
           NEW i \in 1 .. Len(text) - d + 1, NEW c \in 0 .. MaxArgs - 1,
           NEW p, p = i + d, NEW q, q = c + 1,
           ~rt[p][q].over, q + Len(rt[p][q].argv) < MaxArgs
    PROVE  rs[i][c].argv = rt[p][q].argv
<1> DEFINE s == Behind(text, d)
           l == Len(text) - d + 1
           D == 1 .. l
           rank == [j \in D |-> l - j]
           Fits(j, a) == /\ ~rt[j + d][a + 1].over
                         /\ a + 1 + Len(rt[j + d][a + 1].argv) < MaxArgs
           Alike(j, a) == rs[j][a].argv = rt[j + d][a + 1].argv
           T == {j \in D : \A a \in 0 .. MaxArgs - 1 : Fits(j, a) => Alike(j, a)}
<1>1. s \in Seq(S) /\ Len(s) = Len(text) - d /\ d \in Nat /\ Len(text) \in Nat
  <2>1. text \in Seq(S) /\ d \in 0 .. Len(text)
    OBVIOUS
  <2>2. Len(text) \in Nat
    BY ONLY <2>1
  <2>3. Behind(text, d) \in Seq(S) /\ Len(Behind(text, d)) = Len(text) - d
    BY ONLY <2>1, BehindAt
  <2> QED
    BY ONLY <2>1, <2>2, <2>3 DEF s
<1> HIDE DEF s
<1>2. l \in Nat /\ i \in D /\ l = Len(s) + 1
  BY <1>1
<1>3. \A j \in D : rank[j] \in Nat
  BY <1>2
<1>4. MaxArgs \in Nat
  BY ConsoleTextAssumption
<1>5. ASSUME NEW j \in D
      PROVE  /\ j \in 1 .. Len(s) + 1 /\ j + d \in 1 .. Len(text) + 1
             /\ At(text, From(text, j + d)) = At(s, From(s, j))
             /\ At(text, TokenAt(text, j + d)) = At(s, TokenAt(s, j))
             /\ HasToken(s, j) =>
                   /\ TokenOf(text, j + d).token = TokenOf(s, j).token
                   /\ TokenOf(text, j + d).over = TokenOf(s, j).over
                   /\ TokenOf(text, j + d).next = TokenOf(s, j).next + d
             /\ HasToken(text, j + d) <=> HasToken(s, j)
  <2>1. j \in 1 .. Len(text) - d + 1
    OBVIOUS
  <2>2. /\ At(text, From(text, j + d)) = At(s, From(s, j))
        /\ At(text, TokenAt(text, j + d)) = At(s, TokenAt(s, j))
        /\ HasToken(s, j) =>
              /\ TokenOf(text, j + d).token = TokenOf(s, j).token
              /\ TokenOf(text, j + d).over = TokenOf(s, j).over
              /\ TokenOf(text, j + d).next = TokenOf(s, j).next + d
    BY <2>1, BehindToken DEF s
  <2>3. HasToken(text, j + d) <=> HasToken(s, j)
    BY <2>2 DEF HasToken
  <2>4. j \in 1 .. Len(s) + 1 /\ j + d \in 1 .. Len(text) + 1
    BY <1>1
  <2> QED
    BY <2>2, <2>3, <2>4
<1>6. ASSUME NEW j \in D, \A n \in D : rank[n] < rank[j] => n \in T,
             NEW a \in 0 .. MaxArgs - 1, Fits(j, a)
      PROVE  Alike(j, a)
  <2> DEFINE jd == j + d
             a1 == a + 1
  <2>1. a \in Nat /\ a \in 0 .. MaxArgs /\ a1 \in 0 .. MaxArgs
    BY <1>4
  <2>2. j \in 1 .. Len(s) + 1 /\ jd \in 1 .. Len(text) + 1
    BY <1>5
  <2> HIDE DEF jd, a1
  <2>3. rs[j][a] = Reading(s, j, a, rs[TokenOf(s, j).next])
    BY <2>1, <2>2 DEF ReadsAll, s
  <2>4. rt[jd][a1] = Reading(text, jd, a1, rt[TokenOf(text, jd).next])
    BY <2>1, <2>2 DEF ReadsAll
  <2>5. /\ HasToken(text, jd) <=> HasToken(s, j)
        /\ HasToken(s, j) =>
                   /\ TokenOf(text, jd).token = TokenOf(s, j).token
                   /\ TokenOf(text, jd).over = TokenOf(s, j).over
                   /\ TokenOf(text, jd).next = TokenOf(s, j).next + d
    BY <1>5 DEF jd
  <2>6. ~rt[jd][a1].over /\ a1 + Len(rt[jd][a1].argv) < MaxArgs
    BY <1>6 DEF jd, a1
  <2>7. CASE ~HasToken(s, j)
    <3>1. Stops(s, j, a, rs[j][a]) /\ Stops(text, jd, a1, rt[jd][a1])
      BY <2>3, <2>4, ReadingStops
    <3>2. rs[j][a].argv = <<>> /\ rt[jd][a1].argv = <<>>
      BY <2>5, <2>7, <3>1 DEF Stops
    <3> QED
      BY <3>2 DEF jd, a1
  <2>8. CASE HasToken(s, j) /\ TokenOf(s, j).over
    <3>1. Stops(text, jd, a1, rt[jd][a1])
      BY <2>4, ReadingStops
    <3> QED
      BY <2>5, <2>6, <2>8, <3>1 DEF Stops
  <2>9. CASE ReadsOn(s, j)
    <3> DEFINE n == TokenOf(s, j).next
               nd == n + d
               token == TokenOf(s, j).token
               x == rs[n][a1].argv
               y == rt[nd][a1 + 1].argv
    <3>1. /\ ReadsOn(text, jd) /\ nd = TokenOf(text, jd).next
          /\ token = TokenOf(text, jd).token
      BY <2>5, <2>9 DEF ReadsOn
    <3>2. n \in j + 1 .. Len(s) + 1 /\ rs[j][a].argv = <<token>> \o x
      <4>1. s \in Seq(S) /\ ReadsAll(S, s, rs)
        BY <1>1 DEF s
      <4>2. Keeps(S, s, rs, j, a)
        BY <2>2, <2>9, <4>1, ReadingKeeps
      <4> QED
        BY <4>2 DEF Keeps, a1
    <3> HIDE DEF x, y, n, nd, token
    <3>3. a1 \in 0 .. MaxArgs - 1
      <4> DEFINE kept == Len(rt[jd][a1].argv)
      <4>1. rt[jd] \in Readings(S, Len(text))
        BY <2>2 DEF ReadsAll
      <4>2. kept \in Nat
        <5>1. rt[jd][a1] \in [argv : Seq(Seq(S)), args : 0 .. Len(text), over : BOOLEAN]
          BY <2>1, <4>1 DEF Readings
        <5>2. rt[jd][a1].argv \in Seq(Seq(S))
          BY ONLY <5>1
        <5> QED
          BY ONLY <5>2
      <4>3. a1 + kept < MaxArgs
        BY <2>6
      <4> HIDE DEF kept
      <4> QED
        BY ONLY <1>4, <2>1, <4>2, <4>3
    <3>4. /\ token \in Seq(S) /\ y \in Seq(Seq(S)) /\ rt[jd][a1].argv = <<token>> \o y
          /\ rt[jd][a1].over = rt[nd][a1 + 1].over
      <4>1. Keeps(S, text, rt, jd, a1)
        BY <2>2, <3>1, <3>3, ReadingKeeps
      <4> QED
        BY <3>1, <4>1 DEF Keeps, y
    <3>5. Len(<<token>> \o y) = 1 + Len(y) /\ Len(y) \in Nat
      <4> DEFINE names == Seq(S)
      <4>1. token \in names /\ y \in Seq(names)
        BY <3>4
      <4> HIDE DEF names
      <4> QED
        BY <4>1, PushLength
    <3>6. ~rt[nd][a1 + 1].over /\ a1 + 1 + Len(y) < MaxArgs
      <4>1. ~rt[nd][a1 + 1].over
        BY <2>6, <3>4
      <4>2. a1 + (1 + Len(y)) < MaxArgs
        BY <2>6, <3>4, <3>5
      <4> QED
        BY <2>1, <3>5, <4>1, <4>2
    <3>7. Fits(n, a1)
      BY <3>6 DEF y, nd
    <3>8. n \in D /\ rank[n] < rank[j]
      BY <1>1, <1>2, <3>2
    <3>9. Alike(n, a1)
      <4>1. n \in T
        BY <1>6, <3>8
      <4> QED
        BY <3>3, <3>7, <4>1
    <3>10. x = y
      BY <3>9 DEF x, y, nd
    <3> QED
      BY <3>2, <3>4, <3>10 DEF jd, a1
  <2> QED
    BY <2>7, <2>8, <2>9 DEF ReadsOn
<1>7. ASSUME NEW j \in D, \A n \in D : rank[n] < rank[j] => n \in T
      PROVE  j \in T
  BY <1>6, <1>7
<1> HIDE DEF D, T, rank
<1>8. D \subseteq T
  BY <1>3, <1>7, Descent
<1>9. i \in T /\ Fits(i, c)
  BY <1>2, <1>8
<1> QED
  BY <1>9 DEF T

\* cmd_args leads to the text of the tokens after the first one; where it is
\* NULL there are none.
LEMMA ArgsLead ==
    ASSUME NEW S, NEW text \in Seq(S), ~Tokens(text).over, Len(Tokens(text).argv) < MaxArgs
    PROVE  LET t == Tokens(text)
           IN  IF t.args = 0
               THEN Len(t.argv) < 2
               ELSE Tokens(SubSeq(text, t.args, Len(text))).argv = Tail(t.argv)
<1> DEFINE t == Tokens(text)
           l == Len(text) + 1
<1>1. PICK rt : t = rt[1][0] /\ ReadsAll(S, text, rt)
  BY TokensComputes DEF ReadsAll
<1>2. MaxArgs \in Nat /\ MaxArgs > 1 /\ l \in Nat /\ 1 \in 1 .. l
  BY ConsoleTextAssumption
<1>3. ~t.over /\ Len(t.argv) < MaxArgs
  OBVIOUS
<1> HIDE DEF t
<1>4. 0 \in 0 .. MaxArgs - 1 /\ 0 \in 0 .. MaxArgs /\ 1 \in 0 .. MaxArgs - 1 /\ 1 \in 0 .. MaxArgs
  BY <1>2
<1>5. TakesArgs(1) /\ ~TakesArgs(0)
  BY DEF TakesArgs
<1>6. ASSUME NEW i \in 1 .. l, NEW argc \in 0 .. MaxArgs
      PROVE  /\ rt[i][argc] = Reading(text, i, argc, rt[TokenOf(text, i).next])
             /\ Stops(text, i, argc, rt[i][argc])
  <2>1. rt[i][argc] = Reading(text, i, argc, rt[TokenOf(text, i).next])
    BY <1>1 DEF ReadsAll
  <2> QED
    BY <2>1, ReadingStops
<1>7. ASSUME NEW i \in 1 .. l, NEW argc \in 0 .. MaxArgs - 1, ReadsOn(text, i)
      PROVE  Keeps(S, text, rt, i, argc)
  BY <1>1, <1>7, ReadingKeeps
<1> HIDE DEF l
<1>8. CASE ~HasToken(text, 1)
  <2>1. Stops(text, 1, 0, t)
    BY <1>1, <1>2, <1>4, <1>6
  <2>2. t.argv = <<>> /\ t.args = 0
    BY <1>5, <1>8, <2>1 DEF Stops
  <2>3. Len(t.argv) < 2
    BY <2>2
  <2> QED
    BY <2>2, <2>3 DEF t
<1>9. CASE HasToken(text, 1) /\ TokenOf(text, 1).over
  <2>1. Stops(text, 1, 0, t)
    BY <1>1, <1>2, <1>4, <1>6
  <2> QED
    BY <1>3, <1>9, <2>1 DEF Stops
<1>10. CASE ReadsOn(text, 1)
  <2> DEFINE token == TokenOf(text, 1).token
             n == TokenOf(text, 1).next
             r == rt[n][1]
             x == r.argv
             j == From(text, n)
  <2>1. Keeps(S, text, rt, 1, 0)
    BY <1>2, <1>4, <1>7, <1>10
  <2>2. /\ n \in 1 .. l /\ token \in Seq(S) /\ x \in Seq(Seq(S))
        /\ t.argv = <<token>> \o x /\ t.over = r.over /\ t.args = r.args
    <3>1. /\ n \in 1 + 1 .. l /\ token \in Seq(S) /\ rt[n][0 + 1].argv \in Seq(Seq(S))
          /\ t.argv = <<token>> \o rt[n][0 + 1].argv
          /\ t.over = rt[n][0 + 1].over /\ t.args = rt[n][0 + 1].args
      BY <1>1, <1>5, <2>1 DEF Keeps, l
    <3>2. 0 + 1 = 1 /\ n \in 1 .. l
      BY <1>2, <3>1
    <3> HIDE DEF n, token
    <3> QED
      BY <3>1, <3>2
  <2>3. /\ Len(t.argv) = 1 + Len(x) /\ Len(x) \in Nat /\ Tail(t.argv) = x
    <3> DEFINE names == Seq(S)
    <3>1. token \in names /\ x \in Seq(names)
      BY <2>2
    <3> HIDE DEF names, token, x
    <3>2. Len(<<token>> \o x) = 1 + Len(x) /\ Len(x) \in Nat /\ Tail(<<token>> \o x) = x
      BY <3>1, PushLength
    <3> QED
      BY <2>2, <3>2
  <2>4. Stops(text, n, 1, r) /\ r = Reading(text, n, 1, rt[TokenOf(text, n).next])
    BY <1>4, <1>6, <2>2
  <2>5. j \in 1 .. l /\ EndsAt(text, n, {Space}, j) /\ (At(text, j) \notin {NewLine, Zero} => j \in 1 .. Len(text))
    <3> HIDE DEF n
    <3>1. n \in 1 .. Len(text) + 1
      BY <2>2 DEF l
    <3>2. EndsAt(text, n, {Space}, j) /\ j \in n .. Len(text) + 1
      BY <3>1, TokenFacts
    <3>3. At(text, j) \notin {NewLine, Zero} => j \in 1 .. Len(text)
      BY <3>1, TokenFacts
    <3> QED
      BY <3>1, <3>2, <3>3 DEF l
  <2> HIDE DEF n, token, r, x
  <2>6. CASE At(text, j) \in {NewLine, Zero}
    <3>1. x = <<>> /\ r.args = 0
      BY <2>4, <2>6 DEF Stops, HasToken, x
    <3>2. Len(t.argv) < 2 /\ t.args = 0
      BY <2>2, <2>3, <3>1
    <3> QED
      BY <3>2 DEF t
  <2>7. CASE At(text, j) \notin {NewLine, Zero}
    <3> DEFINE d == j - 1
               s == Behind(text, d)
    <3>1. r.args = j
      <4>1. CASE ~HasToken(text, n)
        BY <1>5, <2>4, <2>7, <4>1 DEF Stops
      <4>2. CASE HasToken(text, n) /\ TokenOf(text, n).over
        BY <1>3, <2>2, <2>4, <4>2 DEF Stops
      <4>3. CASE ReadsOn(text, n)
        <5>1. Keeps(S, text, rt, n, 1)
          BY <1>4, <1>7, <2>2, <4>3
        <5> QED
          BY <1>5, <5>1 DEF Keeps, r
      <4> QED
        BY <4>1, <4>2, <4>3 DEF ReadsOn
    <3>2. rt[j][1] = r
      <4>1. From(text, j) = j
        <5>1. At(text, j) \notin {Space}
          BY <2>5 DEF EndsAt
        <5> HIDE DEF j
        <5>2. j \in j .. l /\ \A p \in j .. j - 1 : FALSE
          BY <1>2, <2>5
        <5>3. EndsAt(text, j, {Space}, j)
          BY <5>1, <5>2 DEF EndsAt, l
        <5>4. Zero \notin {Space}
          BY DEF Zero, Space
        <5> QED
          BY <2>5, <5>3, <5>4, AfterEnds DEF From, l
      <4>2. TokenAt(text, j) = TokenAt(text, n) /\ TokenOf(text, j) = TokenOf(text, n)
        BY <4>1 DEF TokenAt, TokenOf
      <4>3. rt[j][1] = Reading(text, j, 1, rt[TokenOf(text, n).next])
        BY <1>4, <1>6, <2>5, <4>2
      <4>4. Reading(text, j, 1, rt[TokenOf(text, n).next]) = Reading(text, n, 1, rt[TokenOf(text, n).next])
        BY ONLY <4>1, <4>2, Zenon DEF Reading
      <4> QED
        BY <2>4, <4>3, <4>4
    <3> HIDE DEF j
    <3>3. /\ d \in 0 .. Len(text) /\ d + 1 = j /\ 1 \in 1 .. Len(text) - d + 1
      BY <2>5, <2>7
    <3> HIDE DEF d
    <3>4. s \in Seq(S)
      BY <3>3, BehindAt
    <3>5. PICK rs : Tokens(s) = rs[1][0] /\ ReadsAll(S, s, rs)
      <4> HIDE DEF s
      <4> QED
        BY <3>4, TokensComputes DEF ReadsAll
    <3>6. rs[1][0].argv = x
      <4>1. j = 1 + d /\ 1 = 0 + 1
        BY <3>3
      <4>2. ~rt[j][1].over /\ 1 + Len(rt[j][1].argv) < MaxArgs
        BY <1>3, <2>2, <2>3, <3>2 DEF x
      <4>3. rs[1][0].argv = rt[j][1].argv
        BY <1>1, <1>4, <3>3, <3>5, <4>1, <4>2, BehindReadings
      <4> QED
        BY <3>2, <4>3 DEF x
    <3>7. s = SubSeq(text, t.args, Len(text)) /\ t.args # 0
      <4>1. t.args = j
        BY <2>2, <3>1
      <4> HIDE DEF t
      <4> QED
        BY <2>5, <3>3, <4>1 DEF Behind
    <3>8. Tokens(s).argv = Tail(t.argv)
      BY <2>3, <3>5, <3>6
    <3> HIDE DEF s
    <3> QED
      BY <3>7, <3>8 DEF t
  <2> QED
    BY <2>6, <2>7
<1> QED
  BY <1>8, <1>9, <1>10 DEF ReadsOn
=================================================================================
