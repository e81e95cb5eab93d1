--------------------------- MODULE TagListsProofs ---------------------------
(***************************************************************************)
(* The tags of a custom resource as a list, for lists of any length and    *)
(* any order in which Go iterates its maps.  The loops over a list are     *)
(* recursive functions; what they compute is shown by induction over the   *)
(* list, with the least element of a set of natural numbers in the place   *)
(* of an induction scheme.                                                 *)
(***************************************************************************)
EXTENDS TagLists, WellFoundedInduction, SequenceTheorems, FiniteSetTheorems, TLAPS

-----------------------------------------------------------------------------
(* Induction, and functions that are defined by it.                        *)

LEMMA LeastElement ==
  ASSUME NEW S \in SUBSET Nat, S # {}
  PROVE  \E m \in S : \A k \in S : m =< k
<1> DEFINE R == OpToRel(<, Nat)
<1>1. \A k, m \in Nat : k < m => <<k, m>> \in R
  BY DEF OpToRel
<1>2. IsWellFoundedOn(R, Nat)
  BY NatLessThanWellFounded
<1> HIDE DEF R
<1>3. PICK m \in S : \A k \in S : ~(<<k, m>> \in R)
  BY <1>2, WFMin
<1>4. ASSUME NEW k \in S PROVE m =< k
  <2>1. k \in Nat /\ m \in Nat
    OBVIOUS
  <2>2. ~(k < m)
    BY <1>1, <1>3, <2>1
  <2>3. QED
    BY <2>1, <2>2
<1>5. QED
  BY <1>4

\* What holds for 0 and carries over from n to n + 1 holds up to any bound.
LEMMA CountingUp ==
  ASSUME NEW S, NEW max \in Nat, 0 \in S,
         \A n \in 1 .. max : n - 1 \in S => n \in S
  PROVE  \A n \in 0 .. max : n \in S
<1> DEFINE T == {n \in 0 .. max : n \notin S}
<1>1. SUFFICES ASSUME T # {} PROVE FALSE
  OBVIOUS
<1>2. PICK m \in T : \A k \in T : m =< k
  <2>1. T \in SUBSET Nat
    OBVIOUS
  <2> HIDE DEF T
  <2>2. QED
    BY <1>1, <2>1, LeastElement
<1>3. m \in 1 .. max /\ m - 1 \in 0 .. max /\ m - 1 \notin T
  BY <1>2
<1>4. QED
  BY <1>3

\* A value for 0 and a step from every n - 1 to n make a function.
DefinedByRecursion(X, x0, max, step) ==
  {g \in [0 .. max -> X] : g[0] = x0 /\ \A n \in 1 .. max : g[n] = step[n][g[n - 1]]}

LEMMA FunctionByRecursion ==
  ASSUME NEW X, NEW x0 \in X, NEW max \in Nat, NEW step \in [1 .. max -> [X -> X]]
  PROVE  DefinedByRecursion(X, x0, max, step) # {}
<1> DEFINE Upto(m, g) == g[0] = x0 /\ \A n \in 1 .. m : g[n] = step[n][g[n - 1]]
           S == {m \in 0 .. max : \E g \in [0 .. m -> X] : Upto(m, g)}
<1>1. 0 \in S
  <2> DEFINE h == [n \in 0 .. 0 |-> x0]
  <2>1. h \in [0 .. 0 -> X]
    OBVIOUS
  <2>2. Upto(0, h)
    OBVIOUS
  <2>3. 0 \in 0 .. max
    OBVIOUS
  <2> HIDE DEF h, Upto
  <2>4. QED
    BY <2>1, <2>2, <2>3
<1>2. ASSUME NEW m \in 1 .. max, m - 1 \in S PROVE m \in S
  <2>1. PICK g \in [0 .. m - 1 -> X] : Upto(m - 1, g)
    BY <1>2
  <2> DEFINE h == [n \in 0 .. m |-> IF n = m THEN step[m][g[m - 1]] ELSE g[n]]
  <2>2. g[m - 1] \in X /\ step[m] \in [X -> X]
    OBVIOUS
  <2>3. h \in [0 .. m -> X]
    BY <2>2
  <2>4. \A n \in 1 .. m : h[n] = step[n][h[n - 1]]
    BY <2>1
  <2>5. h[0] = x0
    BY <2>1
  <2> HIDE DEF h
  <2>6. Upto(m, h) /\ m \in 0 .. max
    BY <2>4, <2>5
  <2> HIDE DEF Upto
  <2>7. QED
    BY <2>3, <2>6
<1>3. max \in S
  <2> HIDE DEF S
  <2>1. \A n \in 0 .. max : n \in S
    BY <1>1, <1>2, CountingUp
  <2>2. QED
    BY <2>1
<1>4. QED
  BY <1>3 DEF DefinedByRecursion

-----------------------------------------------------------------------------
(* The loop of fromACKTags.                                                *)

\* What one turn of the loop makes of the keys written so far.
Turn(list, m, keys, n) ==
  IF list[n].key \notin KeysOf(m) \/ Contains(keys, list[n].key) THEN keys
  ELSE Append(keys, list[n].key)

LEMMA TurnType ==
  ASSUME NEW m \in Tags, NEW list \in Seq(Tag), NEW n \in 1 .. Len(list), NEW keys \in Seq(TagKeys)
  PROVE  Turn(list, m, keys, n) \in Seq(TagKeys)
<1>1. list[n].key \in KeysOf(m) => list[n].key \in TagKeys
  BY DEF KeysOf
<1>2. QED
  BY <1>1, AppendProperties DEF Turn

LEMMA KeysWrittenLoop ==
  ASSUME NEW m \in Tags, NEW list \in Seq(Tag)
  PROVE  \E w \in [0 .. Len(list) -> Seq(TagKeys)] :
           /\ KeysWritten(m, list) = w[Len(list)]
           /\ w[0] = <<>>
           /\ \A n \in 1 .. Len(list) : w[n] = Turn(list, m, w[n - 1], n)
<1> DEFINE len == Len(list)
           Keys == Seq(TagKeys)
           none == <<>>
           T(keys, n) == Turn(list, m, keys, n)
           Body(g) == [n \in 0 .. len |-> IF n = 0 THEN none ELSE T(g[n - 1], n)]
           step == [n \in 1 .. len |-> [keys \in Keys |-> T(keys, n)]]
           w == CHOOSE g : g = Body(g)
<1>1. len \in Nat /\ none \in Keys
  OBVIOUS
<1>2. \A n \in 1 .. len, keys \in Keys : T(keys, n) \in Keys
  BY TurnType
<1>3. KeysWritten(m, list) = w[len]
  BY DEF KeysWritten, Turn
<1> HIDE DEF len, Keys, none, T
<1>4. step \in [1 .. len -> [Keys -> Keys]]
  BY <1>2
<1>5. \E g : g = Body(g)
  <2> HIDE DEF step
  <2>1. PICK g \in [0 .. len -> Keys] :
          g[0] = none /\ \A n \in 1 .. len : g[n] = step[n][g[n - 1]]
    <3>1. DefinedByRecursion(Keys, none, len, step) # {}
      BY <1>1, <1>4, FunctionByRecursion
    <3>2. QED
      BY <3>1 DEF DefinedByRecursion
  <2>2. ASSUME NEW n \in 1 .. len PROVE g[n] = T(g[n - 1], n)
    <3>1. g[n - 1] \in Keys
      BY <1>1
    <3>2. QED
      BY <2>1, <3>1 DEF step
  <2>3. \A n \in 0 .. len : g[n] = IF n = 0 THEN none ELSE T(g[n - 1], n)
    BY <1>1, <2>1, <2>2
  <2>4. g = Body(g)
    BY <2>3
  <2>5. QED
    BY <2>4
<1>6. w = Body(w)
  BY <1>5
<1> HIDE DEF w
<1>7. w[0] = none
  BY <1>1, <1>6
<1>8. \A n \in 1 .. len : w[n] = T(w[n - 1], n)
  BY <1>1, <1>6
<1>9. \A n \in 0 .. len : w[n] \in Keys
  <2> DEFINE S == {n \in 0 .. len : w[n] \in Keys}
  <2>1. 0 \in S
    BY <1>1, <1>7
  <2>2. ASSUME NEW n \in 1 .. len, n - 1 \in S PROVE n \in S
    BY <1>1, <1>2, <1>8, <2>2
  <2> HIDE DEF S
  <2>3. \A n \in 0 .. len : n \in S
    BY <1>1, <2>1, <2>2, CountingUp
  <2>4. QED
    BY <2>3 DEF S
<1>10. w \in [0 .. len -> Keys]
  <2>1. w = [n \in 0 .. len |-> w[n]]
    BY <1>6
  <2>2. QED
    BY <1>9, <2>1
<1>11. QED
  BY <1>3, <1>7, <1>8, <1>10 DEF len, Keys, none, T

\* Some place of the list, up to n, has the key k, and no place up to it has l.
BeforeUpto(list, n, k, l) ==
  \E p \in 1 .. n : list[p].key = k /\ \A q \in 1 .. p : list[q].key # l

\* What holds after n turns: the keys are those of the first n elements that the
\* map has, in the order in which the list shows them first.
Written(m, list, keys, n) ==
  /\ keys \in Seq(TagKeys)
  /\ \A i \in 1 .. Len(keys) : keys[i] \in KeysOf(m) /\ \E p \in 1 .. n : list[p].key = keys[i]
  /\ \A p \in 1 .. n : list[p].key \in KeysOf(m) => Contains(keys, list[p].key)
  /\ \A i, j \in 1 .. Len(keys) : i < j => BeforeUpto(list, n, keys[i], keys[j])

LEMMA TurnKeepsWritten ==
  ASSUME NEW m \in Tags, NEW list \in Seq(Tag), NEW n \in 1 .. Len(list), NEW keys,
         Written(m, list, keys, n - 1)
  PROVE  Written(m, list, Turn(list, m, keys, n), n)
<1> DEFINE next == Turn(list, m, keys, n)
           k == list[n].key
<1>1. keys \in Seq(TagKeys) /\ Len(keys) \in Nat /\ n \in Nat /\ n - 1 \in Nat
  BY DEF Written
<1>2. next \in Seq(TagKeys)
  BY <1>1, TurnType
<1>3. \A i, j \in 1 .. Len(keys) : i < j => BeforeUpto(list, n, keys[i], keys[j])
  <2> SUFFICES ASSUME NEW i \in 1 .. Len(keys), NEW j \in 1 .. Len(keys), i < j
               PROVE  BeforeUpto(list, n, keys[i], keys[j])
    OBVIOUS
  <2>1. BeforeUpto(list, n - 1, keys[i], keys[j])
    BY DEF Written
  <2>2. 1 .. n - 1 \subseteq 1 .. n
    BY <1>1
  <2>3. QED
    BY <2>1, <2>2 DEF BeforeUpto
<1>4. CASE k \notin KeysOf(m) \/ Contains(keys, k)
  <2>1. next = keys
    BY <1>4 DEF Turn
  <2>2. \A i \in 1 .. Len(keys) :
          keys[i] \in KeysOf(m) /\ \E p \in 1 .. n : list[p].key = keys[i]
    BY <1>1 DEF Written
  <2>3. \A p \in 1 .. n : list[p].key \in KeysOf(m) => Contains(keys, list[p].key)
    BY <1>1, <1>4 DEF Written
  <2>4. QED
    BY <1>1, <1>3, <2>1, <2>2, <2>3 DEF Written
<1>5. CASE k \in KeysOf(m) /\ ~Contains(keys, k)
  <2>1. next = Append(keys, k) /\ k \in TagKeys
    BY <1>5 DEF Turn, KeysOf
  <2>2. /\ Len(next) = Len(keys) + 1 /\ next[Len(keys) + 1] = k
        /\ \A i \in 1 .. Len(keys) : next[i] = keys[i]
    BY <1>1, <2>1
  <2> HIDE DEF next
  <2>3. \A i \in 1 .. Len(next) : i \in 1 .. Len(keys) \/ i = Len(keys) + 1
    BY <1>1, <2>2
  <2>4. ASSUME NEW i \in 1 .. Len(next)
        PROVE  next[i] \in KeysOf(m) /\ \E p \in 1 .. n : list[p].key = next[i]
    <3>1. CASE i \in 1 .. Len(keys)
      BY <1>1, <2>2, <3>1 DEF Written
    <3>2. CASE i = Len(keys) + 1
      BY <1>1, <1>5, <2>2, <3>2
    <3>3. QED
      BY <2>3, <3>1, <3>2
  <2>5. ASSUME NEW p \in 1 .. n, list[p].key \in KeysOf(m) PROVE Contains(next, list[p].key)
    <3>1. CASE p \in 1 .. n - 1
      <4>1. PICK i \in 1 .. Len(keys) : keys[i] = list[p].key
        BY <2>5, <3>1 DEF Written, Contains
      <4>2. i \in 1 .. Len(next) /\ next[i] = list[p].key
        BY <1>1, <2>2, <4>1
      <4>3. QED
        BY <4>2 DEF Contains
    <3>2. CASE p = n
      <4>1. Len(keys) + 1 \in 1 .. Len(next) /\ next[Len(keys) + 1] = list[p].key
        BY <1>1, <2>2, <3>2
      <4>2. QED
        BY <4>1 DEF Contains
    <3>3. QED
      BY <1>1, <3>1, <3>2
  <2>6. ASSUME NEW i \in 1 .. Len(next), NEW j \in 1 .. Len(next), i < j
        PROVE  BeforeUpto(list, n, next[i], next[j])
    <3>1. i \in 1 .. Len(keys)
      BY <1>1, <2>2, <2>6
    <3>2. CASE j \in 1 .. Len(keys)
      BY <1>3, <2>2, <2>6, <3>1, <3>2
    <3>3. CASE j = Len(keys) + 1
      <4>1. PICK p \in 1 .. n - 1 : list[p].key = keys[i]
        BY <3>1 DEF Written
      <4>2. \A q \in 1 .. p : list[q].key # k
        <5>1. SUFFICES ASSUME NEW q \in 1 .. p, list[q].key = k PROVE FALSE
          OBVIOUS
        <5>2. q \in 1 .. n - 1
          BY <1>1, <4>1
        <5>3. QED
          BY <1>5, <5>1, <5>2 DEF Written
      <4>3. p \in 1 .. n /\ next[i] = keys[i] /\ next[j] = k
        BY <1>1, <2>2, <3>1, <3>3
      <4>4. QED
        BY <4>1, <4>2, <4>3 DEF BeforeUpto
    <3>4. QED
      BY <2>3, <3>2, <3>3
  <2> HIDE DEF k
  <2>7. QED
    BY <1>2, <2>4, <2>5, <2>6 DEF Written, next
<1>6. QED
  BY <1>4, <1>5

\* The keys fromACKTags writes first are the keys of the map that the list has,
\* each one once and in the order of the list.
LEMMA KeysWrittenAreTheLists ==
  ASSUME NEW m \in Tags, NEW list \in Seq(Tag)
  PROVE  Written(m, list, KeysWritten(m, list), Len(list))
<1>1. PICK w \in [0 .. Len(list) -> Seq(TagKeys)] :
        /\ KeysWritten(m, list) = w[Len(list)]
        /\ w[0] = <<>>
        /\ \A n \in 1 .. Len(list) : w[n] = Turn(list, m, w[n - 1], n)
  BY KeysWrittenLoop
<1> DEFINE S == {n \in 0 .. Len(list) : Written(m, list, w[n], n)}
<1>2. 0 \in S
  BY <1>1 DEF Written
<1>3. ASSUME NEW n \in 1 .. Len(list), n - 1 \in S PROVE n \in S
  <2>1. Written(m, list, w[n - 1], n - 1)
    BY <1>3
  <2>2. Written(m, list, w[n], n)
    BY <1>1, <2>1, TurnKeepsWritten
  <2>3. n \in 0 .. Len(list)
    OBVIOUS
  <2>4. QED
    BY <2>2, <2>3
<1>4. Len(list) \in S
  <2> HIDE DEF S
  <2>1. Len(list) \in Nat
    OBVIOUS
  <2>2. \A n \in 0 .. Len(list) : n \in S
    BY <1>2, <1>3, <2>1, CountingUp
  <2>3. QED
    BY <2>1, <2>2
<1>5. QED
  BY <1>1, <1>4

-----------------------------------------------------------------------------
(* The map of a list: for each key the value at its last place.            *)

LEMMA GreatestElement ==
  ASSUME NEW max \in Nat, NEW S \in SUBSET (1 .. max), S # {}
  PROVE  \E m \in S : \A k \in S : m >= k
<1> DEFINE T == {max - k : k \in S}
<1>1. T \in SUBSET Nat /\ T # {}
  <2>1. \A k \in S : k \in 1 .. max /\ max - k \in Nat
    OBVIOUS
  <2>2. \A t \in T : t \in Nat
    BY <2>1
  <2>3. PICK k \in S : TRUE
    OBVIOUS
  <2>4. max - k \in T
    OBVIOUS
  <2> HIDE DEF T
  <2>5. QED
    BY <2>2, <2>4
<1>2. PICK t \in T : \A u \in T : t =< u
  <2> HIDE DEF T
  <2>1. QED
    BY <1>1, LeastElement
<1>3. PICK m \in S : t = max - m
  BY <1>2
<1>4. ASSUME NEW k \in S PROVE m >= k
  <2>1. t =< max - k
    BY <1>2
  <2>2. QED
    BY <1>3, <2>1
<1>5. QED
  BY <1>4

LastOf(list, k) == SelectLastInSeq(list, LAMBDA t : t.key = k)

LEMMA LastPlace ==
  ASSUME NEW list \in Seq(Tag), NEW k \in KeysIn(list)
  PROVE  /\ LastOf(list, k) \in 1 .. Len(list)
         /\ list[LastOf(list, k)].key = k
         /\ \A i \in LastOf(list, k) + 1 .. Len(list) : list[i].key # k
<1> DEFINE I == {i \in 1 .. Len(list) : list[i].key = k}
<1>1. I # {}
  BY DEF KeysIn
<1>2. LastOf(list, k) = Max(I)
  BY <1>1 DEF LastOf, SelectLastInSeq
<1>3. Max(I) \in I /\ \A i \in I : Max(I) >= i
  <2>1. I \in SUBSET (1 .. Len(list)) /\ Len(list) \in Nat
    OBVIOUS
  <2> HIDE DEF I
  <2>2. \E n \in I : \A i \in I : n >= i
    BY <1>1, <2>1, GreatestElement
  <2>3. QED
    BY <2>2 DEF Max
<1>4. \A i \in Max(I) + 1 .. Len(list) : list[i].key # k
  <2> SUFFICES ASSUME NEW i \in Max(I) + 1 .. Len(list), list[i].key = k PROVE FALSE
    OBVIOUS
  <2>1. Max(I) \in Nat
    BY <1>3
  <2>2. i \in I /\ i > Max(I)
    BY <2>1
  <2>3. QED
    BY <1>3, <2>1, <2>2
<1>5. QED
  BY <1>2, <1>3, <1>4

LEMMA NoPlace ==
  ASSUME NEW list \in Seq(Tag), NEW k \in TagKeys \ KeysIn(list)
  PROVE  LastOf(list, k) = 0
<1>1. {i \in 1 .. Len(list) : list[i].key = k} = {}
  BY DEF KeysIn
<1>2. QED
  BY <1>1 DEF LastOf, SelectLastInSeq

LEMMA ValueOfType ==
  ASSUME NEW tag \in Tag
  PROVE  ValueOf(tag) \in TagValues /\ (tag.value # Nil => ValueOf(tag) = tag.value)
BY TagListConstants DEF ValueOf, Tag

\* What convertToOrderedACKTags makes of a list, key by key.
LEMMA ConvertedTagsByKey ==
  ASSUME NEW list \in Seq(Tag)
  PROVE  /\ ConvertedTags(list) \in Tags
         /\ KeysOf(ConvertedTags(list)) = KeysIn(list)
         /\ \A k \in TagKeys \ KeysIn(list) : ConvertedTags(list)[k] = Nil
         /\ \A k \in KeysIn(list) : ConvertedTags(list)[k] = ValueOf(list[LastOf(list, k)])
<1>1. ConvertedTags(list) = [k \in TagKeys |-> IF LastOf(list, k) = 0 THEN Nil ELSE ValueOf(list[LastOf(list, k)])]
  BY DEF ConvertedTags, LastOf
<1>2. \A k \in TagKeys \ KeysIn(list) : ConvertedTags(list)[k] = Nil
  BY <1>1, NoPlace
<1>3. \A k \in KeysIn(list) :
        /\ ConvertedTags(list)[k] = ValueOf(list[LastOf(list, k)])
        /\ ConvertedTags(list)[k] \in TagValues
  <2> SUFFICES ASSUME NEW k \in KeysIn(list)
               PROVE  /\ ConvertedTags(list)[k] = ValueOf(list[LastOf(list, k)])
                      /\ ConvertedTags(list)[k] \in TagValues
    OBVIOUS
  <2>1. LastOf(list, k) \in 1 .. Len(list)
    BY LastPlace
  <2>2. LastOf(list, k) # 0 /\ list[LastOf(list, k)] \in Tag /\ k \in TagKeys
    BY <2>1 DEF KeysIn
  <2>3. ConvertedTags(list)[k] = ValueOf(list[LastOf(list, k)])
    BY <1>1, <2>2
  <2>4. QED
    BY <2>2, <2>3, ValueOfType
<1>4. \A k \in TagKeys : ConvertedTags(list)[k] \in TagValues \cup {Nil}
  BY <1>2, <1>3
<1>5. ConvertedTags(list) \in Tags
  <2>1. ConvertedTags(list) = [k \in TagKeys |-> ConvertedTags(list)[k]]
    BY <1>1
  <2>2. QED
    BY <1>4, <2>1 DEF Tags
<1>6. KeysOf(ConvertedTags(list)) = KeysIn(list)
  <2>1. KeysIn(list) \subseteq TagKeys
    BY DEF KeysIn
  <2>2. QED
    BY <1>2, <1>3, <2>1, TagConstants DEF KeysOf
<1>7. QED
  BY <1>2, <1>3, <1>5, <1>6

\* Where a list has a key for the last time, there is the value the map has.
LEMMA ConvertedTagsAt ==
  ASSUME NEW list \in Seq(Tag), NEW p \in 1 .. Len(list), list[p].key \in TagKeys,
         \A q \in p + 1 .. Len(list) : list[q].key # list[p].key
  PROVE  ConvertedTags(list)[list[p].key] = ValueOf(list[p])
<1> DEFINE k == list[p].key
           last == LastOf(list, k)
<1>1. k \in KeysIn(list)
  BY DEF KeysIn
<1>2. /\ last \in 1 .. Len(list) /\ list[last].key = k
      /\ \A i \in last + 1 .. Len(list) : list[i].key # k
  <2> HIDE DEF k
  <2>1. QED
    BY <1>1, LastPlace
<1>3. last = p
  <2> HIDE DEF last
  <2>1. ~(last < p)
    BY <1>2
  <2>2. ~(p < last)
    BY <1>2
  <2>3. QED
    BY <1>2, <2>1, <2>2
<1>4. QED
  BY <1>1, <1>3, ConvertedTagsByKey

-----------------------------------------------------------------------------
(* The lists fromACKTags makes of a map.                                   *)

\* k is at some place of the list, and l is not at any place up to it.
Before(list, k, l) == BeforeUpto(list, Len(list), k, l)

\* A permutation of a finite set has each element exactly once.
LEMMA EachElementOnce ==
  ASSUME NEW S, IsFiniteSet(S), NEW p \in SetToSeqs(S)
  PROVE  /\ p \in Seq(S) /\ Len(p) = Cardinality(S)
         /\ \A i, j \in 1 .. Len(p) : i # j => p[i] # p[j]
         /\ \A s \in S : \E i \in 1 .. Len(p) : p[i] = s
<1> DEFINE n == Cardinality(S)
<1>1. n \in Nat
  BY FS_CardinalityType
<1>2. p \in [1 .. n -> S] /\ \A i, j \in 1 .. n : i # j => p[i] # p[j]
  BY DEF SetToSeqs
<1>3. IsFiniteSet(1 .. n) /\ Cardinality(1 .. n) = n
  BY <1>1, FS_Interval
<1>4. p \in Injection(1 .. n, S)
  BY <1>2 DEF Injection, IsInjective
<1>5. p \in Surjection(1 .. n, S)
  BY <1>3, <1>4, FS_Injection
<1> HIDE DEF n
<1>6. p \in Seq(S) /\ Len(p) = n
  BY <1>1, <1>2
<1>7. QED
  BY <1>2, <1>5, <1>6 DEF Surjection, n

LEMMA ListOfAMap ==
  ASSUME NEW m \in Tags, NEW list \in Seq(Tag), NEW res \in fromACKTags(m, list)
  PROVE  /\ res \in Seq(Tag)
         /\ \A i \in 1 .. Len(res) : res[i].key \in KeysOf(m) /\ res[i].value = m[res[i].key]
         /\ \A k \in KeysOf(m) : \E i \in 1 .. Len(res) : res[i].key = k
         /\ \A i, j \in 1 .. Len(res) :
              i < j => /\ res[i].key # res[j].key
                       /\ res[j].key \in KeysIn(list) => Before(list, res[i].key, res[j].key)
<1> DEFINE written == KeysWritten(m, list)
           rest == KeysOf(m) \ ToSet(written)
<1>1. PICK p \in SetToSeqs(rest) :
        LET keys == written \o p
        IN res = [i \in DOMAIN keys |-> [key |-> keys[i], value |-> m[keys[i]]]]
  BY DEF fromACKTags
<1>2. Written(m, list, written, Len(list)) /\ Len(list) \in Nat
  BY KeysWrittenAreTheLists
<1>3. written \in Seq(TagKeys) /\ ToSet(written) = {written[i] : i \in 1 .. Len(written)}
  BY <1>2 DEF Written, ToSet
<1>4. IsFiniteSet(rest) /\ rest \subseteq TagKeys
  <2>1. rest \subseteq TagKeys
    BY DEF KeysOf
  <2>2. QED
    BY <2>1, TagListConstants, FS_Subset
<1> HIDE DEF rest
<1>5. /\ p \in Seq(rest) /\ Len(p) \in Nat
      /\ \A i, j \in 1 .. Len(p) : i # j => p[i] # p[j]
      /\ \A s \in rest : \E i \in 1 .. Len(p) : p[i] = s
  BY <1>4, EachElementOnce
<1> HIDE DEF written
<1> DEFINE keys == written \o p
           w == Len(written)
<1>6. /\ keys \in Seq(TagKeys) /\ w \in Nat /\ Len(keys) = w + Len(p)
      /\ \A i \in 1 .. w : keys[i] = written[i]
      /\ \A i \in w + 1 .. Len(keys) : keys[i] = p[i - w]
  <2>1. p \in Seq(TagKeys)
    BY <1>4, <1>5
  <2>2. QED
    BY <1>3, <2>1
<1>7. \A i \in 1 .. Len(keys) : i \in 1 .. w \/ (i \in w + 1 .. Len(keys) /\ i - w \in 1 .. Len(p))
  BY <1>5, <1>6
<1>8. res = [i \in 1 .. Len(keys) |-> [key |-> keys[i], value |-> m[keys[i]]]]
  BY <1>1, <1>6
<1> HIDE DEF keys, w
<1>9. \A i \in 1 .. Len(keys) : keys[i] \in KeysOf(m)
  <2> SUFFICES ASSUME NEW i \in 1 .. Len(keys) PROVE keys[i] \in KeysOf(m)
    OBVIOUS
  <2>1. CASE i \in 1 .. w
    BY <1>2, <1>6, <2>1 DEF Written, w
  <2>2. CASE i \in w + 1 .. Len(keys) /\ i - w \in 1 .. Len(p)
    <3>1. p[i - w] \in rest
      BY <1>5, <2>2
    <3>2. QED
      BY <1>6, <2>2, <3>1 DEF rest
  <2>3. QED
    BY <1>7, <2>1, <2>2
<1>10. \A k \in KeysOf(m) : \E i \in 1 .. Len(keys) : keys[i] = k
  <2> SUFFICES ASSUME NEW k \in KeysOf(m) PROVE \E i \in 1 .. Len(keys) : keys[i] = k
    OBVIOUS
  <2>1. CASE k \in ToSet(written)
    <3>1. PICK i \in 1 .. w : written[i] = k
      BY <1>3, <2>1 DEF w
    <3>2. i \in 1 .. Len(keys)
      BY <1>5, <1>6
    <3>3. QED
      BY <1>6, <3>1, <3>2
  <2>2. CASE k \in rest
    <3>1. PICK i \in 1 .. Len(p) : p[i] = k
      BY <1>5, <2>2
    <3>2. i + w \in w + 1 .. Len(keys) /\ i + w \in 1 .. Len(keys) /\ (i + w) - w = i
      BY <1>5, <1>6
    <3>3. keys[i + w] = k
      BY <1>6, <3>1, <3>2
    <3>4. QED
      BY <3>2, <3>3
  <2>3. QED
    BY <2>1, <2>2 DEF rest
<1>11. \A k \in KeysOf(m) \cap KeysIn(list) : k \in ToSet(written)
  <2> SUFFICES ASSUME NEW k \in KeysOf(m), k \in KeysIn(list) PROVE k \in ToSet(written)
    OBVIOUS
  <2>1. PICK q \in 1 .. Len(list) : list[q].key = k
    BY DEF KeysIn
  <2>2. Contains(written, k)
    BY <1>2, <2>1 DEF Written
  <2>3. QED
    BY <1>3, <2>2 DEF Contains
<1>12. ASSUME NEW i \in 1 .. Len(keys), NEW j \in 1 .. Len(keys), i < j
       PROVE  keys[i] # keys[j] /\ (keys[j] \in KeysIn(list) => Before(list, keys[i], keys[j]))
  <2>1. CASE j \in 1 .. w
    <3>1. i \in 1 .. w
      BY <1>6, <1>12, <2>1
    <3>2. BeforeUpto(list, Len(list), keys[i], keys[j])
      BY <1>2, <1>6, <1>12, <2>1, <3>1 DEF Written, w
    <3>3. keys[i] # keys[j]
      BY <3>2 DEF BeforeUpto
    <3>4. QED
      BY <3>2, <3>3 DEF Before
  <2>2. CASE j \in w + 1 .. Len(keys) /\ j - w \in 1 .. Len(p)
    <3>1. keys[j] = p[j - w] /\ keys[j] \in rest
      <4>1. keys[j] = p[j - w]
        BY <1>6, <2>2
      <4>2. p[j - w] \in rest
        BY <1>5, <2>2
      <4>3. QED
        BY <4>1, <4>2
    <3>2. keys[j] \notin KeysIn(list)
      BY <1>11, <3>1 DEF rest
    <3>3. CASE i \in 1 .. w
      <4>1. keys[i] \in ToSet(written)
        BY <1>3, <1>6, <3>3 DEF w
      <4>2. QED
        BY <3>1, <3>2, <4>1 DEF rest
    <3>4. CASE i \in w + 1 .. Len(keys) /\ i - w \in 1 .. Len(p)
      <4>1. i - w # j - w /\ keys[i] = p[i - w]
        BY <1>6, <1>12, <3>4, <2>2
      <4>2. QED
        BY <1>5, <2>2, <3>1, <3>2, <3>4, <4>1
    <3>5. QED
      BY <1>7, <3>3, <3>4
  <2>3. QED
    BY <1>7, <2>1, <2>2
<1>13. Len(keys) \in Nat
  BY <1>5, <1>6
<1>14. \A i \in 1 .. Len(keys) : res[i].key = keys[i] /\ res[i].value = m[keys[i]] /\ res[i] \in Tag
  <2> SUFFICES ASSUME NEW i \in 1 .. Len(keys)
               PROVE  res[i].key = keys[i] /\ res[i].value = m[keys[i]] /\ res[i] \in Tag
    OBVIOUS
  <2>1. keys[i] \in TagKeys /\ m[keys[i]] \in TagValues \cup {Nil}
    BY <1>9 DEF KeysOf, Tags
  <2>2. QED
    BY <1>8, <2>1 DEF Tag
<1>15. res \in Seq(Tag) /\ Len(res) = Len(keys)
  <2>1. res \in [1 .. Len(keys) -> Tag]
    BY <1>8, <1>14
  <2>2. QED
    BY <1>13, <2>1
<1>16. QED
  BY <1>9, <1>10, <1>12, <1>14, <1>15

\* A list of tags as the code writes one: a key and a value in each element,
\* and no key twice.
OneTagPerKey(list) ==
  /\ \A i \in 1 .. Len(list) : list[i].key \in TagKeys /\ list[i].value # Nil
  /\ \A i, j \in 1 .. Len(list) : i < j => list[i].key # list[j].key

\* The keys of the list that the user's list has come first, in its order.
InOrder(first, list) ==
  \A i, j \in 1 .. Len(list) :
    i < j /\ list[j].key \in KeysIn(first) => Before(first, list[i].key, list[j].key)

\* The value of a list with one tag per key is in every element the map's.
LEMMA OneTagPerKeyValue ==
  ASSUME NEW list \in Seq(Tag), OneTagPerKey(list), NEW i \in 1 .. Len(list)
  PROVE  ConvertedTags(list)[list[i].key] = list[i].value
<1>1. list[i].key \in TagKeys /\ list[i].value # Nil /\ list[i] \in Tag
  BY DEF OneTagPerKey
<1>2. \A q \in i + 1 .. Len(list) : list[q].key # list[i].key
  BY DEF OneTagPerKey
<1>3. ConvertedTags(list)[list[i].key] = ValueOf(list[i])
  BY <1>1, <1>2, ConvertedTagsAt
<1>4. QED
  BY <1>1, <1>3, ValueOfType

\* A map written as a list and read again is the same map, whatever the order of
\* the keys.
LEMMA RoundTrip ==
  ASSUME NEW m \in Tags, NEW list \in Seq(Tag), NEW res \in fromACKTags(m, list)
  PROVE  /\ res \in Seq(Tag) /\ OneTagPerKey(res) /\ InOrder(list, res)
         /\ ConvertedTags(res) = m
<1>1. /\ res \in Seq(Tag)
      /\ \A i \in 1 .. Len(res) : res[i].key \in KeysOf(m) /\ res[i].value = m[res[i].key]
      /\ \A k \in KeysOf(m) : \E i \in 1 .. Len(res) : res[i].key = k
      /\ \A i, j \in 1 .. Len(res) :
           i < j => /\ res[i].key # res[j].key
                    /\ res[j].key \in KeysIn(list) => Before(list, res[i].key, res[j].key)
  BY ListOfAMap
<1>2. OneTagPerKey(res)
  BY <1>1 DEF OneTagPerKey, KeysOf
<1>3. InOrder(list, res)
  BY <1>1 DEF InOrder
<1>4. ASSUME NEW k \in TagKeys PROVE ConvertedTags(res)[k] = m[k]
  <2>1. CASE k \in KeysOf(m)
    <3>1. PICK i \in 1 .. Len(res) : res[i].key = k
      BY <1>1, <2>1
    <3>2. ConvertedTags(res)[res[i].key] = res[i].value
      BY <1>1, <1>2, <3>1, OneTagPerKeyValue
    <3>3. QED
      BY <1>1, <3>1, <3>2
  <2>2. CASE k \notin KeysOf(m)
    <3>1. k \in TagKeys \ KeysIn(res)
      BY <1>1, <2>2 DEF KeysIn
    <3>2. ConvertedTags(res)[k] = Nil
      BY <1>1, <3>1, ConvertedTagsByKey
    <3>3. QED
      BY <2>2, <3>2 DEF KeysOf
  <2>3. QED
    BY <2>1, <2>2
<1>5. ConvertedTags(res) = m
  <2>1. ConvertedTags(res) \in Tags
    BY <1>1, ConvertedTagsByKey
  <2>2. QED
    BY <1>4, <2>1 DEF Tags
<1>6. QED
  BY <1>1, <1>2, <1>3, <1>5

\* The order carries over from a list to the next one made of it, as long as the
\* list in between has every key of the first one.
LEMMA OrderCarriesOver ==
  ASSUME NEW first \in Seq(Tag), NEW list \in Seq(Tag), NEW next \in Seq(Tag),
         InOrder(first, list), InOrder(list, next), KeysIn(first) \subseteq KeysIn(list),
         OneTagPerKey(next)
  PROVE  InOrder(first, next)
<1> SUFFICES ASSUME NEW i \in 1 .. Len(next), NEW j \in 1 .. Len(next), i < j,
                    next[j].key \in KeysIn(first)
             PROVE  Before(first, next[i].key, next[j].key)
  BY DEF InOrder
<1>1. next[j].key \in KeysIn(list)
  OBVIOUS
<1>2. PICK p \in 1 .. Len(list) :
        list[p].key = next[i].key /\ \A q \in 1 .. p : list[q].key # next[j].key
  BY <1>1 DEF InOrder, Before, BeforeUpto
<1>3. PICK q \in 1 .. Len(list) : list[q].key = next[j].key
  BY <1>1, SMTT(30) DEF KeysIn
<1>4. p < q
  BY <1>2, <1>3
<1>5. Before(first, list[p].key, list[q].key)
  <2>1. list[q].key \in KeysIn(first)
    BY <1>3
  <2>2. QED
    BY <1>4, <2>1 DEF InOrder
<1>6. QED
  BY <1>2, <1>3, <1>5

-----------------------------------------------------------------------------
(* The two conversions of a list into a map.                               *)

\* What one turn of the loop of util.toACKTags makes of the map.
Put(list, m, n) ==
  IF list[n].key = Nil THEN m ELSE [m EXCEPT ![list[n].key] = ValueOf(list[n])]

LEMMA PutType ==
  ASSUME NEW list \in Seq(Tag), NEW n \in 1 .. Len(list), NEW m \in Tags
  PROVE  /\ Put(list, m, n) \in Tags
         /\ \A k \in TagKeys :
              Put(list, m, n)[k] = IF list[n].key = k THEN ValueOf(list[n]) ELSE m[k]
<1>1. list[n] \in Tag
  OBVIOUS
<1>2. list[n].key \in TagKeys \cup {Nil} /\ ValueOf(list[n]) \in TagValues
  BY <1>1, ValueOfType DEF Tag
<1>3. CASE list[n].key = Nil
  BY <1>3, TagListConstants DEF Put
<1>4. CASE list[n].key \in TagKeys
  <2>1. list[n].key # Nil
    BY <1>4, TagListConstants
  <2>2. Put(list, m, n) = [m EXCEPT ![list[n].key] = ValueOf(list[n])]
    BY <2>1 DEF Put
  <2>3. QED
    BY <1>2, <1>4, <2>2 DEF Tags
<1>5. QED
  BY <1>2, <1>3, <1>4

LEMMA ToACKTagsLoop ==
  ASSUME NEW list \in Seq(Tag)
  PROVE  \E w \in [0 .. Len(list) -> Tags] :
           /\ toACKTags(list) = w[Len(list)]
           /\ w[0] = NoTags
           /\ \A n \in 1 .. Len(list) : w[n] = Put(list, w[n - 1], n)
<1> DEFINE len == Len(list)
           P(m, n) == Put(list, m, n)
           Body(g) == [n \in 0 .. len |-> IF n = 0 THEN NoTags ELSE P(g[n - 1], n)]
           step == [n \in 1 .. len |-> [m \in Tags |-> P(m, n)]]
           w == CHOOSE g : g = Body(g)
<1>1. len \in Nat /\ NoTags \in Tags
  BY DEF NoTags, Tags
<1>2. \A n \in 1 .. len, m \in Tags : P(m, n) \in Tags
  BY PutType
<1>3. toACKTags(list) = w[len]
  BY DEF toACKTags, Put
<1> HIDE DEF len, P
<1>4. step \in [1 .. len -> [Tags -> Tags]]
  BY <1>2
<1>5. \E g : g = Body(g)
  <2> HIDE DEF step
  <2>1. PICK g \in [0 .. len -> Tags] :
          g[0] = NoTags /\ \A n \in 1 .. len : g[n] = step[n][g[n - 1]]
    <3>1. DefinedByRecursion(Tags, NoTags, len, step) # {}
      BY <1>1, <1>4, FunctionByRecursion
    <3>2. QED
      BY <3>1 DEF DefinedByRecursion
  <2>2. ASSUME NEW n \in 1 .. len PROVE g[n] = P(g[n - 1], n)
    <3>1. g[n - 1] \in Tags
      BY <1>1
    <3>2. QED
      BY <2>1, <3>1 DEF step
  <2>3. \A n \in 0 .. len : g[n] = IF n = 0 THEN NoTags ELSE P(g[n - 1], n)
    BY <1>1, <2>1, <2>2
  <2>4. g = Body(g)
    BY <2>3
  <2>5. QED
    BY <2>4
<1>6. w = Body(w)
  BY <1>5
<1> HIDE DEF w
<1>7. w[0] = NoTags
  BY <1>1, <1>6
<1>8. \A n \in 1 .. len : w[n] = P(w[n - 1], n)
  BY <1>1, <1>6
<1>9. \A n \in 0 .. len : w[n] \in Tags
  <2> DEFINE S == {n \in 0 .. len : w[n] \in Tags}
  <2>1. 0 \in S
    BY <1>1, <1>7
  <2>2. ASSUME NEW n \in 1 .. len, n - 1 \in S PROVE n \in S
    BY <1>1, <1>2, <1>8, <2>2
  <2> HIDE DEF S
  <2>3. \A n \in 0 .. len : n \in S
    BY <1>1, <2>1, <2>2, CountingUp
  <2>4. QED
    BY <2>3 DEF S
<1>10. w \in [0 .. len -> Tags]
  <2>1. w = [n \in 0 .. len |-> w[n]]
    BY <1>6
  <2>2. QED
    BY <1>9, <2>1
<1>11. QED
  BY <1>3, <1>7, <1>8, <1>10 DEF len, P

\* After n turns the map has for each key the value at its last place so far.
MappedUpto(list, m, n) ==
  /\ m \in Tags
  /\ \A k \in TagKeys :
       /\ (\A p \in 1 .. n : list[p].key # k) => m[k] = Nil
       /\ \A p \in 1 .. n :
            list[p].key = k /\ (\A q \in p + 1 .. n : list[q].key # k) => m[k] = ValueOf(list[p])

LEMMA PutKeepsMapped ==
  ASSUME NEW list \in Seq(Tag), NEW n \in 1 .. Len(list), NEW m, MappedUpto(list, m, n - 1)
  PROVE  MappedUpto(list, Put(list, m, n), n)
<1> DEFINE next == Put(list, m, n)
<1>1. m \in Tags /\ n \in Nat
  BY DEF MappedUpto
<1>2. /\ next \in Tags
      /\ \A k \in TagKeys : next[k] = IF list[n].key = k THEN ValueOf(list[n]) ELSE m[k]
  BY <1>1, PutType
<1> HIDE DEF next
<1>3. ASSUME NEW k \in TagKeys, \A p \in 1 .. n : list[p].key # k PROVE next[k] = Nil
  <2>1. n \in 1 .. n /\ 1 .. n - 1 \subseteq 1 .. n
    BY <1>1
  <2>2. next[k] = m[k]
    BY <1>2, <1>3, <2>1
  <2>3. QED
    BY <1>3, <2>1, <2>2 DEF MappedUpto
<1>4. ASSUME NEW k \in TagKeys, NEW p \in 1 .. n, list[p].key = k,
             \A q \in p + 1 .. n : list[q].key # k
      PROVE  next[k] = ValueOf(list[p])
  <2>1. CASE p = n
    BY <1>2, <1>4, <2>1
  <2>2. CASE p # n
    <3>1. p \in 1 .. n - 1 /\ n \in p + 1 .. n /\ p + 1 .. n - 1 \subseteq p + 1 .. n
      BY <1>1, <2>2
    <3>2. next[k] = m[k]
      BY <1>2, <1>4, <3>1
    <3>3. QED
      BY <1>4, <3>1, <3>2 DEF MappedUpto
  <2>3. QED
    BY <2>1, <2>2
<1>5. QED
  BY <1>2, <1>3, <1>4 DEF MappedUpto, next

\* util.toACKTags and the convertToOrderedACKTags of the generated code, written
\* separately (util/tags.go, state_machine/tags.go), make the same map of every
\* list: what the delta compares is what SyncResourceTags sends.
THEOREM ConversionsAgree ==
  \A list \in Seq(Tag) : toACKTags(list) = ConvertedTags(list)
<1> SUFFICES ASSUME NEW list \in Seq(Tag) PROVE toACKTags(list) = ConvertedTags(list)
  OBVIOUS
<1>1. PICK w \in [0 .. Len(list) -> Tags] :
        /\ toACKTags(list) = w[Len(list)]
        /\ w[0] = NoTags
        /\ \A n \in 1 .. Len(list) : w[n] = Put(list, w[n - 1], n)
  BY ToACKTagsLoop
<1> DEFINE S == {n \in 0 .. Len(list) : MappedUpto(list, w[n], n)}
<1>2. 0 \in S
  <2>1. 1 .. 0 = {} /\ 0 \in 0 .. Len(list)
    OBVIOUS
  <2>2. w[0] \in Tags /\ \A k \in TagKeys : w[0][k] = Nil
    BY <1>1, <2>1 DEF NoTags
  <2>3. QED
    BY <2>1, <2>2 DEF MappedUpto
<1>3. ASSUME NEW n \in 1 .. Len(list), n - 1 \in S PROVE n \in S
  <2>1. MappedUpto(list, w[n], n)
    BY <1>1, <1>3, PutKeepsMapped
  <2>2. n \in 0 .. Len(list)
    OBVIOUS
  <2>3. QED
    BY <2>1, <2>2
<1>4. MappedUpto(list, toACKTags(list), Len(list))
  <2> HIDE DEF S
  <2>1. Len(list) \in Nat
    OBVIOUS
  <2>2. \A n \in 0 .. Len(list) : n \in S
    BY <1>2, <1>3, <2>1, CountingUp
  <2>3. QED
    BY <1>1, <2>1, <2>2 DEF S
<1>5. ASSUME NEW k \in TagKeys PROVE toACKTags(list)[k] = ConvertedTags(list)[k]
  <2>1. CASE k \in KeysIn(list)
    <3> DEFINE last == LastOf(list, k)
    <3>1. /\ last \in 1 .. Len(list) /\ list[last].key = k
          /\ \A i \in last + 1 .. Len(list) : list[i].key # k
      BY <2>1, LastPlace
    <3> HIDE DEF last
    <3>2. toACKTags(list)[k] = ValueOf(list[last])
      BY <1>4, <3>1 DEF MappedUpto
    <3>3. QED
      BY <2>1, <3>2, ConvertedTagsByKey DEF last
  <2>2. CASE k \notin KeysIn(list)
    <3>1. \A p \in 1 .. Len(list) : list[p].key # k
      BY <2>2 DEF KeysIn
    <3>2. toACKTags(list)[k] = Nil
      BY <1>4, <3>1 DEF MappedUpto
    <3>3. QED
      BY <2>2, <3>2, ConvertedTagsByKey
  <2>3. QED
    BY <2>1, <2>2
<1>6. QED
  <2>1. toACKTags(list) \in Tags /\ ConvertedTags(list) \in Tags
    BY <1>4, ConvertedTagsByKey DEF MappedUpto
  <2>2. QED
    BY <1>5, <2>1 DEF Tags

-----------------------------------------------------------------------------
(* The pass.                                                               *)

\* What AWS shall have after the pass.
Wanted == mirrorAWSTags(EnsureTags(ConvertedTags(spec)), aws0)

TypeOK ==
  /\ spec \in Seq(Tag) /\ tags \in Seq(Tag) /\ latest \in Seq(Tag)
  /\ aws \in Tags /\ aws0 \in Tags
  /\ pc \in {"ensure", "list", "mirror", "sync", "filter", "done"}

\* The map of the pass's list, at every step of the pass ...
TagsByStep ==
  /\ pc = "ensure" => tags = spec
  /\ pc \in {"list", "mirror"} => ConvertedTags(tags) = EnsureTags(ConvertedTags(spec))
  /\ pc \in {"sync", "filter"} => ConvertedTags(tags) = Wanted
  /\ pc = "done" => ConvertedTags(tags) = FilterSystemTags(Wanted)

\* ... what was read from AWS, until it is out of date, and what AWS has ...
AWSByStep ==
  /\ pc \in {"mirror", "sync"} => ConvertedTags(latest) = aws
  /\ aws = IF pc \in {"filter", "done"} THEN Wanted ELSE aws0

\* ... and the list itself, once the controller has written it.
ListAsWritten == pc # "ensure" => OneTagPerKey(tags) /\ InOrder(spec, tags)

TagListsInv ==
  /\ TypeOK /\ KeysIn(spec) \cap AWSTagKeys = {}
  /\ TagsByStep /\ AWSByStep /\ ListAsWritten

LEMMA TagOperatorTypes ==
  ASSUME NEW a \in Tags, NEW b \in Tags
  PROVE  /\ EnsureTags(a) \in Tags /\ mirrorAWSTags(a, b) \in Tags /\ FilterSystemTags(a) \in Tags
         /\ KeysOf(a) \subseteq KeysOf(EnsureTags(a)) /\ KeysOf(a) \subseteq KeysOf(mirrorAWSTags(a, b))
<1>1. EnsureTags(a) \in Tags /\ KeysOf(a) \subseteq KeysOf(EnsureTags(a))
  BY TagConstants DEF EnsureTags, Merge, Tags, KeysOf
<1>2. mirrorAWSTags(a, b) \in Tags /\ KeysOf(a) \subseteq KeysOf(mirrorAWSTags(a, b))
  BY DEF mirrorAWSTags, syncAWSTags, Tags, KeysOf
<1>3. FilterSystemTags(a) \in Tags
  BY DEF FilterSystemTags, ignoreSystemTags, Tags
<1>4. QED
  BY <1>1, <1>2, <1>3

\* The two calls of SyncResourceTags leave in AWS what they were given.
LEMMA SyncWrites ==
  ASSUME NEW from \in Tags, NEW to \in Tags
  PROVE  /\ TagsAdded(from, to) \cup TagsRemoved(from, to) = {} => from = to
         /\ TagResource(UntagResource(from, TagsRemoved(from, to)), TagsAdded(from, to), to) = to
<1>1. ASSUME TagsAdded(from, to) \cup TagsRemoved(from, to) = {} PROVE from = to
  <2>1. \A k \in TagKeys : from[k] = to[k]
    BY <1>1 DEF TagsAdded, TagsRemoved
  <2>2. QED
    BY <2>1 DEF Tags
<1>2. TagResource(UntagResource(from, TagsRemoved(from, to)), TagsAdded(from, to), to) = to
  <2> DEFINE res == TagResource(UntagResource(from, TagsRemoved(from, to)), TagsAdded(from, to), to)
  <2>1. \A k \in TagKeys : res[k] = to[k]
    BY DEF TagResource, UntagResource, TagsAdded, TagsRemoved
  <2>2. res = [k \in TagKeys |-> res[k]]
    BY DEF TagResource
  <2> HIDE DEF res
  <2>3. QED
    BY <2>1, <2>2 DEF Tags, res
<1>3. QED
  BY <1>1, <1>2

LEMMA WantedType ==
  ASSUME TypeOK
  PROVE  /\ EnsureTags(ConvertedTags(spec)) \in Tags /\ Wanted \in Tags
         /\ KeysIn(spec) \subseteq KeysOf(EnsureTags(ConvertedTags(spec)))
         /\ KeysIn(spec) \subseteq KeysOf(Wanted)
<1>1. spec \in Seq(Tag) /\ aws0 \in Tags
  BY DEF TypeOK
<1>2. ConvertedTags(spec) \in Tags /\ KeysOf(ConvertedTags(spec)) = KeysIn(spec)
  BY <1>1, ConvertedTagsByKey
<1>3. QED
  BY <1>1, <1>2, TagOperatorTypes DEF Wanted

LEMMA TagListsInit == Init => TagListsInv
<1> SUFFICES ASSUME Init PROVE TagListsInv
  OBVIOUS
<1>1. spec \in Seq(Tag)
  <2>1. spec \in UNION {[1 .. m -> Tag] : m \in 0 .. MaxTags}
    BY DEF Init, BoundedSeq, SeqOf
  <2>2. PICK m \in 0 .. MaxTags : spec \in [1 .. m -> Tag]
    BY <2>1
  <2>3. m \in Nat
    <3>1. MaxTags \in Nat
      BY TagListConstants
    <3>2. QED
      BY <3>1
  <2> HIDE DEF Tag
  <2>4. QED
    BY <2>2, <2>3
<1>2. <<>> \in Seq(Tag)
  OBVIOUS
<1>3. TypeOK
  BY <1>1, <1>2, TagListConstants DEF Init, TypeOK
<1>4. QED
  BY <1>3 DEF Init, TagListsInv, TagsByStep, AWSByStep, ListAsWritten

\* A step that writes the pass's list from a map: the list then is that map, and
\* in the user's order if the list before it was and had all of the user's keys.
LEMMA ListIsWritten ==
  ASSUME TypeOK, NEW m \in Tags, tags' \in fromACKTags(m, tags), spec' = spec,
         tags = spec \/ (InOrder(spec, tags) /\ KeysIn(spec) \subseteq KeysIn(tags))
  PROVE  /\ tags' \in Seq(Tag) /\ ConvertedTags(tags') = m
         /\ OneTagPerKey(tags') /\ InOrder(spec, tags')
<1>1. spec \in Seq(Tag) /\ tags \in Seq(Tag)
  BY DEF TypeOK
<1>2. /\ tags' \in Seq(Tag) /\ OneTagPerKey(tags') /\ InOrder(tags, tags')
      /\ ConvertedTags(tags') = m
  BY <1>1, RoundTrip
<1>3. InOrder(spec, tags')
  BY <1>1, <1>2, OrderCarriesOver
<1>4. QED
  BY <1>2, <1>3

LEMMA TagListsStep == TagListsInv /\ [Next]_vars => TagListsInv'
<1> SUFFICES ASSUME TagListsInv, [Next]_vars PROVE TagListsInv'
  OBVIOUS
<1> USE DEF TagListsInv
<1>1. /\ TypeOK /\ EnsureTags(ConvertedTags(spec)) \in Tags /\ Wanted \in Tags
      /\ KeysIn(spec) \subseteq KeysOf(EnsureTags(ConvertedTags(spec)))
      /\ KeysIn(spec) \subseteq KeysOf(Wanted)
  BY WantedType
<1>2. /\ ConvertedTags(tags) \in Tags /\ KeysOf(ConvertedTags(tags)) = KeysIn(tags)
      /\ ConvertedTags(latest) \in Tags
  BY <1>1, ConvertedTagsByKey DEF TypeOK
<1>3. CASE Ensure
  <2>1. tags = spec /\ aws = aws0
    BY <1>3 DEF Ensure, TagsByStep, AWSByStep
  <2>2. /\ tags' \in Seq(Tag) /\ ConvertedTags(tags') = EnsureTags(ConvertedTags(spec))
        /\ OneTagPerKey(tags') /\ InOrder(spec, tags')
    BY <1>1, <1>3, <2>1, ListIsWritten DEF Ensure
  <2>3. QED
    BY <1>1, <1>3, <2>1, <2>2 DEF Ensure, TypeOK, TagsByStep, AWSByStep, ListAsWritten
<1>4. CASE GetResourceTags
  <2>1. aws = aws0
    BY <1>4 DEF GetResourceTags, AWSByStep
  <2>2. latest' \in Seq(Tag) /\ ConvertedTags(latest') = aws
    <3>1. <<>> \in Seq(Tag) /\ aws \in Tags
      BY <1>1 DEF TypeOK
    <3>2. QED
      BY <1>4, <3>1, RoundTrip DEF GetResourceTags
  <2>3. QED
    BY <1>1, <1>4, <2>1, <2>2 DEF GetResourceTags, TypeOK, TagsByStep, AWSByStep, ListAsWritten
<1>5. CASE Mirror
  <2>1. /\ ConvertedTags(tags) = EnsureTags(ConvertedTags(spec)) /\ InOrder(spec, tags)
        /\ ConvertedTags(latest) = aws0 /\ aws = aws0
    BY <1>5 DEF Mirror, TagsByStep, AWSByStep, ListAsWritten
  <2>2. tags' \in fromACKTags(Wanted, tags) /\ spec' = spec
    BY <1>5, <2>1 DEF Mirror, Wanted
  <2>3. /\ tags' \in Seq(Tag) /\ ConvertedTags(tags') = Wanted
        /\ OneTagPerKey(tags') /\ InOrder(spec, tags')
    BY <1>1, <1>2, <2>1, <2>2, ListIsWritten
  <2>4. Wanted' = Wanted
    BY <1>5 DEF Mirror, Wanted
  <2>5. QED
    BY <1>1, <1>5, <2>1, <2>3, <2>4 DEF Mirror, TypeOK, TagsByStep, AWSByStep, ListAsWritten
<1>6. CASE Sync
  <2>1. ConvertedTags(tags) = Wanted /\ ConvertedTags(latest) = aws /\ aws = aws0
    BY <1>6 DEF Sync, TagsByStep, AWSByStep
  <2>2. toACKTags(tags) = Wanted /\ toACKTags(latest) = aws /\ aws \in Tags
    BY <1>1, <2>1, ConversionsAgree DEF TypeOK
  <2>3. aws' = Wanted
    BY <1>1, <1>6, <2>1, <2>2, SyncWrites DEF Sync
  <2>4. Wanted' = Wanted /\ ConvertedTags(tags') = Wanted
    BY <1>6, <2>1 DEF Sync, Wanted
  <2>5. QED
    BY <1>1, <1>6, <2>3, <2>4 DEF Sync, TypeOK, TagsByStep, AWSByStep, ListAsWritten
<1>7. CASE Filter
  <2>1. ConvertedTags(tags) = Wanted /\ InOrder(spec, tags) /\ aws = Wanted
    BY <1>7 DEF Filter, TagsByStep, AWSByStep, ListAsWritten
  <2>2. tags' \in fromACKTags(FilterSystemTags(Wanted), tags) /\ FilterSystemTags(Wanted) \in Tags
    BY <1>1, <1>7, <2>1, TagOperatorTypes DEF Filter
  <2>3. /\ tags' \in Seq(Tag) /\ ConvertedTags(tags') = FilterSystemTags(Wanted)
        /\ OneTagPerKey(tags') /\ InOrder(spec, tags')
    <3>1. spec' = spec
      BY <1>7 DEF Filter
    <3>2. QED
      BY <1>1, <1>2, <2>1, <2>2, <3>1, ListIsWritten
  <2>4. Wanted' = Wanted
    BY <1>7 DEF Filter, Wanted
  <2>5. QED
    BY <1>1, <1>7, <2>1, <2>3, <2>4 DEF Filter, TypeOK, TagsByStep, AWSByStep, ListAsWritten
<1>8. CASE Again
  <2>1. spec' = spec /\ tags' = spec /\ latest' = <<>> /\ aws' = aws /\ aws0' = aws /\ pc' = "ensure"
    BY <1>8 DEF Again
  <2>2. TypeOK'
    BY <1>1, <2>1 DEF TypeOK
  <2>3. TagsByStep' /\ AWSByStep' /\ ListAsWritten'
    BY <2>1 DEF TagsByStep, AWSByStep, ListAsWritten
  <2>4. QED
    BY <2>1, <2>2, <2>3
<1>9. CASE UNCHANGED vars
  <2>1. UNCHANGED <<spec, tags, latest, aws, aws0, pc>>
    BY <1>9 DEF vars
  <2>2. TypeOK'
    BY <1>1, <2>1 DEF TypeOK
  <2>3. TagsByStep' /\ AWSByStep' /\ ListAsWritten'
    BY <2>1 DEF TagsByStep, AWSByStep, ListAsWritten, Wanted
  <2>4. QED
    BY <2>1, <2>2, <2>3
<1>10. QED
  BY <1>3, <1>4, <1>5, <1>6, <1>7, <1>8, <1>9 DEF Next

\* At every step the pass's list, what it read and what AWS has are the maps
\* they are meant to be, for lists of any length and whichever way Go iterates
\* its maps (manager.go 266-316, tags.go, util/tags.go).
THEOREM TagListsInvariant == Spec => []TagListsInv
<1>1. QED
  BY TagListsInit, TagListsStep, PTL DEF Spec

\* After a sync AWS has every tag of the user's, the controller's default for
\* the keys the user left out, its own "aws:" tags as they were and nothing else.
THEOREM SyncedTags == Spec => []SyncedTagsAreDesired
<1>1. TagListsInv => SyncedTagsAreDesired
  <2> SUFFICES ASSUME TagListsInv, pc \in {"filter", "done"}, NEW k \in TagKeys
               PROVE  aws[k] = IF k \in AWSTagKeys THEN aws0[k]
                               ELSE IF k \in UserKeys THEN ValueOf(spec[LastOf(spec, k)])
                               ELSE DefaultTags[k]
    BY DEF SyncedTagsAreDesired, LastOf
  <2>1. /\ spec \in Seq(Tag) /\ aws0 \in Tags
        /\ KeysIn(spec) \cap AWSTagKeys = {} /\ aws = Wanted
    BY DEF TagListsInv, TypeOK, AWSByStep
  <2>2. /\ k \notin KeysIn(spec) => ConvertedTags(spec)[k] = Nil
        /\ k \in KeysIn(spec) =>
             /\ ConvertedTags(spec)[k] = ValueOf(spec[LastOf(spec, k)])
             /\ ConvertedTags(spec)[k] # Nil
    <3>1. KeysOf(ConvertedTags(spec)) = KeysIn(spec)
      BY <2>1, ConvertedTagsByKey
    <3>2. QED
      BY <2>1, <3>1, ConvertedTagsByKey DEF KeysOf
  <2>3. k \in AWSTagKeys => DefaultTags[k] = Nil
    BY TagConstants DEF KeysOf
  <2>4. Wanted[k] = IF k \in AWSTagKeys /\ aws0[k] # Nil THEN aws0[k]
                    ELSE IF ConvertedTags(spec)[k] # Nil THEN ConvertedTags(spec)[k]
                    ELSE DefaultTags[k]
    BY DEF Wanted, mirrorAWSTags, syncAWSTags, EnsureTags, Merge
  <2>5. QED
    BY <2>1, <2>2, <2>3, <2>4 DEF UserKeys
<1>2. QED
  BY <1>1, TagListsInvariant, PTL

LEMMA FirstPlace ==
  ASSUME NEW list \in Seq(Tag), NEW k \in KeysIn(list)
  PROVE  LET place == SelectInSeq(list, LAMBDA t : t.key = k)
         IN /\ place \in 1 .. Len(list) /\ list[place].key = k
            /\ \A i \in 1 .. Len(list) : list[i].key = k => place =< i
<1> DEFINE I == {i \in 1 .. Len(list) : list[i].key = k}
           place == SelectInSeq(list, LAMBDA t : t.key = k)
<1>1. I # {}
  BY DEF KeysIn
<1>2. place = Min(I)
  BY <1>1 DEF SelectInSeq
<1>3. Min(I) \in I /\ \A i \in I : Min(I) =< i
  <2>1. I \in SUBSET Nat
    OBVIOUS
  <2> HIDE DEF I
  <2>2. \E n \in I : \A i \in I : n =< i
    BY <1>1, <2>1, LeastElement
  <2>3. QED
    BY <2>2 DEF Min
<1> HIDE DEF place
<1>4. place \in 1 .. Len(list) /\ list[place].key = k
      /\ \A i \in 1 .. Len(list) : list[i].key = k => place =< i
  BY <1>2, <1>3
<1>5. QED
  BY <1>4 DEF place

\* What goes back to the cluster is what the user wrote: each of the user's keys
\* once, with the last value given for it, in the order of the list, and no tag
\* of the controller's or of AWS's.
THEOREM FilteredTags == Spec => []FilteredTagsAreTheUsers
<1>1. TagListsInv => FilteredTagsAreTheUsers
  <2> SUFFICES ASSUME TagListsInv, pc = "done"
               PROVE  /\ KeysIn(tags) = UserKeys \ (SystemTagKeys \cup AWSTagKeys)
                      /\ \A i, j \in DOMAIN tags :
                           i < j => FirstOf(tags[i].key) < FirstOf(tags[j].key)
                      /\ \A i \in DOMAIN tags :
                           \E j \in DOMAIN spec :
                             /\ spec[j].key = tags[i].key /\ ValueOf(spec[j]) = tags[i].value
                             /\ \A l \in j + 1 .. Len(spec) : spec[l].key # tags[i].key
    BY DEF FilteredTagsAreTheUsers
  <2>1. /\ spec \in Seq(Tag) /\ tags \in Seq(Tag) /\ aws0 \in Tags
        /\ KeysIn(spec) \cap AWSTagKeys = {}
        /\ ConvertedTags(tags) = FilterSystemTags(Wanted)
        /\ OneTagPerKey(tags) /\ InOrder(spec, tags)
    BY DEF TagListsInv, TypeOK, TagsByStep, ListAsWritten
  <2>2. /\ KeysOf(ConvertedTags(spec)) = KeysIn(spec)
        /\ KeysOf(ConvertedTags(tags)) = KeysIn(tags)
    BY <2>1, ConvertedTagsByKey
  <2>3. \A k \in TagKeys :
          ConvertedTags(tags)[k] =
            IF k \in AWSTagKeys \cup SystemTagKeys THEN Nil ELSE ConvertedTags(spec)[k]
    <3> SUFFICES ASSUME NEW k \in TagKeys
                 PROVE  ConvertedTags(tags)[k] =
                          IF k \in AWSTagKeys \cup SystemTagKeys THEN Nil
                          ELSE ConvertedTags(spec)[k]
      OBVIOUS
    <3>1. k \notin AWSTagKeys =>
            Wanted[k] = IF ConvertedTags(spec)[k] # Nil THEN ConvertedTags(spec)[k]
                        ELSE DefaultTags[k]
      BY DEF Wanted, mirrorAWSTags, syncAWSTags, EnsureTags, Merge
    <3>2. k \notin SystemTagKeys => DefaultTags[k] = Nil
      BY TagConstants DEF KeysOf
    <3>3. FilterSystemTags(Wanted)[k] =
            IF k \in AWSTagKeys \cup SystemTagKeys THEN Nil ELSE Wanted[k]
      BY DEF FilterSystemTags, ignoreSystemTags
    <3>4. QED
      BY <2>1, <3>1, <3>2, <3>3
  <2>4. KeysIn(tags) = KeysIn(spec) \ (SystemTagKeys \cup AWSTagKeys)
    BY <2>2, <2>3 DEF KeysOf
  <2>5. \A i \in DOMAIN tags : i \in 1 .. Len(tags) /\ tags[i].key \in KeysIn(tags)
    <3>1. DOMAIN tags = 1 .. Len(tags)
      BY <2>1
    <3>2. QED
      BY <2>1, <3>1 DEF KeysIn, OneTagPerKey
  <2>6. ASSUME NEW i \in DOMAIN tags, NEW j \in DOMAIN tags, i < j
        PROVE  FirstOf(tags[i].key) < FirstOf(tags[j].key)
    <3> DEFINE k == tags[i].key
               l == tags[j].key
    <3>1. i \in 1 .. Len(tags) /\ j \in 1 .. Len(tags) /\ k \in KeysIn(spec) /\ l \in KeysIn(spec)
      BY <2>4, <2>5
    <3>2. PICK p \in 1 .. Len(spec) : spec[p].key = k /\ \A q \in 1 .. p : spec[q].key # l
      BY <2>1, <2>6, <3>1 DEF InOrder, Before, BeforeUpto
    <3> HIDE DEF k, l
    <3>3. FirstOf(k) =< p /\ FirstOf(k) \in 1 .. Len(spec)
      BY <2>1, <3>1, <3>2, FirstPlace DEF FirstOf
    <3>4. FirstOf(l) \in 1 .. Len(spec) /\ spec[FirstOf(l)].key = l
      BY <2>1, <3>1, FirstPlace DEF FirstOf
    <3>5. ~(FirstOf(l) =< p)
      BY <3>2, <3>4
    <3>6. FirstOf(k) < FirstOf(l)
      BY <3>3, <3>4, <3>5
    <3>7. QED
      BY <3>6 DEF k, l
  <2>7. ASSUME NEW i \in DOMAIN tags
        PROVE  \E j \in DOMAIN spec :
                 /\ spec[j].key = tags[i].key /\ ValueOf(spec[j]) = tags[i].value
                 /\ \A n \in j + 1 .. Len(spec) : spec[n].key # tags[i].key
    <3> DEFINE k == tags[i].key
               last == LastOf(spec, k)
    <3>1. k \in KeysIn(spec) /\ k \in KeysIn(tags) /\ k \in TagKeys /\ i \in 1 .. Len(tags)
      BY <2>4, <2>5 DEF KeysIn
    <3>2. ConvertedTags(tags)[k] = tags[i].value
      BY <2>1, <3>1, OneTagPerKeyValue
    <3> HIDE DEF k
    <3>3. ConvertedTags(tags)[k] = ConvertedTags(spec)[k]
      BY <2>3, <2>4, <3>1
    <3>4. ConvertedTags(spec)[k] = ValueOf(spec[last])
      BY <2>1, <3>1, ConvertedTagsByKey
    <3>5. /\ last \in 1 .. Len(spec) /\ spec[last].key = k
          /\ \A n \in last + 1 .. Len(spec) : spec[n].key # k
      BY <2>1, <3>1, LastPlace
    <3> HIDE DEF last
    <3>6. last \in DOMAIN spec
      BY <2>1, <3>5
    <3>7. QED
      BY <3>2, <3>3, <3>4, <3>5, <3>6 DEF k
  <2>8. QED
    BY <2>4, <2>6, <2>7 DEF UserKeys
<1>2. QED
  BY <1>1, TagListsInvariant, PTL
=============================================================================
