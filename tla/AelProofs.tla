---------------------------- MODULE AelProofs ----------------------------
(***************************************************************************)
(* What is proved of AsteriskDialplanValidator and of the patterns of      *)
(* extensions, for patterns, blocks and texts of any length: the order of  *)
(* the patterns (ExtensionPatterns), the block parser (AelBlocks), the     *)
(* scans of one text (AelText) and what a step is taken for (AelSteps).    *)
(***************************************************************************)
EXTENDS AelBlocks, AelSteps, ExtensionPatterns, Integers, FiniteSetTheorems,
  WellFoundedInduction, TLAPS

-----------------------------------------------------------------------------
(* The least of a set of places. *)

\* There is one.
LEMMA LeastIsIn ==
  ASSUME NEW S, S \subseteq Nat, S # {}
  PROVE  \E x \in S : \A y \in S : x <= y
<1> DEFINE below == {ss \in Nat \X Nat : ss[1] < ss[2]}
<1>1. IsWellFoundedOn(below, Nat)
  BY NatLessThanWellFounded DEF OpToRel
<1>2. PICK x \in S : \A y \in S : ~ (<<y, x>> \in below)
  BY <1>1, WFMin
<1>3. \A y \in S : ~ (y < x)
  BY <1>2
<1> QED BY <1>3

\* Min is.
LEMMA MinIsIn ==
  ASSUME NEW S, S \subseteq Nat, S # {}
  PROVE  Min(S) \in S
BY LeastIsIn DEF Min

-----------------------------------------------------------------------------
(* Patterns of extensions. *)

\* The places up to i where c is, and their number.
Places(p, c, i) == {j \in 1 .. i : p[j] = c}
UpTo(p, c, i) == Cardinality(Places(p, c, i))

LEMMA PlacesFinite ==
  ASSUME NEW p, NEW c, NEW i \in Nat
  PROVE  IsFiniteSet(Places(p, c, i)) /\ UpTo(p, c, i) \in Nat
<1>1. IsFiniteSet(1 .. i) /\ Places(p, c, i) \subseteq 1 .. i
  BY FS_Interval DEF Places
<1> QED BY <1>1, FS_Subset, FS_CardinalityType DEF UpTo

\* Further on there are no fewer, and one more if there is one at the end.
LEMMA MoreFurtherOn ==
  ASSUME NEW p, NEW c, NEW h \in Nat, NEW i \in Nat, h <= i
  PROVE  /\ UpTo(p, c, h) <= UpTo(p, c, i)
         /\ h < i /\ p[i] = c => UpTo(p, c, h) + 1 <= UpTo(p, c, i)
         /\ (\A j \in h + 1 .. i : p[j] # c) => UpTo(p, c, h) = UpTo(p, c, i)
<1>1. IsFiniteSet(Places(p, c, h)) /\ IsFiniteSet(Places(p, c, i))
      /\ UpTo(p, c, h) \in Nat /\ UpTo(p, c, i) \in Nat
  BY PlacesFinite
<1>2. Places(p, c, h) \subseteq Places(p, c, i)
  BY DEF Places
<1>3. UpTo(p, c, h) <= UpTo(p, c, i)
  BY <1>1, <1>2, FS_Subset DEF UpTo
<1>4. ASSUME h < i, p[i] = c PROVE UpTo(p, c, h) + 1 <= UpTo(p, c, i)
  <2>1. Places(p, c, h) \cup {i} \subseteq Places(p, c, i) /\ i \notin Places(p, c, h)
    BY <1>4 DEF Places
  <2>2. Cardinality(Places(p, c, h) \cup {i}) = UpTo(p, c, h) + 1
    BY <1>1, <2>1, FS_AddElement DEF UpTo
  <2>3. Cardinality(Places(p, c, h) \cup {i}) <= UpTo(p, c, i)
    BY <1>1, <2>1, FS_Subset DEF UpTo
  <2> QED BY <2>2, <2>3
<1>5. ASSUME \A j \in h + 1 .. i : p[j] # c PROVE UpTo(p, c, h) = UpTo(p, c, i)
  <2>1. Places(p, c, h) = Places(p, c, i)
    <3>1. ASSUME NEW j \in Places(p, c, i) PROVE j \in Places(p, c, h)
      <4>1. j \in 1 .. i /\ p[j] = c
        BY <3>1 DEF Places
      <4>2. j \notin h + 1 .. i
        BY <1>5, <4>1
      <4>3. j \in 1 .. h
        BY <4>1, <4>2
      <4> QED BY <4>1, <4>3 DEF Places
    <3> QED BY <1>2, <3>1
  <2> QED BY <2>1 DEF UpTo
<1> QED BY <1>3, <1>4, <1>5

LEMMA OccursUpTo ==
  ASSUME NEW S, NEW p \in Seq(S), NEW c
  PROVE  Occurs(p, c) = UpTo(p, c, Len(p)) /\ Len(p) \in Nat /\ DOMAIN p = 1 .. Len(p)
<1>1. Len(p) \in Nat /\ DOMAIN p = 1 .. Len(p)
  OBVIOUS
<1> QED BY <1>1, Zenon DEF Occurs, UpTo, Places

\* Where the brackets close in turn, one is open at an opening one, so that there is a
\* closing one behind it and between it and the one before.
LEMMA BracketsClose ==
  ASSUME pattern \in Seq(Sign), InTurn, Occurs(pattern, "[") = Occurs(pattern, "]"),
         NEW i \in DOMAIN pattern, pattern[i] = "["
  PROVE  i \in Opens(pattern) /\ \E k \in i .. Len(pattern) : pattern[k] = "]"
<1>1. Len(pattern) \in Nat /\ DOMAIN pattern = 1 .. Len(pattern) /\ i \in 1 .. Len(pattern) /\ i - 1 \in Nat
  BY OccursUpTo
<1>2. UpTo(pattern, "[", Len(pattern)) = UpTo(pattern, "]", Len(pattern))
  BY OccursUpTo
<1>3. \A j \in 0 .. Len(pattern) : UpTo(pattern, "[", j) \in Nat /\ UpTo(pattern, "]", j) \in Nat
  BY <1>1, PlacesFinite
<1>4. \A j \in 1 .. Len(pattern) :
        UpTo(pattern, "[", j) - UpTo(pattern, "]", j) \in {0, 1}
  BY <1>1 DEF InTurn, UpTo, Places
<1>5. \A j \in 0 .. Len(pattern) : UpTo(pattern, "[", j) >= UpTo(pattern, "]", j)
  <2>1. UpTo(pattern, "[", 0) = 0 /\ UpTo(pattern, "]", 0) = 0
    <3>1. Places(pattern, "[", 0) = {} /\ Places(pattern, "]", 0) = {}
      BY DEF Places
    <3> QED BY <3>1, FS_EmptySet DEF UpTo
  <2> QED BY <1>1, <1>3, <1>4, <2>1
<1>6. \A j \in 1 .. Len(pattern) : pattern[j] = "[" => UpTo(pattern, "[", j) = UpTo(pattern, "]", j) + 1
  <2> SUFFICES ASSUME NEW j \in 1 .. Len(pattern), pattern[j] = "["
               PROVE  UpTo(pattern, "[", j) = UpTo(pattern, "]", j) + 1
    OBVIOUS
  <2>0. j - 1 \in Nat /\ j \in Nat /\ j - 1 < j /\ j - 1 \in 0 .. Len(pattern) /\ j \in 0 .. Len(pattern)
    BY <1>1
  <2>1. UpTo(pattern, "[", j - 1) + 1 <= UpTo(pattern, "[", j)
    BY <2>0, MoreFurtherOn
  <2>2. UpTo(pattern, "]", j - 1) = UpTo(pattern, "]", j)
    <3>1. \A l \in (j - 1) + 1 .. j : pattern[l] # "]"
      <4>1. "[" # "]"
        OBVIOUS
      <4>2. \A l \in (j - 1) + 1 .. j : l = j
        BY <2>0
      <4> QED BY <4>1, <4>2
    <3> QED BY <2>0, <3>1, MoreFurtherOn
  <2>3. UpTo(pattern, "[", j) > UpTo(pattern, "]", j)
    BY <1>3, <1>5, <2>0, <2>1, <2>2
  <2> QED BY <1>3, <1>4, <2>0, <2>3
<1>7. \E k \in i .. Len(pattern) : pattern[k] = "]"
  <2> SUFFICES ASSUME \A k \in i .. Len(pattern) : pattern[k] # "]" PROVE FALSE
    OBVIOUS
  <2>1. \A k \in i + 1 .. Len(pattern) : pattern[k] # "]"
    BY <1>1
  <2>2. i \in Nat /\ i <= Len(pattern)
    BY <1>1
  <2>3. UpTo(pattern, "]", i) = UpTo(pattern, "]", Len(pattern))
    BY <1>1, <2>1, <2>2, MoreFurtherOn
  <2>4. UpTo(pattern, "[", i) <= UpTo(pattern, "[", Len(pattern))
    BY <1>1, <2>2, MoreFurtherOn
  <2>5. UpTo(pattern, "[", i) = UpTo(pattern, "]", i) + 1
    BY <1>1, <1>6
  <2> QED BY <1>1, <1>2, <1>3, <2>2, <2>3, <2>4, <2>5
<1>8. ASSUME NEW h \in 1 .. i - 1, pattern[h] = "[" PROVE \E m \in h .. i : pattern[m] = "]"
  <2> SUFFICES ASSUME \A m \in h .. i : pattern[m] # "]" PROVE FALSE
    OBVIOUS
  <2>1. h \in Nat /\ h < i /\ i \in Nat /\ h \in 1 .. Len(pattern) /\ h <= i
    BY <1>1
  <2>2. \A m \in h + 1 .. i : pattern[m] # "]"
    BY <2>1
  <2>3. UpTo(pattern, "]", h) = UpTo(pattern, "]", i)
    BY <2>1, <2>2, MoreFurtherOn
  <2>4. UpTo(pattern, "[", h) + 1 <= UpTo(pattern, "[", i)
    BY <2>1, MoreFurtherOn
  <2>5. UpTo(pattern, "[", h) = UpTo(pattern, "]", h) + 1 /\ UpTo(pattern, "[", i) = UpTo(pattern, "]", i) + 1
    BY <1>1, <1>6, <1>8, <2>1
  <2> QED BY <1>1, <1>3, <2>1, <2>3, <2>4, <2>5
<1>9. i \in Opens(pattern)
  BY <1>8 DEF Opens
<1> QED BY <1>7, <1>9

\* A range that goes up is of 1 and 9, and more than one digit.
LEMMA RangeIsMore ==
  ASSUME NEW class, Len(class) = 3, DOMAIN class = 1 .. 3, class[1] \in DOMAIN Digit, class[3] \in DOMAIN Digit,
         RangePasses(class[1], class[3])
  PROVE  Cardinality(Digits(class)) > 1
<1>1. Digit["1"] = 1 /\ Digit["9"] = 9 /\ DOMAIN Digit = {"1", "9"}
  BY DEF Digit
<1>2. Digit[class[1]] = 1 /\ Digit[class[3]] = 9
  BY <1>1 DEF RangePasses
<1>3. {1, 9} \subseteq Digits(class) /\ Digits(class) \subseteq 1 .. 9
  <2>1. 1 \in DOMAIN class /\ 3 \in DOMAIN class
    OBVIOUS
  <2>2. 1 \in 1 .. 9 /\ 9 \in 1 .. 9
    OBVIOUS
  <2> QED BY <1>2, <2>1, <2>2 DEF Digits
<1>4. IsFiniteSet(Digits(class))
  BY <1>3, FS_Interval, FS_Subset
<1>5. Cardinality({1, 9}) <= Cardinality(Digits(class)) /\ Cardinality(Digits(class)) \in Nat
  BY <1>3, <1>4, FS_Subset, FS_CardinalityType
<1>6. Cardinality({1, 9}) = 2
  <2>1. IsFiniteSet({1}) /\ Cardinality({1}) = 1
    BY FS_Singleton, Zenon
  <2>4. 9 \notin {1}
    OBVIOUS
  <2>2. Cardinality({1} \cup {9}) = 2
    BY <2>1, <2>4, FS_AddElement
  <2>3. {1} \cup {9} = {1, 9}
    OBVIOUS
  <2> QED BY <2>2, <2>3
<1> QED BY <1>5, <1>6

LEMMA PatternsCanMatch == pattern \in Seq(Sign) => AcceptedCanMatch
<1> SUFFICES ASSUME pattern \in Seq(Sign), PatternPasses(pattern), InTurn,
                    NEW i \in DOMAIN pattern, pattern[i] = "["
             PROVE  LET class == SubSeq(pattern, i + 1, ClosesAt(pattern, i) - 1) IN
                    /\ class # << >>
                    /\ Occurs(class, "-") = 1 => Cardinality(Digits(class)) > 1
  BY DEF AcceptedCanMatch
<1>1. PICK class : class = SubSeq(pattern, i + 1, ClosesAt(pattern, i) - 1)
  OBVIOUS
<1>2. i \in Opens(pattern) /\ \E k \in i .. Len(pattern) : pattern[k] = "]"
  BY BracketsClose DEF PatternPasses
<1>3. class \in Classes(pattern)
  BY <1>1, <1>2 DEF Classes
<1>4. ClassPasses(class)
  BY <1>3 DEF PatternPasses
<1>5. ASSUME Occurs(class, "-") = 1 PROVE Cardinality(Digits(class)) > 1
  <2>1. /\ Len(class) = 3 /\ class[1] \in DOMAIN Digit /\ class[3] \in DOMAIN Digit
        /\ RangePasses(class[1], class[3])
    BY <1>4, <1>5 DEF ClassPasses
  <2>2. DOMAIN class = 1 .. 3
    <3>1. PICK k : k = ClosesAt(pattern, i)
      OBVIOUS
    <3>2. k \in i .. Len(pattern)
      <4> DEFINE closing == {j \in i .. Len(pattern) : pattern[j] = "]"}
      <4>1. closing # {} /\ closing \subseteq Nat
        BY <1>2
      <4>2. Min(closing) \in closing
        <5> HIDE DEF closing
        <5> QED BY <4>1, MinIsIn
      <4> QED BY <3>1, <4>2 DEF ClosesAt
    <3>3. class \in Seq(Sign)
      <4>1. i + 1 .. k - 1 \subseteq 1 .. Len(pattern) /\ i \in Nat /\ k \in Nat
        BY <3>2
      <4>2. \A j \in i + 1 .. k - 1 : pattern[j] \in Sign
        BY <4>1
      <4> QED BY <1>1, <3>1, <4>1, <4>2
    <3> QED BY <2>1, <3>3
  <2> QED BY <2>1, <2>2, RangeIsMore
<1> QED BY <1>1, <1>4, <1>5 DEF ClassPasses

-----------------------------------------------------------------------------
(* The order of the patterns. *)

\* The places other than i where d is.
OtherPlaces(i, d) == {j \in DOMAIN pattern \ {i} : pattern[j] = d}
Put(i, c) == [pattern EXCEPT ![i] = c]

LEMMA OccursPut ==
  ASSUME pattern \in Seq(Sign), NEW i \in DOMAIN pattern, NEW c, NEW d
  PROVE  /\ Cardinality(OtherPlaces(i, d)) \in Nat
         /\ c = d => Occurs(Put(i, c), d) = Cardinality(OtherPlaces(i, d)) + 1
         /\ c # d => Occurs(Put(i, c), d) = Cardinality(OtherPlaces(i, d))
<1>1. IsFiniteSet(DOMAIN pattern) /\ OtherPlaces(i, d) \subseteq DOMAIN pattern /\ i \notin OtherPlaces(i, d)
  <2>1. Len(pattern) \in Nat /\ DOMAIN pattern = 1 .. Len(pattern)
    OBVIOUS
  <2> QED BY <2>1, FS_Interval DEF OtherPlaces
<1>2. IsFiniteSet(OtherPlaces(i, d)) /\ Cardinality(OtherPlaces(i, d)) \in Nat
  BY <1>1, FS_Subset, FS_CardinalityType
<1>3. DOMAIN Put(i, c) = DOMAIN pattern /\ \A j \in DOMAIN pattern : Put(i, c)[j] = IF j = i THEN c ELSE pattern[j]
  BY DEF Put
<1>4. ASSUME c = d PROVE Occurs(Put(i, c), d) = Cardinality(OtherPlaces(i, d)) + 1
  <2>1. {j \in DOMAIN Put(i, c) : Put(i, c)[j] = d} = OtherPlaces(i, d) \cup {i}
    BY <1>3, <1>4 DEF OtherPlaces
  <2> QED BY <1>1, <1>2, <2>1, FS_AddElement DEF Occurs
<1>5. ASSUME c # d PROVE Occurs(Put(i, c), d) = Cardinality(OtherPlaces(i, d))
  <2>1. {j \in DOMAIN Put(i, c) : Put(i, c)[j] = d} = OtherPlaces(i, d)
    BY <1>3, <1>5 DEF OtherPlaces
  <2> QED BY <2>1 DEF Occurs
<1> QED BY <1>2, <1>4, <1>5

\* A pattern with a digit at i has more literals than the one with a mark there, and
\* fewer wildcards than the one with an X.
LEMMA PatternsOrdered == pattern \in Seq(Sign) => DigitsFirst
<1> SUFFICES ASSUME pattern \in Seq(Sign), NEW i \in DOMAIN pattern
             PROVE  /\ WrittenBefore(Put(i, "1"), Put(i, "X"))
                    /\ WrittenBefore(Put(i, "1"), Put(i, "!")) /\ WrittenBefore(Put(i, "1"), Put(i, "."))
  BY DEF DigitsFirst, Put
<1>1. \A c \in {"1", "X", "!", "."} : Put(i, c)[i] = c
  BY DEF Put
<1>2. Put(i, "1") # <<"X", "!">>
  <2> SUFFICES ASSUME Put(i, "1") = <<"X", "!">> PROVE FALSE
    OBVIOUS
  <2>1. DOMAIN pattern = {1, 2}
    <3>1. DOMAIN Put(i, "1") = DOMAIN pattern
      BY DEF Put
    <3> QED BY <3>1
  <2>2. Put(i, "1")[i] = "X" \/ Put(i, "1")[i] = "!"
    BY <2>1
  <2> QED BY <1>1, <2>2
<1> DEFINE n(d) == Cardinality(OtherPlaces(i, d))
<1>3. n("1") \in Nat /\ n("9") \in Nat /\ n("X") \in Nat /\ n("!") \in Nat /\ n("[") \in Nat /\ n("]") \in Nat
  BY OccursPut
<1>4. /\ Occurs(Put(i, "1"), "1") = n("1") + 1 /\ Occurs(Put(i, "1"), "9") = n("9")
      /\ Occurs(Put(i, "1"), "X") = n("X") /\ Occurs(Put(i, "1"), "!") = n("!")
      /\ Occurs(Put(i, "1"), "[") = n("[") /\ Occurs(Put(i, "1"), "]") = n("]")
  BY OccursPut
<1>5. /\ Occurs(Put(i, "X"), "1") = n("1") /\ Occurs(Put(i, "X"), "9") = n("9")
      /\ Occurs(Put(i, "X"), "X") = n("X") + 1 /\ Occurs(Put(i, "X"), "!") = n("!")
      /\ Occurs(Put(i, "X"), "[") = n("[") /\ Occurs(Put(i, "X"), "]") = n("]")
  BY OccursPut
<1>6. ASSUME NEW c \in {"!", "."}
      PROVE  /\ Occurs(Put(i, c), "1") = n("1") /\ Occurs(Put(i, c), "9") = n("9")
             /\ Occurs(Put(i, c), "X") = n("X")
  BY OccursPut
<1> HIDE DEF n
<1> DEFINE left == Specificity(Put(i, "1"))
<1>7. left[1] = n("1") + 1 + n("9") + n("X") /\ left[2] = -(n("X") + n("!") + n("[") + n("]"))
  BY <1>2, <1>4 DEF Specificity, Wildcards
<1> HIDE DEF left
<1>8. ASSUME NEW right, left[1] > right[1] PROVE \E k \in 1 .. 4 : left[k] > right[k] /\ \A j \in 1 .. k - 1 : left[j] = right[j]
  <2>1. 1 \in 1 .. 4 /\ 1 .. 1 - 1 = {}
    OBVIOUS
  <2> QED BY <1>8, <2>1
<1>9. ASSUME NEW right, left[1] = right[1], left[2] > right[2]
      PROVE \E k \in 1 .. 4 : left[k] > right[k] /\ \A j \in 1 .. k - 1 : left[j] = right[j]
  <2>1. 2 \in 1 .. 4 /\ 1 .. 2 - 1 = {1}
    OBVIOUS
  <2> QED BY <1>9, <2>1
<1>10. WrittenBefore(Put(i, "1"), Put(i, "X"))
  <2>1. PICK right : right = Specificity(Put(i, "X"))
    OBVIOUS
  <2>2. CASE Put(i, "X") = <<"X", "!">>
    <3>1. right[1] = 0
      BY <2>1, <2>2 DEF Specificity
    <3>2. left[1] > right[1]
      BY <1>3, <1>7, <3>1
    <3> QED BY <1>8, <2>1, <3>2 DEF WrittenBefore, left
  <2>3. CASE Put(i, "X") # <<"X", "!">>
    <3>1. right[1] = n("1") + n("9") + (n("X") + 1) /\ right[2] = -(n("X") + 1 + n("!") + n("[") + n("]"))
      BY <1>5, <2>1, <2>3 DEF Specificity, Wildcards
    <3>3. PICK n1, n9, nx, ne, no, nc :
            /\ n1 = n("1") /\ n9 = n("9") /\ nx = n("X")
            /\ ne = n("!") /\ no = n("[") /\ nc = n("]")
      OBVIOUS
    <3>4. n1 \in Nat /\ n9 \in Nat /\ nx \in Nat /\ ne \in Nat /\ no \in Nat /\ nc \in Nat
      BY <1>3, <3>3, Zenon
    <3>5. /\ left[1] = n1 + 1 + n9 + nx /\ left[2] = -(nx + ne + no + nc)
          /\ right[1] = n1 + n9 + (nx + 1) /\ right[2] = -(nx + 1 + ne + no + nc)
      BY <1>7, <3>1, <3>3, Zenon
    <3>2. left[1] = right[1] /\ left[2] > right[2]
      BY <3>4, <3>5
    <3> QED BY <1>9, <2>1, <3>2 DEF WrittenBefore, left
  <2> QED BY <2>2, <2>3
<1>11. ASSUME NEW c \in {"!", "."} PROVE WrittenBefore(Put(i, "1"), Put(i, c))
  <2>1. PICK right : right = Specificity(Put(i, c))
    OBVIOUS
  <2>2. right[1] = 0 \/ right[1] = n("1") + n("9") + n("X")
    BY <1>6, <2>1 DEF Specificity
  <2>3. left[1] > right[1]
    BY <1>3, <1>7, <2>2
  <2> QED BY <1>8, <2>1, <2>3 DEF WrittenBefore, left
<1> QED BY <1>10, <1>11

\* A pattern is a sequence of signs.
PatternInv == pattern \in Seq(Sign)

LEMMA PatternInitially == PatternInit => PatternInv
BY DEF PatternInit, PatternInv

LEMMA PatternStep == PatternInv /\ [PatternNext]_pattern => PatternInv'
BY DEF PatternNext, TypeSign, PatternInv

LEMMA PatternMeans == PatternInv => PatternsRead
BY PatternsCanMatch, PatternsOrdered DEF PatternInv, PatternsRead

-----------------------------------------------------------------------------
(* Blocks of the dialplan. *)

\* What is so at a place if it is so at all the places behind it is so everywhere.
LEMMA Backwards ==
  ASSUME NEW n \in Nat, NEW S,
         \A i \in 1 .. n : (\A j \in i + 1 .. n : j \in S) => i \in S
  PROVE  \A i \in 1 .. n : i \in S
<1> DEFINE Failing == {m \in 0 .. n - 1 : n - m \notin S}
<1> SUFFICES ASSUME Failing # {} PROVE FALSE
  <2>1. \A i \in 1 .. n : n - i \in 0 .. n - 1 /\ n - (n - i) = i
    OBVIOUS
  <2> QED BY <2>1
<1>1. Failing \subseteq Nat
  OBVIOUS
<1>2. PICK m \in Failing : \A k \in Failing : m <= k
  <2> HIDE DEF Failing
  <2> QED BY <1>1, LeastIsIn
<1>3. m \in 0 .. n - 1 /\ n - m \notin S /\ n - m \in 1 .. n
  BY <1>2
<1>4. \A j \in (n - m) + 1 .. n : j \in S
  <2> SUFFICES ASSUME NEW j \in (n - m) + 1 .. n, j \notin S PROVE FALSE
    OBVIOUS
  <2>1. n - j \in 0 .. n - 1 /\ n - (n - j) = j /\ n - j < m
    BY <1>3
  <2>2. n - j \in Failing
    BY <2>1
  <2> QED BY <1>2, <2>1, <2>2
<1> QED BY <1>3, <1>4

\* What is so at first, and then at each place if it is so before it, is so everywhere.
LEMMA Forwards ==
  ASSUME NEW n \in Nat, NEW S, 0 \in S, \A i \in 1 .. n : i - 1 \in S => i \in S
  PROVE  \A i \in 0 .. n : i \in S
<1> DEFINE Failing == {i \in 0 .. n : i \notin S}
<1> SUFFICES ASSUME Failing # {} PROVE FALSE
  OBVIOUS
<1>1. Failing \subseteq Nat
  OBVIOUS
<1>2. PICK m \in Failing : \A k \in Failing : m <= k
  <2> HIDE DEF Failing
  <2> QED BY <1>1, LeastIsIn
<1>3. m # 0 /\ m \in 1 .. n
  BY <1>2
<1>4. m - 1 \in S
  <2>1. m - 1 \in 0 .. n /\ m - 1 < m
    BY <1>3
  <2> QED BY <1>2, <2>1
<1> QED BY <1>2, <1>3, <1>4

\* What the kinds of lines have in common.
LEMMA LinesOfKinds ==
  ASSUME NEW k \in DOMAIN Lines
  PROVE  /\ Lines[k].count \in {-1, 0, 1} /\ Lines[k].adds \in {-1, 0, 1} /\ Lines[k].dips \in {0, 1}
         /\ Lines[k].count = -1 => Lines[k].valid \/ Lines[k].dips > 0
         /\ Lines[k].start => Lines[k].count \in {0, 1}
         /\ Lines[k].else /\ Lines[k].valid => Lines[k].start
         /\ k \notin {"opens", "closes"} => Lines[k].adds = Lines[k].count
         /\ Lines[k].adds = -1 => Lines[k].dips = 1
         /\ k \notin {"opens", "closes"} /\ ~Lines[k].start /\ Lines[k].valid
              => Lines[k].count \in {-1, 0}
         /\ Lines[k].valid /\ ~Lines[k].sound => Lines[k].start
<1>1. DOMAIN Lines = {"step", "bad", "noted", "if", "badif", "loose", "oneif", "badone",
                      "else", "orelse", "badelse", "elif", "switch", "close", "badclose",
                      "opens", "closes"}
  BY DEF Lines
<1>2. CASE k \in {"step", "bad", "noted", "if", "badif", "loose"}
  BY <1>2 DEF Lines, L
<1>3. CASE k \in {"oneif", "badone", "else", "orelse", "badelse", "elif"}
  BY <1>3 DEF Lines, L
<1>4. CASE k \in {"switch", "close", "badclose", "opens", "closes"}
  BY <1>4 DEF Lines, L
<1> QED BY <1>1, <1>2, <1>3, <1>4

BlocksInv == lines \in Seq(DOMAIN Lines)

LEMMA LineKinds ==
  ASSUME BlocksInv
  PROVE  /\ Len(lines) \in Nat /\ After = Len(lines) + 1 /\ After \in Nat
         /\ \A i \in 1 .. Len(lines) : lines[i] \in DOMAIN Lines /\ Line(i) = Lines[lines[i]]
BY DEF BlocksInv, After, Line

\* The parse of a block as an equation, and what its values are.
StartAt(parse, i) == IF Line(i).valid THEN parse[i + 1][Line(i).count] ELSE Refused
ParseOf(parse, i, open) ==
  IF open <= 0 \/ i = After
  THEN IF Unbalanced(open) THEN Refused
       ELSE IF Chained(i) THEN StartAt(parse, i) ELSE i
  ELSE IF Line(i).start
  THEN IF StartAt(parse, i) = Refused THEN Refused
       ELSE parse[StartAt(parse, i)][Counted(i, open)]
  ELSE IF StepPasses(i, Counted(i, open))
  THEN parse[i + 1][Counted(i, open)]
  ELSE Refused
IsParse(parse) == parse = [i \in 1 .. After |-> [open \in Int |-> ParseOf(parse, i, open)]]

LEMMA BlockIs ==
  ASSUME \E p : IsParse(p)
  PROVE  \E p : IsParse(p) /\ Block = [i \in 1 .. Len(lines) |-> StartAt(p, i)]
<1>1. IsParse(CHOOSE p : IsParse(p))
  BY Zenon
<1>2. Block = [i \in 1 .. Len(lines) |-> StartAt(CHOOSE p : IsParse(p), i)]
  BY SMT DEF Block, IsParse, ParseOf, StartAt
<1> QED BY <1>1, <1>2

\* Whether the parse of the lines from i on can be defined.
Parses(p, i) ==
  /\ p = [h \in i .. After |-> [open \in Int |-> p[h][open]]]
  /\ \A h \in i .. After : \A open \in Int :
       p[h][open] = ParseOf(p, h, open) /\ p[h][open] \in {Refused} \cup h .. After

\* A parse asks for lines behind only, and comes to one.
LEMMA ParseAsks ==
  ASSUME BlocksInv, NEW i \in 1 .. After, NEW open \in Int, NEW p, NEW q,
         \A h \in i + 1 .. After : \A o \in Int : q[h][o] = p[h][o] /\ p[h][o] \in {Refused} \cup h .. After
  PROVE  ParseOf(q, i, open) = ParseOf(p, i, open) /\ ParseOf(p, i, open) \in {Refused} \cup i .. After
<1>1. Len(lines) \in Nat /\ After = Len(lines) + 1 /\ Refused = 0
  BY LineKinds DEF Refused
<1>2. CASE i = After
  <2>1. ~Chained(i)
    BY <1>1, <1>2 DEF Chained
  <2> QED BY <1>1, <1>2, <2>1 DEF ParseOf
<1>3. CASE i # After
  <2>1. i \in 1 .. Len(lines) /\ Line(i).count \in Int /\ i + 1 \in i + 1 .. After
    BY <1>1, <1>3, LineKinds, LinesOfKinds
  <2>2. Counted(i, open) \in Int
    BY <2>1 DEF Counted
  <2>3. StartAt(q, i) = StartAt(p, i) /\ StartAt(p, i) \in {Refused} \cup i + 1 .. After
    BY <2>1 DEF StartAt
  <2>4. q[i + 1][Counted(i, open)] = p[i + 1][Counted(i, open)]
        /\ p[i + 1][Counted(i, open)] \in {Refused} \cup i + 1 .. After
    BY <2>1, <2>2
  <2>5. StartAt(p, i) # Refused =>
          /\ q[StartAt(p, i)][Counted(i, open)] = p[StartAt(p, i)][Counted(i, open)]
          /\ p[StartAt(p, i)][Counted(i, open)] \in {Refused} \cup StartAt(p, i) .. After
    BY <2>2, <2>3
  <2>6. i + 1 .. After \subseteq i .. After /\ i \in i .. After
        /\ \A j \in i + 1 .. After : j .. After \subseteq i .. After
    BY <1>1
  <2>7. ParseOf(q, i, open) = ParseOf(p, i, open)
    BY <2>3, <2>4, <2>5 DEF ParseOf
  <2>8. ParseOf(p, i, open) \in {Refused} \cup i .. After
    BY <2>3, <2>4, <2>5, <2>6 DEF ParseOf
  <2> QED BY <2>7, <2>8
<1> QED BY <1>2, <1>3

LEMMA ParseExists ==
  ASSUME BlocksInv
  PROVE  \E p : Parses(p, 1)
<1> DEFINE S == {i \in 1 .. After : \E p : Parses(p, i)}
<1>1. After \in Nat /\ 1 \in 1 .. After
  BY LineKinds
<1>2. ASSUME NEW i \in 1 .. After, \A j \in i + 1 .. After : j \in S PROVE i \in S
  <2>1. PICK q : \A h \in i + 1 .. After : \A o \in Int :
                   q[h][o] = ParseOf(q, h, o) /\ q[h][o] \in {Refused} \cup h .. After
    <3>1. CASE i + 1 \in i + 1 .. After
      BY <1>2, <3>1 DEF Parses
    <3>2. CASE i + 1 \notin i + 1 .. After
      <4>1. i + 1 .. After = {}
        BY <1>1, <3>2
      <4> QED BY <4>1
    <3> QED BY <3>1, <3>2
  <2>2. PICK p : p = [h \in i .. After |-> [o \in Int |-> IF h = i THEN ParseOf(q, i, o) ELSE q[h][o]]]
    OBVIOUS
  <2>3. \A h \in i + 1 .. After : \A o \in Int : p[h][o] = q[h][o]
    <3>1. \A h \in i + 1 .. After : h \in i .. After /\ h # i
      BY <1>1
    <3> QED BY <2>2, <3>1
  <2>4. \A o \in Int : p[i][o] = ParseOf(q, i, o)
    <3>1. i \in i .. After
      BY <1>1
    <3> QED BY <2>2, <3>1
  <2>5. ASSUME NEW h \in i .. After, NEW o \in Int
        PROVE  p[h][o] = ParseOf(p, h, o) /\ p[h][o] \in {Refused} \cup h .. After
    <3>1. h \in 1 .. After /\ (h = i \/ h \in i + 1 .. After) /\ \A k \in h + 1 .. After : k \in i + 1 .. After
      BY <1>1
    <3>2. \A k \in h + 1 .. After : \A u \in Int : p[k][u] = q[k][u] /\ q[k][u] \in {Refused} \cup k .. After
      BY <2>1, <2>3, <3>1
    <3>3. ParseOf(p, h, o) = ParseOf(q, h, o) /\ ParseOf(q, h, o) \in {Refused} \cup h .. After
      BY <3>1, <3>2, ParseAsks
    <3>4. p[h][o] = ParseOf(q, h, o)
      BY <2>1, <2>3, <2>4, <3>1
    <3> QED BY <3>3, <3>4
  <2>6. p = [h \in i .. After |-> [o \in Int |-> p[h][o]]]
    BY <2>2
  <2> QED BY <2>5, <2>6 DEF Parses
<1>3. \A i \in 1 .. After : i \in S
  <2> HIDE DEF S
  <2> QED BY <1>1, <1>2, Backwards
<1> QED BY <1>1, <1>3

\* So the parse is defined; whatever is chosen for it asks for lines behind only.
LEMMA BlockParses ==
  ASSUME BlocksInv
  PROVE  \E p : Parses(p, 1) /\ Block = [i \in 1 .. Len(lines) |-> StartAt(p, i)]
<1>1. PICK g : Parses(g, 1)
  BY ParseExists
<1>2. IsParse(g)
  BY <1>1 DEF Parses, IsParse
<1>3. PICK p : IsParse(p) /\ Block = [i \in 1 .. Len(lines) |-> StartAt(p, i)]
  BY <1>2, BlockIs
<1>4. p = [h \in 1 .. After |-> [open \in Int |-> p[h][open]]]
      /\ \A h \in 1 .. After : \A open \in Int : p[h][open] = ParseOf(p, h, open)
  <2>1. \A h \in 1 .. After : p[h] = [open \in Int |-> ParseOf(p, h, open)]
    BY <1>3 DEF IsParse
  <2>2. \A h \in 1 .. After : \A open \in Int : p[h][open] = ParseOf(p, h, open)
    BY <2>1
  <2>3. \A h \in 1 .. After : p[h] = [open \in Int |-> p[h][open]]
    BY <2>1, <2>2
  <2>4. p = [h \in 1 .. After |-> p[h]]
    BY <1>3 DEF IsParse
  <2> QED BY <2>2, <2>3, <2>4
<1> DEFINE S == {h \in 1 .. After : \A open \in Int : p[h][open] \in {Refused} \cup h .. After}
<1>5. ASSUME NEW i \in 1 .. After, \A j \in i + 1 .. After : j \in S PROVE i \in S
  <2>1. \A h \in i + 1 .. After : \A o \in Int : p[h][o] = p[h][o] /\ p[h][o] \in {Refused} \cup h .. After
    BY <1>5
  <2>2. \A open \in Int : ParseOf(p, i, open) \in {Refused} \cup i .. After
    BY <2>1, ParseAsks
  <2> QED BY <1>4, <2>2
<1>6. \A i \in 1 .. After : i \in S
  <2>1. After \in Nat
    BY LineKinds
  <2> HIDE DEF S
  <2> QED BY <1>5, <2>1, Backwards
<1>7. Parses(p, 1)
  BY <1>4, <1>6 DEF Parses
<1> QED BY <1>3, <1>7

-----------------------------------------------------------------------------
(* The depth of the text. *)

LEMMA DepthIs ==
  ASSUME BlocksInv
  PROVE  /\ Depth[0] = 0
         /\ \A i \in 1 .. Len(lines) : Depth[i] = Depth[i - 1] + Line(i).adds
         /\ \A i \in 0 .. Len(lines) : Depth[i] \in Int
<1> DEFINE N == Len(lines)
           Deep(d, n) ==
             /\ d = [i \in 0 .. n |-> d[i]] /\ d[0] = 0
             /\ \A i \in 1 .. n : d[i] = d[i - 1] + Line(i).adds
           S == {n \in 0 .. N : \E d : Deep(d, n)}
<1>1. N \in Nat /\ 0 \in 0 .. N /\ \A i \in 1 .. N : Line(i).adds \in Int
  BY LineKinds, LinesOfKinds
<1>2. 0 \in S
  <2>1. PICK d : d = [i \in 0 .. 0 |-> 0]
    OBVIOUS
  <2>2. Deep(d, 0)
    BY <2>1
  <2> QED BY <1>1, <2>2
<1>3. ASSUME NEW n \in 1 .. N, n - 1 \in S PROVE n \in S
  <2>1. PICK d : Deep(d, n - 1)
    BY <1>3
  <2>2. PICK e : e = [i \in 0 .. n |-> IF i = n THEN d[n - 1] + Line(n).adds ELSE d[i]]
    OBVIOUS
  <2>3. n \in 0 .. n /\ 0 \in 0 .. n /\ 0 # n /\ \A i \in 1 .. n : i - 1 \in 0 .. n /\ i - 1 # n /\ i \in 0 .. n
        /\ (i = n \/ i \in 1 .. n - 1)
    BY <1>1
  <2>4. e[0] = 0 /\ \A i \in 1 .. n : e[i] = e[i - 1] + Line(i).adds
    BY <2>1, <2>2, <2>3
  <2>5. e = [i \in 0 .. n |-> e[i]]
    BY <2>2
  <2>6. Deep(e, n)
    BY <2>4, <2>5
  <2>7. n \in 0 .. N
    BY <1>1
  <2> HIDE DEF Deep
  <2> QED BY <2>6, <2>7
<1>4. N \in S
  <2> HIDE DEF S, N
  <2> QED BY <1>1, <1>2, <1>3, Forwards
<1> DEFINE IsDepth(d) == d = [i \in 0 .. Len(lines) |-> IF i = 0 THEN 0 ELSE d[i - 1] + Line(i).adds]
<1>5. \E d : IsDepth(d)
  <2>1. PICK d : Deep(d, N)
    BY <1>4
  <2>2. \A i \in 0 .. N : d[i] = IF i = 0 THEN 0 ELSE d[i - 1] + Line(i).adds
    <3>1. \A i \in 0 .. N : i = 0 \/ i \in 1 .. N
      BY <1>1
    <3> QED BY <2>1, <3>1
  <2>3. IsDepth(d)
    BY <2>1, <2>2
  <2> QED BY <2>3
<1>6. IsDepth(CHOOSE d : IsDepth(d))
  <2> HIDE DEF IsDepth
  <2> QED BY <1>5, Zenon
<1>7. Depth = CHOOSE d : IsDepth(d)
  BY Zenon DEF Depth
<1>8. IsDepth(Depth)
  <2> HIDE DEF IsDepth
  <2> QED BY <1>6, <1>7
<1>9. Depth[0] = 0 /\ \A i \in 1 .. N : Depth[i] = Depth[i - 1] + Line(i).adds
  <2>1. \A i \in 1 .. N : i \in 0 .. N /\ i # 0
    BY <1>1
  <2> QED BY <1>1, <1>8, <2>1
<1>10. \A i \in 0 .. N : Depth[i] \in Int
  <2> DEFINE D == {i \in 0 .. N : Depth[i] \in Int}
  <2>1. 0 \in D /\ \A i \in 1 .. N : i - 1 \in D => i \in D
    BY <1>1, <1>9
  <2>2. \A i \in 0 .. N : i \in D
    <3> HIDE DEF D, N
    <3> QED BY <1>1, <2>1, Forwards
  <2> QED BY <2>2
<1> QED BY <1>9, <1>10

-----------------------------------------------------------------------------
(* The parse of the whole text. *)

Reads(r) ==
  r = [i \in 0 .. After |->
         IF i = Refused THEN FALSE
         ELSE IF i = After THEN TRUE
         ELSE IF Line(i).start THEN r[Block[i]]
         ELSE Line(i).valid /\ r[i + 1]]

LEMMA AcceptedIs ==
  ASSUME \E r : Reads(r)
  PROVE  \E r : Reads(r) /\ (Accepted <=> lines # << >> /\ r[1])
<1>1. Reads(CHOOSE r : Reads(r))
  BY Zenon
<1>2. Accepted <=> lines # << >> /\ (CHOOSE r : Reads(r))[1]
  BY Zenon DEF Accepted, Reads
<1> QED BY <1>1, <1>2

LEMMA ReadExists ==
  ASSUME BlocksInv
  PROVE  \E r : Reads(r)
<1> DEFINE ReadOf(r, i) ==
             IF i = Refused THEN FALSE
             ELSE IF i = After THEN TRUE
             ELSE IF Line(i).start THEN r[Block[i]]
             ELSE Line(i).valid /\ r[i + 1]
           Ahead(i) == {Refused} \cup i .. After
           Read(r, i) == r = [h \in Ahead(i) |-> ReadOf(r, h)]
           S == {i \in 1 .. After : \E r : Read(r, i)}
<1>1. After \in Nat /\ After = Len(lines) + 1 /\ Refused = 0 /\ 1 \in 1 .. After /\ Len(lines) \in Nat
  BY LineKinds DEF Refused
<1>2. \A i \in 1 .. Len(lines) : Block[i] \in Ahead(i + 1)
  <2>1. PICK p : Parses(p, 1) /\ Block = [i \in 1 .. Len(lines) |-> StartAt(p, i)]
    BY BlockParses
  <2>2. \A i \in 1 .. Len(lines) : i + 1 \in 1 .. After /\ Line(i).count \in Int
    BY <1>1, LineKinds, LinesOfKinds
  <2>3. \A i \in 1 .. Len(lines) : Block[i] = StartAt(p, i)
    BY <2>1
  <2>4. \A i \in 1 .. Len(lines) : p[i + 1][Line(i).count] \in Ahead(i + 1)
    BY <2>1, <2>2 DEF Parses
  <2> QED BY <2>3, <2>4 DEF StartAt
<1>3. ASSUME NEW i \in 1 .. After, \A j \in i + 1 .. After : j \in S PROVE i \in S
  <2>1. PICK q : \A h \in Ahead(i + 1) : q[h] = ReadOf(q, h)
    <3>1. CASE i = After
      <4>1. PICK q : q = [h \in {0} |-> FALSE]
        OBVIOUS
      <4>2. Ahead(i + 1) = {0}
        BY <1>1, <3>1
      <4>3. q[0] = FALSE
        BY <4>1
      <4>4. \A h \in Ahead(i + 1) : q[h] = ReadOf(q, h)
        BY <1>1, <4>2, <4>3
      <4> QED BY <4>4
    <3>2. CASE i # After
      <4>1. i + 1 \in i + 1 .. After
        BY <1>1, <3>2
      <4>2. PICK q : Read(q, i + 1)
        BY <1>3, <4>1
      <4>3. \A h \in Ahead(i + 1) : q[h] = ReadOf(q, h)
        <5> HIDE DEF Ahead, ReadOf
        <5> QED BY <4>2
      <4> QED BY <4>3
    <3> QED BY <3>1, <3>2
  <2>2. PICK r : r = [h \in Ahead(i) |-> ReadOf(q, h)]
    OBVIOUS
  <2>3. \A h \in Ahead(i + 1) : h \in Ahead(i) /\ r[h] = q[h]
    <3>1. \A h \in Ahead(i + 1) : h \in Ahead(i)
      BY <1>1
    <3> HIDE DEF Ahead, ReadOf
    <3> QED BY <2>1, <2>2, <3>1
  <2>4. ASSUME NEW h \in Ahead(i) PROVE ReadOf(r, h) = ReadOf(q, h)
    <3>1. h = Refused \/ h = After \/ (h \in 1 .. Len(lines) /\ h + 1 \in Ahead(i + 1) /\ Ahead(h + 1) \subseteq Ahead(i + 1))
      BY <1>1
    <3>2. CASE h \in 1 .. Len(lines) /\ h + 1 \in Ahead(i + 1) /\ Ahead(h + 1) \subseteq Ahead(i + 1)
      <4>1. Block[h] \in Ahead(i + 1)
        BY <1>2, <3>2
      <4>2. r[Block[h]] = q[Block[h]] /\ r[h + 1] = q[h + 1]
        <5> HIDE DEF Ahead
        <5> QED BY <2>3, <3>2, <4>1
      <4> QED BY <4>2
    <3> QED BY <3>1, <3>2
  <2>5. Read(r, i)
    <3> HIDE DEF Ahead, ReadOf
    <3> QED BY <2>2, <2>4
  <2> HIDE DEF Read
  <2> QED BY <2>5
<1>4. 1 \in S
  <2> HIDE DEF S
  <2> QED BY <1>1, <1>3, Backwards
<1>5. PICK r : Read(r, 1)
  BY <1>4
<1>6. Ahead(1) = 0 .. After
  BY <1>1
<1>7. Reads(r)
  <2>1. r = [h \in 0 .. After |-> ReadOf(r, h)]
    <3> HIDE DEF Ahead, ReadOf
    <3> QED BY <1>5, <1>6
  <2> QED BY <2>1 DEF Reads
<1> QED BY <1>7

-----------------------------------------------------------------------------
(* What a parse that comes to its end has read. *)

\* The line was checked, or has a brace that closes the block.
LookedAt(i) == Line(i).valid \/ Line(i).dips > 0

\* The ways to a place: at once, through an else, through a block, over a line.
LEMMA ParseCases ==
  ASSUME BlocksInv, NEW p, Parses(p, 1), NEW i \in 1 .. After, NEW open \in Int, p[i][open] # Refused
  PROVE  /\ p[i][open] \in i .. After
         /\ \/ open = 0 /\ p[i][open] = i
            \/ /\ open = 0 /\ i \in 1 .. Len(lines) /\ Line(i).valid
               /\ p[i][open] = p[i + 1][Line(i).count]
            \/ /\ open > 0 /\ i \in 1 .. Len(lines) /\ Line(i).valid
               /\ p[i + 1][Line(i).count] \in i + 1 .. After
               /\ p[i][open] = p[p[i + 1][Line(i).count]][open]
            \/ /\ open > 0 /\ i \in 1 .. Len(lines) /\ LookedAt(i)
               /\ p[i][open] = p[i + 1][open + Line(i).count]
<1>1. Len(lines) \in Nat /\ After = Len(lines) + 1 /\ Refused = 0
  BY LineKinds DEF Refused
<1>2. p[i][open] = ParseOf(p, i, open) /\ p[i][open] \in i .. After
  BY DEF Parses
<1>3. CASE i = After
  <2>1. ~Chained(i)
    BY <1>1, <1>3 DEF Chained
  <2> QED BY <1>1, <1>2, <1>3, <2>1 DEF ParseOf, Unbalanced
<1>4. CASE i # After
  <2>1. i \in 1 .. Len(lines) /\ i + 1 \in 1 .. After
    BY <1>1, <1>4
  <2>2. Line(i).count \in {-1, 0, 1} /\ (Line(i).count = -1 => LookedAt(i))
    BY <2>1, LineKinds, LinesOfKinds DEF LookedAt
  <2>7. Line(i).count \in Int
    BY <2>2
  <2>3. p[i + 1][Line(i).count] \in {Refused} \cup i + 1 .. After
    BY <2>1, <2>7 DEF Parses
  <2>4. CASE open <= 0
    BY <1>1, <1>2, <2>1, <2>4 DEF ParseOf, Unbalanced, StartAt
  <2>5. CASE open > 0 /\ Line(i).start
    <3>1. StartAt(p, i) # Refused /\ p[i][open] = p[StartAt(p, i)][open]
      BY <1>1, <1>2, <1>4, <2>5 DEF ParseOf, Counted
    <3>2. Line(i).valid /\ StartAt(p, i) = p[i + 1][Line(i).count]
      BY <3>1 DEF StartAt
    <3> QED BY <1>2, <2>1, <2>3, <2>5, <3>1, <3>2
  <2>6. CASE open > 0 /\ ~Line(i).start
    <3>1. Counted(i, open) = open + Line(i).count
      BY <2>6 DEF Counted
    <3>2. StepPasses(i, Counted(i, open)) /\ p[i][open] = p[i + 1][open + Line(i).count]
      BY <1>1, <1>2, <1>4, <2>6, <3>1 DEF ParseOf
    <3>3. LookedAt(i)
      BY <2>2, <2>6, <3>1, <3>2 DEF StepPasses, LookedAt
    <3> QED BY <1>2, <2>1, <2>6, <3>2, <3>3
  <2> QED BY <2>4, <2>5, <2>6
<1> QED BY <1>3, <1>4

\* Each line on the way was looked at.
LEMMA ParseReads ==
  ASSUME BlocksInv, NEW p, Parses(p, 1)
  PROVE  \A i \in 1 .. After : \A open \in Int :
           p[i][open] # Refused => \A k \in i .. p[i][open] - 1 : LookedAt(k)
<1> DEFINE S == {i \in 1 .. After : \A open \in Int :
                   p[i][open] # Refused => \A k \in i .. p[i][open] - 1 : LookedAt(k)}
<1>1. Len(lines) \in Nat /\ After = Len(lines) + 1 /\ After \in Nat /\ Refused = 0
  BY LineKinds DEF Refused
<1>2. ASSUME NEW i \in 1 .. After, \A j \in i + 1 .. After : j \in S PROVE i \in S
  <2> SUFFICES ASSUME NEW open \in Int, p[i][open] # Refused, NEW k \in i .. p[i][open] - 1
               PROVE  LookedAt(k)
    OBVIOUS
  <2>1. p[i][open] \in i .. After
    BY ParseCases
  <2>2. CASE i = After
    BY <1>1, <2>1, <2>2
  <2>3. CASE i # After
    <3>1. i \in 1 .. Len(lines) /\ i + 1 \in i + 1 .. After /\ Line(i).count \in Int /\ open + Line(i).count \in Int
      BY <1>1, <2>3, LineKinds, LinesOfKinds
    <3>2. ASSUME NEW j \in i + 1 .. After, NEW o \in Int, p[j][o] # Refused, NEW l \in j .. p[j][o] - 1
          PROVE  LookedAt(l)
      BY <1>2, <3>2
    <3>3. CASE p[i][open] = i
      BY <1>1, <3>3
    <3>4. CASE LookedAt(i) /\ \E o \in Int : p[i][open] = p[i + 1][o]
      <4>1. k = i \/ k \in i + 1 .. p[i][open] - 1
        BY <1>1, <2>1
      <4> QED BY <3>1, <3>2, <3>4, <4>1
    <3>5. CASE /\ LookedAt(i) /\ p[i + 1][Line(i).count] \in i + 1 .. After
               /\ p[i][open] = p[p[i + 1][Line(i).count]][open]
      <4>1. PICK next \in i + 1 .. After : next = p[i + 1][Line(i).count]
        BY <3>5
      <4>2. k = i \/ k \in i + 1 .. next - 1 \/ k \in next .. p[next][open] - 1
        BY <1>1, <2>1, <3>5, <4>1
      <4>3. next # Refused
        BY <1>1, <4>1
      <4>4. CASE k \in i + 1 .. next - 1
        BY <3>1, <3>2, <4>1, <4>3, <4>4
      <4>5. CASE k \in next .. p[next][open] - 1
        BY <3>2, <3>5, <4>1, <4>5
      <4> QED BY <3>5, <4>2, <4>4, <4>5
    <3>6. \/ p[i][open] = i
          \/ LookedAt(i) /\ \E o \in Int : p[i][open] = p[i + 1][o]
          \/ /\ LookedAt(i) /\ p[i + 1][Line(i).count] \in i + 1 .. After
             /\ p[i][open] = p[p[i + 1][Line(i).count]][open]
      <4>1. Line(i).valid => LookedAt(i)
        BY DEF LookedAt
      <4> QED BY <3>1, <4>1, ParseCases
    <3> QED BY <3>3, <3>4, <3>5, <3>6
  <2> QED BY <2>2, <2>3
<1>3. \A i \in 1 .. After : i \in S
  <2> HIDE DEF S
  <2> QED BY <1>1, <1>2, Backwards
<1> QED BY <1>3

\* Without braces in comments, as many were closed on the way as were open.
LEMMA ParseFalls ==
  ASSUME BlocksInv, ~Commented, NEW p, Parses(p, 1)
  PROVE  \A i \in 1 .. After : \A open \in Int :
           p[i][open] # Refused => Depth[p[i][open] - 1] = Depth[i - 1] - open
<1> DEFINE S == {i \in 1 .. After : \A open \in Int :
                   p[i][open] # Refused => Depth[p[i][open] - 1] = Depth[i - 1] - open}
<1>1. Len(lines) \in Nat /\ After = Len(lines) + 1 /\ After \in Nat /\ Refused = 0
  BY LineKinds DEF Refused
<1>2. ASSUME NEW i \in 1 .. After, \A j \in i + 1 .. After : j \in S PROVE i \in S
  <2> SUFFICES ASSUME NEW open \in Int, p[i][open] # Refused
               PROVE  Depth[p[i][open] - 1] = Depth[i - 1] - open
    OBVIOUS
  <2>0. Depth[i - 1] \in Int
    BY <1>1, DepthIs
  <2>1. CASE open = 0 /\ p[i][open] = i
    BY <2>0, <2>1
  <2>2. CASE i \in 1 .. Len(lines)
    <3>1. i + 1 \in i + 1 .. After /\ Line(i).count \in Int /\ open + Line(i).count \in Int
      BY <1>1, <2>2, LineKinds, LinesOfKinds
    <3>2. Line(i).adds = Line(i).count
      <4>1. lines[i] \notin {"opens", "closes"}
        BY <2>2 DEF Commented
      <4> QED BY <2>2, <4>1, LineKinds, LinesOfKinds
    <3>3. Depth[i] = Depth[i - 1] + Line(i).count /\ Depth[i] \in Int /\ (i + 1) - 1 = i
      BY <1>1, <2>2, <3>2, DepthIs
    <3>4. ASSUME NEW j \in i + 1 .. After, NEW o \in Int, p[j][o] # Refused
          PROVE  Depth[p[j][o] - 1] = Depth[j - 1] - o
      BY <1>2, <3>4
    <3>5. CASE open = 0 /\ p[i][open] = p[i + 1][Line(i).count]
      <4>1. Depth[p[i + 1][Line(i).count] - 1] = Depth[(i + 1) - 1] - Line(i).count
        BY <3>1, <3>4, <3>5
      <4> QED BY <2>0, <3>1, <3>3, <3>5, <4>1
    <3>6. CASE p[i][open] = p[i + 1][open + Line(i).count]
      <4>1. Depth[p[i + 1][open + Line(i).count] - 1] = Depth[(i + 1) - 1] - (open + Line(i).count)
        BY <3>1, <3>4, <3>6
      <4> QED BY <2>0, <3>1, <3>3, <3>6, <4>1
    <3>7. CASE /\ p[i + 1][Line(i).count] \in i + 1 .. After
               /\ p[i][open] = p[p[i + 1][Line(i).count]][open]
      <4>1. PICK next \in i + 1 .. After : next = p[i + 1][Line(i).count]
        BY <3>7
      <4>2. next # Refused
        BY <1>1, <4>1
      <4>3. Depth[next - 1] = Depth[(i + 1) - 1] - Line(i).count
        BY <3>1, <3>4, <4>1, <4>2
      <4>4. Depth[p[next][open] - 1] = Depth[next - 1] - open
        BY <3>4, <3>7, <4>1
      <4> QED BY <2>0, <3>1, <3>3, <3>7, <4>1, <4>3, <4>4
    <3>8. \/ open = 0 /\ p[i][open] = i
          \/ open = 0 /\ p[i][open] = p[i + 1][Line(i).count]
          \/ /\ p[i + 1][Line(i).count] \in i + 1 .. After
             /\ p[i][open] = p[p[i + 1][Line(i).count]][open]
          \/ p[i][open] = p[i + 1][open + Line(i).count]
      BY ParseCases
    <3> QED BY <2>1, <3>5, <3>6, <3>7, <3>8
  <2>3. CASE i \notin 1 .. Len(lines)
    <3>1. open = 0 /\ p[i][open] = i
      BY <2>3, ParseCases
    <3> QED BY <2>1, <3>1
  <2> QED BY <2>2, <2>3
<1>3. \A i \in 1 .. After : i \in S
  <2> HIDE DEF S
  <2> QED BY <1>1, <1>2, Backwards
<1> QED BY <1>3

\* A block ends behind its line; its lines were looked at, and its braces are closed.
LEMMA BlockReads ==
  ASSUME BlocksInv, NEW i \in 1 .. Len(lines), Block[i] # Refused
  PROVE  /\ Block[i] \in i + 1 .. After
         /\ \A k \in i .. Block[i] - 1 : LookedAt(k)
         /\ ~Commented => Depth[Block[i] - 1] = Depth[i - 1]
<1>1. Len(lines) \in Nat /\ After = Len(lines) + 1 /\ Refused = 0
  BY LineKinds DEF Refused
<1>2. PICK p : Parses(p, 1) /\ Block = [h \in 1 .. Len(lines) |-> StartAt(p, h)]
  BY BlockParses
<1>3. Line(i).valid /\ Block[i] = p[i + 1][Line(i).count] /\ p[i + 1][Line(i).count] # Refused
  BY <1>2 DEF StartAt
<1>4. i + 1 \in 1 .. After /\ Line(i).count \in Int
  BY <1>1, LineKinds, LinesOfKinds
<1>5. Block[i] \in i + 1 .. After
  BY <1>2, <1>3, <1>4, ParseCases
<1>6. \A k \in i .. Block[i] - 1 : LookedAt(k)
  <2>1. \A k \in i + 1 .. Block[i] - 1 : LookedAt(k)
    BY <1>2, <1>3, <1>4, ParseReads
  <2>2. \A k \in i .. Block[i] - 1 : k = i \/ k \in i + 1 .. Block[i] - 1
    BY <1>1, <1>5
  <2> QED BY <1>3, <2>1, <2>2 DEF LookedAt
<1>7. ASSUME ~Commented PROVE Depth[Block[i] - 1] = Depth[i - 1]
  <2>1. Depth[Block[i] - 1] = Depth[(i + 1) - 1] - Line(i).count
    BY <1>2, <1>3, <1>4, <1>7, ParseFalls
  <2>2. Line(i).adds = Line(i).count
    <3>1. lines[i] \notin {"opens", "closes"}
      BY <1>7 DEF Commented
    <3> QED BY <3>1, LineKinds, LinesOfKinds
  <2>3. Depth[i] = Depth[i - 1] + Line(i).count /\ Depth[i - 1] \in Int /\ (i + 1) - 1 = i
    BY <1>1, <2>2, DepthIs
  <2> QED BY <1>4, <2>1, <2>3
<1> QED BY <1>5, <1>6, <1>7

\* What accepts a text accepts what follows each of its steps and blocks.
LEMMA ReadCases ==
  ASSUME BlocksInv, NEW r, Reads(r), NEW i \in 1 .. Len(lines)
  PROVE  /\ Line(i).start => (r[i] <=> r[Block[i]])
         /\ ~Line(i).start => (r[i] <=> Line(i).valid /\ r[i + 1])
         /\ ~r[Refused] /\ r[After]
<1>1. Len(lines) \in Nat /\ After = Len(lines) + 1 /\ Refused = 0
  BY LineKinds DEF Refused
<1>2. i \in 0 .. After /\ i # After /\ i # Refused /\ After \in 0 .. After /\ Refused \in 0 .. After /\ After # Refused
  BY <1>1
<1>3. \A h \in 0 .. After :
        r[h] = IF h = Refused THEN FALSE
               ELSE IF h = After THEN TRUE
               ELSE IF Line(h).start THEN r[Block[h]]
               ELSE Line(h).valid /\ r[h + 1]
  BY DEF Reads
<1> QED BY <1>2, <1>3

LEMMA LinesAreRead == BlocksInv => EveryLineRead
<1> SUFFICES ASSUME BlocksInv, Accepted, NEW k \in 1 .. Len(lines) PROVE LookedAt(k)
  BY LineKinds, LinesOfKinds DEF EveryLineRead, LookedAt
<1>1. PICK r : Reads(r) /\ r[1]
  BY ReadExists, AcceptedIs
<1>2. Len(lines) \in Nat /\ After = Len(lines) + 1 /\ After \in Nat /\ Refused = 0
  BY LineKinds DEF Refused
<1> DEFINE S == {i \in 1 .. After : r[i] => \A l \in i .. Len(lines) : LookedAt(l)}
<1>3. ASSUME NEW i \in 1 .. After, \A j \in i + 1 .. After : j \in S PROVE i \in S
  <2> SUFFICES ASSUME r[i], NEW l \in i .. Len(lines) PROVE LookedAt(l)
    OBVIOUS
  <2>1. i \in 1 .. Len(lines) /\ i + 1 \in i + 1 .. After
    BY <1>2
  <2>2. CASE Line(i).start
    <3>1. r[Block[i]] /\ Block[i] # Refused
      BY <1>1, <2>1, <2>2, ReadCases
    <3>2. Block[i] \in i + 1 .. After /\ \A m \in i .. Block[i] - 1 : LookedAt(m)
      BY <2>1, <3>1, BlockReads
    <3>3. \A m \in Block[i] .. Len(lines) : LookedAt(m)
      BY <1>3, <3>1, <3>2
    <3>4. l \in i .. Block[i] - 1 \/ l \in Block[i] .. Len(lines)
      BY <1>2, <3>2
    <3> QED BY <3>2, <3>3, <3>4
  <2>3. CASE ~Line(i).start
    <3>1. Line(i).valid /\ r[i + 1]
      BY <1>1, <2>1, <2>3, ReadCases
    <3>2. l = i \/ l \in i + 1 .. Len(lines)
      BY <1>2
    <3> QED BY <1>3, <2>1, <3>1, <3>2 DEF LookedAt
  <2> QED BY <2>2, <2>3
<1>4. 1 \in S
  <2>1. 1 \in 1 .. After
    BY <1>2
  <2> HIDE DEF S
  <2> QED BY <1>2, <1>3, <2>1, Backwards
<1> QED BY <1>1, <1>4

\* Where no brace closes more than is open, a line without a start that is looked at at
\* the top adds nothing.
LEMMA TopAddsNothing ==
  ASSUME BlocksInv, ~Commented, NeverBelow, NEW i \in 1 .. Len(lines), ~Line(i).start,
         Line(i).valid, Depth[i - 1] = 0
  PROVE  Depth[i] = 0
<1>1. lines[i] \notin {"opens", "closes"}
  BY DEF Commented
<1>2. /\ Line(i).count \in {-1, 0} /\ Line(i).adds = Line(i).count /\ (Line(i).adds = -1 => Line(i).dips = 1)
  BY <1>1, LineKinds, LinesOfKinds
<1>3. Depth[i - 1] >= Line(i).dips
  BY DEF NeverBelow
<1>4. Line(i).adds = 0
  BY <1>2, <1>3
<1>5. Depth[i] = Depth[i - 1] + Line(i).adds
  BY DepthIs
<1> QED BY <1>4, <1>5

LEMMA NothingIsOpen == BlocksInv => NothingLeftOpen
<1> SUFFICES ASSUME BlocksInv, Accepted, ~Commented, NeverBelow PROVE Depth[Len(lines)] = 0
  BY DEF NothingLeftOpen
<1>1. PICK r : Reads(r) /\ r[1]
  BY ReadExists, AcceptedIs
<1>2. Len(lines) \in Nat /\ After = Len(lines) + 1 /\ After \in Nat /\ Refused = 0
  BY LineKinds DEF Refused
<1> DEFINE S == {i \in 1 .. After : r[i] /\ Depth[i - 1] = 0 => Depth[Len(lines)] = 0}
<1>3. ASSUME NEW i \in 1 .. After, \A j \in i + 1 .. After : j \in S PROVE i \in S
  <2> SUFFICES ASSUME r[i], Depth[i - 1] = 0 PROVE Depth[Len(lines)] = 0
    OBVIOUS
  <2>1. CASE i = After
    BY <1>2, <2>1
  <2>2. CASE i # After
    <3>1. i \in 1 .. Len(lines) /\ i + 1 \in i + 1 .. After /\ (i + 1) - 1 = i
      BY <1>2, <2>2
    <3>2. CASE Line(i).start
      <4>1. r[Block[i]] /\ Block[i] # Refused
        BY <1>1, <3>1, <3>2, ReadCases
      <4>2. Block[i] \in i + 1 .. After /\ Depth[Block[i] - 1] = 0
        BY <3>1, <4>1, BlockReads
      <4> QED BY <1>3, <4>1, <4>2
    <3>3. CASE ~Line(i).start
      <4>1. r[i + 1] /\ Line(i).valid
        BY <1>1, <3>1, <3>3, ReadCases
      <4>2. Depth[(i + 1) - 1] = 0
        BY <3>1, <3>3, <4>1, TopAddsNothing
      <4> QED BY <1>3, <3>1, <4>1, <4>2
    <3> QED BY <3>2, <3>3
  <2> QED BY <2>1, <2>2
<1>4. 1 \in S
  <2>1. 1 \in 1 .. After
    BY <1>2
  <2> HIDE DEF S
  <2> QED BY <1>2, <1>3, <2>1, Backwards
<1>5. Depth[1 - 1] = 0
  BY DepthIs
<1> QED BY <1>1, <1>4, <1>5

-----------------------------------------------------------------------------
(* What is well-formed is accepted. *)

\* Inside a well-formed text, what is open is closed further on.
LEMMA WellFormedParses ==
  ASSUME BlocksInv, WellFormed, NEW p, Parses(p, 1)
  PROVE  \A i \in 1 .. After : \A open \in Nat : open <= Depth[i - 1] => p[i][open] # Refused
<1> DEFINE S == {i \in 1 .. After : \A open \in Nat : open <= Depth[i - 1] => p[i][open] # Refused}
<1>1. Len(lines) \in Nat /\ After = Len(lines) + 1 /\ After \in Nat /\ Refused = 0
  BY LineKinds DEF Refused
<1>2. ASSUME NEW i \in 1 .. After, \A j \in i + 1 .. After : j \in S PROVE i \in S
  <2> SUFFICES ASSUME NEW open \in Nat, open <= Depth[i - 1] PROVE p[i][open] # Refused
    OBVIOUS
  <2>0. p[i][open] = ParseOf(p, i, open)
    BY DEF Parses
  <2>1. CASE i = After
    <3>1. Depth[i - 1] = 0 /\ i # Refused
      BY <1>1, <2>1 DEF WellFormed
    <3>2. open = 0 /\ ~Chained(i)
      BY <1>1, <2>1, <3>1 DEF Chained
    <3> QED BY <2>0, <2>1, <3>1, <3>2 DEF ParseOf, Unbalanced
  <2>2. CASE i # After
    <3>1. i \in 1 .. Len(lines) /\ i + 1 \in i + 1 .. After /\ (i + 1) - 1 = i /\ i # Refused
      BY <1>1, <2>2
    <3>2. Line(i).valid /\ lines[i] \notin {"opens", "closes"}
      BY <3>1 DEF WellFormed, Commented
    <3>3. /\ Line(i).count \in {-1, 0, 1} /\ Line(i).adds = Line(i).count
          /\ Line(i).start => Line(i).count \in {0, 1}
          /\ ~Line(i).start => Line(i).count \in {-1, 0}
          /\ Line(i).else => Line(i).start
      BY <3>1, <3>2, LineKinds, LinesOfKinds
    <3>4. Depth[i] = Depth[i - 1] + Line(i).count /\ Depth[i - 1] \in Int
      BY <1>1, <3>1, <3>3, DepthIs
    <3>5. ASSUME NEW j \in i + 1 .. After, NEW o \in Nat, o <= Depth[j - 1] PROVE p[j][o] # Refused
      BY <1>2, <3>5
    <3>6. CASE Line(i).start
      <4>1. Line(i).count \in Nat /\ Line(i).count <= Depth[(i + 1) - 1]
        BY <3>1, <3>3, <3>4, <3>6
      <4>2. p[i + 1][Line(i).count] # Refused
        BY <3>1, <3>5, <4>1
      <4>3. StartAt(p, i) = p[i + 1][Line(i).count]
        BY <3>2 DEF StartAt
      <4>4. PICK next : next = p[i + 1][Line(i).count]
        OBVIOUS
      <4>5. next \in i + 1 .. After /\ Depth[next - 1] = Depth[(i + 1) - 1] - Line(i).count
        <5>1. i + 1 \in 1 .. After /\ Line(i).count \in Int /\ ~Commented
          BY <1>1, <3>1, <3>3 DEF WellFormed
        <5> QED BY <4>2, <4>4, <5>1, ParseCases, ParseFalls
      <4>6. Depth[next - 1] = Depth[i - 1]
        BY <3>1, <3>3, <3>4, <4>5
      <4>7. p[next][open] # Refused
        BY <3>5, <4>5, <4>6
      <4>8. CASE open = 0
        BY <2>0, <2>2, <3>1, <4>2, <4>3, <4>8 DEF ParseOf, Unbalanced
      <4>9. CASE open > 0
        BY <2>0, <2>2, <3>6, <4>2, <4>3, <4>4, <4>7, <4>9 DEF ParseOf, Counted
      <4> QED BY <4>8, <4>9
    <3>7. CASE ~Line(i).start
      <4>1. CASE open = 0
        <5>1. ~Chained(i)
          BY <3>3, <3>7 DEF Chained
        <5> QED BY <2>0, <3>1, <4>1, <5>1 DEF ParseOf, Unbalanced
      <4>2. CASE open > 0
        <5>1. open + Line(i).count \in Nat /\ open + Line(i).count <= Depth[(i + 1) - 1]
          BY <3>1, <3>3, <3>4, <3>7, <4>2
        <5>2. p[i + 1][open + Line(i).count] # Refused
          BY <3>1, <3>5, <5>1
        <5>3. Counted(i, open) = open + Line(i).count /\ StepPasses(i, Counted(i, open))
          BY <3>2, <3>7 DEF Counted, StepPasses
        <5> QED BY <2>0, <2>2, <3>7, <4>2, <5>2, <5>3 DEF ParseOf
      <4> QED BY <4>1, <4>2
    <3> QED BY <3>6, <3>7
  <2> QED BY <2>1, <2>2
<1>3. \A i \in 1 .. After : i \in S
  <2> HIDE DEF S
  <2> QED BY <1>1, <1>2, Backwards
<1> QED BY <1>3

LEMMA WellFormedIsAccepted == BlocksInv => WellFormedAccepted
<1> SUFFICES ASSUME BlocksInv, WellFormed PROVE Accepted
  BY DEF WellFormedAccepted
<1>1. PICK r : Reads(r) /\ (Accepted <=> lines # << >> /\ r[1])
  BY ReadExists, AcceptedIs
<1>2. Len(lines) \in Nat /\ After = Len(lines) + 1 /\ After \in Nat /\ Refused = 0
  BY LineKinds DEF Refused
<1>3. ~Commented /\ NeverBelow /\ lines # << >>
  BY DEF WellFormed
<1>4. PICK p : Parses(p, 1) /\ Block = [h \in 1 .. Len(lines) |-> StartAt(p, h)]
  BY BlockParses
<1> DEFINE S == {i \in 1 .. After : Depth[i - 1] = 0 => r[i]}
<1>5. 1 \in 1 .. Len(lines)
  BY <1>2, <1>3 DEF BlocksInv
<1>6. ASSUME NEW i \in 1 .. After, \A j \in i + 1 .. After : j \in S PROVE i \in S
  <2> SUFFICES ASSUME Depth[i - 1] = 0 PROVE r[i]
    OBVIOUS
  <2>1. CASE i = After
    BY <1>1, <1>5, <2>1, ReadCases
  <2>2. CASE i # After
    <3>1. i \in 1 .. Len(lines) /\ i + 1 \in i + 1 .. After /\ (i + 1) - 1 = i
      BY <1>2, <2>2
    <3>2. Line(i).valid /\ lines[i] \notin {"opens", "closes"}
      BY <3>1 DEF WellFormed, Commented
    <3>3. CASE Line(i).start
      <4>1. Line(i).count \in {0, 1} /\ Line(i).adds = Line(i).count
        BY <3>1, <3>2, <3>3, LineKinds, LinesOfKinds
      <4>2. Depth[(i + 1) - 1] = Line(i).count
        BY <3>1, <4>1, DepthIs
      <4>3. i + 1 \in 1 .. After /\ Line(i).count \in Nat /\ Line(i).count <= Depth[(i + 1) - 1]
        BY <1>2, <3>1, <4>1, <4>2
      <4>4. p[i + 1][Line(i).count] # Refused
        BY <1>4, <4>3, WellFormedParses
      <4>5. Block[i] # Refused
        BY <1>4, <3>1, <3>2, <4>4 DEF StartAt
      <4>6. Block[i] \in i + 1 .. After /\ Depth[Block[i] - 1] = 0
        BY <1>3, <3>1, <4>5, BlockReads
      <4>7. r[Block[i]]
        BY <1>6, <4>6
      <4> QED BY <1>1, <3>1, <3>3, <4>7, ReadCases
    <3>4. CASE ~Line(i).start
      <4>1. Depth[(i + 1) - 1] = 0
        BY <1>3, <3>1, <3>2, <3>4, TopAddsNothing
      <4>2. r[i + 1]
        BY <1>6, <3>1, <4>1
      <4> QED BY <1>1, <3>1, <3>2, <3>4, <4>2, ReadCases
    <3> QED BY <3>3, <3>4
  <2> QED BY <2>1, <2>2
<1>7. 1 \in S
  <2>1. 1 \in 1 .. After
    BY <1>2
  <2> HIDE DEF S
  <2> QED BY <1>2, <1>6, <2>1, Backwards
<1>8. Depth[1 - 1] = 0
  BY DepthIs
<1> QED BY <1>1, <1>3, <1>7, <1>8

LEMMA BlocksInitially == BlocksInit => BlocksInv
BY DEF BlocksInit, BlocksInv

LEMMA BlocksStep == BlocksInv /\ [BlocksNext]_lines => BlocksInv'
<1> SUFFICES ASSUME BlocksInv, [BlocksNext]_lines PROVE BlocksInv'
  OBVIOUS
<1>1. \A kind \in Typed : kind \in DOMAIN Lines
  BY LinesAssumption
<1> QED BY <1>1 DEF BlocksNext, TypeLine, BlocksInv

LEMMA BlocksMeans == BlocksInv => BlocksRead
BY LinesAreRead, NothingIsOpen, WellFormedIsAccepted DEF BlocksRead

-----------------------------------------------------------------------------
(* Scans of a text.  A fold over a sequence takes the set of its places apart, the last
   one first. *)

\* The greatest place of a set of places, and the one of the first so many.
LEMMA GreatestIsIn ==
  ASSUME NEW n \in Nat, NEW s \in SUBSET (1 .. n), s # {}
  PROVE  Max(s) \in s /\ \A y \in s : Max(s) >= y
<1> DEFINE turned == {n - x : x \in s}
<1>0. \A x \in s : x \in 1 .. n /\ n - x \in Nat
  OBVIOUS
<1>1. turned \subseteq Nat /\ turned # {}
  BY <1>0
<1>2. PICK x \in turned : \A y \in turned : x <= y
  <2> HIDE DEF turned
  <2> QED BY <1>1, LeastIsIn
<1>3. PICK z \in s : x = n - z
  BY <1>2
<1>4. \A y \in s : n - y \in turned /\ n - z <= n - y
  BY <1>2, <1>3
<1>5. \A y \in s : z >= y
  BY <1>0, <1>4
<1> QED BY <1>3, <1>5 DEF Max

\* The first so many places: the last of them, and the ones before it.
LEMMA LastOfAll ==
  ASSUME NEW i \in Nat, i # 0
  PROVE  Max(1 .. i) = i /\ (1 .. i) \ {i} = 1 .. i - 1 /\ 1 .. i # {}
<1>1. Max(1 .. i) \in 1 .. i /\ \A y \in 1 .. i : Max(1 .. i) >= y
  <2>1. 1 .. i \in SUBSET (1 .. i) /\ 1 .. i # {}
    <3>1. 1 \in 1 .. i
      OBVIOUS
    <3> QED BY <3>1
  <2> QED BY <2>1, GreatestIsIn
<1>2. i \in 1 .. i
  OBVIOUS
<1> QED BY <1>1, <1>2

\* There is a function that goes on by steps from a value at the empty set.
StepsOn(f, n, State, base, F) ==
  /\ f \in [SUBSET (1 .. n) -> State]
  /\ \A s \in SUBSET (1 .. n) : f[s] = IF s = {} THEN base ELSE F[Max(s)][f[s \ {Max(s)}]]

\* There is such a function, for any steps that keep the states.
LEMMA FoldExists ==
  ASSUME NEW n \in Nat, NEW State, NEW base \in State, NEW F \in [1 .. n -> [State -> State]]
  PROVE  \E f : StepsOn(f, n, State, base, F)
<1> DEFINE Goes(f, k) ==
             /\ f \in [SUBSET (1 .. k) -> State]
             /\ \A s \in SUBSET (1 .. k) :
                  f[s] = IF s = {} THEN base ELSE F[Max(s)][f[s \ {Max(s)}]]
           S == {k \in 0 .. n : \E f : Goes(f, k)}
<1>1. 0 \in S
  <2>1. PICK f : f = [s \in SUBSET (1 .. 0) |-> base]
    OBVIOUS
  <2>2. \A s \in SUBSET (1 .. 0) : s = {}
    OBVIOUS
  <2>3. Goes(f, 0)
    BY <2>1, <2>2
  <2>4. 0 \in 0 .. n
    OBVIOUS
  <2> HIDE DEF Goes
  <2> QED BY <2>3, <2>4
<1>2. ASSUME NEW k \in 1 .. n, k - 1 \in S PROVE k \in S
  <2>1. PICK g : Goes(g, k - 1)
    BY <1>2
  <2>2. PICK f : f = [s \in SUBSET (1 .. k) |-> IF k \in s THEN F[k][g[s \ {k}]] ELSE g[s]]
    OBVIOUS
  <2>3. \A s \in SUBSET (1 .. k) :
          IF k \in s THEN s \ {k} \in SUBSET (1 .. k - 1) /\ Max(s) = k /\ s # {} ELSE s \in SUBSET (1 .. k - 1)
    <3> SUFFICES ASSUME NEW s \in SUBSET (1 .. k)
                 PROVE  IF k \in s THEN s \ {k} \in SUBSET (1 .. k - 1) /\ Max(s) = k /\ s # {}
                        ELSE s \in SUBSET (1 .. k - 1)
      OBVIOUS
    <3>1. \A x \in s : x \in 1 .. k /\ (x # k => x \in 1 .. k - 1)
      OBVIOUS
    <3>2. CASE k \in s
      <4>1. Max(s) \in s /\ Max(s) >= k
        <5>1. k \in Nat /\ s # {}
          BY <3>2
        <5> QED BY <3>2, <5>1, GreatestIsIn
      <4>2. Max(s) = k
        <5>1. PICK m : m = Max(s)
          OBVIOUS
        <5>2. m \in 1 .. k /\ m >= k
          BY <3>1, <4>1, <5>1
        <5> QED BY <5>1, <5>2
      <4> QED BY <3>1, <3>2, <4>2
    <3>3. CASE k \notin s
      BY <3>1, <3>3
    <3> QED BY <3>2, <3>3
  <2>4. f \in [SUBSET (1 .. k) -> State]
    <3>1. \A s \in SUBSET (1 .. k) : (IF k \in s THEN F[k][g[s \ {k}]] ELSE g[s]) \in State
      BY <2>1, <2>3
    <3> QED BY <2>2, <3>1
  <2>5. ASSUME NEW s \in SUBSET (1 .. k)
        PROVE  f[s] = IF s = {} THEN base ELSE F[Max(s)][f[s \ {Max(s)}]]
    <3>1. CASE k \in s
      <4>1. f[s] = F[k][g[s \ {k}]] /\ f[s \ {k}] = g[s \ {k}] /\ Max(s) = k /\ s # {}
        BY <2>2, <2>3, <3>1
      <4> QED BY <4>1
    <3>2. CASE k \notin s
      <4>1. s \in SUBSET (1 .. k - 1) /\ f[s] = g[s]
        BY <2>2, <2>3, <3>2
      <4>2. s # {} => f[s \ {Max(s)}] = g[s \ {Max(s)}]
        BY <2>2, <2>3, <3>2
      <4>3. g[s] = IF s = {} THEN base ELSE F[Max(s)][g[s \ {Max(s)}]]
        BY <2>1, <4>1
      <4> QED BY <4>1, <4>2, <4>3
    <3> QED BY <3>1, <3>2
  <2>6. Goes(f, k)
    BY <2>4, <2>5
  <2>7. k \in 0 .. n
    OBVIOUS
  <2> HIDE DEF Goes
  <2> QED BY <2>6, <2>7
<1>3. n \in S
  <2>1. n \in 0 .. n
    OBVIOUS
  <2> HIDE DEF S
  <2> QED BY <1>1, <1>2, <2>1, Forwards
<1> QED BY <1>3 DEF StepsOn

\* A function on the sets of places that goes on by steps from its value at the empty set,
\* and what it gives for the first places, one after the other.
Recurs(h, n, State, base, F) ==
  \A s \in SUBSET (1 .. n) :
    /\ s = {} => h[s] = base
    /\ s # {} /\ h[s \ {Max(s)}] \in State => h[s] = F[Max(s)][h[s \ {Max(s)}]]

\* The states of a scan, place by place.
RunsTo(r, n, State, base, F, end) ==
  /\ r[0] = base /\ r[n] = end
  /\ \A i \in 1 .. n : r[i] = F[i][r[i - 1]]
  /\ \A i \in 0 .. n : r[i] \in State

\* What such a function gives for the first places is a run.
LEMMA RunOf ==
  ASSUME NEW n \in Nat, NEW State, NEW base \in State, NEW F \in [1 .. n -> [State -> State]],
         NEW h, Recurs(h, n, State, base, F)
  PROVE  \E r : RunsTo(r, n, State, base, F, h[1 .. n])
<1>1. PICK r : r = [i \in 0 .. n |-> h[1 .. i]]
  OBVIOUS
<1>2. r[0] = base /\ r[n] = h[1 .. n]
  <2>1. 1 .. 0 = {} /\ 0 \in 0 .. n /\ n \in 0 .. n /\ {} \in SUBSET (1 .. n)
    OBVIOUS
  <2>2. h[{}] = base
    BY <2>1 DEF Recurs
  <2> QED BY <1>1, <2>1, <2>2
<1>3. ASSUME NEW i \in 1 .. n, r[i - 1] \in State PROVE r[i] = F[i][r[i - 1]]
  <2>1. i \in Nat /\ i # 0 /\ i \in 0 .. n /\ i - 1 \in 0 .. n /\ 1 .. i \in SUBSET (1 .. n)
    OBVIOUS
  <2>2. Max(1 .. i) = i /\ (1 .. i) \ {i} = 1 .. i - 1 /\ 1 .. i # {}
    BY <2>1, LastOfAll
  <2>3. r[i] = h[1 .. i] /\ r[i - 1] = h[1 .. i - 1]
    BY <1>1, <2>1
  <2>4. h[(1 .. i) \ {i}] \in State => h[1 .. i] = F[i][h[(1 .. i) \ {i}]]
    BY <2>1, <2>2, Zenon DEF Recurs
  <2> QED BY <1>3, <2>2, <2>3, <2>4
<1>4. \A i \in 0 .. n : r[i] \in State
  <2> DEFINE S == {i \in 0 .. n : r[i] \in State}
  <2>1. 0 \in S
    BY <1>2
  <2>2. ASSUME NEW i \in 1 .. n, i - 1 \in S PROVE i \in S
    <3>1. r[i] = F[i][r[i - 1]] /\ i \in 0 .. n /\ F[i] \in [State -> State] /\ r[i - 1] \in State
      BY <1>3, <2>2
    <3> QED BY <3>1
  <2>3. \A i \in 0 .. n : i \in S
    <3> HIDE DEF S
    <3> QED BY <2>1, <2>2, Forwards
  <2> QED BY <2>3
<1>5. \A i \in 1 .. n : r[i] = F[i][r[i - 1]]
  <2>1. \A i \in 1 .. n : i - 1 \in 0 .. n
    OBVIOUS
  <2> QED BY <1>3, <1>4, <2>1
<1> QED BY <1>2, <1>4, <1>5 DEF RunsTo

-----------------------------------------------------------------------------
(* The scan for balanced brackets. *)

\* The scan for balanced brackets.
BalanceBase == [ok |-> TRUE, stack |-> << >>, quote |-> ""]
BalanceState == [ok : BOOLEAN, stack : Seq(Opening), quote : Quote \cup {""}]
BalanceEnd(text) == FoldLeft(BalanceStep, BalanceBase, text)

\* Its states keep their type.
LEMMA BalanceTyped ==
  ASSUME NEW s \in BalanceState, NEW c
  PROVE  BalanceStep(s, c) \in BalanceState
<1> DEFINE t == BalanceStep(s, c)
<1>1. s.ok \in BOOLEAN /\ s.stack \in Seq(Opening) /\ s.quote \in Quote \cup {""}
  BY DEF BalanceState
<1> PICK stack : stack = s.stack
  OBVIOUS
<1>0. stack \in Seq(Opening)
  BY <1>1
<1>2. ASSUME c \in Opening PROVE Append(stack, c) \in Seq(Opening)
  BY <1>0, <1>2
<1>3. ASSUME stack # << >> PROVE Front(stack) \in Seq(Opening)
  <2>1. Len(stack) \in Nat /\ Len(stack) # 0 /\ \A i \in 1 .. Len(stack) : stack[i] \in Opening
    BY <1>0, <1>3
  <2> QED BY <1>0, <2>1 DEF Front
<1>4. Popped(s.stack, c) => s.stack # << >>
  BY DEF Popped
<1> QED BY <1>1, <1>2, <1>3, <1>4 DEF BalanceStep, BalanceState

\* The function that the fold is the choice of.
IsBalance(f, text) ==
  f = [s \in SUBSET DOMAIN text |->
         IF s = {} THEN BalanceBase ELSE BalanceStep(f[s \ {Max(s)}], text[Max(s)])]

\* The fold is its value at all the places.
LEMMA BalanceIs ==
  ASSUME NEW text, \E f : IsBalance(f, text)
  PROVE  \E f : IsBalance(f, text) /\ BalanceEnd(text) = f[DOMAIN text]
<1> DEFINE end == CHOOSE f : IsBalance(f, text)
<1>1. IsBalance(end, text)
  BY Zenon
<1>2. BalanceEnd(text) = end[DOMAIN text]
  BY Zenon DEF BalanceEnd, FoldLeft, MapThenFoldSet, IsBalance
<1> QED BY <1>1, <1>2

\* The states of the scan, place by place.
LEMMA BalanceRuns ==
  ASSUME NEW C, NEW text \in Seq(C)
  PROVE  \E r : /\ r[0] = BalanceBase /\ r[Len(text)] = BalanceEnd(text)
                /\ \A i \in 1 .. Len(text) : r[i] = BalanceStep(r[i - 1], text[i])
                /\ \A i \in 0 .. Len(text) : r[i] \in BalanceState
<1> DEFINE n == Len(text)
<1>1. n \in Nat /\ DOMAIN text = 1 .. n
  OBVIOUS
<1>2. BalanceBase \in BalanceState
  BY DEF BalanceBase, BalanceState
<1>3. PICK F : F = [i \in 1 .. n |-> [v \in BalanceState |-> BalanceStep(v, text[i])]]
  OBVIOUS
<1>4. F \in [1 .. n -> [BalanceState -> BalanceState]]
  BY <1>3, BalanceTyped
<1>5. PICK f : StepsOn(f, n, BalanceState, BalanceBase, F)
  BY <1>1, <1>2, <1>4, FoldExists
<1>6. IsBalance(f, text)
  <2>1. \A s \in SUBSET (1 .. n) : s # {} => Max(s) \in 1 .. n /\ s \ {Max(s)} \in SUBSET (1 .. n)
    BY <1>1, GreatestIsIn
  <2>2. \A s \in SUBSET (1 .. n) : s # {} => F[Max(s)][f[s \ {Max(s)}]] = BalanceStep(f[s \ {Max(s)}], text[Max(s)])
    BY <1>3, <1>5, <2>1 DEF StepsOn
  <2>3. /\ f = [s \in SUBSET (1 .. n) |-> f[s]]
        /\ \A s \in SUBSET (1 .. n) : f[s] = IF s = {} THEN BalanceBase ELSE F[Max(s)][f[s \ {Max(s)}]]
    BY <1>5 DEF StepsOn
  <2> HIDE DEF n
  <2> QED BY <1>1, <2>2, <2>3 DEF IsBalance
<1>7. PICK h : IsBalance(h, text) /\ BalanceEnd(text) = h[1 .. n]
  BY <1>1, <1>6, BalanceIs
<1>8. Recurs(h, n, BalanceState, BalanceBase, F)
  <2>1. \A s \in SUBSET (1 .. n) : s # {} => Max(s) \in 1 .. n
    BY <1>1, GreatestIsIn
  <2>2. \A s \in SUBSET (1 .. n) :
          h[s] = IF s = {} THEN BalanceBase ELSE BalanceStep(h[s \ {Max(s)}], text[Max(s)])
    BY <1>1, <1>7 DEF IsBalance
  <2> QED BY <1>3, <2>1, <2>2 DEF Recurs
<1>9. PICK r : RunsTo(r, n, BalanceState, BalanceBase, F, h[1 .. n])
  <2> HIDE DEF n
  <2>1. n \in Nat
    BY <1>1
  <2> QED BY <1>2, <1>4, <1>8, <2>1, RunOf
<1>10. \A i \in 1 .. n : r[i] = BalanceStep(r[i - 1], text[i])
  <2> HIDE DEF n
  <2>1. \A i \in 1 .. n : i - 1 \in 0 .. n
    BY <1>1
  <2>2. \A i \in 1 .. n : r[i - 1] \in BalanceState
    BY <1>9, <2>1 DEF RunsTo
  <2> QED BY <1>3, <1>9, <2>2 DEF RunsTo
<1> QED BY <1>7, <1>9, <1>10 DEF RunsTo

-----------------------------------------------------------------------------
(* The scans of a condition. *)

\* The scan of a condition.
CountBase == [parens |-> 0, braces |-> 0, quote |-> ""]
CountState == [parens : Int, braces : Int, quote : Quote \cup {""}]
CountStep(s, c) ==
  IF c \in Quote /\ s.quote = "" THEN [s EXCEPT !.quote = c]
  ELSE IF c = s.quote THEN [s EXCEPT !.quote = ""]
  ELSE IF s.quote # "" THEN s
  ELSE [s EXCEPT !.parens = @ + (IF c = "(" THEN 1 ELSE IF c = ")" THEN -1 ELSE 0),
                 !.braces = @ + (IF c = "{" THEN 1 ELSE IF c = "}" THEN -1 ELSE 0)]

\* Its states keep their type.
LEMMA CountTyped ==
  ASSUME NEW s \in CountState, NEW c
  PROVE  CountStep(s, c) \in CountState
<1> DEFINE more(left, right) == IF c = left THEN 1 ELSE IF c = right THEN -1 ELSE 0
<1>1. s.parens \in Int /\ s.braces \in Int /\ s.quote \in Quote \cup {""}
      /\ s = [parens |-> s.parens, braces |-> s.braces, quote |-> s.quote]
  BY DEF CountState
<1>2. more("(", ")") \in Int /\ more("{", "}") \in Int
  OBVIOUS
<1>3. PICK parens, braces : parens = s.parens + more("(", ")") /\ braces = s.braces + more("{", "}")
  OBVIOUS
<1>4. parens \in Int /\ braces \in Int
  <2>1. PICK l, m, sp, sb : l = more("(", ")") /\ m = more("{", "}") /\ sp = s.parens /\ sb = s.braces
    OBVIOUS
  <2>2. l \in Int /\ m \in Int /\ sp \in Int /\ sb \in Int
    BY <1>1, <1>2, <2>1, Zenon
  <2>3. parens = sp + l /\ braces = sb + m
    BY <1>3, <2>1, Zenon
  <2> QED BY <2>2, <2>3
<1>5. \/ CountStep(s, c) = [s EXCEPT !.quote = c] /\ c \in Quote
      \/ CountStep(s, c) = [s EXCEPT !.quote = ""]
      \/ CountStep(s, c) = s
      \/ CountStep(s, c) = [s EXCEPT !.parens = parens, !.braces = braces]
  BY <1>3, Zenon DEF CountStep
<1> HIDE DEF more
<1> QED BY <1>1, <1>4, <1>5 DEF CountState

\* The function that the fold is the choice of.
IsCount(f, text) ==
  f = [s \in SUBSET DOMAIN text |->
         IF s = {} THEN CountBase ELSE CountStep(f[s \ {Max(s)}], text[Max(s)])]

\* The fold is its value at all the places.
LEMMA CountIs ==
  ASSUME NEW text, \E f : IsCount(f, text)
  PROVE  \E f : IsCount(f, text) /\ ConditionCounts(text) = f[DOMAIN text]
<1> DEFINE end == CHOOSE f : IsCount(f, text)
<1>1. IsCount(end, text)
  BY Zenon
<1>2. ConditionCounts(text) = end[DOMAIN text]
  BY Zenon DEF ConditionCounts, CountStep, CountBase, FoldLeft, MapThenFoldSet, IsCount
<1> QED BY <1>1, <1>2

\* The states of the scan, place by place.
LEMMA CountRuns ==
  ASSUME NEW C, NEW text \in Seq(C)
  PROVE  \E r : /\ r[0] = CountBase /\ r[Len(text)] = ConditionCounts(text)
                /\ \A i \in 1 .. Len(text) : r[i] = CountStep(r[i - 1], text[i])
                /\ \A i \in 0 .. Len(text) : r[i] \in CountState
<1> DEFINE n == Len(text)
<1>1. n \in Nat /\ DOMAIN text = 1 .. n
  OBVIOUS
<1>2. CountBase \in CountState
  BY DEF CountBase, CountState
<1>3. PICK F : F = [i \in 1 .. n |-> [v \in CountState |-> CountStep(v, text[i])]]
  OBVIOUS
<1>4. F \in [1 .. n -> [CountState -> CountState]]
  BY <1>3, CountTyped
<1>5. PICK f : StepsOn(f, n, CountState, CountBase, F)
  BY <1>1, <1>2, <1>4, FoldExists
<1>6. IsCount(f, text)
  <2>1. \A s \in SUBSET (1 .. n) : s # {} => Max(s) \in 1 .. n /\ s \ {Max(s)} \in SUBSET (1 .. n)
    BY <1>1, GreatestIsIn
  <2>2. \A s \in SUBSET (1 .. n) : s # {} =>
          F[Max(s)][f[s \ {Max(s)}]] = CountStep(f[s \ {Max(s)}], text[Max(s)])
    BY <1>3, <1>5, <2>1 DEF StepsOn
  <2>3. /\ f = [s \in SUBSET (1 .. n) |-> f[s]]
        /\ \A s \in SUBSET (1 .. n) : f[s] = IF s = {} THEN CountBase ELSE F[Max(s)][f[s \ {Max(s)}]]
    BY <1>5 DEF StepsOn
  <2> HIDE DEF n
  <2>4. \A s \in SUBSET (1 .. n) : f[s] = IF s = {} THEN CountBase ELSE CountStep(f[s \ {Max(s)}], text[Max(s)])
    BY <1>1, <2>1, <2>2, <2>3
  <2> QED BY <1>1, <2>3, <2>4 DEF IsCount
<1>7. PICK h : IsCount(h, text) /\ ConditionCounts(text) = h[1 .. n]
  BY <1>1, <1>6, CountIs
<1>8. Recurs(h, n, CountState, CountBase, F)
  <2>1. \A s \in SUBSET (1 .. n) : s # {} => Max(s) \in 1 .. n
    BY <1>1, GreatestIsIn
  <2>2. \A s \in SUBSET (1 .. n) :
          h[s] = IF s = {} THEN CountBase ELSE CountStep(h[s \ {Max(s)}], text[Max(s)])
    BY <1>1, <1>7 DEF IsCount
  <2> QED BY <1>3, <2>1, <2>2 DEF Recurs
<1>9. PICK r : RunsTo(r, n, CountState, CountBase, F, h[1 .. n])
  <2> HIDE DEF n
  <2>1. n \in Nat
    BY <1>1
  <2> QED BY <1>2, <1>4, <1>8, <2>1, RunOf
<1>10. \A i \in 1 .. n : r[i] = CountStep(r[i - 1], text[i])
  <2> HIDE DEF n
  <2>1. \A i \in 1 .. n : i - 1 \in 0 .. n
    BY <1>1
  <2>2. \A i \in 1 .. n : r[i - 1] \in CountState
    BY <1>9, <2>1 DEF RunsTo
  <2> QED BY <1>3, <1>9, <2>2 DEF RunsTo
<1> QED BY <1>7, <1>9, <1>10 DEF RunsTo

-----------------------------------------------------------------------------
\* The places of a text, which the scans that look ahead or back fold over.
PlacesOf(text) == [i \in 1 .. Len(text) |-> i]

\* The scan for the closing parenthesis.
ParenBase == [at |-> 0, depth |-> 0, quote |-> ""]
ParenState == [at : Nat, depth : Int, quote : Quote \cup {""}]
ParenStep(text, s, i) ==
  LET c == text[i] IN
  IF s.at # 0 THEN s
  ELSE IF s.quote = "" /\ c \in Quote THEN [s EXCEPT !.quote = c]
  ELSE IF s.quote # ""
  THEN IF c = s.quote /\ Ends(text, i) THEN [s EXCEPT !.quote = ""] ELSE s
  ELSE IF c = "(" THEN [s EXCEPT !.depth = @ + 1]
  ELSE IF c = ")"
  THEN [s EXCEPT !.depth = @ - 1, !.at = IF Closed(s.depth) THEN i ELSE 0]
  ELSE s
ParenEnd(text) ==
  FoldLeft(LAMBDA s, i : ParenStep(text, s, i), ParenBase, PlacesOf(text))

\* The scan as MatchingParen has it.
LEMMA ParenEndIs ==
  ASSUME NEW text
  PROVE  MatchingParen(text) = IF text = << >> \/ text[1] # "(" THEN 0 ELSE ParenEnd(text).at
BY Zenon DEF MatchingParen, ParenEnd, ParenStep, ParenBase, PlacesOf

\* Its states keep their type.
LEMMA ParenTyped ==
  ASSUME NEW text, NEW s \in ParenState, NEW i \in Nat
  PROVE  ParenStep(text, s, i) \in ParenState
<1>1. s.at \in Nat /\ s.depth \in Int /\ s.quote \in Quote \cup {""}
      /\ s = [at |-> s.at, depth |-> s.depth, quote |-> s.quote]
  BY DEF ParenState
<1>2. \/ ParenStep(text, s, i) = s
      \/ ParenStep(text, s, i) = [s EXCEPT !.quote = text[i]] /\ text[i] \in Quote
      \/ ParenStep(text, s, i) = [s EXCEPT !.quote = ""]
      \/ ParenStep(text, s, i) = [s EXCEPT !.depth = s.depth + 1]
      \/ ParenStep(text, s, i) = [s EXCEPT !.depth = s.depth - 1, !.at = i]
      \/ ParenStep(text, s, i) = [s EXCEPT !.depth = s.depth - 1, !.at = 0]
  BY Zenon DEF ParenStep
<1>3. PICK depth : depth = s.depth
  OBVIOUS
<1>4. depth \in Int /\ depth - 1 \in Int /\ depth + 1 \in Int
  <2>1. depth \in Int
    BY <1>1, <1>3
  <2> QED BY <2>1
<1>5. PICK less, more : less = depth - 1 /\ more = depth + 1
  OBVIOUS
<1>6. \/ ParenStep(text, s, i) = s
      \/ ParenStep(text, s, i) = [s EXCEPT !.quote = text[i]] /\ text[i] \in Quote
      \/ ParenStep(text, s, i) = [s EXCEPT !.quote = ""]
      \/ ParenStep(text, s, i) = [s EXCEPT !.depth = more]
      \/ ParenStep(text, s, i) = [s EXCEPT !.depth = less, !.at = i]
      \/ ParenStep(text, s, i) = [s EXCEPT !.depth = less, !.at = 0]
  BY <1>2, <1>3, <1>5, Zenon
<1>7. less \in Int /\ more \in Int /\ 0 \in Nat
  BY <1>4, <1>5, Zenon
<1> QED BY <1>1, <1>6, <1>7 DEF ParenState

\* The function that the fold is the choice of.
IsParen(f, text) ==
  f = [s \in SUBSET DOMAIN PlacesOf(text) |->
         IF s = {} THEN ParenBase ELSE ParenStep(text, f[s \ {Max(s)}], PlacesOf(text)[Max(s)])]

\* The fold is its value at all the places.
LEMMA ParenIs ==
  ASSUME NEW text, \E f : IsParen(f, text)
  PROVE  \E f : IsParen(f, text) /\ ParenEnd(text) = f[DOMAIN PlacesOf(text)]
<1> DEFINE end == CHOOSE f : IsParen(f, text)
<1>1. IsParen(end, text)
  BY Zenon
<1>2. ParenEnd(text) = end[DOMAIN PlacesOf(text)]
  BY Zenon DEF ParenEnd, ParenStep, ParenBase, FoldLeft, MapThenFoldSet, IsParen
<1> QED BY <1>1, <1>2

\* The states of the scan, place by place.
LEMMA ParenRuns ==
  ASSUME NEW C, NEW text \in Seq(C)
  PROVE  \E r : /\ r[0] = ParenBase /\ r[Len(text)] = ParenEnd(text)
                /\ \A i \in 1 .. Len(text) : r[i] = ParenStep(text, r[i - 1], i)
                /\ \A i \in 0 .. Len(text) : r[i] \in ParenState
<1> DEFINE n == Len(text)
<1>1. n \in Nat /\ DOMAIN PlacesOf(text) = 1 .. n /\ \A i \in 1 .. n : PlacesOf(text)[i] = i
  BY DEF PlacesOf
<1>2. ParenBase \in ParenState
  BY DEF ParenBase, ParenState
<1>3. PICK F : F = [i \in 1 .. n |-> [v \in ParenState |-> ParenStep(text, v, i)]]
  OBVIOUS
<1>4. F \in [1 .. n -> [ParenState -> ParenState]]
  BY <1>3, ParenTyped
<1>5. PICK f : StepsOn(f, n, ParenState, ParenBase, F)
  BY <1>1, <1>2, <1>4, FoldExists
<1>6. IsParen(f, text)
  <2>1. \A s \in SUBSET (1 .. n) : s # {} => Max(s) \in 1 .. n /\ s \ {Max(s)} \in SUBSET (1 .. n)
    BY <1>1, GreatestIsIn
  <2>2. \A s \in SUBSET (1 .. n) : s # {} =>
          F[Max(s)][f[s \ {Max(s)}]] = ParenStep(text, f[s \ {Max(s)}], Max(s))
    BY <1>3, <1>5, <2>1 DEF StepsOn
  <2>3. /\ f = [s \in SUBSET (1 .. n) |-> f[s]]
        /\ \A s \in SUBSET (1 .. n) : f[s] = IF s = {} THEN ParenBase ELSE F[Max(s)][f[s \ {Max(s)}]]
    BY <1>5 DEF StepsOn
  <2> HIDE DEF n
  <2>4. \A s \in SUBSET (1 .. n) : f[s] = IF s = {} THEN ParenBase ELSE ParenStep(text, f[s \ {Max(s)}], PlacesOf(text)[Max(s)])
    BY <1>1, <2>1, <2>2, <2>3
  <2> QED BY <1>1, <2>3, <2>4 DEF IsParen
<1>7. PICK h : IsParen(h, text) /\ ParenEnd(text) = h[1 .. n]
  BY <1>1, <1>6, ParenIs
<1>8. Recurs(h, n, ParenState, ParenBase, F)
  <2>1. \A s \in SUBSET (1 .. n) : s # {} => Max(s) \in 1 .. n
    BY <1>1, GreatestIsIn
  <2>2. \A s \in SUBSET (1 .. n) :
          h[s] = IF s = {} THEN ParenBase ELSE ParenStep(text, h[s \ {Max(s)}], Max(s))
    BY <1>1, <1>7, GreatestIsIn DEF IsParen
  <2> QED BY <1>3, <2>1, <2>2 DEF Recurs
<1>9. PICK r : RunsTo(r, n, ParenState, ParenBase, F, h[1 .. n])
  <2> HIDE DEF n
  <2>1. n \in Nat
    BY <1>1
  <2> QED BY <1>2, <1>4, <1>8, <2>1, RunOf
<1>10. \A i \in 1 .. n : r[i] = ParenStep(text, r[i - 1], i)
  <2> HIDE DEF n
  <2>1. \A i \in 1 .. n : i - 1 \in 0 .. n
    BY <1>1
  <2>2. \A i \in 1 .. n : r[i - 1] \in ParenState
    BY <1>9, <2>1 DEF RunsTo
  <2> QED BY <1>3, <1>9, <2>2 DEF RunsTo
<1> QED BY <1>7, <1>9, <1>10 DEF RunsTo

\* One more character is one more step of the condition's scan.
LEMMA CountGrows ==
  ASSUME NEW C, NEW text \in Seq(C), NEW c \in C
  PROVE  ConditionCounts(Append(text, c)) = CountStep(ConditionCounts(text), c)
<1> DEFINE n == Len(text)
           more == Append(text, c)
<1>1. n \in Nat /\ more \in Seq(C) /\ Len(more) = n + 1 /\ n + 1 \in 1 .. n + 1 /\ (n + 1) - 1 = n
      /\ n \in 0 .. n /\ more[n + 1] = c /\ \A i \in 1 .. n : more[i] = text[i] /\ i \in 1 .. n + 1
  OBVIOUS
<1> HIDE DEF more
<1>2. PICK q : /\ q[0] = CountBase /\ q[n] = ConditionCounts(text)
               /\ \A i \in 1 .. n : q[i] = CountStep(q[i - 1], text[i])
  BY CountRuns
<1>3. PICK r : /\ r[0] = CountBase /\ r[n + 1] = ConditionCounts(more)
               /\ \A i \in 1 .. n + 1 : r[i] = CountStep(r[i - 1], more[i])
  <2>1. PICK r : /\ r[0] = CountBase /\ r[Len(more)] = ConditionCounts(more)
                 /\ \A i \in 1 .. Len(more) : r[i] = CountStep(r[i - 1], more[i])
    BY <1>1, CountRuns
  <2> QED BY <1>1, <2>1
<1> DEFINE S == {i \in 0 .. n : r[i] = q[i]}
<1>4. 0 \in S
  BY <1>1, <1>2, <1>3
<1>5. \A i \in 1 .. n : i - 1 \in S => i \in S
  BY <1>1, <1>2, <1>3
<1>6. \A i \in 0 .. n : i \in S
  <2> HIDE DEF S, n
  <2> QED BY <1>1, <1>4, <1>5, Forwards
<1>7. r[n] = q[n]
  BY <1>1, <1>6
<1>8. r[n + 1] = CountStep(r[n], c)
  BY <1>1, <1>3
<1> QED BY <1>2, <1>3, <1>7, <1>8 DEF more

\* Of nothing, nothing is counted.
LEMMA CountNothing == ConditionCounts(<< >>) = CountBase
<1>1. << >> \in Seq({}) /\ Len(<< >>) = 0
  OBVIOUS
<1>2. PICK r : r[0] = CountBase /\ r[Len(<< >>)] = ConditionCounts(<< >>)
  BY <1>1, CountRuns
<1> QED BY <1>1, <1>2

\* One more character of a part of a text.
LEMMA PartGrows ==
  ASSUME NEW C, NEW text \in Seq(C), NEW h \in 1 .. Len(text), NEW i \in h .. Len(text)
  PROVE  /\ SubSeq(text, h, i) = Append(SubSeq(text, h, i - 1), text[i])
         /\ SubSeq(text, h, i - 1) \in Seq(C) /\ text[i] \in C
         /\ SubSeq(text, h, h - 1) = << >>
<1>1. \A j \in h .. i : text[j] \in C
  OBVIOUS
<1>2. SubSeq(text, h, i - 1) \in Seq(C)
  BY <1>1
<1> QED BY <1>1, <1>2

\* One character, for two scans: p and q are their states before it, s and t behind it.
SameString(p, q, s, t, i) ==
  /\ s.quote = t.quote
  /\ \/ s.at = 0 /\ s.depth = p.depth /\ t.parens = q.parens
     \/ s.at = 0 /\ s.depth = p.depth + 1 /\ t.parens = q.parens + 1
     \/ /\ s.at = (IF p.depth = 1 THEN i ELSE 0) /\ s.depth = p.depth - 1 /\ p.quote = ""
        /\ t.parens = q.parens - 1

\* Two scans that see the same string before a character see the same one behind it.
LEMMA ParenCounts ==
  ASSUME NEW text, NEW s \in ParenState, NEW t \in CountState, NEW i,
         s.at = 0, s.quote = t.quote, Ends(text, i)
  PROVE  SameString(s, t, ParenStep(text, s, i), CountStep(t, text[i]), i)
<1> DEFINE c == text[i]
<1>1. s = [at |-> 0, depth |-> s.depth, quote |-> s.quote]
      /\ t = [parens |-> t.parens, braces |-> t.braces, quote |-> s.quote] /\ t.parens \in Int
  BY DEF ParenState, CountState
<1>2. "(" \notin Quote /\ ")" \notin Quote /\ "(" # ")" /\ "(" # "" /\ ")" # "" /\ "" \notin Quote
  BY DEF Quote
<1>3. CASE s.quote # ""
  BY <1>1, <1>3 DEF ParenStep, CountStep, SameString
<1>4. CASE s.quote = "" /\ c \in Quote
  BY <1>1, <1>4 DEF ParenStep, CountStep, SameString
<1>5. CASE s.quote = "" /\ c \notin Quote
  <2>1. CASE c = "("
    BY <1>1, <1>2, <1>5, <2>1 DEF ParenStep, CountStep, SameString
  <2>2. CASE c = ")"
    <3>1. CountStep(t, c).parens = t.parens + -1 /\ CountStep(t, c).quote = ""
      BY <1>1, <1>2, <1>5, <2>2 DEF CountStep
    <3>2. ParenStep(text, s, i) = [s EXCEPT !.depth = @ - 1, !.at = IF s.depth = 1 THEN i ELSE 0]
      BY <1>1, <1>2, <1>5, <2>2 DEF ParenStep, Closed
    <3>3. t.parens + -1 = t.parens - 1
      BY <1>1
    <3> QED BY <1>1, <1>5, <3>1, <3>2, <3>3 DEF SameString
  <2>3. CASE c # "(" /\ c # ")"
    <3>1. CountStep(t, c).quote = "" /\ (CountStep(t, c).parens = t.parens + 0 \/ CountStep(t, c).parens = t.parens)
      BY <1>1, <1>2, <1>5, <2>3 DEF CountStep
    <3>2. t.parens + 0 = t.parens
      BY <1>1
    <3>3. ParenStep(text, s, i) = s
      BY <1>1, <1>5, <2>3 DEF ParenStep
    <3> QED BY <1>1, <1>5, <3>1, <3>2, <3>3 DEF SameString
  <2> QED BY <2>1, <2>2, <2>3
<1> QED BY <1>3, <1>4, <1>5

\* What is between the parentheses that the block parser pairs is balanced in them, and
\* its strings are closed.
LEMMA ConditionsWhole ==
  ASSUME NEW C, NEW text \in Seq(C), Plain(text), MatchingParen(text) # 0
  PROVE  /\ ConditionCounts(SubSeq(text, 2, MatchingParen(text) - 1)).parens = 0
         /\ ConditionCounts(SubSeq(text, 2, MatchingParen(text) - 1)).quote = ""
<1> DEFINE n == Len(text)
           Counts(i) == ConditionCounts(SubSeq(text, 2, i))
<1>1. MatchingParen(text) = ParenEnd(text).at /\ text # << >> /\ text[1] = "("
  BY ParenEndIs
<1>2. n \in Nat /\ n # 0 /\ 1 \in 1 .. n
  BY <1>1
<1>3. PICK r : /\ r[0] = ParenBase /\ r[n] = ParenEnd(text)
               /\ \A i \in 1 .. n : r[i] = ParenStep(text, r[i - 1], i)
               /\ \A i \in 0 .. n : r[i] \in ParenState
  BY ParenRuns
<1>4. Counts(1) = CountBase
  <2>1. SubSeq(text, 2, 1) = << >>
    BY <1>2
  <2> QED BY <2>1, CountNothing
<1>5. \A i \in 2 .. n : Counts(i) = CountStep(Counts(i - 1), text[i])
  <2> SUFFICES ASSUME NEW i \in 2 .. n PROVE Counts(i) = CountStep(Counts(i - 1), text[i])
    OBVIOUS
  <2>1. 2 \in 1 .. n
    BY <1>2
  <2>3. /\ SubSeq(text, 2, i) = Append(SubSeq(text, 2, i - 1), text[i])
        /\ SubSeq(text, 2, i - 1) \in Seq(C) /\ text[i] \in C
    BY <2>1, PartGrows
  <2> QED BY <2>3, CountGrows
<1>6. \A i \in 1 .. n : Counts(i) \in CountState
  <2> SUFFICES ASSUME NEW i \in 1 .. n PROVE Counts(i) \in CountState
    OBVIOUS
  <2>1. SubSeq(text, 2, i) \in Seq(C)
    BY <1>2
  <2>2. PICK part : part = SubSeq(text, 2, i)
    OBVIOUS
  <2>3. Len(part) \in 0 .. Len(part)
    BY <2>1, <2>2
  <2> QED BY <2>1, <2>2, <2>3, CountRuns
<1> HIDE DEF Counts
<1> DEFINE S == {i \in 0 .. n : i # 0 =>
                   \/ r[i].at = 0 /\ r[i].quote = Counts(i).quote /\ r[i].depth = Counts(i).parens + 1
                   \/ r[i].at # 0 /\ Counts(r[i].at - 1).parens = 0 /\ Counts(r[i].at - 1).quote = ""}
<1>7. 0 \in S
  BY <1>2
<1>8. ASSUME NEW i \in 1 .. n, i - 1 \in S PROVE i \in S
  <2>0. i \in 0 .. n /\ i # 0 /\ i - 1 \in 0 .. n /\ r[i - 1] \in ParenState /\ r[i] = ParenStep(text, r[i - 1], i)
    BY <1>2, <1>3
  <2>1. CASE i = 1
    <3>1. r[1] = ParenStep(text, ParenBase, 1)
      BY <1>3, <2>0, <2>1
    <3>2. r[1] = [ParenBase EXCEPT !.depth = 1]
      <4>1. "(" \notin Quote
        BY DEF Quote
      <4>2. 0 + 1 = 1
        OBVIOUS
      <4> QED BY <1>1, <3>1, <4>1, <4>2 DEF ParenStep, ParenBase
    <3>3. r[1].at = 0 /\ r[1].quote = "" /\ r[1].depth = 1 /\ CountBase.parens = 0 /\ CountBase.quote = ""
      BY <3>2 DEF ParenBase, CountBase
    <3>4. 1 = 0 + 1
      OBVIOUS
    <3>5. r[i].at = 0 /\ r[i].quote = Counts(i).quote /\ r[i].depth = Counts(i).parens + 1
      BY <1>4, <2>1, <3>3, <3>4, Zenon
    <3> QED BY <2>0, <3>5
  <2>2. CASE i # 1 /\ r[i - 1].at # 0
    <3>1. r[i] = r[i - 1]
      BY <2>0, <2>2 DEF ParenStep
    <3>2. i - 1 # 0
      BY <2>0, <2>2
    <3> QED BY <1>8, <2>0, <2>2, <3>1, <3>2
  <2>3. CASE i # 1 /\ r[i - 1].at = 0
    <3>1. i - 1 # 0 /\ i \in 2 .. n /\ i - 1 \in 1 .. n /\ i > 1
      BY <2>0, <2>3
    <3>2. r[i - 1].quote = Counts(i - 1).quote /\ r[i - 1].depth = Counts(i - 1).parens + 1
      BY <1>8, <2>3, <3>1
    <3>3. Ends(text, i)
      BY <3>1 DEF Plain, Ends
    <3>4. PICK s, t, u, v : s = r[i - 1] /\ t = Counts(i - 1) /\ u = r[i] /\ v = Counts(i)
      OBVIOUS
    <3>5. s \in ParenState /\ t \in CountState /\ u \in ParenState /\ v \in CountState
          /\ u = ParenStep(text, s, i) /\ v = CountStep(t, text[i])
          /\ s.at = 0 /\ s.quote = t.quote /\ s.depth = t.parens + 1
      BY <1>3, <1>5, <1>6, <2>0, <2>3, <3>1, <3>2, <3>4
    <3>6. SameString(s, t, u, v, i)
      <4>1. s.at = 0
        BY <3>5
      <4>2. s.quote = t.quote
        BY <3>5
      <4>3. s \in ParenState /\ t \in CountState
        BY <3>5
      <4>4. SameString(s, t, ParenStep(text, s, i), CountStep(t, text[i]), i)
        BY <3>3, <4>1, <4>2, <4>3, ParenCounts, Zenon
      <4> QED BY <3>5, <4>4, Zenon
    <3>7. PICK tp, sd, vp, ud : tp = t.parens /\ sd = s.depth /\ vp = v.parens /\ ud = u.depth
      OBVIOUS
    <3>8. tp \in Int /\ sd = tp + 1 /\ vp \in Int
      <4>1. t.parens \in Int /\ v.parens \in Int
        BY <3>5 DEF CountState
      <4> QED BY <3>5, <3>7, <4>1
    <3>9. \/ u.at = 0 /\ ud = vp + 1
          \/ u.at = i /\ tp = 0 /\ s.quote = ""
      <4>1. \/ u.at = 0 /\ ud = sd /\ vp = tp
            \/ u.at = 0 /\ ud = sd + 1 /\ vp = tp + 1
            \/ u.at = (IF sd = 1 THEN i ELSE 0) /\ ud = sd - 1 /\ s.quote = "" /\ vp = tp - 1
        BY <3>6, <3>7, Zenon DEF SameString
      <4>2. \/ u.at = 0 /\ ud = sd /\ vp = tp
            \/ u.at = 0 /\ ud = sd + 1 /\ vp = tp + 1
            \/ sd # 1 /\ u.at = 0 /\ ud = sd - 1 /\ vp = tp - 1
            \/ sd = 1 /\ u.at = i /\ s.quote = ""
        BY <4>1, Zenon
      <4>3. sd = 1 => tp = 0
        BY <3>8
      <4>4. (ud = sd /\ vp = tp) \/ (ud = sd + 1 /\ vp = tp + 1) \/ (ud = sd - 1 /\ vp = tp - 1) => ud = vp + 1
        BY <3>8
      <4> QED BY <4>2, <4>3, <4>4, Zenon
    <3>10. CASE u.at = 0 /\ ud = vp + 1
      <4>1. r[i].at = 0 /\ r[i].quote = Counts(i).quote /\ r[i].depth = Counts(i).parens + 1
        BY <3>4, <3>6, <3>7, <3>10, Zenon DEF SameString
      <4> QED BY <2>0, <4>1
    <3>11. CASE u.at = i /\ tp = 0 /\ s.quote = ""
      <4>1. r[i].at = i /\ Counts(i - 1).parens = 0 /\ Counts(i - 1).quote = ""
        BY <3>4, <3>5, <3>7, <3>11, Zenon
      <4> QED BY <2>0, <4>1
    <3> QED BY <3>9, <3>10, <3>11
  <2> QED BY <2>1, <2>2, <2>3
<1>9. n \in S
  <2>1. n \in 0 .. n
    BY <1>2
  <2> HIDE DEF S, n
  <2> QED BY <1>2, <1>7, <1>8, <2>1, Forwards
<1>10. Counts(MatchingParen(text) - 1).parens = 0 /\ Counts(MatchingParen(text) - 1).quote = ""
  <2>1. r[n].at = MatchingParen(text)
    BY <1>1, <1>3
  <2> QED BY <1>2, <1>9, <2>1
<1> QED BY <1>10 DEF Counts

-----------------------------------------------------------------------------
(* The split into parameters. *)

\* The split at the commas.
ParamBase == [params |-> << >>, current |-> << >>, quote |-> "", level |-> [b \in Opening |-> 0]]
ParamState(C) ==
  [params : Seq(Seq(C)), current : Seq(C), quote : Quote \cup {""}, level : [Opening -> Int]]
ParamEnd(text) == FoldLeft(ParamStep, ParamBase, text)

\* The split as Parameters has it.
LEMMA ParametersAre == ASSUME NEW text PROVE Parameters(text) = LastParam(ParamEnd(text))
BY Zenon DEF Parameters, ParamEnd, ParamBase

\* The levels keep their type.
LEMMA LevelsTyped ==
  ASSUME NEW level \in [Opening -> Int], NEW c
  PROVE  Leveled(level, c) \in [Opening -> Int]
<1> SUFFICES ASSUME NEW b \in Opening
             PROVE  level[b] + (IF c = b THEN 1 ELSE IF c = Pair[b] THEN -1 ELSE 0) \in Int
  BY DEF Leveled
<1>1. PICK x, y : x = level[b] /\ y = (IF c = b THEN 1 ELSE IF c = Pair[b] THEN -1 ELSE 0)
  OBVIOUS
<1>2. x \in Int
  BY <1>1
<1>3. y \in {1, -1, 0}
  BY <1>1, Zenon
<1>4. x + y \in Int
  BY <1>2, <1>3
<1> QED BY <1>1, <1>4, Zenon

\* Its states keep their type.
LEMMA ParamTyped ==
  ASSUME NEW C, NEW s \in ParamState(C), NEW c \in C
  PROVE  ParamStep(s, c) \in ParamState(C)
<1>1. /\ s.params \in Seq(Seq(C)) /\ s.current \in Seq(C) /\ s.quote \in Quote \cup {""}
      /\ s.level \in [Opening -> Int]
      /\ s = [params |-> s.params, current |-> s.current, quote |-> s.quote, level |-> s.level]
  BY DEF ParamState
<1>2. PICK current, params, level :
        /\ current = Append(s.current, c) /\ params = Append(s.params, s.current)
        /\ level = IF s.quote = "" THEN Leveled(s.level, c) ELSE s.level
  OBVIOUS
<1>3. current \in Seq(C) /\ params \in Seq(Seq(C)) /\ << >> \in Seq(C)
  <2>1. PICK old, olds : old = s.current /\ olds = s.params
    OBVIOUS
  <2>2. old \in Seq(C) /\ olds \in Seq(Seq(C))
    BY <1>1, <2>1
  <2>3. Append(old, c) \in Seq(C) /\ Append(olds, old) \in Seq(Seq(C))
    BY <2>2
  <2>4. << >> \in Seq(C)
    OBVIOUS
  <2> QED BY <1>2, <2>1, <2>3, <2>4, Zenon
<1>4. level \in [Opening -> Int]
  BY <1>1, <1>2, LevelsTyped
<1>5. \/ ParamStep(s, c) = [s EXCEPT !.quote = c, !.current = current] /\ c \in Quote
      \/ ParamStep(s, c) = [s EXCEPT !.quote = "", !.current = current]
      \/ ParamStep(s, c) = [s EXCEPT !.params = params, !.current = << >>]
      \/ ParamStep(s, c) = [s EXCEPT !.current = current, !.level = level]
  BY <1>2, Zenon DEF ParamStep
<1> QED BY <1>1, <1>3, <1>4, <1>5 DEF ParamState

\* The function that the fold is the choice of.
IsParam(f, text) ==
  f = [s \in SUBSET DOMAIN text |->
         IF s = {} THEN ParamBase ELSE ParamStep(f[s \ {Max(s)}], text[Max(s)])]

\* The fold is its value at all the places.
LEMMA ParamIs ==
  ASSUME NEW text, \E f : IsParam(f, text)
  PROVE  \E f : IsParam(f, text) /\ ParamEnd(text) = f[DOMAIN text]
<1> DEFINE end == CHOOSE f : IsParam(f, text)
<1>1. IsParam(end, text)
  BY Zenon
<1>2. ParamEnd(text) = end[DOMAIN text]
  BY Zenon DEF ParamEnd, FoldLeft, MapThenFoldSet, IsParam
<1> QED BY <1>1, <1>2

\* The states of the split, place by place.
LEMMA ParamRuns ==
  ASSUME NEW C, NEW text \in Seq(C)
  PROVE  \E r : /\ r[0] = ParamBase /\ r[Len(text)] = ParamEnd(text)
                /\ \A i \in 1 .. Len(text) : r[i] = ParamStep(r[i - 1], text[i])
                /\ \A i \in 0 .. Len(text) : r[i] \in ParamState(C)
<1> DEFINE n == Len(text)
<1>1. n \in Nat /\ DOMAIN text = 1 .. n
  OBVIOUS
<1>2. ParamBase \in ParamState(C)
  BY DEF ParamBase, ParamState
<1>3. PICK F : F = [i \in 1 .. n |-> [v \in ParamState(C) |-> ParamStep(v, text[i])]]
  OBVIOUS
<1>4. F \in [1 .. n -> [ParamState(C) -> ParamState(C)]]
  BY <1>3, ParamTyped
<1>5. PICK f : StepsOn(f, n, ParamState(C), ParamBase, F)
  BY <1>1, <1>2, <1>4, FoldExists
<1>6. IsParam(f, text)
  <2>1. \A s \in SUBSET (1 .. n) : s # {} => Max(s) \in 1 .. n /\ s \ {Max(s)} \in SUBSET (1 .. n)
    BY <1>1, GreatestIsIn
  <2>2. \A s \in SUBSET (1 .. n) : s # {} =>
          F[Max(s)][f[s \ {Max(s)}]] = ParamStep(f[s \ {Max(s)}], text[Max(s)])
    BY <1>3, <1>5, <2>1 DEF StepsOn
  <2>3. /\ f = [s \in SUBSET (1 .. n) |-> f[s]]
        /\ \A s \in SUBSET (1 .. n) : f[s] = IF s = {} THEN ParamBase ELSE F[Max(s)][f[s \ {Max(s)}]]
    BY <1>5 DEF StepsOn
  <2> HIDE DEF n
  <2>4. \A s \in SUBSET (1 .. n) : f[s] = IF s = {} THEN ParamBase ELSE ParamStep(f[s \ {Max(s)}], text[Max(s)])
    BY <1>1, <2>1, <2>2, <2>3
  <2> QED BY <1>1, <2>3, <2>4 DEF IsParam
<1>7. PICK h : IsParam(h, text) /\ ParamEnd(text) = h[1 .. n]
  BY <1>1, <1>6, ParamIs
<1>8. Recurs(h, n, ParamState(C), ParamBase, F)
  <2>1. \A s \in SUBSET (1 .. n) : s # {} => Max(s) \in 1 .. n
    BY <1>1, GreatestIsIn
  <2>2. \A s \in SUBSET (1 .. n) :
          h[s] = IF s = {} THEN ParamBase ELSE ParamStep(h[s \ {Max(s)}], text[Max(s)])
    BY <1>1, <1>7 DEF IsParam
  <2> QED BY <1>3, <2>1, <2>2 DEF Recurs
<1>9. PICK r : RunsTo(r, n, ParamState(C), ParamBase, F, h[1 .. n])
  <2> HIDE DEF n
  <2>1. n \in Nat
    BY <1>1
  <2> QED BY <1>2, <1>4, <1>8, <2>1, RunOf
<1>10. \A i \in 1 .. n : r[i] = ParamStep(r[i - 1], text[i])
  <2> HIDE DEF n
  <2>1. \A i \in 1 .. n : i - 1 \in 0 .. n
    BY <1>1
  <2>2. \A i \in 1 .. n : r[i - 1] \in ParamState(C)
    BY <1>9, <2>1 DEF RunsTo
  <2> QED BY <1>3, <1>9, <2>2 DEF RunsTo
<1> QED BY <1>7, <1>9, <1>10 DEF RunsTo

\* One more character is one more step of the scan.
LEMMA BalanceGrows ==
  ASSUME NEW C, NEW text \in Seq(C), NEW c \in C
  PROVE  BalanceEnd(Append(text, c)) = BalanceStep(BalanceEnd(text), c)
<1> DEFINE n == Len(text)
           more == Append(text, c)
<1>1. n \in Nat /\ more \in Seq(C) /\ Len(more) = n + 1 /\ n + 1 \in 1 .. n + 1 /\ (n + 1) - 1 = n
      /\ n \in 0 .. n /\ more[n + 1] = c /\ \A i \in 1 .. n : more[i] = text[i] /\ i \in 1 .. n + 1
  OBVIOUS
<1> HIDE DEF more
<1>2. PICK q : /\ q[0] = BalanceBase /\ q[n] = BalanceEnd(text)
               /\ \A i \in 1 .. n : q[i] = BalanceStep(q[i - 1], text[i])
  BY BalanceRuns
<1>3. PICK r : /\ r[0] = BalanceBase /\ r[n + 1] = BalanceEnd(more)
               /\ \A i \in 1 .. n + 1 : r[i] = BalanceStep(r[i - 1], more[i])
  <2>1. PICK r : /\ r[0] = BalanceBase /\ r[Len(more)] = BalanceEnd(more)
                 /\ \A i \in 1 .. Len(more) : r[i] = BalanceStep(r[i - 1], more[i])
    BY <1>1, BalanceRuns
  <2> QED BY <1>1, <2>1
<1> DEFINE S == {i \in 0 .. n : r[i] = q[i]}
<1>4. 0 \in S
  BY <1>1, <1>2, <1>3
<1>5. \A i \in 1 .. n : i - 1 \in S => i \in S
  BY <1>1, <1>2, <1>3
<1>6. \A i \in 0 .. n : i \in S
  <2> HIDE DEF S, n
  <2> QED BY <1>1, <1>4, <1>5, Forwards
<1>7. r[n] = q[n]
  BY <1>1, <1>6
<1>8. r[n + 1] = BalanceStep(r[n], c)
  BY <1>1, <1>3
<1> QED BY <1>2, <1>3, <1>7, <1>8 DEF more

\* Of nothing, the scan is where it began.
LEMMA BalanceNothing == BalanceEnd(<< >>) = BalanceBase
<1>1. << >> \in Seq({}) /\ Len(<< >>) = 0
  OBVIOUS
<1>2. PICK r : r[0] = BalanceBase /\ r[Len(<< >>)] = BalanceEnd(<< >>)
  BY <1>1, BalanceRuns
<1> QED BY <1>1, <1>2

\* A sequence over a set is one over any greater set.
LEMMA Wider ==
  ASSUME NEW A, NEW B, A \subseteq B, NEW s \in Seq(A)
  PROVE  s \in Seq(B)
OBVIOUS

\* Sequences of one element, and of none.
LEMMA OfOne == ASSUME NEW C, NEW c \in C PROVE <<c>> \in Seq(C) /\ << >> \in Seq(C)
OBVIOUS

\* Concatenation keeps the type.
LEMMA Together ==
  ASSUME NEW C, NEW s \in Seq(C), NEW t \in Seq(C)
  PROVE  s \o t \in Seq(C) /\ s \o << >> = s
OBVIOUS

\* Concatenation is associative.
LEMMA Joins ==
  ASSUME NEW C, NEW s \in Seq(C), NEW t \in Seq(C), NEW c \in C
  PROVE  s \o Append(t, c) = Append(s \o t, c)
OBVIOUS

\* Appending is concatenating one element.
LEMMA JoinsOne ==
  ASSUME NEW C, NEW s \in Seq(C), NEW c \in C
  PROVE  s \o <<c>> = Append(s, c) /\ Append(s, c) \in Seq(C)
OBVIOUS

-----------------------------------------------------------------------------
(* Parameters put together again. *)

\* A comma alone, and what has one among its characters.
Comma == <<",">>
\* The comma is one of the characters.
WithComma(C) == "," \in C

\* A comma is a text over characters with the comma.
LEMMA CommaTyped == ASSUME NEW C, WithComma(C) PROVE Comma \in Seq(C)
BY OfOne DEF Comma, WithComma

\* The fold that puts the parameters together.
JoinBase == << >>
JoinState(C) == Seq(C)
JoinStep(s, p) == s \o Comma \o p
JoinEnd(params) == FoldLeft(LAMBDA s, p : s \o <<",">> \o p, << >>, params)

\* Its states keep their type.
LEMMA JoinTyped ==
  ASSUME NEW C, WithComma(C), NEW s \in JoinState(C), NEW p \in Seq(C)
  PROVE  JoinStep(s, p) \in JoinState(C)
<1>1. Comma \in Seq(C)
  BY CommaTyped
<1>2. s \o Comma \in Seq(C)
  BY <1>1, Together DEF JoinState
<1> QED BY <1>2, Together DEF JoinStep, JoinState

\* The function that the fold is the choice of.
IsJoin(f, text) ==
  f = [s \in SUBSET DOMAIN text |->
         IF s = {} THEN JoinBase ELSE JoinStep(f[s \ {Max(s)}], text[Max(s)])]

\* The fold is its value at all the places.
LEMMA JoinIs ==
  ASSUME NEW text, \E f : IsJoin(f, text)
  PROVE  \E f : IsJoin(f, text) /\ JoinEnd(text) = f[DOMAIN text]
<1> DEFINE end == CHOOSE f : IsJoin(f, text)
<1>1. IsJoin(end, text)
  BY Zenon
<1>2. JoinEnd(text) = end[DOMAIN text]
  BY Zenon DEF JoinEnd, JoinBase, JoinStep, Comma, FoldLeft, MapThenFoldSet, IsJoin
<1> QED BY <1>1, <1>2

\* The states of the fold, place by place.
LEMMA JoinRuns ==
  ASSUME NEW C, NEW text \in Seq(Seq(C)), WithComma(C)
  PROVE  \E r : /\ r[0] = JoinBase /\ r[Len(text)] = JoinEnd(text)
                /\ \A i \in 1 .. Len(text) : r[i] = JoinStep(r[i - 1], text[i])
                /\ \A i \in 0 .. Len(text) : r[i] \in JoinState(C)
<1> DEFINE n == Len(text)
<1>1. n \in Nat /\ DOMAIN text = 1 .. n
  OBVIOUS
<1>2. JoinBase \in JoinState(C)
  BY DEF JoinBase, JoinState
<1>3. PICK F : F = [i \in 1 .. n |-> [v \in JoinState(C) |-> JoinStep(v, text[i])]]
  OBVIOUS
<1>4. F \in [1 .. n -> [JoinState(C) -> JoinState(C)]]
  BY <1>3, JoinTyped
<1>5. PICK f : StepsOn(f, n, JoinState(C), JoinBase, F)
  BY <1>1, <1>2, <1>4, FoldExists
<1>6. IsJoin(f, text)
  <2>1. \A s \in SUBSET (1 .. n) : s # {} => Max(s) \in 1 .. n /\ s \ {Max(s)} \in SUBSET (1 .. n)
    BY <1>1, GreatestIsIn
  <2>2. \A s \in SUBSET (1 .. n) : s # {} =>
          F[Max(s)][f[s \ {Max(s)}]] = JoinStep(f[s \ {Max(s)}], text[Max(s)])
    BY <1>3, <1>5, <2>1 DEF StepsOn
  <2>3. /\ f = [s \in SUBSET (1 .. n) |-> f[s]]
        /\ \A s \in SUBSET (1 .. n) : f[s] = IF s = {} THEN JoinBase ELSE F[Max(s)][f[s \ {Max(s)}]]
    BY <1>5 DEF StepsOn
  <2> HIDE DEF n
  <2>4. \A s \in SUBSET (1 .. n) : f[s] = IF s = {} THEN JoinBase ELSE JoinStep(f[s \ {Max(s)}], text[Max(s)])
    BY <1>1, <2>1, <2>2, <2>3
  <2> QED BY <1>1, <2>3, <2>4 DEF IsJoin
<1>7. PICK h : IsJoin(h, text) /\ JoinEnd(text) = h[1 .. n]
  BY <1>1, <1>6, JoinIs
<1>8. Recurs(h, n, JoinState(C), JoinBase, F)
  <2>1. \A s \in SUBSET (1 .. n) : s # {} => Max(s) \in 1 .. n
    BY <1>1, GreatestIsIn
  <2>2. \A s \in SUBSET (1 .. n) :
          h[s] = IF s = {} THEN JoinBase ELSE JoinStep(h[s \ {Max(s)}], text[Max(s)])
    BY <1>1, <1>7 DEF IsJoin
  <2> QED BY <1>3, <2>1, <2>2 DEF Recurs
<1>9. PICK r : RunsTo(r, n, JoinState(C), JoinBase, F, h[1 .. n])
  <2> HIDE DEF n
  <2>1. n \in Nat
    BY <1>1
  <2> QED BY <1>2, <1>4, <1>8, <2>1, RunOf
<1>10. \A i \in 1 .. n : r[i] = JoinStep(r[i - 1], text[i])
  <2> HIDE DEF n
  <2>1. \A i \in 1 .. n : i - 1 \in 0 .. n
    BY <1>1
  <2>2. \A i \in 1 .. n : r[i - 1] \in JoinState(C)
    BY <1>9, <2>1 DEF RunsTo
  <2> QED BY <1>3, <1>9, <2>2 DEF RunsTo
<1> QED BY <1>7, <1>9, <1>10 DEF RunsTo

\* One more parameter is one more step of the fold.
LEMMA JoinGrows ==
  ASSUME NEW C, NEW text \in Seq(Seq(C)), NEW c \in Seq(C), WithComma(C)
  PROVE  JoinEnd(Append(text, c)) = JoinStep(JoinEnd(text), c)
<1> DEFINE n == Len(text)
           more == Append(text, c)
<1>1. n \in Nat /\ more \in Seq(Seq(C)) /\ Len(more) = n + 1 /\ n + 1 \in 1 .. n + 1 /\ (n + 1) - 1 = n
      /\ n \in 0 .. n /\ more[n + 1] = c /\ \A i \in 1 .. n : more[i] = text[i] /\ i \in 1 .. n + 1
  OBVIOUS
<1> HIDE DEF more
<1>2. PICK q : /\ q[0] = JoinBase /\ q[n] = JoinEnd(text)
               /\ \A i \in 1 .. n : q[i] = JoinStep(q[i - 1], text[i])
  BY JoinRuns
<1>3. PICK r : /\ r[0] = JoinBase /\ r[n + 1] = JoinEnd(more)
               /\ \A i \in 1 .. n + 1 : r[i] = JoinStep(r[i - 1], more[i])
  <2>1. PICK r : /\ r[0] = JoinBase /\ r[Len(more)] = JoinEnd(more)
                 /\ \A i \in 1 .. Len(more) : r[i] = JoinStep(r[i - 1], more[i])
    BY <1>1, JoinRuns
  <2> QED BY <1>1, <2>1
<1> DEFINE S == {i \in 0 .. n : r[i] = q[i]}
<1>4. 0 \in S
  BY <1>1, <1>2, <1>3
<1>5. \A i \in 1 .. n : i - 1 \in S => i \in S
  BY <1>1, <1>2, <1>3
<1>6. \A i \in 0 .. n : i \in S
  <2> HIDE DEF S, n
  <2> QED BY <1>1, <1>4, <1>5, Forwards
<1>7. r[n] = q[n]
  BY <1>1, <1>6
<1>8. r[n + 1] = JoinStep(r[n], c)
  BY <1>1, <1>3
<1> QED BY <1>2, <1>3, <1>7, <1>8 DEF more

\* No parameters put together are nothing.
LEMMA JoinNothing == JoinEnd(<< >>) = JoinBase
<1>1. << >> \in Seq(Seq({","})) /\ Len(<< >>) = 0
      /\ WithComma({","})
  BY DEF WithComma
<1>2. PICK r : r[0] = JoinBase /\ r[Len(<< >>)] = JoinEnd(<< >>)
  BY <1>1, JoinRuns
<1> QED BY <1>1, <1>2

\* Parameters put together are a text.
LEMMA JoinsTyped ==
  ASSUME NEW C, WithComma(C), NEW params \in Seq(Seq(C))
  PROVE  JoinEnd(params) \in Seq(C)
<1>1. PICK r : r[Len(params)] = JoinEnd(params) /\ \A i \in 0 .. Len(params) : r[i] \in JoinState(C)
  BY JoinRuns
<1>2. Len(params) \in 0 .. Len(params)
  OBVIOUS
<1> QED BY <1>1, <1>2 DEF JoinState

\* What is behind a split, put together with what is before it.
Rejoined(s, text) == JoinEnd(s.params) \o Comma \o s.current = Comma \o text

\* A step of the split keeps that.
LEMMA ParamRejoins ==
  ASSUME NEW C, WithComma(C), NEW s \in ParamState(C), NEW c \in C, NEW text \in Seq(C),
         Rejoined(s, text)
  PROVE  Rejoined(ParamStep(s, c), Append(text, c))
<1> PICK params, current, joined : params = s.params /\ current = s.current /\ joined = JoinEnd(params)
  OBVIOUS
<1>1. params \in Seq(Seq(C)) /\ current \in Seq(C)
      /\ s = [params |-> params, current |-> current, quote |-> s.quote, level |-> s.level]
  BY DEF ParamState
<1>2. joined \in Seq(C)
  BY <1>1, JoinsTyped
<1>3. Comma \in Seq(C)
  BY CommaTyped
<1> PICK before : before = joined \o Comma
  OBVIOUS
<1>4. before \in Seq(C)
  BY <1>2, <1>3, Together
<1>5. before \o current = Comma \o text
  BY DEF Rejoined
<1>6. Append(before \o current, c) = Comma \o Append(text, c)
  <2>1. Comma \o Append(text, c) = Append(Comma \o text, c)
    BY <1>3, Joins
  <2> QED BY <1>5, <2>1
<1>7. CASE ParamStep(s, c).params = params /\ ParamStep(s, c).current = Append(current, c)
  <2>1. before \o Append(current, c) = Append(before \o current, c)
    BY <1>1, <1>4, Joins
  <2> QED BY <1>6, <1>7, <2>1 DEF Rejoined
<1>8. CASE c = "," /\ ParamStep(s, c).params = Append(params, current) /\ ParamStep(s, c).current = << >>
  <2>1. JoinEnd(Append(params, current)) = before \o current
    BY <1>1, JoinGrows DEF JoinStep
  <2> PICK all : all = before \o current
    OBVIOUS
  <2>2. all \in Seq(C)
    BY <1>1, <1>4, Together
  <2>3. (all \o Comma) \o << >> = Append(all, c)
    <3>0. Comma = <<c>>
      BY <1>8 DEF Comma
    <3>1. all \o Comma = Append(all, c) /\ Append(all, c) \in Seq(C)
      BY <2>2, <3>0, JoinsOne
    <3> QED BY <3>1, Together
  <2> QED BY <1>6, <1>8, <2>1, <2>3 DEF Rejoined
<1>9. \/ ParamStep(s, c).params = params /\ ParamStep(s, c).current = Append(current, c)
      \/ c = "," /\ ParamStep(s, c).params = Append(params, current) /\ ParamStep(s, c).current = << >>
  BY <1>1 DEF ParamStep
<1> QED BY <1>7, <1>8, <1>9

\* Put together again, the parameters are the text, but for a comma at its end.
LEMMA ParamsRejoined ==
  ASSUME NEW C, WithComma(C), NEW text \in Seq(C)
  PROVE  \/ JoinEnd(Parameters(text)) = Comma \o text
         \/ JoinEnd(Parameters(text)) \o Comma = Comma \o text
<1> DEFINE n == Len(text)
<1>1. PICK r : /\ r[0] = ParamBase /\ r[n] = ParamEnd(text)
               /\ \A i \in 1 .. n : r[i] = ParamStep(r[i - 1], text[i])
               /\ \A i \in 0 .. n : r[i] \in ParamState(C)
  BY ParamRuns
<1>2. n \in Nat
  OBVIOUS
<1> DEFINE S == {i \in 0 .. n : Rejoined(r[i], SubSeq(text, 1, i))}
<1>3. 0 \in S
  <2>1. SubSeq(text, 1, 0) = << >> /\ 0 \in 0 .. n
    BY <1>2
  <2>2. ParamBase.params = << >> /\ ParamBase.current = << >>
    BY DEF ParamBase
  <2>3. JoinEnd(<< >>) = << >>
    BY JoinNothing DEF JoinBase
  <2>4. (<< >> \o Comma) \o << >> = Comma \o << >>
    <3>1. << >> \o Comma = Comma
      <4>1. Comma \in Seq(C)
        BY CommaTyped
      <4> QED BY <4>1
    <3> QED BY <3>1
  <2> QED BY <1>1, <2>1, <2>2, <2>3, <2>4 DEF Rejoined
<1>4. ASSUME NEW i \in 1 .. n, i - 1 \in S PROVE i \in S
  <2>1. 1 \in 1 .. n /\ i \in 0 .. n /\ i - 1 \in 0 .. n
    BY <1>2
  <2>2. SubSeq(text, 1, i) = Append(SubSeq(text, 1, i - 1), text[i]) /\ SubSeq(text, 1, i - 1) \in Seq(C) /\ text[i] \in C
    BY <2>1, PartGrows
  <2>3. Rejoined(r[i - 1], SubSeq(text, 1, i - 1)) /\ r[i - 1] \in ParamState(C)
    BY <1>1, <1>4, <2>1
  <2>4. Rejoined(ParamStep(r[i - 1], text[i]), Append(SubSeq(text, 1, i - 1), text[i]))
    BY <2>2, <2>3, ParamRejoins
  <2> QED BY <1>1, <2>1, <2>2, <2>4
<1>5. Rejoined(ParamEnd(text), text) /\ ParamEnd(text) \in ParamState(C)
  <2>1. n \in S
    <3>1. n \in 0 .. n
      BY <1>2
    <3> HIDE DEF S, n
    <3> QED BY <1>2, <1>3, <1>4, <3>1, Forwards
  <2>2. SubSeq(text, 1, n) = text
    OBVIOUS
  <2> QED BY <1>1, <2>1, <2>2
<1> PICK s, params, current : s = ParamEnd(text) /\ params = s.params /\ current = s.current
  OBVIOUS
<1>6. params \in Seq(Seq(C)) /\ current \in Seq(C)
  BY <1>5 DEF ParamState
<1>7. JoinEnd(params) \o Comma \o current = Comma \o text
  BY <1>5 DEF Rejoined
<1>8. CASE current = << >>
  <2>1. Parameters(text) = params
    BY <1>8, ParametersAre DEF LastParam
  <2>2. PICK joined : joined = JoinEnd(params)
    OBVIOUS
  <2>3. joined \in Seq(C)
    BY <1>6, <2>2, JoinsTyped
  <2>4. (joined \o Comma) \o << >> = joined \o Comma
    <3>1. joined \o Comma \in Seq(C)
      BY <2>3, CommaTyped, Together
    <3> QED BY <3>1, Together
  <2> QED BY <1>7, <1>8, <2>1, <2>2, <2>4
<1>9. CASE current # << >>
  <2>1. Parameters(text) = Append(params, current)
    BY <1>9, ParametersAre DEF LastParam
  <2>2. JoinEnd(Append(params, current)) = JoinEnd(params) \o Comma \o current
    BY <1>6, JoinGrows DEF JoinStep
  <2> QED BY <1>7, <2>1, <2>2
<1> QED BY <1>8, <1>9

-----------------------------------------------------------------------------
(* The stack of one scan and the levels of the other. *)

\* How many of the brackets on the stack are of this kind.
Held(stack, b) == Cardinality({k \in DOMAIN stack : stack[k] = b})

\* It is a number.
LEMMA HeldFinite ==
  ASSUME NEW stack \in Seq(Opening), NEW b
  PROVE  IsFiniteSet({k \in DOMAIN stack : stack[k] = b}) /\ Held(stack, b) \in Nat
<1> DEFINE n == Len(stack)
<1>1. DOMAIN stack = 1 .. n /\ n \in Nat
  OBVIOUS
<1>2. IsFiniteSet(1 .. n)
  BY <1>1, FS_Interval
<1>3. {k \in DOMAIN stack : stack[k] = b} \in SUBSET (1 .. n)
  BY <1>1
<1> HIDE DEF n
<1>4. IsFiniteSet({k \in DOMAIN stack : stack[k] = b})
  BY <1>2, <1>3, FS_Subset
<1> QED BY <1>4, FS_CardinalityType DEF Held

\* Pushed, a bracket is one more of its kind.
LEMMA HeldPushed ==
  ASSUME NEW stack \in Seq(Opening), NEW c \in Opening, NEW b
  PROVE  Held(Append(stack, c), b) = IF c = b THEN Held(stack, b) + 1 ELSE Held(stack, b)
<1> PICK more, n, S, T :
      /\ more = Append(stack, c) /\ n = Len(stack)
      /\ S = {k \in DOMAIN stack : stack[k] = b} /\ T = {k \in DOMAIN more : more[k] = b}
  OBVIOUS
<1>1. n \in Nat /\ DOMAIN stack = 1 .. n /\ DOMAIN more = 1 .. n + 1 /\ more[n + 1] = c
      /\ \A k \in 1 .. n : more[k] = stack[k]
  OBVIOUS
<1>2. \A k : k \in 1 .. n + 1 <=> k \in 1 .. n \/ k = n + 1
  BY <1>1
<1>3. n + 1 \notin 1 .. n
  BY <1>1
<1>4. IsFiniteSet(S) /\ Cardinality(S) = Held(stack, b) /\ Cardinality(T) = Held(more, b)
  BY HeldFinite DEF Held
<1>5. CASE c = b
  <2>1. T = S \cup {n + 1} /\ n + 1 \notin S
    <3> HIDE DEF Opening
    <3> QED BY <1>1, <1>2, <1>3, <1>5, Zenon
  <2>2. Cardinality(T) = Cardinality(S) + 1
    <3> PICK x : x = n + 1
      OBVIOUS
    <3>1. T = S \cup {x} /\ x \notin S
      BY <2>1
    <3>2. Cardinality(S \cup {x}) = Cardinality(S) + 1
      <4> HIDE DEF Held
      <4> QED BY <1>4, <3>1, FS_AddElement
    <3> QED BY <3>1, <3>2, Zenon
  <2> QED BY <1>4, <1>5, <2>2, Zenon
<1>6. CASE c # b
  <2>1. T = S
    BY <1>1, <1>2, <1>6, Zenon
  <2> QED BY <1>4, <1>6, <2>1, Zenon
<1> QED BY <1>5, <1>6

\* A sequence that is not empty is what is before its last element, and that.
LEMMA FrontAndLast ==
  ASSUME NEW C, NEW s \in Seq(C), s # << >>
  PROVE  s = Append(Front(s), Last(s)) /\ Front(s) \in Seq(C) /\ Last(s) \in C
         /\ Len(Front(s)) = Len(s) - 1
<1>1. Len(s) \in Nat /\ Len(s) # 0 /\ Len(s) \in 1 .. Len(s)
  OBVIOUS
<1>2. Front(s) \in Seq(C) /\ Len(Front(s)) = Len(s) - 1 /\ \A i \in 1 .. Len(s) - 1 : Front(s)[i] = s[i]
  BY <1>1 DEF Front
<1>3. Last(s) = s[Len(s)] /\ Last(s) \in C
  BY <1>1 DEF Last
<1> QED BY <1>1, <1>2, <1>3

\* Popped, it is one less of its kind.
LEMMA HeldPopped ==
  ASSUME NEW stack \in Seq(Opening), stack # << >>, NEW b
  PROVE  Held(stack, b) = IF Last(stack) = b THEN Held(Front(stack), b) + 1 ELSE Held(Front(stack), b)
<1>1. stack = Append(Front(stack), Last(stack)) /\ Front(stack) \in Seq(Opening) /\ Last(stack) \in Opening
  BY FrontAndLast
<1>2. PICK s, c : s = Front(stack) /\ c = Last(stack)
  OBVIOUS
<1>3. Held(Append(s, c), b) = IF c = b THEN Held(s, b) + 1 ELSE Held(s, b)
  BY <1>1, <1>2, HeldPushed
<1> QED BY <1>1, <1>2, <1>3, Zenon

\* A stack holds nothing of any kind exactly when it is empty.
LEMMA HeldNone ==
  ASSUME NEW stack \in Seq(Opening)
  PROVE  (\A b \in Opening : Held(stack, b) = 0) <=> stack = << >>
<1>1. ASSUME stack = << >>, NEW b PROVE Held(stack, b) = 0
  <2>1. {k \in DOMAIN stack : stack[k] = b} = {}
    BY <1>1
  <2> QED BY <2>1, FS_EmptySet DEF Held
<1>2. ASSUME stack # << >> PROVE \E b \in Opening : Held(stack, b) # 0
  <2>1. 1 \in DOMAIN stack /\ stack[1] \in Opening
    BY <1>2
  <2> PICK b, S : b = stack[1] /\ S = {k \in DOMAIN stack : stack[k] = stack[1]}
    OBVIOUS
  <2>2. S # {} /\ IsFiniteSet(S) /\ Cardinality(S) = Held(stack, b)
    BY <2>1, HeldFinite DEF Held
  <2>3. Held(stack, b) # 0
    BY <2>2, FS_EmptySet
  <2> QED BY <2>1, <2>3
<1> QED BY <1>1, <1>2

\* The kinds of characters are apart, and each closing bracket is that of one opening.
LEMMA Kinds3 ==
  /\ Opening \cap Closing = {} /\ Opening \cap Quote = {} /\ Closing \cap Quote = {}
  /\ \A b \in Opening : Pair[b] \in Closing
  /\ \A b, d \in Opening : Pair[b] = Pair[d] => b = d
  /\ \A c \in Closing : \E b \in Opening : Pair[b] = c
  /\ "" \notin Quote /\ "," \notin Opening \cup Closing \cup Quote
BY DEF Opening, Closing, Quote, Pair

\* What a character does to the scans: a quote, inside a string, a bracket, another one.
LEMMA BalanceMoves ==
  ASSUME NEW s, s.ok, NEW c
  PROVE  /\ c \in Quote /\ s.quote = "" => BalanceStep(s, c) = [s EXCEPT !.quote = c]
         /\ c = s.quote /\ s.quote # "" => BalanceStep(s, c) = [s EXCEPT !.quote = ""]
         /\ c # s.quote /\ s.quote # "" => BalanceStep(s, c) = s
         /\ s.quote = "" /\ c \notin Quote /\ c # "" =>
              /\ c \in Opening => BalanceStep(s, c) = [s EXCEPT !.stack = Append(s.stack, c)]
              /\ c \in Closing /\ Popped(s.stack, c) => BalanceStep(s, c) = [s EXCEPT !.stack = Front(s.stack)]
              /\ c \in Closing /\ ~Popped(s.stack, c) => BalanceStep(s, c) = [s EXCEPT !.ok = FALSE]
              /\ c \notin Opening \cup Closing => BalanceStep(s, c) = s
<1>1. c \in Quote /\ s.quote = "" => BalanceStep(s, c) = [s EXCEPT !.quote = c]
  BY Zenon DEF BalanceStep
<1>2. c = s.quote /\ s.quote # "" => BalanceStep(s, c) = [s EXCEPT !.quote = ""]
  BY Zenon DEF BalanceStep
<1>3. c # s.quote /\ s.quote # "" => BalanceStep(s, c) = s
  BY Zenon DEF BalanceStep
<1>4. ASSUME s.quote = "", c \notin Quote, c # ""
      PROVE  /\ c \in Opening => BalanceStep(s, c) = [s EXCEPT !.stack = Append(s.stack, c)]
             /\ c \in Closing /\ c \notin Opening /\ Popped(s.stack, c) => BalanceStep(s, c) = [s EXCEPT !.stack = Front(s.stack)]
             /\ c \in Closing /\ c \notin Opening /\ ~Popped(s.stack, c) => BalanceStep(s, c) = [s EXCEPT !.ok = FALSE]
             /\ c \notin Opening /\ c \notin Closing => BalanceStep(s, c) = s
  <2>1. BalanceStep(s, c) = IF c \in Opening THEN [s EXCEPT !.stack = Append(@, c)]
                            ELSE IF c \in Closing
                            THEN IF Popped(s.stack, c) THEN [s EXCEPT !.stack = Front(@)] ELSE [s EXCEPT !.ok = FALSE]
                            ELSE s
    BY <1>4, Zenon DEF BalanceStep
  <2> QED BY <2>1, Zenon
<1>5. c \in Closing => c \notin Opening
  BY Kinds3
<1> QED BY <1>1, <1>2, <1>3, <1>4, <1>5, Zenon

\* The cases of a step of the split.
LEMMA ParamMoves ==
  ASSUME NEW s, NEW c
  PROVE  /\ c \in Quote /\ s.quote = "" => ParamStep(s, c) = [s EXCEPT !.quote = c, !.current = Append(s.current, c)]
         /\ c \notin Quote /\ c = s.quote => ParamStep(s, c) = [s EXCEPT !.quote = "", !.current = Append(s.current, c)]
         /\ s.quote # "" /\ c = s.quote => ParamStep(s, c) = [s EXCEPT !.quote = "", !.current = Append(s.current, c)]
         /\ c # s.quote /\ s.quote # "" =>
              ParamStep(s, c) = [s EXCEPT !.current = Append(s.current, c), !.level = s.level]
         /\ s.quote = "" /\ c \notin Quote /\ c # "" =>
              /\ c = "," /\ AtTop(s.level) =>
                   ParamStep(s, c) = [s EXCEPT !.params = Append(s.params, s.current), !.current = << >>]
              /\ ~(c = "," /\ AtTop(s.level)) =>
                   ParamStep(s, c) = [s EXCEPT !.current = Append(s.current, c), !.level = Leveled(s.level, c)]
<1>1. c \in Quote /\ s.quote = "" => ParamStep(s, c) = [s EXCEPT !.quote = c, !.current = Append(s.current, c)]
  BY Zenon DEF ParamStep
<1>2. /\ c \notin Quote /\ c = s.quote => ParamStep(s, c) = [s EXCEPT !.quote = "", !.current = Append(s.current, c)]
      /\ s.quote # "" /\ c = s.quote => ParamStep(s, c) = [s EXCEPT !.quote = "", !.current = Append(s.current, c)]
  BY Zenon DEF ParamStep
<1>3. c # s.quote /\ s.quote # "" =>
        ParamStep(s, c) = [s EXCEPT !.current = Append(s.current, c), !.level = s.level]
  BY Zenon DEF ParamStep
<1>4. s.quote = "" /\ c \notin Quote /\ c # "" =>
        /\ c = "," /\ AtTop(s.level) =>
             ParamStep(s, c) = [s EXCEPT !.params = Append(s.params, s.current), !.current = << >>]
        /\ ~(c = "," /\ AtTop(s.level)) =>
             ParamStep(s, c) = [s EXCEPT !.current = Append(s.current, c), !.level = Leveled(s.level, c)]
  BY Zenon DEF ParamStep
<1> QED BY <1>1, <1>2, <1>3, <1>4, Zenon

\* The scan as Balanced has it.
LEMMA BalancedIs ==
  ASSUME NEW text
  PROVE  Balanced(text) <=> BalanceEnd(text).ok /\ BalanceEnd(text).stack = << >> /\ BalanceEnd(text).quote = ""
BY Zenon DEF Balanced, BalanceEnd, BalanceBase

\* The levels of parse_parameters are the numbers of the brackets on the stack.
SameLevels(level, stack) == \A x \in Opening : level[x] = Held(stack, x)

\* A step keeps the levels so, whatever the scan does to the stack.
LEMMA LevelsFollow ==
  ASSUME NEW level \in [Opening -> Int], NEW stack \in Seq(Opening), SameLevels(level, stack), NEW c
  PROVE  /\ c \in Opening => SameLevels(Leveled(level, c), Append(stack, c))
         /\ c \in Closing /\ Popped(stack, c) => SameLevels(Leveled(level, c), Front(stack))
         /\ c \notin Opening \cup Closing => SameLevels(Leveled(level, c), stack)
<1>1. ASSUME NEW x \in Opening
      PROVE  /\ c = x => Leveled(level, c)[x] = level[x] + 1
             /\ c # x /\ c = Pair[x] => Leveled(level, c)[x] = level[x] - 1
             /\ c # x /\ c # Pair[x] => Leveled(level, c)[x] = level[x]
  <2>1. Leveled(level, c)[x] = level[x] + (IF c = x THEN 1 ELSE IF c = Pair[x] THEN -1 ELSE 0)
    BY DEF Leveled
  <2> PICK l : l = level[x]
    OBVIOUS
  <2>2. l \in Int
    OBVIOUS
  <2>3. l + 0 = l /\ l + (-1) = l - 1
    BY <2>2
  <2>4. /\ c = x => Leveled(level, c)[x] = l + 1
        /\ c # x /\ c = Pair[x] => Leveled(level, c)[x] = l + (-1)
        /\ c # x /\ c # Pair[x] => Leveled(level, c)[x] = l + 0
    BY <2>1, Zenon
  <2> QED BY <2>3, <2>4, Zenon
<1>2. ASSUME NEW x \in Opening PROVE level[x] = Held(stack, x) /\ Held(stack, x) \in Nat
  BY HeldFinite DEF SameLevels
<1>3. ASSUME c \in Opening, NEW x \in Opening PROVE Leveled(level, c)[x] = Held(Append(stack, c), x)
  <2>1. c # Pair[x]
    <3>1. Pair[x] \in Closing
      BY Kinds3
    <3>2. c \notin Closing
      BY <1>3, Kinds3
    <3> QED BY <3>1, <3>2
  <2>2. Held(Append(stack, c), x) = IF c = x THEN Held(stack, x) + 1 ELSE Held(stack, x)
    BY <1>3, HeldPushed
  <2> QED BY <1>1, <1>2, <2>1, <2>2, Zenon
<1>4. ASSUME c \in Closing, Popped(stack, c), NEW x \in Opening
      PROVE  Leveled(level, c)[x] = Held(Front(stack), x)
  <2>1. stack # << >> /\ Pair[Last(stack)] = c
    BY <1>4 DEF Popped
  <2>2. Last(stack) \in Opening /\ Front(stack) \in Seq(Opening)
    BY <2>1, FrontAndLast
  <2>3. (Last(stack) = x <=> c = Pair[x]) /\ c # x
    BY <1>4, <2>1, <2>2, Kinds3
  <2>4. Held(stack, x) = IF Last(stack) = x THEN Held(Front(stack), x) + 1 ELSE Held(Front(stack), x)
    BY <2>1, HeldPopped
  <2> PICK h, f : h = Held(stack, x) /\ f = Held(Front(stack), x)
    OBVIOUS
  <2>5. h \in Nat /\ f \in Nat
    BY <2>2, HeldFinite
  <2>6. CASE Last(stack) = x
    <3>1. Leveled(level, c)[x] = h - 1 /\ h = f + 1
      BY <1>1, <1>2, <2>3, <2>4, <2>6, Zenon
    <3>2. (f + 1) - 1 = f
      BY <2>5
    <3> QED BY <3>1, <3>2
  <2>7. CASE Last(stack) # x
    BY <1>1, <1>2, <2>3, <2>4, <2>7, Zenon
  <2> QED BY <2>6, <2>7
<1>5. ASSUME c \notin Opening \cup Closing, NEW x \in Opening PROVE Leveled(level, c)[x] = Held(stack, x)
  <2>1. c # x /\ c # Pair[x]
    BY <1>5, Kinds3
  <2> QED BY <1>1, <1>2, <2>1
<1> QED BY <1>3, <1>4, <1>5 DEF SameLevels

\* The two scans after the same characters, the one for balanced brackets having found no
\* fault: what is behind the last split brings the stack to where it is.
Alongside(b, p) ==
  /\ b.ok /\ p.quote = b.quote
  /\ SameLevels(p.level, b.stack)
  /\ BalanceEnd(p.current) = b
  /\ \A m \in DOMAIN p.params : Balanced(p.params[m])

\* The split is at the top exactly when no bracket is open.
LEMMA TopIsEmpty ==
  ASSUME NEW stack \in Seq(Opening), NEW level, SameLevels(level, stack)
  PROVE  AtTop(level) <=> stack = << >>
BY HeldNone DEF AtTop, SameLevels

\* A step of both keeps them alongside.
LEMMA StaysAlongside ==
  ASSUME NEW C, NEW b \in BalanceState, NEW p \in ParamState(C), NEW c \in C,
         Alongside(b, p), BalanceStep(b, c).ok
  PROVE  Alongside(BalanceStep(b, c), ParamStep(p, c))
<1>1. /\ b.stack \in Seq(Opening) /\ b.quote \in Quote \cup {""} /\ b.ok
      /\ p.level \in [Opening -> Int] /\ p.current \in Seq(C) /\ p.params \in Seq(Seq(C)) /\ p.quote = b.quote
      /\ b = [ok |-> b.ok, stack |-> b.stack, quote |-> b.quote]
      /\ p = [params |-> p.params, current |-> p.current, quote |-> p.quote, level |-> p.level]
  BY DEF Alongside, BalanceState, ParamState
<1>2. SameLevels(p.level, b.stack) /\ BalanceEnd(p.current) = b /\ \A m \in DOMAIN p.params : Balanced(p.params[m])
  BY DEF Alongside
<1>3. BalanceEnd(Append(p.current, c)) = BalanceStep(b, c)
  BY <1>1, <1>2, BalanceGrows
<1>b. b.ok
  BY <1>1
<1>4. CASE c \in Quote /\ b.quote = ""
  <2>0. p.quote = ""
    BY <1>1, <1>4
  <2>1. BalanceStep(b, c) = [b EXCEPT !.quote = c]
    BY <1>b, <1>4, BalanceMoves, Zenon
  <2>2. ParamStep(p, c) = [p EXCEPT !.quote = c, !.current = Append(p.current, c)]
    BY <1>4, <2>0, ParamMoves, Zenon
  <2> QED BY <1>1, <1>2, <1>3, <2>1, <2>2 DEF Alongside
<1>5. CASE c = b.quote /\ b.quote # ""
  <2>0. p.quote # "" /\ c = p.quote
    BY <1>1, <1>5
  <2>1. BalanceStep(b, c) = [b EXCEPT !.quote = ""]
    BY <1>b, <1>5, BalanceMoves, Zenon
  <2>2. ParamStep(p, c) = [p EXCEPT !.quote = "", !.current = Append(p.current, c)]
    BY <2>0, ParamMoves, Zenon
  <2> QED BY <1>1, <1>2, <1>3, <2>1, <2>2 DEF Alongside
<1>6. CASE c # b.quote /\ b.quote # ""
  <2>0. c # p.quote /\ p.quote # ""
    BY <1>1, <1>6
  <2>1. BalanceStep(b, c) = b
    BY <1>b, <1>6, BalanceMoves, Zenon
  <2>2. ParamStep(p, c) = [p EXCEPT !.current = Append(p.current, c), !.level = p.level]
    BY <2>0, ParamMoves, Zenon
  <2> QED BY <1>1, <1>2, <1>3, <2>1, <2>2 DEF Alongside
<1>7. CASE c \notin Quote /\ b.quote = "" /\ c = "," /\ AtTop(p.level)
  <2>0. b.stack = << >> /\ p.quote = ""
    BY <1>1, <1>2, <1>7, TopIsEmpty
  <2>1. c \notin Opening \cup Closing
    BY <1>7, Kinds3
  <2>2. c # ""
    BY <1>7
  <2>3. BalanceStep(b, c) = b
    BY <1>b, <1>7, <2>1, <2>2, BalanceMoves, Zenon
  <2>4. ParamStep(p, c) = [p EXCEPT !.params = Append(p.params, p.current), !.current = << >>]
    BY <1>7, <2>0, <2>2, ParamMoves, Zenon
  <2>5. BalanceEnd(<< >>) = b
    <3>1. BalanceBase = b
      BY <1>1, <1>7, <2>0 DEF BalanceBase, BalanceState
    <3> QED BY <3>1, BalanceNothing
  <2>6. Balanced(p.current)
    BY <1>1, <1>2, <1>7, <2>0, BalancedIs
  <2>7. \A m \in DOMAIN Append(p.params, p.current) : Balanced(Append(p.params, p.current)[m])
    <3> PICK more, n, params, current :
          more = Append(params, current) /\ n = Len(params) /\ params = p.params /\ current = p.current
      OBVIOUS
    <3>0. params \in Seq(Seq(C))
      BY <1>1
    <3>1. n \in Nat /\ DOMAIN params = 1 .. n /\ DOMAIN more = 1 .. n + 1 /\ more[n + 1] = current
          /\ \A m \in 1 .. n : more[m] = params[m]
      BY <3>0
    <3>2. \A m \in 1 .. n + 1 : m \in 1 .. n \/ m = n + 1
      BY <3>1
    <3>3. Balanced(current) /\ \A m \in 1 .. n : Balanced(params[m])
      BY <1>2, <2>6, <3>1
    <3>4. \A m \in 1 .. n + 1 : Balanced(more[m])
      BY <3>1, <3>2, <3>3, Zenon
    <3> QED BY <3>1, <3>4
  <2> QED BY <1>1, <1>2, <2>3, <2>4, <2>5, <2>7 DEF Alongside
<1>8. CASE c \notin Quote /\ b.quote = "" /\ ~(c = "," /\ AtTop(p.level)) /\ c # ""
  <2>0. p.quote = ""
    BY <1>1, <1>8
  <2>1. ParamStep(p, c) = [p EXCEPT !.current = Append(p.current, c), !.level = Leveled(p.level, c)]
    BY <1>8, <2>0, ParamMoves, Zenon
  <2>2. CASE c \in Opening
    <3>1. BalanceStep(b, c) = [b EXCEPT !.stack = Append(b.stack, c)]
      BY <1>b, <1>8, <2>2, BalanceMoves, Zenon
    <3>2. SameLevels(Leveled(p.level, c), Append(b.stack, c))
      BY <1>1, <1>2, <2>2, LevelsFollow
    <3> QED BY <1>1, <1>2, <1>3, <2>1, <3>1, <3>2 DEF Alongside
  <2>3. CASE c \in Closing
    <3>0. Popped(b.stack, c)
      <4>1. ~Popped(b.stack, c) => BalanceStep(b, c) = [b EXCEPT !.ok = FALSE]
        BY <1>b, <1>8, <2>3, BalanceMoves, Zenon
      <4> QED BY <1>1, <4>1
    <3>1. BalanceStep(b, c) = [b EXCEPT !.stack = Front(b.stack)]
      BY <1>b, <1>8, <2>3, <3>0, BalanceMoves, Zenon
    <3>2. SameLevels(Leveled(p.level, c), Front(b.stack))
      BY <1>1, <1>2, <2>3, <3>0, LevelsFollow
    <3> QED BY <1>1, <1>2, <1>3, <2>1, <3>1, <3>2 DEF Alongside
  <2>4. CASE c \notin Opening \cup Closing
    <3>1. BalanceStep(b, c) = b
      BY <1>b, <1>8, <2>4, BalanceMoves, Zenon
    <3>2. SameLevels(Leveled(p.level, c), b.stack)
      BY <1>1, <1>2, <2>4, LevelsFollow
    <3> QED BY <1>1, <1>2, <1>3, <2>1, <3>1, <3>2 DEF Alongside
  <2> QED BY <2>2, <2>3, <2>4
<1>9. CASE c = "" /\ b.quote = ""
  <2>0. c \notin Quote /\ p.quote = "" /\ c = b.quote /\ c = p.quote
    BY <1>1, <1>9, Kinds3
  <2>1. BalanceStep(b, c) = [b EXCEPT !.quote = ""]
    BY <1>b, <2>0, Zenon DEF BalanceStep
  <2>2. ParamStep(p, c) = [p EXCEPT !.quote = "", !.current = Append(p.current, c)]
    BY <2>0, ParamMoves, Zenon
  <2> QED BY <1>1, <1>2, <1>3, <1>9, <2>1, <2>2 DEF Alongside
<1> QED BY <1>4, <1>5, <1>6, <1>7, <1>8, <1>9

\* The run of the scan over a balanced text, which finds no fault on its way.
BalancedRun(b, text) ==
  /\ b[0] = BalanceBase /\ b[Len(text)] = BalanceEnd(text)
  /\ b[Len(text)].stack = << >> /\ b[Len(text)].quote = ""
  /\ \A i \in 1 .. Len(text) : b[i] = BalanceStep(b[i - 1], text[i])
  /\ \A i \in 0 .. Len(text) : b[i] \in BalanceState /\ b[i].ok

\* There is one.
LEMMA BalancedRuns ==
  ASSUME NEW C, NEW text \in Seq(C), Balanced(text)
  PROVE  \E b : BalancedRun(b, text)
<1> DEFINE n == Len(text)
<1>1. PICK b : /\ b[0] = BalanceBase /\ b[n] = BalanceEnd(text)
               /\ \A i \in 1 .. n : b[i] = BalanceStep(b[i - 1], text[i])
               /\ \A i \in 0 .. n : b[i] \in BalanceState
  BY BalanceRuns
<1>2. n \in Nat
  OBVIOUS
<1>3. b[n].ok /\ b[n].stack = << >> /\ b[n].quote = ""
  BY <1>1, BalancedIs
<1> DEFINE S == {k \in 0 .. n : b[n - k].ok}
<1>4. 0 \in S
  <2>1. b[n].ok
    BY <1>3
  <2>2. n - 0 = n /\ 0 \in 0 .. n
    BY <1>2
  <2> QED BY <2>1, <2>2
<1>5. ASSUME NEW k \in 1 .. n, k - 1 \in S PROVE k \in S
  <2>1. n - (k - 1) \in 1 .. n /\ (n - (k - 1)) - 1 = n - k /\ k \in 0 .. n
    BY <1>2
  <2>2. PICK i, j : i = n - (k - 1) /\ j = n - k
    OBVIOUS
  <2>3. b[i] = BalanceStep(b[j], text[i]) /\ b[i].ok
    BY <1>1, <1>5, <2>1, <2>2
  <2>4. ~b[j].ok => BalanceStep(b[j], text[i]) = b[j]
    BY Zenon DEF BalanceStep
  <2>5. b[j].ok
    BY <2>3, <2>4
  <2> QED BY <2>1, <2>2, <2>5
<1>6. \A k \in 0 .. n : k \in S
  <2> HIDE DEF S, n
  <2> QED BY <1>2, <1>4, <1>5, Forwards
<1>7. ASSUME NEW i \in 0 .. n PROVE b[i].ok
  <2>1. n - i \in 0 .. n /\ n - (n - i) = i
    BY <1>2
  <2> QED BY <1>6, <2>1
<1> QED BY <1>1, <1>3, <1>7 DEF BalancedRun

\* The split of a balanced text goes alongside it.
LEMMA RunsAlongside ==
  ASSUME NEW C, NEW text \in Seq(C), Balanced(text), NEW b, BalancedRun(b, text)
  PROVE  \E p : /\ p[0] = ParamBase /\ p[Len(text)] = ParamEnd(text)
                /\ \A i \in 1 .. Len(text) : p[i] = ParamStep(p[i - 1], text[i])
                /\ \A i \in 0 .. Len(text) : p[i] \in ParamState(C) /\ Alongside(b[i], p[i])
<1> DEFINE n == Len(text)
<1>1. PICK p : /\ p[0] = ParamBase /\ p[n] = ParamEnd(text)
               /\ \A i \in 1 .. n : p[i] = ParamStep(p[i - 1], text[i])
               /\ \A i \in 0 .. n : p[i] \in ParamState(C)
  BY ParamRuns
<1>2. n \in Nat /\ \A i \in 1 .. n : i \in 0 .. n /\ i - 1 \in 0 .. n
  OBVIOUS
<1> DEFINE S == {i \in 0 .. n : Alongside(b[i], p[i])}
<1>3. 0 \in S
  <2>1. 0 \in 0 .. n
    BY <1>2
  <2>2. Alongside(BalanceBase, ParamBase)
    <3>1. /\ BalanceBase.ok /\ BalanceBase.stack = << >> /\ BalanceBase.quote = ""
          /\ ParamBase.quote = "" /\ ParamBase.current = << >> /\ ParamBase.params = << >>
          /\ \A x \in Opening : ParamBase.level[x] = 0
      BY DEF BalanceBase, ParamBase
    <3>2. SameLevels(ParamBase.level, << >>)
      <4>1. << >> \in Seq(Opening)
        OBVIOUS
      <4> QED BY <3>1, <4>1, HeldNone DEF SameLevels
    <3>3. \A m \in DOMAIN << >> : Balanced(<< >>[m])
      OBVIOUS
    <3> QED BY <3>1, <3>2, <3>3, BalanceNothing DEF Alongside
  <2> QED BY <1>1, <2>1, <2>2 DEF BalancedRun
<1>4. ASSUME NEW i \in 1 .. n, i - 1 \in S PROVE i \in S
  <2>1. b[i - 1] \in BalanceState /\ p[i - 1] \in ParamState(C) /\ text[i] \in C /\ b[i].ok
        /\ b[i] = BalanceStep(b[i - 1], text[i]) /\ p[i] = ParamStep(p[i - 1], text[i])
    <3>1. /\ \A k \in 1 .. n : b[k] = BalanceStep(b[k - 1], text[k])
          /\ \A k \in 0 .. n : b[k] \in BalanceState /\ b[k].ok
      BY Zenon DEF BalancedRun
    <3> QED BY <1>1, <1>2, <3>1
  <2>2. Alongside(b[i - 1], p[i - 1])
    BY <1>4
  <2>3. Alongside(BalanceStep(b[i - 1], text[i]), ParamStep(p[i - 1], text[i]))
    <3> PICK x, y, c : x = b[i - 1] /\ y = p[i - 1] /\ c = text[i]
      OBVIOUS
    <3> QED BY <2>1, <2>2, StaysAlongside
  <2> QED BY <1>2, <2>1, <2>3
<1>5. \A i \in 0 .. n : i \in S
  <2> HIDE DEF S, n
  <2> QED BY <1>2, <1>3, <1>4, Forwards
<1> QED BY <1>1, <1>5

\* Each parameter of a balanced text is balanced.
LEMMA ParamsWhole ==
  ASSUME NEW C, NEW text \in Seq(C), Balanced(text), NEW m \in 1 .. Len(Parameters(text))
  PROVE  Balanced(Parameters(text)[m])
<1>1. PICK b : BalancedRun(b, text)
  BY BalancedRuns
<1>2. PICK p : /\ p[Len(text)] = ParamEnd(text)
               /\ \A i \in 0 .. Len(text) : p[i] \in ParamState(C) /\ Alongside(b[i], p[i])
  BY <1>1, RunsAlongside
<1> PICK end, params, current : end = ParamEnd(text) /\ params = end.params /\ current = end.current
  OBVIOUS
<1>3. Len(text) \in 0 .. Len(text)
  OBVIOUS
<1>4. end \in ParamState(C) /\ Alongside(BalanceEnd(text), end)
  BY <1>1, <1>2, <1>3 DEF BalancedRun
<1>5. params \in Seq(Seq(C)) /\ current \in Seq(C) /\ Balanced(current) /\ \A k \in DOMAIN params : Balanced(params[k])
  <2>1. params \in Seq(Seq(C)) /\ current \in Seq(C)
    BY <1>4 DEF ParamState
  <2>2. BalanceEnd(current) = BalanceEnd(text) /\ \A k \in DOMAIN params : Balanced(params[k])
    BY <1>4 DEF Alongside
  <2> QED BY <2>1, <2>2, BalancedIs
<1>6. Parameters(text) = IF current = << >> THEN params ELSE Append(params, current)
  BY ParametersAre DEF LastParam
<1> PICK k : k = m
  OBVIOUS
<1>7. CASE current = << >>
  BY <1>5, <1>6, <1>7
<1>8. CASE current # << >>
  <2>1. Len(Append(params, current)) = Len(params) + 1 /\ Append(params, current)[Len(params) + 1] = current
        /\ Len(params) \in Nat /\ \A j \in 1 .. Len(params) : Append(params, current)[j] = params[j] /\ j \in DOMAIN params
    BY <1>5
  <2>2. m \in 1 .. Len(params) \/ m = Len(params) + 1
    BY <1>6, <1>8, <2>1
  <2> QED BY <1>5, <1>6, <1>8, <2>1, <2>2
<1> QED BY <1>7, <1>8

\* ParametersWhole, of any text.
LEMMA ParametersAreWhole == chars \in Seq(Char) => ParametersWhole
<1> SUFFICES ASSUME chars \in Seq(Char), Balanced(chars) PROVE \A i \in 1 .. Len(Parameters(chars)) : Balanced(Parameters(chars)[i])
  BY DEF ParametersWhole
<1>1. PICK text : text = chars
  OBVIOUS
<1>2. text \in Seq(Char) /\ Balanced(text)
  BY <1>1
<1> QED BY <1>1, <1>2, ParamsWhole

\* ParametersKept, of any text.
LEMMA ParametersAreKept == chars \in Seq(Char) => ParametersKept
<1> SUFFICES ASSUME chars \in Seq(Char) PROVE ParametersKept
  OBVIOUS
<1>1. PICK text : text = chars
  OBVIOUS
<1> DEFINE C == Char \cup {","}
<1>2. WithComma(C)
  BY DEF WithComma
<1>3. text \in Seq(C)
  <2>1. Char \subseteq C /\ text \in Seq(Char)
    BY <1>1
  <2> HIDE DEF C
  <2> QED BY <2>1, Wider
<1>4. \/ JoinEnd(Parameters(text)) = Comma \o text
      \/ JoinEnd(Parameters(text)) \o Comma = Comma \o text
  <2> HIDE DEF C
  <2> QED BY <1>2, <1>3, ParamsRejoined
<1> QED BY <1>1, <1>4, Zenon DEF ParametersKept, JoinEnd, Comma

\* ConditionWhole, of any text.
LEMMA ConditionIsWhole == chars \in Seq(Char) => ConditionWhole
<1> SUFFICES ASSUME chars \in Seq(Char), Plain(chars), MatchingParen(chars) # 0
             PROVE  /\ ConditionCounts(SubSeq(chars, 2, MatchingParen(chars) - 1)).parens = 0
                    /\ ConditionCounts(SubSeq(chars, 2, MatchingParen(chars) - 1)).quote = ""
  BY DEF ConditionWhole
<1>1. PICK text : text = chars
  OBVIOUS
<1>2. text \in Seq(Char) /\ Plain(text) /\ MatchingParen(text) # 0
  BY <1>1
<1> QED BY <1>1, <1>2, ConditionsWhole

-----------------------------------------------------------------------------
(* The brackets of a balanced text and the stack. *)

\* The strings of a text, as Quoted finds them.
QuotesOf(f, text) ==
  f = [i \in 0 .. Len(text) |->
         IF i = 0 THEN ""
         ELSE IF f[i - 1] = "" THEN IF text[i] \in Quote THEN text[i] ELSE ""
         ELSE IF text[i] = f[i - 1] THEN "" ELSE f[i - 1]]

\* The reference definition satisfies its equation if anything does.
LEMMA QuotedIs == ASSUME NEW text, \E f : QuotesOf(f, text) PROVE QuotesOf(Quoted(text), text)
BY Zenon DEF QuotesOf, Quoted

\* What a character does to the open quote.
QuoteStep(quote, c) ==
  IF quote = "" THEN IF c \in Quote THEN c ELSE "" ELSE IF c = quote THEN "" ELSE quote

\* The scan does so.
LEMMA BalanceQuote ==
  ASSUME NEW s \in BalanceState, s.ok, NEW c
  PROVE  BalanceStep(s, c).quote = QuoteStep(s.quote, c)
<1>1. s = [ok |-> s.ok, stack |-> s.stack, quote |-> s.quote] /\ "" \notin Quote
  BY Kinds3 DEF BalanceState
<1>2. CASE c \in Quote /\ s.quote = ""
  <2>1. BalanceStep(s, c) = [s EXCEPT !.quote = c]
    BY <1>2, BalanceMoves, Zenon
  <2> QED BY <1>1, <1>2, <2>1 DEF QuoteStep
<1>3. CASE s.quote # "" /\ c = s.quote
  <2>1. BalanceStep(s, c) = [s EXCEPT !.quote = ""]
    BY <1>3, BalanceMoves, Zenon
  <2> QED BY <1>1, <1>3, <2>1 DEF QuoteStep
<1>4. CASE s.quote # "" /\ c # s.quote
  <2>1. BalanceStep(s, c) = s
    BY <1>4, BalanceMoves, Zenon
  <2> QED BY <1>1, <1>4, <2>1 DEF QuoteStep
<1>5. CASE s.quote = "" /\ c \notin Quote /\ c # ""
  <2>1. BalanceStep(s, c).quote = s.quote
    <3>1. \/ BalanceStep(s, c) = [s EXCEPT !.stack = Append(s.stack, c)]
          \/ BalanceStep(s, c) = [s EXCEPT !.stack = Front(s.stack)]
          \/ BalanceStep(s, c) = [s EXCEPT !.ok = FALSE]
          \/ BalanceStep(s, c) = s
      <4>1. c \in Opening \/ c \in Closing \/ c \notin Opening \cup Closing
        OBVIOUS
      <4> QED BY <1>5, <4>1, BalanceMoves, Zenon
    <3> QED BY <1>1, <3>1
  <2> QED BY <1>5, <2>1 DEF QuoteStep
<1>6. CASE s.quote = "" /\ c = ""
  <2>1. BalanceStep(s, c) = [s EXCEPT !.quote = ""]
    <3>1. c \notin Quote /\ c = s.quote
      BY <1>1, <1>6
    <3> QED BY <3>1, Zenon DEF BalanceStep
  <2> QED BY <1>1, <1>6, <2>1 DEF QuoteStep
<1> QED BY <1>2, <1>3, <1>4, <1>5, <1>6

\* The scan and the reference definition see the same strings.
LEMMA QuotedRuns ==
  ASSUME NEW C, NEW text \in Seq(C), NEW b, BalancedRun(b, text)
  PROVE  \A i \in 0 .. Len(text) : Quoted(text)[i] = b[i].quote
<1> PICK n, q : n = Len(text) /\ q = [i \in 0 .. n |-> b[i].quote]
  OBVIOUS
<1>1. n \in Nat /\ \A i \in 1 .. n : i \in 0 .. n /\ i - 1 \in 0 .. n /\ i # 0
  OBVIOUS
<1>2. q[0] = ""
  <2>1. 0 \in 0 .. n
    BY <1>1
  <2>2. b[0] = BalanceBase
    BY Zenon DEF BalancedRun
  <2>3. q[0] = b[0].quote
    BY <2>1
  <2>4. BalanceBase.quote = ""
    BY DEF BalanceBase
  <2> QED BY <2>2, <2>3, <2>4, Zenon
<1>3. ASSUME NEW i \in 1 .. n PROVE q[i] = QuoteStep(q[i - 1], text[i])
  <2>1. b[i] = BalanceStep(b[i - 1], text[i]) /\ b[i - 1] \in BalanceState /\ b[i - 1].ok
    <3>1. /\ \A k \in 1 .. n : b[k] = BalanceStep(b[k - 1], text[k])
          /\ \A k \in 0 .. n : b[k] \in BalanceState /\ b[k].ok
      BY Zenon DEF BalancedRun
    <3> QED BY <1>1, <3>1
  <2>2. b[i].quote = QuoteStep(b[i - 1].quote, text[i])
    <3> PICK s : s = b[i - 1]
      OBVIOUS
    <3> QED BY <2>1, BalanceQuote
  <2> QED BY <1>1, <2>2
<1>4. QuotesOf(q, text)
  <2>1. \A i \in 0 .. n : q[i] = IF i = 0 THEN "" ELSE QuoteStep(q[i - 1], text[i])
    <3>1. \A i \in 0 .. n : i = 0 \/ i \in 1 .. n
      BY <1>1
    <3> QED BY <1>1, <1>2, <1>3, <3>1, Zenon
  <2>2. q = [i \in 0 .. n |-> q[i]]
    OBVIOUS
  <2>3. q = [i \in 0 .. n |-> IF i = 0 THEN "" ELSE QuoteStep(q[i - 1], text[i])]
    BY <2>1, <2>2
  <2> QED BY <2>3, Zenon DEF QuotesOf, QuoteStep
<1>5. QuotesOf(Quoted(text), text)
  BY <1>4, QuotedIs
<1> PICK f : f = Quoted(text)
  OBVIOUS
<1>6. \A i \in 0 .. n : f[i] = IF i = 0 THEN "" ELSE QuoteStep(f[i - 1], text[i])
  <2>1. f = [i \in 0 .. n |-> IF i = 0 THEN "" ELSE QuoteStep(f[i - 1], text[i])]
    BY <1>5, Zenon DEF QuotesOf, QuoteStep
  <2> QED BY <2>1, Zenon
<1> DEFINE S == {i \in 0 .. n : f[i] = q[i]}
<1>7. 0 \in S
  <2>1. 0 \in 0 .. n
    BY <1>1
  <2> QED BY <1>2, <1>6, <2>1, Zenon
<1>8. ASSUME NEW i \in 1 .. n, i - 1 \in S PROVE i \in S
  <2>1. f[i] = QuoteStep(f[i - 1], text[i])
    BY <1>1, <1>6, Zenon
  <2> QED BY <1>1, <1>3, <1>8, <2>1
<1>9. \A i \in 0 .. n : i \in S
  <2> HIDE DEF S
  <2> QED BY <1>1, <1>7, <1>8, Forwards
<1> QED BY <1>9

\* The stack after each character of a balanced text, and the brackets that move it.
Stacks(st, B, text) ==
  /\ B \subseteq 1 .. Len(text) /\ \A i \in 0 .. Len(text) : st[i] \in Seq(Opening)
  /\ st[0] = << >> /\ st[Len(text)] = << >>
  /\ \A i \in 1 .. Len(text) :
       /\ i \in B /\ text[i] \in Opening => st[i] = Append(st[i - 1], text[i])
       /\ i \in B /\ text[i] \notin Opening =>
            text[i] \in Closing /\ Popped(st[i - 1], text[i]) /\ st[i] = Front(st[i - 1])
       /\ i \notin B => st[i] = st[i - 1]

\* What a character does to the stack.
Pushes(s, c) ==
  IF c \in Opening \cup Closing /\ s.quote = ""
  THEN /\ BalanceStep(s, c).quote = ""
       /\ c \in Opening => BalanceStep(s, c).stack = Append(s.stack, c)
       /\ c \notin Opening => c \in Closing /\ Popped(s.stack, c) /\ BalanceStep(s, c).stack = Front(s.stack)
  ELSE BalanceStep(s, c).stack = s.stack

\* The scan does so as long as it finds no fault.
LEMMA StackMoves ==
  ASSUME NEW s \in BalanceState, s.ok, NEW c, BalanceStep(s, c).ok
  PROVE  Pushes(s, c)
<1>1. s = [ok |-> s.ok, stack |-> s.stack, quote |-> s.quote]
  BY DEF BalanceState
<1>2. CASE c \in Opening \cup Closing /\ s.quote = ""
  <2>1. c \notin Quote /\ c # "" /\ (c \in Closing => c \notin Opening)
    BY <1>2, Kinds3 DEF Opening, Closing
  <2>2. CASE c \in Opening
    <3>1. BalanceStep(s, c) = [s EXCEPT !.stack = Append(s.stack, c)]
      BY <1>2, <2>1, <2>2, BalanceMoves, Zenon
    <3> QED BY <1>1, <1>2, <2>2, <3>1 DEF Pushes
  <2>3. CASE c \notin Opening
    <3>1. c \in Closing
      BY <1>2, <2>3
    <3>2. ~Popped(s.stack, c) => BalanceStep(s, c) = [s EXCEPT !.ok = FALSE]
      BY <1>2, <2>1, <3>1, BalanceMoves, Zenon
    <3>3. Popped(s.stack, c)
      BY <1>1, <3>2
    <3>4. BalanceStep(s, c) = [s EXCEPT !.stack = Front(s.stack)]
      BY <1>2, <2>1, <3>1, <3>3, BalanceMoves, Zenon
    <3> QED BY <1>1, <1>2, <2>3, <3>1, <3>3, <3>4 DEF Pushes
  <2> QED BY <2>2, <2>3
<1>3. CASE ~(c \in Opening \cup Closing /\ s.quote = "")
  <2>1. CASE s.quote # "" /\ c = s.quote
    <3>1. BalanceStep(s, c) = [s EXCEPT !.quote = ""]
      BY <2>1, BalanceMoves, Zenon
    <3> QED BY <1>1, <1>3, <3>1 DEF Pushes
  <2>2. CASE s.quote # "" /\ c # s.quote
    <3>1. BalanceStep(s, c) = s
      BY <2>2, BalanceMoves, Zenon
    <3> QED BY <1>1, <1>3, <3>1 DEF Pushes
  <2>3. CASE s.quote = "" /\ c \in Quote
    <3>1. BalanceStep(s, c) = [s EXCEPT !.quote = c]
      BY <2>3, BalanceMoves, Zenon
    <3> QED BY <1>1, <1>3, <3>1 DEF Pushes
  <2>4. CASE s.quote = "" /\ c \notin Quote /\ c # ""
    <3>1. c \notin Opening \cup Closing
      BY <1>3, <2>4
    <3>2. BalanceStep(s, c) = s
      BY <2>4, <3>1, BalanceMoves, Zenon
    <3> QED BY <1>1, <1>3, <3>2 DEF Pushes
  <2>5. CASE s.quote = "" /\ c \notin Quote /\ c = ""
    <3>0. c = s.quote
      BY <2>5
    <3>1. BalanceStep(s, c) = [s EXCEPT !.quote = ""]
      BY <2>5, <3>0, Zenon DEF BalanceStep
    <3> QED BY <1>1, <1>3, <3>1 DEF Pushes
  <2> QED BY <2>1, <2>2, <2>3, <2>4, <2>5
<1> QED BY <1>2, <1>3

\* The stacks of a balanced text are such.
LEMMA StacksOf ==
  ASSUME NEW C, NEW text \in Seq(C), NEW b, BalancedRun(b, text)
  PROVE  \E st : Stacks(st, Brackets(text), text) /\ \A i \in 0 .. Len(text) : st[i] = b[i].stack
<1> PICK n, st : n = Len(text) /\ st = [i \in 0 .. n |-> b[i].stack]
  OBVIOUS
<1>1. n \in Nat /\ \A i \in 1 .. n : i \in 0 .. n /\ i - 1 \in 0 .. n
  OBVIOUS
<1>2. 0 \in 0 .. n /\ n \in 0 .. n
  BY <1>1
<1>3. st[0] = << >> /\ st[n] = << >>
  <2>1. b[0] = BalanceBase /\ b[n].stack = << >>
    BY Zenon DEF BalancedRun
  <2>2. BalanceBase.stack = << >>
    BY DEF BalanceBase
  <2> QED BY <1>2, <2>1, <2>2
<1>4. \A i \in 0 .. n : st[i] \in Seq(Opening) /\ st[i] = b[i].stack
  BY DEF BalancedRun, BalanceState
<1>5. Brackets(text) \subseteq 1 .. n
  BY DEF Brackets
<1>6. ASSUME NEW i \in 1 .. n
      PROVE  /\ i \in Brackets(text) /\ text[i] \in Opening => st[i] = Append(st[i - 1], text[i])
             /\ i \in Brackets(text) /\ text[i] \notin Opening =>
                  text[i] \in Closing /\ Popped(st[i - 1], text[i]) /\ st[i] = Front(st[i - 1])
             /\ i \notin Brackets(text) => st[i] = st[i - 1]
  <2> PICK s, c : s = b[i - 1] /\ c = text[i]
    OBVIOUS
  <2>1. b[i] = BalanceStep(s, c) /\ s \in BalanceState /\ s.ok /\ BalanceStep(s, c).ok
    <3>1. /\ \A k \in 1 .. n : b[k] = BalanceStep(b[k - 1], text[k])
          /\ \A k \in 0 .. n : b[k] \in BalanceState /\ b[k].ok
      BY Zenon DEF BalancedRun
    <3> QED BY <1>1, <3>1
  <2>2. i \in Brackets(text) <=> c \in Opening \cup Closing /\ s.quote = "" /\ BalanceStep(s, c).quote = ""
    <3>1. Quoted(text)[i - 1] = s.quote /\ Quoted(text)[i] = BalanceStep(s, c).quote
      BY <1>1, <2>1, QuotedRuns
    <3>2. i \in 1 .. Len(text)
      OBVIOUS
    <3> QED BY <3>1, <3>2, Zenon DEF Brackets
  <2>3. st[i - 1] = s.stack /\ st[i] = BalanceStep(s, c).stack
    BY <1>1, <1>4, <2>1
  <2>4. Pushes(s, c)
    BY <2>1, StackMoves
  <2> QED BY <2>2, <2>3, <2>4, Zenon DEF Pushes
<1>7. Stacks(st, Brackets(text), text)
  BY <1>3, <1>4, <1>5, <1>6, Zenon DEF Stacks
<1> QED BY <1>4, <1>7, Zenon

\* The stack's heights, and a closing bracket as the partner of an opening one: the first
\* place behind it where the stack is lower.
Returns(st, i, j) ==
  /\ i < j /\ Len(st[j]) < Len(st[i])
  /\ \A k \in i .. j - 1 : Len(st[i]) <= Len(st[k])

\* What is appended to stays as it is.
LEMMA Appended ==
  ASSUME NEW C, NEW s \in Seq(C), NEW c
  PROVE  Len(Append(s, c)) = Len(s) + 1 /\ \A m \in 1 .. Len(s) : Append(s, c)[m] = s[m]
OBVIOUS

\* What a place does to the height of the stack.
LEMMA StackLengths ==
  ASSUME NEW C, NEW text \in Seq(C), NEW B, NEW st, Stacks(st, B, text), NEW i \in 1 .. Len(text)
  PROVE  /\ st[i] \in Seq(Opening) /\ st[i - 1] \in Seq(Opening)
         /\ i \in B /\ text[i] \in Opening =>
              Len(st[i]) = Len(st[i - 1]) + 1 /\ \A m \in 1 .. Len(st[i - 1]) : st[i][m] = st[i - 1][m]
         /\ i \in B /\ text[i] \notin Opening =>
              /\ Len(st[i]) = Len(st[i - 1]) - 1 /\ \A m \in 1 .. Len(st[i]) : st[i][m] = st[i - 1][m]
              /\ st[i - 1] # << >> /\ Pair[st[i - 1][Len(st[i - 1])]] = text[i]
         /\ i \notin B => st[i] = st[i - 1]
<1>1. i \in 0 .. Len(text) /\ i - 1 \in 0 .. Len(text)
  OBVIOUS
<1> PICK s, t, c : s = st[i - 1] /\ t = st[i] /\ c = text[i]
  OBVIOUS
<1>2. s \in Seq(Opening) /\ t \in Seq(Opening)
  BY <1>1 DEF Stacks
<1>3. /\ i \in B /\ c \in Opening => t = Append(s, c)
      /\ i \in B /\ c \notin Opening => c \in Closing /\ Popped(s, c) /\ t = Front(s)
      /\ i \notin B => t = s
  BY Zenon DEF Stacks
<1>4. ASSUME i \in B, c \in Opening
      PROVE  Len(t) = Len(s) + 1 /\ \A m \in 1 .. Len(s) : t[m] = s[m]
  <2>1. t = Append(s, c)
    BY <1>3, <1>4
  <2>2. Len(Append(s, c)) = Len(s) + 1 /\ \A m \in 1 .. Len(s) : Append(s, c)[m] = s[m]
    BY <1>2, Appended
  <2> QED BY <2>1, <2>2, Zenon
<1>5. ASSUME i \in B, c \notin Opening
      PROVE  /\ Len(t) = Len(s) - 1 /\ \A m \in 1 .. Len(t) : t[m] = s[m]
             /\ s # << >> /\ Pair[s[Len(s)]] = c
  <2>1. s # << >> /\ Pair[s[Len(s)]] = c /\ t = Front(s)
    BY <1>3, <1>5, Zenon DEF Popped, Last
  <2>2. Len(t) = Len(s) - 1 /\ \A m \in 1 .. Len(t) : t[m] = s[m]
    <3>1. Len(s) \in Nat /\ Len(s) # 0
      BY <1>2, <2>1
    <3> QED BY <1>2, <2>1, <3>1 DEF Front
  <2> QED BY <2>1, <2>2
<1> QED BY <1>2, <1>3, <1>4, <1>5

\* Two stacks that agree where they both reach.
Agree(s, t) ==
  \/ \A m \in 1 .. Len(s) : t[m] = s[m]
  \/ \A m \in 1 .. Len(t) : t[m] = s[m]
  \/ t = s

\* What is under the top stays.
LEMMA StackKeeps ==
  ASSUME NEW C, NEW text \in Seq(C), NEW B, NEW st, Stacks(st, B, text), NEW i \in 1 .. Len(text)
  PROVE  Agree(st[i - 1], st[i])
<1>1. CASE i \in B /\ text[i] \in Opening
  BY <1>1, StackLengths DEF Agree
<1>2. CASE i \in B /\ text[i] \notin Opening
  BY <1>2, StackLengths DEF Agree
<1>3. CASE i \notin B
  BY <1>3, StackLengths DEF Agree
<1> QED BY <1>1, <1>2, <1>3

\* Until the stack is back where it was, what was on it stays.
LEMMA StackBelow ==
  ASSUME NEW C, NEW text \in Seq(C), NEW B, NEW st, Stacks(st, B, text),
         NEW i \in 1 .. Len(text), NEW j \in 1 .. Len(text), Returns(st, i, j)
  PROVE  \A k \in i .. j - 1 : \A m \in 1 .. Len(st[i]) : st[k][m] = st[i][m]
<1> PICK n, h : n = (j - 1) - i /\ h = Len(st[i])
  OBVIOUS
<1>1. n \in Nat /\ h \in Nat /\ i + n = j - 1 /\ i \in Nat /\ j \in Nat
  <2>1. i < j /\ st[i] \in Seq(Opening)
    BY StackLengths DEF Returns
  <2> QED BY <2>1
<1> DEFINE S == {d \in 0 .. n : \A m \in 1 .. h : st[i + d][m] = st[i][m]}
<1>2. 0 \in S
  <2>1. i + 0 = i /\ 0 \in 0 .. n
    BY <1>1
  <2> QED BY <2>1
<1>6. ASSUME NEW k \in i + 1 .. j - 1, NEW m \in 1 .. h PROVE st[k][m] = st[k - 1][m]
  <2>1. k \in 1 .. Len(text)
    BY <1>1
  <2>2. st[k] \in Seq(Opening) /\ st[k - 1] \in Seq(Opening)
    BY <2>1, StackLengths
  <2>3. h <= Len(st[k]) /\ h <= Len(st[k - 1])
    <3>1. k \in i .. j - 1 /\ k - 1 \in i .. j - 1
      BY <1>1
    <3> QED BY <3>1 DEF Returns
  <2>4. m \in 1 .. Len(st[k]) /\ m \in 1 .. Len(st[k - 1])
    <3> PICK x, y : x = Len(st[k]) /\ y = Len(st[k - 1])
      OBVIOUS
    <3>1. x \in Nat /\ y \in Nat /\ h <= x /\ h <= y
      BY <2>2, <2>3
    <3>2. m \in 1 .. x /\ m \in 1 .. y
      BY <1>1, <3>1
    <3> QED BY <3>2
  <2> HIDE DEF S
  <2>5. Agree(st[k - 1], st[k])
    BY <2>1, StackKeeps
  <2> QED BY <2>4, <2>5, Zenon DEF Agree
<1>3. ASSUME NEW d \in 1 .. n, d - 1 \in S PROVE d \in S
  <2> PICK k : k = i + d
    OBVIOUS
  <2>1. k - 1 = i + (d - 1) /\ d \in 0 .. n /\ k \in i + 1 .. j - 1
    BY <1>1
  <2>2. \A m \in 1 .. h : st[k - 1][m] = st[i][m]
    BY <1>3, <2>1
  <2> QED BY <1>6, <2>1, <2>2
<1>4. \A d \in 0 .. n : d \in S
  <2> HIDE DEF S
  <2> QED BY <1>1, <1>2, <1>3, Forwards
<1>5. ASSUME NEW k \in i .. j - 1, NEW m \in 1 .. Len(st[i]) PROVE st[k][m] = st[i][m]
  <2>1. k - i \in 0 .. n /\ i + (k - i) = k
    BY <1>1
  <2> QED BY <1>4, <2>1
<1> QED BY <1>5

\* Sequences with the same elements are the same.
LEMMA SameSequence ==
  ASSUME NEW C, NEW s \in Seq(C), NEW t \in Seq(C), Len(s) = Len(t),
         \A m \in 1 .. Len(t) : s[m] = t[m]
  PROVE  s = t
OBVIOUS

\* Back at its height, the stack is what it was.
LEMMA StackAgain ==
  ASSUME NEW C, NEW text \in Seq(C), NEW B, NEW st, Stacks(st, B, text),
         NEW i \in B, text[i] \in Opening, NEW j \in 1 .. Len(text), Returns(st, i, j)
  PROVE  j \in B /\ text[j] \notin Opening /\ text[j] = Pair[text[i]] /\ st[j - 1] = st[i]
<1>1. i \in 1 .. Len(text) /\ Len(text) \in Nat
  BY DEF Stacks
<1>2. i < j /\ Len(st[j]) < Len(st[i]) /\ j - 1 \in i .. j - 1 /\ Len(st[i]) <= Len(st[j - 1])
  BY <1>1 DEF Returns
<1>3. st[i] \in Seq(Opening) /\ st[j] \in Seq(Opening) /\ st[j - 1] \in Seq(Opening)
  BY <1>1, StackLengths DEF Agree
<1> PICK x, y, z : x = Len(st[j]) /\ y = Len(st[j - 1]) /\ z = Len(st[i])
  OBVIOUS
<1>4. x \in Nat /\ y \in Nat /\ z \in Nat /\ x < z /\ z <= y
  BY <1>2, <1>3
<1>5. j \in B /\ text[j] \notin Opening
  <2>1. x # y /\ x # y + 1
    BY <1>4
  <2> QED BY <2>1, StackLengths
<1>6. x = y - 1 /\ Pair[st[j - 1][y]] = text[j]
  BY <1>5, StackLengths
<1>7. y = z
  BY <1>4, <1>6
<1>8. \A m \in 1 .. z : st[j - 1][m] = st[i][m]
  <2>1. j - 1 \in i .. j - 1 /\ i \in 1 .. Len(text)
    BY <1>1, <1>2
  <2>2. \A k \in i .. j - 1 : \A m \in 1 .. Len(st[i]) : st[k][m] = st[i][m]
    BY <2>1, StackBelow
  <2> QED BY <2>1, <2>2, Zenon
<1>9. st[j - 1] = st[i]
  BY <1>3, <1>7, <1>8, SameSequence
<1>10. st[i][z] = text[i]
  <2>1. st[i] = Append(st[i - 1], text[i]) /\ st[i - 1] \in Seq(Opening)
    BY <1>1, StackLengths DEF Stacks
  <2> QED BY <2>1
<1> QED BY <1>5, <1>6, <1>7, <1>9, <1>10

\* The brackets of a kind behind a place, up to another.
Within(text, B, i, k, c) == {m \in B : i < m /\ m <= k /\ text[m] = c}

\* There are finitely many of them.
LEMMA WithinFinite ==
  ASSUME NEW n \in Nat, NEW B \in SUBSET (1 .. n), NEW text, NEW i, NEW k, NEW c
  PROVE  IsFiniteSet(Within(text, B, i, k, c)) /\ Cardinality(Within(text, B, i, k, c)) \in Nat
<1>1. IsFiniteSet(1 .. n)
  BY FS_Interval
<1>2. Within(text, B, i, k, c) \in SUBSET (1 .. n)
  BY DEF Within
<1>3. IsFiniteSet(Within(text, B, i, k, c))
  BY <1>1, <1>2, FS_Subset
<1> QED BY <1>3, FS_CardinalityType

\* One more place.
LEMMA WithinGrows ==
  ASSUME NEW n \in Nat, NEW B \in SUBSET (1 .. n), NEW text, NEW i \in 1 .. n, NEW k \in i + 1 .. n, NEW c
  PROVE  Cardinality(Within(text, B, i, k, c)) =
           IF k \in B /\ text[k] = c THEN Cardinality(Within(text, B, i, k - 1, c)) + 1
           ELSE Cardinality(Within(text, B, i, k - 1, c))
<1> PICK S, T : S = Within(text, B, i, k - 1, c) /\ T = Within(text, B, i, k, c)
  OBVIOUS
<1>1. \A m \in B : m \in Nat /\ (i < m /\ m <= k <=> (i < m /\ m <= k - 1) \/ m = k)
  OBVIOUS
<1>2. k \notin S /\ IsFiniteSet(S)
  <2>1. ~(k <= k - 1)
    OBVIOUS
  <2>2. k \notin S
    BY <2>1 DEF Within
  <2>3. IsFiniteSet(S)
    BY WithinFinite
  <2> QED BY <2>2, <2>3
<1>3. CASE k \in B /\ text[k] = c
  <2>1. T = S \cup {k}
    BY <1>1, <1>3, Zenon DEF Within
  <2>2. Cardinality(S \cup {k}) = Cardinality(S) + 1
    BY <1>2, FS_AddElement
  <2> QED BY <1>3, <2>1, <2>2
<1>4. CASE ~(k \in B /\ text[k] = c)
  <2>1. T = S
    BY <1>1, <1>4, Zenon DEF Within
  <2> QED BY <1>4, <2>1
<1> QED BY <1>3, <1>4

\* What is held and what has been closed make up what was held and what has been opened.
Even(hk, dk, hi, uk) == hk + dk = hi + uk

\* One more on one side and on the other, or one from one kind to the other.
OneOfEach(hk, hp, uk, up, dk, dp) ==
  \/ dk = dp /\ uk = up + 1 /\ hk = hp + 1
  \/ dk = dp /\ uk = up /\ hk = hp
  \/ uk = up /\ dk = dp + 1 /\ hp = hk + 1

\* A step keeps both so.
StaysEven(hk, hp, hi, uk, up, dk, dp) ==
  /\ hk \in Nat /\ hp \in Nat /\ hi \in Nat /\ uk \in Nat /\ up \in Nat /\ dk \in Nat /\ dp \in Nat
  /\ Even(hp, dp, hi, up) /\ OneOfEach(hk, hp, uk, up, dk, dp)

\* It does if one of them changes by one, or none.
LEMMA Sums ==
  ASSUME NEW hk, NEW hp, NEW hi, NEW uk, NEW up, NEW dk, NEW dp, StaysEven(hk, hp, hi, uk, up, dk, dp)
  PROVE  Even(hk, dk, hi, uk)
BY DEF StaysEven, Even, OneOfEach

\* What is on the stack more than at a place was opened since, and is not closed.
LEMMA HeldSince ==
  ASSUME NEW C, NEW text \in Seq(C), NEW B, NEW st, Stacks(st, B, text), NEW x \in Opening,
         NEW i \in 1 .. Len(text), NEW j \in i .. Len(text)
  PROVE  Held(st[j], x) + Cardinality(Within(text, B, i, j, Pair[x])) =
           Held(st[i], x) + Cardinality(Within(text, B, i, j, x))
<1> PICK n, l : n = j - i /\ l = Len(text)
  OBVIOUS
<1>1. n \in Nat /\ i + n = j /\ i \in Nat /\ l \in Nat /\ i \in 1 .. l /\ j \in i .. l
  OBVIOUS
<1>b. B \in SUBSET (1 .. l)
  BY DEF Stacks
<1> DEFINE Up(k) == Cardinality(Within(text, B, i, k, x))
           Down(k) == Cardinality(Within(text, B, i, k, Pair[x]))
           S == {d \in 0 .. n : Held(st[i + d], x) + Down(i + d) = Held(st[i], x) + Up(i + d)}
<1>2. \A k : Up(k) \in Nat /\ Down(k) \in Nat
  BY <1>1, <1>b, WithinFinite
<1>3. \A k \in 1 .. l : st[k] \in Seq(Opening) /\ Held(st[k], x) \in Nat
  <2>1. \A k \in 1 .. l : st[k] \in Seq(Opening)
    BY StackLengths
  <2> QED BY <2>1, HeldFinite
<1>4. Up(i) = 0 /\ Down(i) = 0
  <2>1. Within(text, B, i, i, x) = {} /\ Within(text, B, i, i, Pair[x]) = {}
    <3>1. \A m \in B : ~(i < m /\ m <= i)
      BY <1>1, <1>b
    <3> QED BY <3>1, Zenon DEF Within
  <2> QED BY <2>1, FS_EmptySet
<1>5. ASSUME NEW k \in i + 1 .. j
      PROVE  /\ Up(k) = IF k \in B /\ text[k] = x THEN Up(k - 1) + 1 ELSE Up(k - 1)
             /\ Down(k) = IF k \in B /\ text[k] = Pair[x] THEN Down(k - 1) + 1 ELSE Down(k - 1)
  <2>1. k \in i + 1 .. l
    BY <1>1
  <2> QED BY <1>1, <1>b, <2>1, WithinGrows
<1> HIDE DEF Up, Down
<1>6. 0 \in S
  <2>1. i + 0 = i /\ 0 \in 0 .. n /\ i \in 1 .. l
    BY <1>1
  <2> QED BY <1>3, <1>4, <2>1
<1>7. ASSUME NEW k \in i + 1 .. j, Held(st[k - 1], x) + Down(k - 1) = Held(st[i], x) + Up(k - 1)
      PROVE  Held(st[k], x) + Down(k) = Held(st[i], x) + Up(k)
  <2>1. k \in 1 .. l /\ k - 1 \in 1 .. l
    BY <1>1
  <2>2. /\ Held(st[k], x) \in Nat /\ Held(st[k - 1], x) \in Nat /\ Held(st[i], x) \in Nat
        /\ Up(k) \in Nat /\ Up(k - 1) \in Nat /\ Down(k) \in Nat /\ Down(k - 1) \in Nat
    BY <1>1, <1>2, <1>3, <2>1
  <2>e. Even(Held(st[k - 1], x), Down(k - 1), Held(st[i], x), Up(k - 1))
    BY <1>7 DEF Even
  <2>o. OneOfEach(Held(st[k], x), Held(st[k - 1], x), Up(k), Up(k - 1), Down(k), Down(k - 1))
    <3>3. CASE k \in B /\ text[k] \in Opening
      <4>1. st[k] = Append(st[k - 1], text[k])
        BY <3>3, Zenon DEF Stacks
      <4>2. st[k - 1] \in Seq(Opening) /\ text[k] \in Opening
        BY <1>3, <2>1, <3>3
      <4>3. Held(Append(st[k - 1], text[k]), x) =
              IF text[k] = x THEN Held(st[k - 1], x) + 1 ELSE Held(st[k - 1], x)
        BY <4>2, HeldPushed, Zenon
      <4>4. Pair[x] \in Closing /\ text[k] \notin Closing
        BY <3>3, Kinds3
      <4>5. Down(k) = Down(k - 1)
        BY <1>5, <4>4
      <4>6. Up(k) = IF text[k] = x THEN Up(k - 1) + 1 ELSE Up(k - 1)
        BY <1>5, <3>3
      <4>7. Held(st[k], x) = IF text[k] = x THEN Held(st[k - 1], x) + 1 ELSE Held(st[k - 1], x)
        BY <4>1, <4>3, Zenon
      <4> QED BY <4>5, <4>6, <4>7, Zenon DEF OneOfEach
    <3>4. CASE k \in B /\ text[k] \notin Opening
      <4>1. st[k] = Front(st[k - 1]) /\ Popped(st[k - 1], text[k])
        BY <2>1, <3>4, Zenon DEF Stacks
      <4>2. st[k - 1] # << >> /\ Pair[Last(st[k - 1])] = text[k]
        BY <4>1, Zenon DEF Popped
      <4>3. st[k - 1] \in Seq(Opening)
        BY <1>3, <2>1
      <4>4. Last(st[k - 1]) \in Opening
        BY <4>2, <4>3, FrontAndLast, Zenon
      <4>5. Held(st[k - 1], x) = IF Last(st[k - 1]) = x THEN Held(Front(st[k - 1]), x) + 1 ELSE Held(Front(st[k - 1]), x)
        BY <4>2, <4>3, HeldPopped, Zenon
      <4>6. Held(st[k - 1], x) = IF Last(st[k - 1]) = x THEN Held(st[k], x) + 1 ELSE Held(st[k], x)
        BY <4>1, <4>5, Zenon
      <4>7. Last(st[k - 1]) = x <=> text[k] = Pair[x]
        BY <4>2, <4>4, Kinds3
      <4>8. text[k] # x
        BY <3>4
      <4>9. Up(k) = Up(k - 1)
        BY <1>5, <4>8, Zenon
      <4>10. Down(k) = IF text[k] = Pair[x] THEN Down(k - 1) + 1 ELSE Down(k - 1)
        BY <1>5, <3>4, Zenon
      <4>11. Held(st[k - 1], x) = IF text[k] = Pair[x] THEN Held(st[k], x) + 1 ELSE Held(st[k], x)
        BY <4>6, <4>7, Zenon
      <4> QED BY <4>9, <4>10, <4>11, Zenon DEF OneOfEach
    <3>5. CASE k \notin B
      <4>1. st[k] = st[k - 1]
        BY <2>1, <3>5, Zenon DEF Stacks
      <4>2. Up(k) = Up(k - 1) /\ Down(k) = Down(k - 1)
        BY <1>5, <3>5, Zenon
      <4>3. Held(st[k], x) = Held(st[k - 1], x)
        BY <4>1, Zenon
      <4> QED BY <4>2, <4>3, Zenon DEF OneOfEach
    <3> QED BY <3>3, <3>4, <3>5, Zenon
  <2>3. Even(Held(st[k], x), Down(k), Held(st[i], x), Up(k))
    <3>1. StaysEven(Held(st[k], x), Held(st[k - 1], x), Held(st[i], x), Up(k), Up(k - 1), Down(k), Down(k - 1))
      BY <2>2, <2>e, <2>o, Zenon DEF StaysEven
    <3> QED BY <3>1, Sums, Zenon
  <2> QED BY <2>3 DEF Even
<1>8. ASSUME NEW d \in 1 .. n, d - 1 \in S PROVE d \in S
  <2> PICK k : k = i + d
    OBVIOUS
  <2>1. k \in i + 1 .. j /\ k - 1 = i + (d - 1) /\ d \in 0 .. n
    BY <1>1
  <2> QED BY <1>7, <1>8, <2>1
<1>9. n \in S
  <2>1. n \in 0 .. n
    BY <1>1
  <2> HIDE DEF S
  <2> QED BY <1>1, <1>6, <1>8, <2>1, Forwards
<1> QED BY <1>1, <1>9 DEF Up, Down

\* An open bracket is closed further on by one of its kind, where the stack is back.
LEMMA PartnerBehind ==
  ASSUME NEW C, NEW text \in Seq(C), NEW B, NEW st, Stacks(st, B, text), NEW i \in B, text[i] \in Opening
  PROVE  \E j \in 1 .. Len(text) : Returns(st, i, j)
<1> PICK l, h : l = Len(text) /\ h = Len(st[i])
  OBVIOUS
<1>1. l \in Nat /\ i \in 1 .. l
  BY DEF Stacks
<1>2. \A k \in 1 .. l : Len(st[k]) \in Nat
  BY <1>1, StackLengths
<1>3. h \in Nat /\ h > 0
  <2>1. Len(st[i]) = Len(st[i - 1]) + 1 /\ Len(st[i - 1]) \in Nat
    BY <1>1, StackLengths
  <2> QED BY <2>1
<1>4. Len(st[l]) = 0
  <2>1. st[Len(text)] = << >>
    BY DEF Stacks
  <2> QED BY <2>1
<1> DEFINE S == {j \in i + 1 .. l : Len(st[j]) < h}
<1>5. l \in S
  <2>1. i # l
    BY <1>3, <1>4
  <2>2. l \in i + 1 .. l
    BY <1>1, <2>1
  <2> QED BY <1>3, <1>4, <2>2
<1>6. S \subseteq Nat /\ S # {}
  <2>1. \A j \in i + 1 .. l : j \in Nat
    BY <1>1
  <2>2. S \subseteq Nat
    BY <2>1
  <2> HIDE DEF S
  <2> QED BY <1>5, <2>2
<1>7. PICK j \in S : \A m \in S : j <= m
  <2> HIDE DEF S
  <2> QED BY <1>6, LeastIsIn
<1>8. j \in i + 1 .. l /\ Len(st[j]) < h
  OBVIOUS
<1>9. ASSUME NEW k \in i .. j - 1 PROVE h <= Len(st[k])
  <2>1. CASE k = i
    BY <1>3, <2>1
  <2>2. CASE k # i
    <3>1. k \in i + 1 .. l /\ k \in 1 .. l /\ ~(j <= k)
      BY <1>1, <1>8, <2>2
    <3>2. k \notin S
      <4> HIDE DEF S
      <4> QED BY <1>7, <3>1
    <3>3. ~(Len(st[k]) < h)
      BY <3>1, <3>2
    <3> QED BY <1>2, <1>3, <3>1, <3>3
  <2> QED BY <2>1, <2>2
<1>10. i < j /\ j \in 1 .. l
  BY <1>1, <1>8
<1> HIDE DEF S
<1> QED BY <1>8, <1>9, <1>10 DEF Returns

\* A closing bracket closes one of its kind, since which the stack was no lower.
LEMMA PartnerBefore ==
  ASSUME NEW C, NEW text \in Seq(C), NEW B, NEW st, Stacks(st, B, text), NEW j \in B, text[j] \notin Opening
  PROVE  \E i \in B : text[i] \in Opening /\ Returns(st, i, j)
<1> PICK l, h : l = Len(text) /\ h = Len(st[j - 1])
  OBVIOUS
<1>1. l \in Nat /\ j \in 1 .. l
  BY DEF Stacks
<1>2. \A k \in 0 .. l : Len(st[k]) \in Nat
  <2>1. \A k \in 0 .. l : st[k] \in Seq(Opening)
    BY DEF Stacks
  <2> QED BY <2>1
<1>3. h \in Nat /\ h > 0 /\ Len(st[j]) = h - 1
  <2>1. st[j - 1] \in Seq(Opening) /\ st[j - 1] # << >> /\ Len(st[j]) = Len(st[j - 1]) - 1
    BY <1>1, StackLengths
  <2> QED BY <2>1
<1>4. Len(st[0]) = 0
  <2>1. st[0] = << >>
    BY DEF Stacks
  <2> QED BY <2>1
<1> DEFINE S == {i \in 1 .. j - 1 : Len(st[i - 1]) < h}
<1>5. 1 \in S
  <2>1. j - 1 # 0
    BY <1>3, <1>4
  <2>2. 1 \in 1 .. j - 1 /\ 1 - 1 = 0
    BY <1>1, <2>1
  <2> QED BY <1>3, <1>4, <2>2
<1>6. S \in SUBSET (1 .. j - 1) /\ S # {} /\ j - 1 \in Nat
  <2>1. S \in SUBSET (1 .. j - 1) /\ j - 1 \in Nat
    BY <1>1
  <2> HIDE DEF S
  <2> QED BY <1>5, <2>1
<1>7. PICK i : i = Max(S)
  OBVIOUS
<1>8. i \in S /\ \A m \in S : i >= m
  <2> HIDE DEF S
  <2> QED BY <1>6, <1>7, GreatestIsIn
<1>9. i \in 1 .. j - 1 /\ Len(st[i - 1]) < h
  BY <1>8
<1>10. ASSUME NEW k \in i .. j - 1 PROVE h <= Len(st[k])
  <2>1. CASE k = j - 1
    BY <1>3, <2>1
  <2>2. CASE k # j - 1
    <3>1. k + 1 \in 1 .. j - 1 /\ k \in 0 .. l /\ ~(i >= k + 1) /\ (k + 1) - 1 = k
      BY <1>1, <1>9, <2>2
    <3>2. k + 1 \notin S
      <4> HIDE DEF S
      <4> QED BY <1>8, <3>1
    <3>3. ~(Len(st[k]) < h)
      BY <3>1, <3>2
    <3> QED BY <1>2, <1>3, <3>1, <3>3
  <2> QED BY <2>1, <2>2
<1> HIDE DEF S
<1>11. i \in i .. j - 1 /\ i \in 1 .. l /\ i < j /\ i - 1 \in 0 .. l /\ i \in 0 .. l
  BY <1>1, <1>9
<1> PICK x, y : x = Len(st[i]) /\ y = Len(st[i - 1])
  OBVIOUS
<1>12. x \in Nat /\ y \in Nat /\ h <= x /\ y < h
  BY <1>2, <1>9, <1>10, <1>11
<1>13. i \in B /\ text[i] \in Opening
  <2>1. x # y - 1 /\ x # y
    BY <1>3, <1>12
  <2>2. i \in B /\ text[i] \notin Opening => x = y - 1
    BY <1>11, StackLengths
  <2>3. i \notin B => x = y
    BY <1>11, StackLengths
  <2> QED BY <2>1, <2>2, <2>3
<1>14. x = y + 1
  BY <1>11, <1>13, StackLengths
<1>15. x = h
  BY <1>3, <1>12, <1>14
<1>16. Len(st[j]) < Len(st[i])
  BY <1>3, <1>15
<1>17. \A k \in i .. j - 1 : Len(st[i]) <= Len(st[k])
  BY <1>10, <1>15
<1>18. Returns(st, i, j)
  BY <1>11, <1>16, <1>17 DEF Returns
<1> QED BY <1>13, <1>18

\* Two places of brackets that are a pair.
Partners(text, B, i, j) ==
  /\ text[i] \in Opening /\ text[j] = Pair[text[i]] /\ i < j
  /\ \A c \in Opening :
       Cardinality({k \in B : i < k /\ k < j /\ text[k] = c}) =
       Cardinality({k \in B : i < k /\ k < j /\ text[k] = Pair[c]})

\* A bracket and the place where the stack is back are partners.
LEMMA ReturnsToPartner ==
  ASSUME NEW C, NEW text \in Seq(C), NEW B, NEW st, Stacks(st, B, text),
         NEW i \in B, text[i] \in Opening, NEW j \in 1 .. Len(text), Returns(st, i, j)
  PROVE  j \in B /\ Partners(text, B, i, j)
<1>1. j \in B /\ text[j] = Pair[text[i]] /\ st[j - 1] = st[i]
  BY StackAgain
<1>2. i \in 1 .. Len(text) /\ Len(text) \in Nat /\ B \in SUBSET (1 .. Len(text)) /\ i < j
  BY DEF Stacks, Returns
<1>3. j - 1 \in i .. Len(text)
  BY <1>2
<1>4. ASSUME NEW x PROVE {k \in B : i < k /\ k < j /\ text[k] = x} = Within(text, B, i, j - 1, x)
  <2>1. \A k \in B : k < j <=> k <= j - 1
    BY <1>2
  <2> QED BY <2>1, Zenon DEF Within
<1>5. ASSUME NEW c \in Opening
      PROVE  Cardinality(Within(text, B, i, j - 1, c)) = Cardinality(Within(text, B, i, j - 1, Pair[c]))
  <2>1. Held(st[j - 1], c) + Cardinality(Within(text, B, i, j - 1, Pair[c])) =
          Held(st[i], c) + Cardinality(Within(text, B, i, j - 1, c))
    BY <1>2, <1>3, HeldSince
  <2> PICK a, b, h : /\ a = Cardinality(Within(text, B, i, j - 1, c))
                     /\ b = Cardinality(Within(text, B, i, j - 1, Pair[c])) /\ h = Held(st[i], c)
    OBVIOUS
  <2>2. a \in Nat /\ b \in Nat
    BY <1>2, WithinFinite
  <2>3. h \in Nat
    <3>1. st[i] \in Seq(Opening)
      BY <1>2, StackLengths
    <3> QED BY <3>1, HeldFinite
  <2>4. h + b = h + a
    BY <1>1, <2>1
  <2>5. a = b
    BY <2>2, <2>3, <2>4
  <2> QED BY <2>5
<1>6. Partners(text, B, i, j)
  BY <1>1, <1>2, <1>4, <1>5, Zenon DEF Partners
<1> QED BY <1>1, <1>6

\* Each bracket has a partner.
LEMMA EachHasPartner ==
  ASSUME NEW C, NEW text \in Seq(C), NEW B, NEW st, Stacks(st, B, text), NEW i \in B
  PROVE  \E j \in B : Partners(text, B, i, j) \/ Partners(text, B, j, i)
<1>1. i \in 1 .. Len(text)
  BY DEF Stacks
<1>2. CASE text[i] \in Opening
  <2>1. PICK j \in 1 .. Len(text) : Returns(st, i, j)
    BY <1>2, PartnerBehind
  <2> QED BY <1>2, <2>1, ReturnsToPartner
<1>3. CASE text[i] \notin Opening
  <2>1. PICK j \in B : text[j] \in Opening /\ Returns(st, j, i)
    BY <1>3, PartnerBefore
  <2> QED BY <1>1, <2>1, ReturnsToPartner
<1> QED BY <1>2, <1>3

\* The brackets of a balanced text pair off.
LEMMA Pairs ==
  ASSUME NEW C, NEW text \in Seq(C), Balanced(text)
  PROVE  PairedOff(text)
<1>1. PICK b : BalancedRun(b, text)
  BY BalancedRuns
<1>2. PICK st : Stacks(st, Brackets(text), text)
  BY <1>1, StacksOf
<1>3. \A i \in Brackets(text) : \E j \in Brackets(text) :
        Partners(text, Brackets(text), i, j) \/ Partners(text, Brackets(text), j, i)
  BY <1>2, EachHasPartner
<1>4. Quoted(text)[Len(text)] = ""
  <2>1. Len(text) \in 0 .. Len(text)
    OBVIOUS
  <2>2. b[Len(text)].quote = ""
    BY <1>1, Zenon DEF BalancedRun
  <2>3. Quoted(text)[Len(text)] = b[Len(text)].quote
    BY <1>1, <2>1, QuotedRuns
  <2> QED BY <2>2, <2>3
<1> QED BY <1>3, <1>4, Zenon DEF PairedOff, Partners

\* BalancedPairs, of any text.
LEMMA PairsAre == chars \in Seq(Char) => BalancedPairs
<1> SUFFICES ASSUME chars \in Seq(Char), Balanced(chars) PROVE PairedOff(chars)
  BY DEF BalancedPairs
<1>1. PICK text : text = chars
  OBVIOUS
<1>2. text \in Seq(Char) /\ Balanced(text)
  BY <1>1
<1> QED BY <1>1, <1>2, Pairs

-----------------------------------------------------------------------------
(* The braces of a block. *)

\* The scan for structural braces.
IsOpen(c) == c = "{"
IsShut(c) == c = "}"
BraceBase == [count |-> 0, vars |-> 0, quote |-> "", skip |-> FALSE]
BraceState == [count : Int, vars : Int, quote : Quote \cup {""}, skip : BOOLEAN]
BraceStep(text, s, i) ==
  LET c == text[i] IN
  IF s.skip THEN [s EXCEPT !.skip = FALSE]
  ELSE IF s.quote = "" /\ c \in Quote THEN [s EXCEPT !.quote = c]
  ELSE IF s.quote # ""
  THEN IF c = s.quote /\ Ends(text, i) THEN [s EXCEPT !.quote = ""] ELSE s
  ELSE IF c = "$" /\ i < Len(text) /\ text[i + 1] = "{"
  THEN [s EXCEPT !.vars = @ + 1, !.skip = TRUE]
  ELSE IF c = "}" /\ OfVariable(s.vars) THEN [s EXCEPT !.vars = @ - 1]
  ELSE IF c = "{" /\ s.vars = 0 THEN [s EXCEPT !.count = @ + 1]
  ELSE IF c = "}" THEN [s EXCEPT !.count = @ - 1]
  ELSE s
BraceEnd(text) ==
  FoldLeft(LAMBDA s, i : BraceStep(text, s, i), BraceBase, PlacesOf(text))

\* The scan as StructuralBraces has it.
LEMMA BraceEndIs ==
  ASSUME NEW text
  PROVE  StructuralBraces(text) = BraceEnd(text).count
BY Zenon DEF StructuralBraces, BraceEnd, BraceStep, BraceBase, PlacesOf

\* Its states keep their type.
LEMMA BraceTyped ==
  ASSUME NEW text, NEW s \in BraceState, NEW i \in Nat
  PROVE  BraceStep(text, s, i) \in BraceState
<1>1. s.count \in Int /\ s.vars \in Int /\ s.quote \in Quote \cup {""} /\ s.skip \in BOOLEAN
      /\ s = [count |-> s.count, vars |-> s.vars, quote |-> s.quote, skip |-> s.skip]
  BY DEF BraceState
<1>2. \/ BraceStep(text, s, i) = s
      \/ BraceStep(text, s, i) = [s EXCEPT !.skip = FALSE]
      \/ BraceStep(text, s, i) = [s EXCEPT !.quote = text[i]] /\ text[i] \in Quote
      \/ BraceStep(text, s, i) = [s EXCEPT !.quote = ""]
      \/ BraceStep(text, s, i) = [s EXCEPT !.vars = s.vars + 1, !.skip = TRUE]
      \/ BraceStep(text, s, i) = [s EXCEPT !.vars = s.vars - 1]
      \/ BraceStep(text, s, i) = [s EXCEPT !.count = s.count + 1]
      \/ BraceStep(text, s, i) = [s EXCEPT !.count = s.count - 1]
  BY Zenon DEF BraceStep
<1>3. PICK vars, count : vars = s.vars /\ count = s.count
  OBVIOUS
<1>4. vars - 1 \in Int /\ vars + 1 \in Int /\ count - 1 \in Int /\ count + 1 \in Int
  <2>1. vars \in Int /\ count \in Int
    BY <1>1, <1>3
  <2> QED BY <2>1
<1>5. PICK lv, mv, lc, mc : lv = vars - 1 /\ mv = vars + 1 /\ lc = count - 1 /\ mc = count + 1
  OBVIOUS
<1>6. \/ BraceStep(text, s, i) = s
      \/ BraceStep(text, s, i) = [s EXCEPT !.skip = FALSE]
      \/ BraceStep(text, s, i) = [s EXCEPT !.quote = text[i]] /\ text[i] \in Quote
      \/ BraceStep(text, s, i) = [s EXCEPT !.quote = ""]
      \/ BraceStep(text, s, i) = [s EXCEPT !.vars = mv, !.skip = TRUE]
      \/ BraceStep(text, s, i) = [s EXCEPT !.vars = lv]
      \/ BraceStep(text, s, i) = [s EXCEPT !.count = mc]
      \/ BraceStep(text, s, i) = [s EXCEPT !.count = lc]
  BY <1>2, <1>3, <1>5, Zenon
<1>7. lv \in Int /\ mv \in Int /\ lc \in Int /\ mc \in Int
  BY <1>4, <1>5, Zenon
<1> QED BY <1>1, <1>6, <1>7 DEF BraceState

\* The function that the fold is the choice of.
IsBrace(f, text) ==
  f = [s \in SUBSET DOMAIN PlacesOf(text) |->
         IF s = {} THEN BraceBase ELSE BraceStep(text, f[s \ {Max(s)}], PlacesOf(text)[Max(s)])]

\* The fold is its value at all the places.
LEMMA BraceIs ==
  ASSUME NEW text, \E f : IsBrace(f, text)
  PROVE  \E f : IsBrace(f, text) /\ BraceEnd(text) = f[DOMAIN PlacesOf(text)]
<1> DEFINE end == CHOOSE f : IsBrace(f, text)
<1>1. IsBrace(end, text)
  BY Zenon
<1>2. BraceEnd(text) = end[DOMAIN PlacesOf(text)]
  BY Zenon DEF BraceEnd, BraceStep, BraceBase, FoldLeft, MapThenFoldSet, IsBrace
<1> QED BY <1>1, <1>2

\* The states of the scan, place by place.
LEMMA BraceRuns ==
  ASSUME NEW C, NEW text \in Seq(C)
  PROVE  \E r : /\ r[0] = BraceBase /\ r[Len(text)] = BraceEnd(text)
                /\ \A i \in 1 .. Len(text) : r[i] = BraceStep(text, r[i - 1], i)
                /\ \A i \in 0 .. Len(text) : r[i] \in BraceState
<1> DEFINE n == Len(text)
<1>1. n \in Nat /\ DOMAIN PlacesOf(text) = 1 .. n /\ \A i \in 1 .. n : PlacesOf(text)[i] = i
  BY DEF PlacesOf
<1>2. BraceBase \in BraceState
  BY DEF BraceBase, BraceState
<1>3. PICK F : F = [i \in 1 .. n |-> [v \in BraceState |-> BraceStep(text, v, i)]]
  OBVIOUS
<1>4. F \in [1 .. n -> [BraceState -> BraceState]]
  BY <1>3, BraceTyped
<1>5. PICK f : StepsOn(f, n, BraceState, BraceBase, F)
  BY <1>1, <1>2, <1>4, FoldExists
<1>6. IsBrace(f, text)
  <2>1. \A s \in SUBSET (1 .. n) : s # {} => Max(s) \in 1 .. n /\ s \ {Max(s)} \in SUBSET (1 .. n)
    BY <1>1, GreatestIsIn
  <2>2. \A s \in SUBSET (1 .. n) : s # {} =>
          F[Max(s)][f[s \ {Max(s)}]] = BraceStep(text, f[s \ {Max(s)}], Max(s))
    BY <1>3, <1>5, <2>1 DEF StepsOn
  <2>3. /\ f = [s \in SUBSET (1 .. n) |-> f[s]]
        /\ \A s \in SUBSET (1 .. n) : f[s] = IF s = {} THEN BraceBase ELSE F[Max(s)][f[s \ {Max(s)}]]
    BY <1>5 DEF StepsOn
  <2> HIDE DEF n
  <2>4. \A s \in SUBSET (1 .. n) : f[s] = IF s = {} THEN BraceBase ELSE BraceStep(text, f[s \ {Max(s)}], PlacesOf(text)[Max(s)])
    BY <1>1, <2>1, <2>2, <2>3
  <2> QED BY <1>1, <2>3, <2>4 DEF IsBrace
<1>7. PICK h : IsBrace(h, text) /\ BraceEnd(text) = h[1 .. n]
  BY <1>1, <1>6, BraceIs
<1>8. Recurs(h, n, BraceState, BraceBase, F)
  <2>1. \A s \in SUBSET (1 .. n) : s # {} => Max(s) \in 1 .. n
    BY <1>1, GreatestIsIn
  <2>2. \A s \in SUBSET (1 .. n) :
          h[s] = IF s = {} THEN BraceBase ELSE BraceStep(text, h[s \ {Max(s)}], Max(s))
    BY <1>1, <1>7, GreatestIsIn DEF IsBrace
  <2> QED BY <1>3, <2>1, <2>2 DEF Recurs
<1>9. PICK r : RunsTo(r, n, BraceState, BraceBase, F, h[1 .. n])
  <2> HIDE DEF n
  <2>1. n \in Nat
    BY <1>1
  <2> QED BY <1>2, <1>4, <1>8, <2>1, RunOf
<1>10. \A i \in 1 .. n : r[i] = BraceStep(text, r[i - 1], i)
  <2> HIDE DEF n
  <2>1. \A i \in 1 .. n : i - 1 \in 0 .. n
    BY <1>1
  <2>2. \A i \in 1 .. n : r[i - 1] \in BraceState
    BY <1>9, <2>1 DEF RunsTo
  <2> QED BY <1>3, <1>9, <2>2 DEF RunsTo
<1> QED BY <1>7, <1>9, <1>10 DEF RunsTo

\* A brace is nothing else.
LEMMA Braces ==
  /\ "{" \in Opening /\ "}" \in Closing /\ "}" \notin Opening /\ "{" \notin Closing
  /\ "{" \notin Quote /\ "}" \notin Quote /\ "$" \notin Quote /\ "$" \notin Opening \cup Closing
  /\ "{" # "}" /\ "$" # "{" /\ "$" # "}" /\ "" \notin Quote /\ "{" # "" /\ "}" # "" /\ "$" # ""
  /\ \A b \in Opening : Pair[b] = "}" <=> b = "{"
BY DEF Opening, Closing, Quote, Pair

\* How the open brackets of a kind change with a character of a balanced text.
KindHeld(h, g, quote, c, b) ==
  /\ quote = "" /\ c = b => g = h + 1
  /\ quote = "" /\ c = Pair[b] => h = g + 1
  /\ ~(quote = "" /\ c = b) /\ ~(quote = "" /\ c = Pair[b]) => g = h

\* What a step does to the brackets of one kind on the stack.
LEMMA StackHolds ==
  ASSUME NEW p \in Seq(Opening), NEW q \in Seq(Opening), NEW quote, NEW c, NEW b \in Opening,
         IF c \in Opening \cup Closing /\ quote = ""
         THEN /\ c \in Opening => q = Append(p, c)
              /\ c \notin Opening => c \in Closing /\ Popped(p, c) /\ q = Front(p)
         ELSE q = p
  PROVE  KindHeld(Held(p, b), Held(q, b), quote, c, b)
<1>1. Pair[b] \in Closing /\ Pair[b] \notin Opening /\ b \notin Closing /\ b # Pair[b]
  BY Kinds3
<1>5. CASE c \in Opening /\ quote = ""
  <2>1. q = Append(p, c)
    BY <1>5
  <2>2. Held(Append(p, c), b) = IF c = b THEN Held(p, b) + 1 ELSE Held(p, b)
    BY <1>5, HeldPushed
  <2>4. c # Pair[b]
    BY <1>1, <1>5
  <2> QED BY <1>5, <2>1, <2>2, <2>4, Zenon DEF KindHeld
<1>6. CASE c \in Closing /\ quote = ""
  <2>1. c \notin Opening
    BY <1>6, Kinds3
  <2>2. Popped(p, c) /\ q = Front(p)
    BY <1>6, <2>1
  <2>3. p # << >> /\ Pair[Last(p)] = c
    BY <2>2, Zenon DEF Popped
  <2>4. Held(p, b) = IF Last(p) = b THEN Held(Front(p), b) + 1 ELSE Held(Front(p), b)
    BY <2>3, HeldPopped
  <2>5. Last(p) \in Opening
    BY <2>3, FrontAndLast
  <2>6. Last(p) = b <=> c = Pair[b]
    BY <2>3, <2>5, Kinds3
  <2>8. c # b
    BY <1>1, <1>6
  <2> QED BY <1>6, <2>2, <2>4, <2>6, <2>8, Zenon DEF KindHeld
<1>7. CASE ~(c \in Opening \cup Closing /\ quote = "")
  <2>1. q = p
    BY <1>7, Zenon
  <2>2. ~(quote = "" /\ c = b) /\ ~(quote = "" /\ c = Pair[b])
    BY <1>1, <1>7
  <2> QED BY <2>1, <2>2, Zenon DEF KindHeld
<1> QED BY <1>5, <1>6, <1>7

\* The same, of a run.
LEMMA HeldMoves ==
  ASSUME NEW s \in BalanceState, s.ok, NEW c, BalanceStep(s, c).ok, NEW b \in Opening
  PROVE  /\ KindHeld(Held(s.stack, b), Held(BalanceStep(s, c).stack, b), s.quote, c, b)
         /\ Held(s.stack, b) \in Nat /\ Held(BalanceStep(s, c).stack, b) \in Nat
<1>1. s.stack \in Seq(Opening) /\ BalanceStep(s, c).stack \in Seq(Opening)
  BY BalanceTyped DEF BalanceState
<1>2. Pushes(s, c)
  BY StackMoves
<1>3. Held(s.stack, b) \in Nat /\ Held(BalanceStep(s, c).stack, b) \in Nat
  BY <1>1, HeldFinite
<1> PICK p, q, quote : p = s.stack /\ q = BalanceStep(s, c).stack /\ quote = s.quote
  OBVIOUS
<1>4. IF c \in Opening \cup Closing /\ quote = ""
      THEN /\ c \in Opening => q = Append(p, c)
           /\ c \notin Opening => c \in Closing /\ Popped(p, c) /\ q = Front(p)
      ELSE q = p
  BY <1>2 DEF Pushes
<1>5. p \in Seq(Opening) /\ q \in Seq(Opening)
  BY <1>1
<1>6. KindHeld(Held(p, b), Held(q, b), quote, c, b)
  BY <1>4, <1>5, StackHolds
<1> QED BY <1>3, <1>6

\* What a character does to the scan for braces, where no bare brace opens.
LEMMA BraceMoves ==
  ASSUME NEW text, NEW s, NEW i
  PROVE  /\ s.skip => BraceStep(text, s, i) = [s EXCEPT !.skip = FALSE]
         /\ ~s.skip /\ s.quote = "" /\ text[i] \in Quote => BraceStep(text, s, i) = [s EXCEPT !.quote = text[i]]
         /\ ~s.skip /\ s.quote # "" /\ text[i] = s.quote /\ Ends(text, i) =>
              BraceStep(text, s, i) = [s EXCEPT !.quote = ""]
         /\ ~s.skip /\ s.quote # "" /\ text[i] # s.quote => BraceStep(text, s, i) = s
         /\ ~s.skip /\ s.quote = "" /\ text[i] = "$" /\ i < Len(text) /\ text[i + 1] = "{" =>
              BraceStep(text, s, i) = [s EXCEPT !.vars = s.vars + 1, !.skip = TRUE]
         /\ ~s.skip /\ s.quote = "" /\ text[i] = "}" /\ s.vars > 0 =>
              BraceStep(text, s, i) = [s EXCEPT !.vars = s.vars - 1]
         /\ ~s.skip /\ s.quote = "" /\ text[i] \notin Quote /\ text[i] # "}" /\ text[i] # "{"
              /\ ~(text[i] = "$" /\ i < Len(text) /\ text[i + 1] = "{") => BraceStep(text, s, i) = s
<1> PICK c : c = text[i]
  OBVIOUS
<1>1. /\ s.skip => BraceStep(text, s, i) = [s EXCEPT !.skip = FALSE]
      /\ ~s.skip /\ s.quote = "" /\ c \in Quote => BraceStep(text, s, i) = [s EXCEPT !.quote = c]
      /\ ~s.skip /\ s.quote # "" /\ c = s.quote /\ Ends(text, i) =>
           BraceStep(text, s, i) = [s EXCEPT !.quote = ""]
      /\ ~s.skip /\ s.quote # "" /\ c # s.quote => BraceStep(text, s, i) = s
  BY Zenon DEF BraceStep
<1>2. ASSUME ~s.skip, s.quote = "", text[i] \notin Quote
      PROVE  BraceStep(text, s, i) =
                IF text[i] = "$" /\ i < Len(text) /\ text[i + 1] = "{"
                THEN [s EXCEPT !.vars = s.vars + 1, !.skip = TRUE]
                ELSE IF text[i] = "}" /\ s.vars > 0 THEN [s EXCEPT !.vars = s.vars - 1]
                ELSE IF text[i] = "{" /\ s.vars = 0 THEN [s EXCEPT !.count = s.count + 1]
                ELSE IF text[i] = "}" THEN [s EXCEPT !.count = s.count - 1]
                ELSE s
  BY <1>2, Zenon DEF BraceStep, OfVariable
<1>3. ASSUME ~s.skip, s.quote = "", text[i] = "$", i < Len(text), text[i + 1] = "{"
      PROVE  BraceStep(text, s, i) = [s EXCEPT !.vars = s.vars + 1, !.skip = TRUE]
  <2>1. text[i] \notin Quote
    BY <1>3, Braces
  <2> QED BY <1>2, <1>3, <2>1, Zenon
<1>4. ASSUME ~s.skip, s.quote = "", text[i] = "}", s.vars > 0
      PROVE  BraceStep(text, s, i) = [s EXCEPT !.vars = s.vars - 1]
  <2>1. text[i] \notin Quote /\ text[i] # "$"
    BY <1>4, Braces
  <2> QED BY <1>2, <1>4, <2>1, Zenon
<1>5. ASSUME ~s.skip, s.quote = "", text[i] \notin Quote, text[i] # "}", text[i] # "{",
             ~(text[i] = "$" /\ i < Len(text) /\ text[i + 1] = "{")
      PROVE  BraceStep(text, s, i) = s
  BY <1>2, <1>5, Zenon
<1> QED BY <1>1, <1>3, <1>4, <1>5, Zenon

\* Every brace that opens is a variable's.
OfVariables(text) == \A i \in 1 .. Len(text) : text[i] = "{" => i > 1 /\ text[i - 1] = "$"

\* An opening brace comes next.
BraceNext(text, i) == i < Len(text) /\ text[i + 1] = "{"

\* Nothing is counted; the variables are the braces on the other scan's stack.
Neutral(text, i, s, quote, held) ==
  /\ s \in BraceState /\ s.quote = quote /\ s.count = 0
  /\ s.skip => quote = "" /\ BraceNext(text, i) /\ s.vars = held + 1
  /\ ~s.skip => s.vars = held /\ ~(quote = "" /\ BraceNext(text, i))

\* A quote, or none.
OfString(quote) == quote \in Quote \cup {""}
\* No string is open before the first character.
AtFirst(i, quote) == i = 1 => quote = ""
\* What a step does to the braces on the stack.
BraceHeld(h, g, quote, c) == KindHeld(h, g, quote, c, "{")

\* A step of both scans keeps the count at zero and the variables as many as the braces on
\* the stack.
LEMMA StaysNeutral ==
  ASSUME NEW C, NEW text \in Seq(C), OfVariables(text), Plain(text), NEW i \in 1 .. Len(text),
         NEW s, NEW quote, OfString(quote), AtFirst(i, quote), NEW h \in Nat, NEW g \in Nat,
         Neutral(text, i - 1, s, quote, h), BraceHeld(h, g, quote, text[i])
  PROVE  Neutral(text, i, BraceStep(text, s, i), QuoteStep(quote, text[i]), g)
<1>1. s = [count |-> s.count, vars |-> s.vars, quote |-> s.quote, skip |-> s.skip]
      /\ s.quote = quote /\ s.count = 0 /\ s.skip \in BOOLEAN
  BY DEF Neutral, BraceState
<1>2. BraceStep(text, s, i) \in BraceState
  <2>1. s \in BraceState
    BY Zenon DEF Neutral
  <2>2. i \in Nat
    OBVIOUS
  <2> QED BY <2>1, <2>2, BraceTyped
<1>3. i - 1 < Len(text) /\ (i - 1) + 1 = i
  OBVIOUS
<1>4. BraceNext(text, i) => text[i] = "$" /\ text[i] # "{"
  <2>1. ASSUME BraceNext(text, i) PROVE text[i] = "$"
    <3>1. i < Len(text) /\ text[i + 1] = "{"
      BY <2>1, Zenon DEF BraceNext
    <3>a. i < Len(text)
      BY <3>1
    <3>2. i + 1 \in 1 .. Len(text) /\ (i + 1) - 1 = i
      BY <3>a
    <3> QED BY <3>1, <3>2, Zenon DEF OfVariables
  <2> QED BY <2>1, Braces
<1>5. s.skip => quote = "" /\ text[i] = "{" /\ s.vars = h + 1
  BY <1>3 DEF Neutral, BraceNext
<1>6. ~s.skip => s.vars = h /\ ~(quote = "" /\ text[i] = "{")
  BY <1>3 DEF Neutral, BraceNext
<1>m. /\ s.skip => BraceStep(text, s, i) = [s EXCEPT !.skip = FALSE]
      /\ ~s.skip /\ s.quote = "" /\ text[i] \in Quote => BraceStep(text, s, i) = [s EXCEPT !.quote = text[i]]
      /\ ~s.skip /\ s.quote # "" /\ text[i] = s.quote /\ Ends(text, i) =>
           BraceStep(text, s, i) = [s EXCEPT !.quote = ""]
      /\ ~s.skip /\ s.quote # "" /\ text[i] # s.quote => BraceStep(text, s, i) = s
      /\ ~s.skip /\ s.quote = "" /\ text[i] = "$" /\ i < Len(text) /\ text[i + 1] = "{" =>
           BraceStep(text, s, i) = [s EXCEPT !.vars = s.vars + 1, !.skip = TRUE]
      /\ ~s.skip /\ s.quote = "" /\ text[i] = "}" /\ s.vars > 0 =>
           BraceStep(text, s, i) = [s EXCEPT !.vars = s.vars - 1]
      /\ ~s.skip /\ s.quote = "" /\ text[i] \notin Quote /\ text[i] # "}" /\ text[i] # "{"
           /\ ~(text[i] = "$" /\ i < Len(text) /\ text[i + 1] = "{") => BraceStep(text, s, i) = s
  BY BraceMoves, Zenon
<1>7. CASE s.skip
  <2>1. BraceStep(text, s, i) = [s EXCEPT !.skip = FALSE]
    BY <1>7, <1>m, Zenon
  <2>2. quote = "" /\ text[i] = "{" /\ text[i] \notin Quote
    BY <1>5, <1>7, Braces
  <2>3. g = h + 1
    BY <2>2, Zenon DEF KindHeld, BraceHeld
  <2>4. QuoteStep(quote, text[i]) = ""
    BY <2>2 DEF QuoteStep
  <2>5. s.vars = g
    BY <1>5, <1>7, <2>3, Zenon
  <2>6. ~BraceNext(text, i)
    BY <1>4, <2>2, Zenon
  <2> QED BY <1>1, <1>2, <2>1, <2>2, <2>4, <2>5, <2>6 DEF Neutral
<1>8. CASE ~s.skip /\ quote = "" /\ text[i] \in Quote
  <2>1. BraceStep(text, s, i) = [s EXCEPT !.quote = text[i]]
    BY <1>1, <1>8, <1>m, Zenon
  <2>2. text[i] # "{" /\ text[i] # Pair["{"] /\ text[i] # "" /\ text[i] # "$"
    BY <1>8, Braces, Kinds3
  <2>3. g = h
    BY <2>2, Zenon DEF KindHeld, BraceHeld
  <2>4. QuoteStep(quote, text[i]) = text[i]
    BY <1>8 DEF QuoteStep
  <2>5. s.vars = g
    BY <1>6, <1>8, <2>3, Zenon
  <2> QED BY <1>1, <1>2, <1>8, <2>1, <2>2, <2>4, <2>5 DEF Neutral
<1>9. CASE ~s.skip /\ quote # ""
  <2>1. i # 1 /\ Ends(text, i)
    <3>1. i > 1 /\ i - 1 \in 1 .. Len(text)
      <4>1. i # 1
        BY <1>9 DEF AtFirst
      <4> QED BY <4>1
    <3> QED BY <3>1 DEF Ends, Plain
  <2>2. g = h
    BY <1>9, Zenon DEF KindHeld, BraceHeld
  <2>3. s.vars = g
    BY <1>6, <1>9, <2>2, Zenon
  <2>4. CASE text[i] = quote
    <3>1. BraceStep(text, s, i) = [s EXCEPT !.quote = ""]
      BY <1>1, <1>9, <2>1, <2>4, <1>m, Zenon
    <3>2. QuoteStep(quote, text[i]) = ""
      BY <1>9, <2>4 DEF QuoteStep
    <3>3. ~BraceNext(text, i)
      <4>1. text[i] \in Quote
        BY <1>9, <2>4 DEF OfString
      <4> QED BY <1>4, <4>1, Braces
    <3> QED BY <1>1, <1>2, <1>9, <2>3, <3>1, <3>2, <3>3 DEF Neutral
  <2>5. CASE text[i] # quote
    <3>1. BraceStep(text, s, i) = s
      BY <1>1, <1>9, <2>5, <1>m, Zenon
    <3>2. QuoteStep(quote, text[i]) = quote
      BY <1>9, <2>5 DEF QuoteStep
    <3> QED BY <1>1, <1>2, <1>9, <2>3, <3>1, <3>2 DEF Neutral
  <2> QED BY <2>4, <2>5
<1>10. CASE ~s.skip /\ quote = "" /\ text[i] \notin Quote
  <2>1. QuoteStep(quote, text[i]) = "" /\ text[i] # "{"
    BY <1>6, <1>10 DEF QuoteStep
  <2>2. CASE BraceNext(text, i)
    <3>1. text[i] = "$" /\ i < Len(text) /\ text[i + 1] = "{"
      BY <1>4, <2>2 DEF BraceNext
    <3>2. BraceStep(text, s, i) = [s EXCEPT !.vars = s.vars + 1, !.skip = TRUE]
      BY <1>1, <1>10, <3>1, <1>m, Zenon
    <3>3. text[i] # Pair["{"]
      BY <3>1, Braces
    <3>4. g = h
      BY <2>1, <3>3, Zenon DEF KindHeld, BraceHeld
    <3>5. s.vars = g
      BY <1>6, <1>10, <3>4, Zenon
    <3>6. BraceStep(text, s, i) = [s EXCEPT !.vars = g + 1, !.skip = TRUE]
      BY <3>2, <3>5, Zenon
    <3> QED BY <1>1, <1>2, <1>10, <2>1, <2>2, <3>6 DEF Neutral
  <2>3. CASE ~BraceNext(text, i) /\ text[i] = "}"
    <3>1. text[i] = Pair["{"]
      BY <2>3, Braces
    <3>2. h = g + 1
      BY <1>10, <3>1, Zenon DEF KindHeld, BraceHeld
    <3>3. s.vars = h
      BY <1>6, <1>10
    <3>4. h > 0 /\ h - 1 = g
      BY <3>2
    <3>q. s.quote = ""
      BY <1>1, <1>10, Zenon
    <3>5. s.vars > 0 /\ s.vars - 1 = g
      BY <3>3, <3>4, Zenon
    <3>6. BraceStep(text, s, i) = [s EXCEPT !.vars = s.vars - 1]
      BY <1>10, <2>3, <3>5, <3>q, <1>m, Zenon
    <3>7. BraceStep(text, s, i) = [s EXCEPT !.vars = g]
      BY <3>5, <3>6, Zenon
    <3> QED BY <1>1, <1>2, <1>10, <2>1, <2>3, <3>7 DEF Neutral
  <2>4. CASE ~BraceNext(text, i) /\ text[i] # "}"
    <3>1. text[i] # Pair["{"]
      BY <2>4, Braces
    <3>2. g = h
      BY <2>1, <3>1, Zenon DEF KindHeld, BraceHeld
    <3>3. s.vars = g
      BY <1>6, <1>10, <3>2, Zenon
    <3>4. ~(text[i] = "$" /\ i < Len(text) /\ text[i + 1] = "{")
      BY <2>4 DEF BraceNext
    <3>q. s.quote = ""
      BY <1>1, <1>10, Zenon
    <3>5. BraceStep(text, s, i) = s
      BY <1>10, <2>1, <2>4, <3>4, <3>q, <1>m, Zenon
    <3> QED BY <1>1, <1>2, <1>10, <2>1, <2>4, <3>3, <3>5 DEF Neutral
  <2> QED BY <2>2, <2>3, <2>4
<1> QED BY <1>7, <1>8, <1>9, <1>10

\* The braces on the stack.
OpenBraces(s) == Held(s.stack, "{")

\* The braces of a balanced text in which each is a variable's are not counted.
LEMMA NeutralBraces ==
  ASSUME NEW C, NEW text \in Seq(C), Balanced(text), Plain(text), OfVariables(text)
  PROVE  StructuralBraces(text) = 0
<1>1. PICK b : BalancedRun(b, text)
  BY BalancedRuns
<1>2. PICK r : /\ r[0] = BraceBase /\ r[Len(text)] = BraceEnd(text)
               /\ \A i \in 1 .. Len(text) : r[i] = BraceStep(text, r[i - 1], i)
  BY BraceRuns
<1> PICK n : n = Len(text)
  OBVIOUS
<1>3. n \in Nat /\ \A i \in 1 .. n : i \in 0 .. n /\ i - 1 \in 0 .. n
  OBVIOUS
<1>4. /\ b[0] = BalanceBase
      /\ \A i \in 1 .. n : b[i] = BalanceStep(b[i - 1], text[i])
      /\ \A i \in 0 .. n : b[i] \in BalanceState /\ b[i].ok
  BY <1>1, Zenon DEF BalancedRun
<1> PICK q, h : /\ q = [i \in 0 .. n |-> b[i].quote] /\ h = [i \in 0 .. n |-> OpenBraces(b[i])]
  OBVIOUS
<1>5. \A i \in 0 .. n : OfString(q[i]) /\ h[i] \in Nat
  <2> SUFFICES ASSUME NEW i \in 0 .. n PROVE OfString(q[i]) /\ h[i] \in Nat
    OBVIOUS
  <2>1. b[i].stack \in Seq(Opening) /\ OfString(b[i].quote)
    BY <1>4 DEF BalanceState, OfString
  <2>2. OpenBraces(b[i]) \in Nat
    BY <2>1, HeldFinite DEF OpenBraces
  <2> QED BY <2>1, <2>2
<1>z. 0 \in 0 .. n /\ n \in 0 .. n
  BY <1>3
<1>6. q[0] = "" /\ h[0] = 0
  <2>1. BalanceBase.quote = "" /\ BalanceBase.stack = << >> /\ << >> \in Seq(Opening)
    BY DEF BalanceBase
  <2>2. Held(<< >>, "{") = 0
    BY <2>1, HeldNone, Braces
  <2>3. OpenBraces(BalanceBase) = 0
    BY <2>1, <2>2, Zenon DEF OpenBraces
  <2>4. q[0] = b[0].quote /\ h[0] = OpenBraces(b[0])
    BY <1>z
  <2> QED BY <1>4, <2>1, <2>3, <2>4, Zenon
<1>7. ASSUME NEW i \in 1 .. n
      PROVE  q[i] = QuoteStep(q[i - 1], text[i]) /\ BraceHeld(h[i - 1], h[i], q[i - 1], text[i])
  <2> PICK s, t : s = b[i - 1] /\ t = b[i]
    OBVIOUS
  <2>1. s \in BalanceState /\ s.ok /\ t = BalanceStep(s, text[i]) /\ t.ok
    BY <1>3, <1>4
  <2>2. BalanceStep(s, text[i]).quote = QuoteStep(s.quote, text[i])
    BY <2>1, BalanceQuote
  <2>3. BraceHeld(OpenBraces(s), OpenBraces(BalanceStep(s, text[i])), s.quote, text[i])
    <3>1. KindHeld(Held(s.stack, "{"), Held(BalanceStep(s, text[i]).stack, "{"), s.quote, text[i], "{")
      BY <2>1, HeldMoves, Braces
    <3> QED BY <3>1, Zenon DEF BraceHeld, OpenBraces
  <2>4. h[i - 1] = OpenBraces(s) /\ h[i] = OpenBraces(t) /\ q[i - 1] = s.quote /\ q[i] = t.quote
    BY <1>3
  <2> QED BY <2>1, <2>2, <2>3, <2>4
<1> DEFINE S == {i \in 0 .. n : Neutral(text, i, r[i], q[i], h[i])}
<1>8. 0 \in S
  <2>1. ~BraceNext(text, 0)
    <3>1. ASSUME BraceNext(text, 0) PROVE FALSE
      <4>1. 0 < Len(text) /\ text[0 + 1] = "{"
        BY <3>1, Zenon DEF BraceNext
      <4>a. 0 < Len(text)
        BY <4>1
      <4>2. 0 + 1 \in 1 .. Len(text) /\ ~(0 + 1 > 1)
        BY <4>a
      <4> QED BY <4>1, <4>2, Zenon DEF OfVariables
    <3> QED BY <3>1
  <2>2. /\ BraceBase.count = 0 /\ BraceBase.vars = 0
        /\ BraceBase.quote = "" /\ BraceBase.skip = FALSE
    BY DEF BraceBase
  <2>3. BraceBase \in BraceState
    BY DEF BraceBase, BraceState
  <2>4. Neutral(text, 0, BraceBase, "", 0)
    BY <2>1, <2>2, <2>3 DEF Neutral
  <2>5. Neutral(text, 0, r[0], q[0], h[0])
    BY <1>2, <1>6, <2>4, Zenon
  <2> QED BY <1>z, <2>5
<1>9. ASSUME NEW i \in 1 .. n, i - 1 \in S PROVE i \in S
  <2>1. Neutral(text, i - 1, r[i - 1], q[i - 1], h[i - 1])
    BY <1>9
  <2>2. OfString(q[i - 1]) /\ h[i - 1] \in Nat /\ h[i] \in Nat
        /\ i \in 1 .. Len(text) /\ r[i] = BraceStep(text, r[i - 1], i)
    BY <1>2, <1>3, <1>5
  <2>a. AtFirst(i, q[i - 1])
    <3>1. i = 1 => i - 1 = 0
      OBVIOUS
    <3> QED BY <1>6, <3>1, Zenon DEF AtFirst
  <2> HIDE DEF S
  <2>b. q[i] = QuoteStep(q[i - 1], text[i]) /\ BraceHeld(h[i - 1], h[i], q[i - 1], text[i])
    BY <1>7
  <2>3. Neutral(text, i, BraceStep(text, r[i - 1], i), QuoteStep(q[i - 1], text[i]), h[i])
    <3> PICK s, quote, x, y : s = r[i - 1] /\ quote = q[i - 1] /\ x = h[i - 1] /\ y = h[i]
      OBVIOUS
    <3> QED BY <2>1, <2>2, <2>a, <2>b, StaysNeutral
  <2>4. Neutral(text, i, r[i], q[i], h[i])
    BY <2>2, <2>3, <2>b
  <2> USE DEF S
  <2> QED BY <1>3, <2>4
<1>10. n \in S
  <2> HIDE DEF S
  <2> QED BY <1>3, <1>8, <1>9, <1>z, Forwards
<1>11. r[n].count = 0
  BY <1>10 DEF Neutral
<1> QED BY <1>2, <1>11, BraceEndIs

\* BracesNeutral, of any text.
LEMMA BracesAreNeutral == chars \in Seq(Char) => BracesNeutral
<1> SUFFICES ASSUME chars \in Seq(Char), Balanced(chars), Plain(chars),
                    \A i \in 1 .. Len(chars) : chars[i] = "{" => i > 1 /\ chars[i - 1] = "$"
             PROVE  StructuralBraces(chars) = 0
  BY DEF BracesNeutral
<1>1. PICK text : text = chars
  OBVIOUS
<1>2. text \in Seq(Char) /\ Balanced(text) /\ Plain(text) /\ OfVariables(text)
  BY <1>1 DEF OfVariables
<1> QED BY <1>1, <1>2, NeutralBraces

\* TextRead, of any text.
LEMMA TextIsRead == chars \in Seq(Char) => TextRead
BY PairsAre, ParametersAreKept, ParametersAreWhole, ConditionIsWhole, BracesAreNeutral DEF TextRead

-----------------------------------------------------------------------------
(* The kinds of steps. *)

\* The scan for the equals sign.
AssignBase == [at |-> 0, depth |-> 0, quote |-> "", skip |-> FALSE]
AssignState == [at : Nat, depth : Int, quote : Quote \cup {""}, skip : BOOLEAN]
EqualsNext(text, i) == i < Len(text) /\ text[i + 1] = "="
AssignStep(text, s, i) ==
  LET c == text[i] IN
  IF s.skip THEN [s EXCEPT !.skip = FALSE]
  ELSE IF s.at # 0 THEN s
  ELSE IF s.quote # ""
  THEN IF c = s.quote /\ Ends(text, i) THEN [s EXCEPT !.quote = ""] ELSE s
  ELSE IF c \in Quote THEN [s EXCEPT !.quote = c]
  ELSE IF c \in {"(", "{"} THEN [s EXCEPT !.depth = @ + 1]
  ELSE IF c \in {")", "}"} THEN [s EXCEPT !.depth = @ - 1]
  ELSE IF c = "=" /\ s.depth = 0
  THEN IF Assigns(text, i) THEN [s EXCEPT !.at = i]
       ELSE [s EXCEPT !.skip = EqualsNext(text, i)]
  ELSE s
AssignEnd(text) ==
  FoldLeft(LAMBDA s, i : AssignStep(text, s, i), AssignBase, PlacesOf(text))

\* The scan as AssignmentAt has it.
LEMMA AssignEndIs ==
  ASSUME NEW text
  PROVE  AssignmentAt(text) = AssignEnd(text).at
BY Zenon DEF AssignmentAt, AssignEnd, AssignStep, AssignBase, PlacesOf, EqualsNext

\* The step changes one part of the state at most.
AssignMove(text, s, i, u) ==
  \/ u = s
  \/ \E k \in BOOLEAN : u = [s EXCEPT !.skip = k]
  \/ \E q \in Quote \cup {""} : u = [s EXCEPT !.quote = q]
  \/ \E d : (d = s.depth + 1 \/ d = s.depth - 1) /\ u = [s EXCEPT !.depth = d]
  \/ u = [s EXCEPT !.at = i] /\ text[i] = "="

\* The cases of a step of the scan.
LEMMA AssignMoves ==
  ASSUME NEW text, NEW s, NEW i
  PROVE  AssignMove(text, s, i, AssignStep(text, s, i))
<1>1. EqualsNext(text, i) \in BOOLEAN /\ FALSE \in BOOLEAN
  BY Zenon DEF EqualsNext
<1>2. "" \in Quote \cup {""} /\ (text[i] \in Quote => text[i] \in Quote \cup {""})
  OBVIOUS
<1> DEFINE u == AssignStep(text, s, i)
<1>3. \/ u = s
      \/ u = [s EXCEPT !.skip = FALSE]
      \/ u = [s EXCEPT !.skip = EqualsNext(text, i)]
      \/ u = [s EXCEPT !.quote = text[i]] /\ text[i] \in Quote
      \/ u = [s EXCEPT !.quote = ""]
      \/ u = [s EXCEPT !.depth = s.depth + 1]
      \/ u = [s EXCEPT !.depth = s.depth - 1]
      \/ u = [s EXCEPT !.at = i] /\ text[i] = "="
  BY Zenon DEF AssignStep
<1> HIDE DEF u
<1>4. AssignMove(text, s, i, u)
  BY <1>1, <1>2, <1>3, Zenon DEF AssignMove
<1> QED BY <1>4 DEF u

\* Its states keep their type.
LEMMA AssignTyped ==
  ASSUME NEW text, NEW s \in AssignState, NEW i \in Nat
  PROVE  AssignStep(text, s, i) \in AssignState
<1>1. s.at \in Nat /\ s.depth \in Int /\ s.quote \in Quote \cup {""} /\ s.skip \in BOOLEAN
      /\ s = [at |-> s.at, depth |-> s.depth, quote |-> s.quote, skip |-> s.skip]
  BY DEF AssignState
<1>2. \A d : d = s.depth + 1 \/ d = s.depth - 1 => d \in Int
  <2>1. s.depth \in Int
    BY <1>1
  <2> QED BY <2>1
<1> PICK u : u = AssignStep(text, s, i)
  OBVIOUS
<1>3. AssignMove(text, s, i, u)
  BY AssignMoves
<1>4. \/ u = s
      \/ \E k \in BOOLEAN : u = [s EXCEPT !.skip = k]
      \/ \E q \in Quote \cup {""} : u = [s EXCEPT !.quote = q]
      \/ \E d \in Int : u = [s EXCEPT !.depth = d]
      \/ u = [s EXCEPT !.at = i]
  BY <1>2, <1>3, Zenon DEF AssignMove
<1>5. u \in AssignState
  BY <1>1, <1>4 DEF AssignState
<1> QED BY <1>5

\* The function that the fold is the choice of.
IsAssign(f, text) ==
  f = [s \in SUBSET DOMAIN PlacesOf(text) |->
         IF s = {} THEN AssignBase ELSE AssignStep(text, f[s \ {Max(s)}], PlacesOf(text)[Max(s)])]

\* The fold is its value at all the places.
LEMMA AssignIs ==
  ASSUME NEW text, \E f : IsAssign(f, text)
  PROVE  \E f : IsAssign(f, text) /\ AssignEnd(text) = f[DOMAIN PlacesOf(text)]
<1> DEFINE end == CHOOSE f : IsAssign(f, text)
<1>1. IsAssign(end, text)
  BY Zenon
<1>2. AssignEnd(text) = end[DOMAIN PlacesOf(text)]
  BY Zenon DEF AssignEnd, AssignStep, AssignBase, FoldLeft, MapThenFoldSet, IsAssign
<1> QED BY <1>1, <1>2

\* The states of the scan, place by place.
LEMMA AssignRuns ==
  ASSUME NEW C, NEW text \in Seq(C)
  PROVE  \E r : /\ r[0] = AssignBase /\ r[Len(text)] = AssignEnd(text)
                /\ \A i \in 1 .. Len(text) : r[i] = AssignStep(text, r[i - 1], i)
                /\ \A i \in 0 .. Len(text) : r[i] \in AssignState
<1> DEFINE n == Len(text)
<1>1. n \in Nat /\ DOMAIN PlacesOf(text) = 1 .. n /\ \A i \in 1 .. n : PlacesOf(text)[i] = i
  BY DEF PlacesOf
<1>2. AssignBase \in AssignState
  BY DEF AssignBase, AssignState
<1>3. PICK F : F = [i \in 1 .. n |-> [v \in AssignState |-> AssignStep(text, v, i)]]
  OBVIOUS
<1>4. F \in [1 .. n -> [AssignState -> AssignState]]
  BY <1>3, AssignTyped
<1>5. PICK f : StepsOn(f, n, AssignState, AssignBase, F)
  BY <1>1, <1>2, <1>4, FoldExists
<1>6. IsAssign(f, text)
  <2>1. \A s \in SUBSET (1 .. n) : s # {} => Max(s) \in 1 .. n /\ s \ {Max(s)} \in SUBSET (1 .. n)
    BY <1>1, GreatestIsIn
  <2>2. \A s \in SUBSET (1 .. n) : s # {} =>
          F[Max(s)][f[s \ {Max(s)}]] = AssignStep(text, f[s \ {Max(s)}], Max(s))
    BY <1>3, <1>5, <2>1 DEF StepsOn
  <2>3. /\ f = [s \in SUBSET (1 .. n) |-> f[s]]
        /\ \A s \in SUBSET (1 .. n) : f[s] = IF s = {} THEN AssignBase ELSE F[Max(s)][f[s \ {Max(s)}]]
    BY <1>5 DEF StepsOn
  <2> HIDE DEF n
  <2>4. \A s \in SUBSET (1 .. n) : f[s] = IF s = {} THEN AssignBase ELSE AssignStep(text, f[s \ {Max(s)}], PlacesOf(text)[Max(s)])
    BY <1>1, <2>1, <2>2, <2>3
  <2> QED BY <1>1, <2>3, <2>4 DEF IsAssign
<1>7. PICK h : IsAssign(h, text) /\ AssignEnd(text) = h[1 .. n]
  BY <1>1, <1>6, AssignIs
<1>8. Recurs(h, n, AssignState, AssignBase, F)
  <2>1. \A s \in SUBSET (1 .. n) : s # {} => Max(s) \in 1 .. n
    BY <1>1, GreatestIsIn
  <2>2. \A s \in SUBSET (1 .. n) :
          h[s] = IF s = {} THEN AssignBase ELSE AssignStep(text, h[s \ {Max(s)}], Max(s))
    BY <1>1, <1>7, GreatestIsIn DEF IsAssign
  <2> QED BY <1>3, <2>1, <2>2 DEF Recurs
<1>9. PICK r : RunsTo(r, n, AssignState, AssignBase, F, h[1 .. n])
  <2> HIDE DEF n
  <2>1. n \in Nat
    BY <1>1
  <2> QED BY <1>2, <1>4, <1>8, <2>1, RunOf
<1>10. \A i \in 1 .. n : r[i] = AssignStep(text, r[i - 1], i)
  <2> HIDE DEF n
  <2>1. \A i \in 1 .. n : i - 1 \in 0 .. n
    BY <1>1
  <2>2. \A i \in 1 .. n : r[i - 1] \in AssignState
    BY <1>9, <2>1 DEF RunsTo
  <2> QED BY <1>3, <1>9, <2>2 DEF RunsTo
<1> QED BY <1>7, <1>9, <1>10 DEF RunsTo

\* Where it is found, it is.
Equals(text, s) == s.at # 0 => s.at \in 1 .. Len(text) /\ text[s.at] = "="

\* The scan finds one.
LEMMA EqualsFound ==
  ASSUME NEW C, NEW text \in Seq(C)
  PROVE  Equals(text, AssignEnd(text)) /\ AssignmentAt(text) \in Nat
<1>1. PICK r : /\ r[0] = AssignBase /\ r[Len(text)] = AssignEnd(text)
               /\ \A i \in 1 .. Len(text) : r[i] = AssignStep(text, r[i - 1], i)
               /\ \A i \in 0 .. Len(text) : r[i] \in AssignState
  BY AssignRuns
<1> PICK n : n = Len(text)
  OBVIOUS
<1>3. n \in Nat /\ 0 \in 0 .. n /\ n \in 0 .. n /\ \A i \in 1 .. n : i \in 0 .. n /\ i - 1 \in 0 .. n
  OBVIOUS
<1> DEFINE S == {i \in 0 .. n : Equals(text, r[i])}
<1>4. 0 \in S
  <2>1. AssignBase.at = 0
    BY DEF AssignBase
  <2>2. Equals(text, AssignBase)
    BY <2>1, Zenon DEF Equals
  <2> QED BY <1>1, <1>3, <2>2
<1>5. ASSUME NEW i \in 1 .. n, i - 1 \in S PROVE i \in S
  <2> PICK s : s = r[i - 1]
    OBVIOUS
  <2>1. s \in AssignState /\ Equals(text, s) /\ r[i] = AssignStep(text, s, i)
    BY <1>1, <1>3, <1>5
  <2>2. Equals(text, AssignStep(text, s, i))
    <3>1. s = [at |-> s.at, depth |-> s.depth, quote |-> s.quote, skip |-> s.skip]
      BY <2>1 DEF AssignState
    <3> PICK u : u = AssignStep(text, s, i)
      OBVIOUS
    <3>2. AssignMove(text, s, i, u)
      BY AssignMoves
    <3>3. CASE u = [s EXCEPT !.at = i] /\ text[i] = "="
      <4>1. u = [s EXCEPT !.at = i]
        BY <3>3
      <4>2. u.at = i
        BY <3>1, <4>1
      <4> QED BY <1>3, <3>3, <4>2, Zenon DEF Equals
    <3>4. CASE ~(u = [s EXCEPT !.at = i] /\ text[i] = "=")
      <4>1. \/ u = s
            \/ \E k : u = [s EXCEPT !.skip = k]
            \/ \E q : u = [s EXCEPT !.quote = q]
            \/ \E d : u = [s EXCEPT !.depth = d]
        BY <3>2, <3>4, Zenon DEF AssignMove
      <4>2. u.at = s.at
        BY <3>1, <4>1
      <4> QED BY <2>1, <4>2, Zenon DEF Equals
    <3> QED BY <3>3, <3>4
  <2> QED BY <1>3, <2>1, <2>2
<1>6. n \in S
  <2> HIDE DEF S
  <2> QED BY <1>3, <1>4, <1>5, Forwards
<1>7. AssignEnd(text).at \in Nat
  BY <1>1, <1>3 DEF AssignState
<1> QED BY <1>1, <1>6, <1>7, AssignEndIs

\* Where a token is first, in a step.
LEMMA FirstAt ==
  ASSUME NEW C, NEW step \in Seq(C), NEW token
  PROVE  /\ At(step, token) \in 0 .. Len(step)
         /\ At(step, token) # 0 => step[At(step, token)] = token
         /\ \A k \in 1 .. Len(step) : step[k] = token => At(step, token) # 0 /\ At(step, token) <= k
<1> DEFINE I == {i \in 1 .. Len(step) : step[i] = token}
<1>1. At(step, token) = IF I # {} THEN Min(I) ELSE 0
  BY Zenon DEF At, SelectInSeq
<1>2. Len(step) \in Nat
  OBVIOUS
<1>3. CASE I = {}
  BY <1>1, <1>2, <1>3
<1>4. CASE I # {}
  <2>1. I \subseteq Nat
    OBVIOUS
  <2>2. \E x \in I : \A y \in I : x <= y
    <3> HIDE DEF I
    <3> QED BY <1>4, <2>1, LeastIsIn
  <2>3. Min(I) \in I /\ \A y \in I : Min(I) <= y
    <3> HIDE DEF I
    <3> QED BY <2>2 DEF Min
  <2>4. At(step, token) = Min(I)
    BY <1>1, <1>4
  <2> PICK m : m = At(step, token)
    OBVIOUS
  <2>5. m \in I /\ \A y \in I : m <= y
    BY <2>3, <2>4
  <2> QED BY <1>2, <2>5
<1> QED BY <1>3, <1>4

\* The parts of a step.
Surrounds(step, D, text, a, b, c) ==
  /\ step \in Seq(D) /\ Len(step) = Len(text) + 3 /\ step[1] = a /\ step[2] = b /\ Last(step) = c
  /\ SubSeq(step, 1, 1) = <<a>> /\ Front(SubSeq(step, 3, Len(step))) = text

Precedes(step, D, text, a, b) ==
  /\ step \in Seq(D) /\ Len(step) = Len(text) + 2 /\ step[1] = a /\ step[2] = b
  /\ \A i \in 1 .. Len(text) : step[i + 2] = text[i]
  /\ SubSeq(step, 3, Len(step)) = text

Heads(step, D, text, a) ==
  /\ step \in Seq(D) /\ Len(step) = Len(text) + 1 /\ step[1] = a /\ Tail(step) = text
  /\ \A i \in 1 .. Len(text) : step[i + 1] = text[i]

\* An application is a name, a parenthesis, its argument and a parenthesis.
LEMMA Surrounded ==
  ASSUME NEW C, NEW text \in Seq(C), NEW a, NEW b, NEW c
  PROVE  Surrounds(<<a, b>> \o text \o <<c>>, C \cup {a, b, c}, text, a, b, c)
<1> DEFINE D == C \cup {a, b, c}
<1>1. text \in Seq(D) /\ <<a, b>> \in Seq(D) /\ <<c>> \in Seq(D)
  <2>1. C \subseteq D /\ a \in D /\ b \in D /\ c \in D
    OBVIOUS
  <2> HIDE DEF D
  <2>2. text \in Seq(D)
    BY <2>1, Wider
  <2> QED BY <2>1, <2>2
<1> HIDE DEF D
<1> PICK n, s : n = Len(text) /\ s = <<a, b>> \o text \o <<c>>
  OBVIOUS
<1>2. n \in Nat
  OBVIOUS
<1>3. s \in Seq(D) /\ Len(s) = n + 3
  BY <1>1
<1>4. s[1] = a /\ s[2] = b /\ s[n + 3] = c /\ \A i \in 1 .. n : s[i + 2] = text[i]
  BY <1>1, <1>2
<1>5. Last(s) = c
  BY <1>3, <1>4 DEF Last
<1>6. SubSeq(s, 1, 1) = <<a>>
  <2>1. SubSeq(s, 1, 1) \in Seq(D) /\ Len(SubSeq(s, 1, 1)) = 1 /\ SubSeq(s, 1, 1)[1] = s[1]
    BY <1>2, <1>3
  <2>2. <<a>> \in Seq(D) /\ Len(<<a>>) = 1 /\ <<a>>[1] = a
    <3>1. a \in D
      BY <1>2, <1>3, <1>4
    <3> QED BY <3>1
  <2>3. \A i \in 1 .. 1 : SubSeq(s, 1, 1)[i] = <<a>>[i]
    BY <1>4, <2>1, <2>2
  <2> QED BY <2>1, <2>2, <2>3, SameSequence
<1>7. Front(SubSeq(s, 3, n + 3)) = text
  <2> PICK t : t = SubSeq(s, 3, n + 3)
    OBVIOUS
  <2>1. t \in Seq(D) /\ Len(t) = n + 1 /\ \A i \in 1 .. n + 1 : t[i] = s[i + 2]
    BY <1>2, <1>3
  <2>2. \A i \in 1 .. n : t[i] = text[i]
    BY <1>2, <1>4, <2>1
  <2>3. Front(t) = SubSeq(t, 1, n)
    BY <1>2, <2>1 DEF Front
  <2>4. SubSeq(t, 1, n) \in Seq(D) /\ Len(SubSeq(t, 1, n)) = n /\ \A i \in 1 .. n : SubSeq(t, 1, n)[i] = text[i]
    <3>1. \A i \in 1 .. n : t[i] \in D
      <4>1. \A i \in 1 .. n : t[i] = text[i] /\ text[i] \in D
        BY <1>1, <2>2
      <4> QED BY <4>1
    <3>2. SubSeq(t, 1, n) = [i \in 1 .. n |-> t[i]]
      BY <1>2, <2>1
    <3>3. SubSeq(t, 1, n) \in Seq(D) /\ Len(SubSeq(t, 1, n)) = n
      BY <1>2, <3>1, <3>2
    <3> QED BY <2>2, <3>2, <3>3
  <2> QED BY <1>1, <1>2, <2>3, <2>4, SameSequence
<1>8. Len(s) = Len(text) + 3 /\ Front(SubSeq(s, 3, Len(s))) = text
  BY <1>3, <1>7
<1>9. Surrounds(s, D, text, a, b, c)
  BY <1>3, <1>4, <1>5, <1>6, <1>8, Zenon DEF Surrounds
<1> QED BY <1>9 DEF D

\* Two tokens in front of a text.
LEMMA Preceded ==
  ASSUME NEW C, NEW text \in Seq(C), NEW a, NEW b
  PROVE  Precedes(<<a, b>> \o text, C \cup {a, b}, text, a, b)
<1> DEFINE D == C \cup {a, b}
<1>1. text \in Seq(D) /\ <<a, b>> \in Seq(D)
  <2>1. C \subseteq D /\ a \in D /\ b \in D
    OBVIOUS
  <2> HIDE DEF D
  <2>2. text \in Seq(D)
    BY <2>1, Wider
  <2> QED BY <2>1, <2>2
<1> HIDE DEF D
<1> PICK n, s : n = Len(text) /\ s = <<a, b>> \o text
  OBVIOUS
<1>2. n \in Nat
  OBVIOUS
<1>3. s \in Seq(D) /\ Len(s) = n + 2
  BY <1>1
<1>4. s[1] = a /\ s[2] = b /\ \A i \in 1 .. n : s[i + 2] = text[i]
  BY <1>1, <1>2
<1>5. SubSeq(s, 3, n + 2) = text
  <2>1. SubSeq(s, 3, n + 2) \in Seq(D) /\ Len(SubSeq(s, 3, n + 2)) = n /\ \A i \in 1 .. n : SubSeq(s, 3, n + 2)[i] = text[i]
    BY <1>2, <1>3, <1>4
  <2> QED BY <1>1, <2>1, SameSequence
<1>6. Len(s) = Len(text) + 2 /\ SubSeq(s, 3, Len(s)) = text /\ \A i \in 1 .. Len(text) : s[i + 2] = text[i]
  BY <1>3, <1>4, <1>5
<1>7. Precedes(s, D, text, a, b)
  BY <1>3, <1>4, <1>6, Zenon DEF Precedes
<1> QED BY <1>7 DEF D

\* One token in front of a text.
LEMMA Headed ==
  ASSUME NEW C, NEW text \in Seq(C), NEW a
  PROVE  Heads(<<a>> \o text, C \cup {a}, text, a)
<1> DEFINE D == C \cup {a}
<1>1. text \in Seq(D) /\ <<a>> \in Seq(D)
  <2>1. C \subseteq D /\ a \in D
    OBVIOUS
  <2> HIDE DEF D
  <2>2. text \in Seq(D)
    BY <2>1, Wider
  <2> QED BY <2>1, <2>2
<1> HIDE DEF D
<1> PICK n, s : n = Len(text) /\ s = <<a>> \o text
  OBVIOUS
<1>2. n \in Nat
  OBVIOUS
<1>3. s \in Seq(D) /\ Len(s) = n + 1
  BY <1>1
<1>4. s[1] = a /\ \A i \in 1 .. n : s[i + 1] = text[i]
  BY <1>1, <1>2
<1>5. Tail(s) = text
  <2>1. Tail(s) \in Seq(D) /\ Len(Tail(s)) = n /\ \A i \in 1 .. n : Tail(s)[i] = text[i]
    BY <1>2, <1>3, <1>4
  <2> QED BY <1>1, <2>1, SameSequence
<1>6. Len(s) = Len(text) + 1 /\ \A i \in 1 .. Len(text) : s[i + 1] = text[i]
  BY <1>3, <1>4
<1>7. Heads(s, D, text, a)
  BY <1>3, <1>4, <1>5, <1>6, Zenon DEF Heads
<1> QED BY <1>7 DEF D

\* The names that steps are typed with.
Names == {"Answer", "Goto", "m", "Wait", "V"}

\* The tokens are different from one another where it matters.
LEMMA Tokens ==
  /\ \A name \in Names : name # "(" /\ name # "goto "
  /\ "(" \notin Word /\ "(" # "=" /\ "goto " \notin Word /\ "goto " # "(" /\ "goto " # "m" /\ "V" # "(" /\ "V" # "m"
  /\ "V" \in Word /\ "goto " \notin {"return", "break", "continue"} /\ "V" # "="
  /\ "V" \notin Quote /\ "V" \notin {"(", "{"} /\ "V" \notin {")", "}"} /\ "V" \notin {"!", "<", ">"}
  /\ "=" \notin Quote /\ "=" \notin {"(", "{"} /\ "=" \notin {")", "}"}
BY DEF Names, Word, Quote

\* Sequences of one token.
LEMMA OneToken ==
  /\ \A a, b : <<a>> = <<b>> <=> a = b
  /\ \A a : Len(<<a>>) = 1 /\ <<a>>[1] = a
OBVIOUS

\* A step whose first parenthesis or brace is before any equals sign assigns nothing.
LEMMA NotAssigned ==
  ASSUME NEW C, NEW step \in Seq(C), Len(step) > 1, step[1] \notin Word \/ (step[2] \notin Word /\ step[2] # "=")
  PROVE  ~IsAssignment(step)
<1> PICK at : at = AssignmentAt(step)
  OBVIOUS
<1> SUFFICES ASSUME at > 1, \A i \in 1 .. at - 1 : step[i] \in Word PROVE FALSE
  BY DEF IsAssignment
<1>1. at \in Nat /\ (at # 0 => at \in 1 .. Len(step) /\ step[at] = "=")
  BY EqualsFound, AssignEndIs DEF Equals
<1>a. at \in Nat
  BY <1>1
<1>2. at # 0 /\ 1 \in 1 .. at - 1 /\ (at # 2 => 2 \in 1 .. at - 1)
  BY <1>a
<1>3. step[1] \in Word
  BY <1>2
<1>4. step[2] \notin Word /\ step[2] # "="
  BY <1>3
<1>5. at = 2
  BY <1>2, <1>4, Zenon
<1> QED BY <1>1, <1>2, <1>4, <1>5, Zenon

\* An application is taken for a call of a macro, or for an application.
LEMMA ApplicationIs ==
  ASSUME NEW C, NEW text \in Seq(C), NEW name \in Names
  PROVE  StepAccepted(Application(name, text)) <=>
           IF name = "m" THEN text # << >> => Balanced(text) /\ ~SomeEmpty(Parameters(text))
           ELSE <<name>> \in Applications /\ ParametersPass(<<name>>, text)
<1> DEFINE step == Application(name, text)
           D == C \cup {name, "(", ")"}
<1>1. /\ step \in Seq(D) /\ Len(step) = Len(text) + 3 /\ step[1] = name /\ step[2] = "(" /\ Last(step) = ")"
      /\ SubSeq(step, 1, 1) = <<name>> /\ Front(SubSeq(step, 3, Len(step))) = text
  <2>1. Surrounds(Application(name, text), C \cup {name, "(", ")"}, text, name, "(", ")")
    BY Surrounded, Zenon DEF Application
  <2> QED BY <2>1, Zenon DEF Surrounds
<1> HIDE DEF step, D
<1>2. Len(step) > 1 /\ Len(step) # 0 /\ Len(step) # 1 /\ 2 \in 1 .. Len(step)
  <2> PICK n, l : n = Len(text) /\ l = Len(step)
    OBVIOUS
  <2>1. n \in Nat /\ l = n + 3
    BY <1>1
  <2> QED BY <2>1
<1>3. At(step, "(") = 2
  <2> PICK m : m = At(step, "(")
    OBVIOUS
  <2>1. m \in 0 .. Len(step) /\ (m # 0 => step[m] = "(") /\ m # 0 /\ m <= 2
    BY <1>1, <1>2, FirstAt
  <2>2. m = 1 \/ m = 2
    <3>1. m \in 0 .. Len(step) /\ m # 0 /\ m <= 2
      BY <2>1
    <3> QED BY <3>1
  <2>3. m # 1
    BY <1>1, <2>1, Tokens, Zenon
  <2> QED BY <2>2, <2>3
<1>4. 2 - 1 = 1 /\ 2 + 1 = 3 /\ 2 # 0
  OBVIOUS
<1>5. Before(step, 2) = <<name>> /\ Argument(step) = text
  <2>1. Before(step, 2) = SubSeq(step, 1, 1)
    BY <1>4 DEF Before
  <2>2. Behind(step, 2) = SubSeq(step, 3, Len(step))
    BY <1>4 DEF Behind
  <2> QED BY <1>1, <1>3, <2>1, <2>2, Zenon DEF Argument
<1>6. MacroName(step) = <<name>>
  BY <1>3, <1>4, <1>5, Zenon DEF MacroName
<1>7. IsMacroCall(step) <=> name = "m"
  <2>1. IsMacroCall(step) <=> <<name>> = <<"m">>
    BY <1>6 DEF IsMacroCall, MacroNames
  <2> QED BY <2>1, OneToken
<1>8. MacroPasses(step) <=> (text # << >> => Balanced(text) /\ ~SomeEmpty(Parameters(text)))
  BY <1>1, <1>3, <1>4, <1>5, Zenon DEF MacroPasses
<1>9. ~IsAssignment(step)
  <2>1. step[2] \notin Word /\ step[2] # "="
    BY <1>1, Tokens
  <2> QED BY <1>1, <1>2, <2>1, NotAssigned
<1>10. step \notin Keywords /\ step # << >>
  <2>1. ASSUME step \in Keywords PROVE FALSE
    <3>1. step = <<"return">> \/ step = <<"break">> \/ step = <<"continue">>
      BY <2>1 DEF Keywords
    <3>2. Len(step) = 1
      BY <3>1, OneToken, Zenon
    <3> QED BY <1>2, <3>2
  <2>2. Len(<< >>) = 0
    OBVIOUS
  <2>3. step # << >>
    BY <1>2, <2>2, Zenon
  <2> QED BY <2>1, <2>3
<1>11. step[1] # "goto "
  BY <1>1, Tokens
<1>12. ApplicationPasses(step) <=> <<name>> \in Applications /\ ParametersPass(<<name>>, text)
  BY <1>1, <1>3, <1>4, <1>5, Zenon DEF ApplicationPasses
<1>13. StepAccepted(step) <=>
         IF name = "m" THEN text # << >> => Balanced(text) /\ ~SomeEmpty(Parameters(text))
         ELSE <<name>> \in Applications /\ ParametersPass(<<name>>, text)
  BY <1>7, <1>8, <1>9, <1>10, <1>11, <1>12, Zenon DEF StepAccepted
<1> QED BY <1>13 DEF step

\* ArgumentsBalanced, of any text.
LEMMA ArgumentsAreBalanced == chars \in Seq(Char) => ArgumentsBalanced
<1> SUFFICES ASSUME chars \in Seq(Char), NEW name \in Names, StepAccepted(Application(name, chars))
             PROVE  Balanced(chars) /\ name \in {"Answer", "Goto", "m"}
  BY DEF ArgumentsBalanced, Names
<1> PICK text : text = chars
  OBVIOUS
<1>1. /\ text \in Seq(Char)
      /\ IF name = "m" THEN text # << >> => Balanced(text) /\ ~SomeEmpty(Parameters(text))
         ELSE <<name>> \in Applications /\ ParametersPass(<<name>>, text)
  <2>1. text \in Seq(Char) /\ StepAccepted(Application(name, text))
    OBVIOUS
  <2> QED BY <2>1, ApplicationIs
<1>2. text # << >> => Balanced(text)
  BY <1>1, Zenon DEF ParametersPass
<1>3. Balanced(text)
  <2>1. Balanced(<< >>)
    <3>1. BalanceBase.ok /\ BalanceBase.stack = << >> /\ BalanceBase.quote = ""
      BY DEF BalanceBase
    <3> QED BY <3>1, BalanceNothing, BalancedIs, Zenon
  <2> QED BY <1>2, <2>1
<1>4. name \in {"Answer", "Goto", "m"}
  <2>1. <<name>> \in Applications => name = "Answer" \/ name = "Goto"
    <3>1. <<name>> \in Applications => <<name>> = <<"Answer">> \/ <<name>> = <<"Goto">>
      BY DEF Applications
    <3> QED BY <3>1, OneToken, Zenon
  <2> QED BY <1>1, <2>1
<1> QED BY <1>3, <1>4

\* A goto is nothing else.
LEMMA JumpIs ==
  ASSUME NEW C, NEW text \in Seq(C), text # << >>
  PROVE  StepAccepted(Jump(text)) <=> TargetPasses(text)
<1> DEFINE step == Jump(text)
           D == C \cup {"goto "}
<1>1. step \in Seq(D) /\ Len(step) = Len(text) + 1 /\ step[1] = "goto " /\ Tail(step) = text
  <2>1. Heads(Jump(text), C \cup {"goto "}, text, "goto ")
    BY Headed, Zenon DEF Jump
  <2> QED BY <2>1, Zenon DEF Heads
<1> HIDE DEF step, D
<1>2. Len(step) > 1 /\ Len(step) # 0 /\ Len(step) # 1
  <2> PICK n, l : n = Len(text) /\ l = Len(step)
    OBVIOUS
  <2>1. n \in Nat /\ n # 0 /\ l = n + 1
    <3>1. Len(step) = Len(text) + 1
      BY <1>1
    <3> QED BY <3>1
  <2> QED BY <2>1
<1>3. ~IsAssignment(step)
  <2>1. step[1] \notin Word
    BY <1>1, Tokens
  <2> QED BY <1>1, <1>2, <2>1, NotAssigned
<1>4. step # << >> /\ step \notin Keywords
  <2>1. ASSUME step \in Keywords PROVE FALSE
    <3>1. step = <<"return">> \/ step = <<"break">> \/ step = <<"continue">>
      BY <2>1 DEF Keywords
    <3>2. Len(step) = 1
      BY <3>1, OneToken, Zenon
    <3> QED BY <1>2, <3>2
  <2>2. Len(<< >>) = 0
    OBVIOUS
  <2>3. step # << >>
    BY <1>2, <2>2, Zenon
  <2> QED BY <2>1, <2>3
<1>5. ~IsMacroCall(step)
  <2>0. /\ At(step, "(") \in 0 .. Len(step) /\ (At(step, "(") # 0 => step[At(step, "(")] = "(")
        /\ step \in Seq(D) /\ step[1] = "goto "
    BY <1>1, FirstAt, Zenon
  <2> PICK m, l : m = At(step, "(") /\ l = Len(step)
    OBVIOUS
  <2>b. step \in Seq(D)
    BY <2>0
  <2>c. l \in Nat
    BY <2>b
  <2>1. m \in 0 .. l /\ (m # 0 => step[m] = "(") /\ l \in Nat
    BY <2>0, <2>c, Zenon
  <2>2. m # 1
    <3>1. 1 # 0
      OBVIOUS
    <3> QED BY <1>1, <2>1, <3>1, Tokens, Zenon
  <2>a. m \in 0 .. l /\ l \in Nat
    BY <2>1
  <2>3. CASE m = 0
    <3>1. MacroName(step) = step
      BY <2>3 DEF MacroName
    <3>2. IsMacroCall(step) => step = <<"m">>
      BY <3>1 DEF IsMacroCall, MacroNames
    <3> QED BY <1>2, <3>2, OneToken, Zenon
  <2>4. CASE m # 0
    <3>1. MacroName(step) = SubSeq(step, 1, m - 1)
      BY <2>4 DEF MacroName, Before
    <3>2. SubSeq(step, 1, m - 1)[1] = step[1]
      <4>1. 1 <= m - 1 /\ m - 1 <= l
        BY <2>a, <2>2, <2>4
      <4> QED BY <2>a, <2>b, <4>1
    <3>3. IsMacroCall(step) => MacroName(step) = <<"m">>
      BY DEF IsMacroCall, MacroNames
    <3>4. IsMacroCall(step) => step[1] = "m"
      BY <3>1, <3>2, <3>3, OneToken, Zenon
    <3> QED BY <1>1, <3>4, Tokens, Zenon
  <2> QED BY <2>3, <2>4
<1>6. StepAccepted(step) <=> TargetPasses(Tail(step))
  BY <1>1, <1>3, <1>4, <1>5, Zenon DEF StepAccepted
<1> QED BY <1>1, <1>6 DEF step

\* The parameters are texts.
LEMMA ParametersTyped ==
  ASSUME NEW C, NEW text \in Seq(C)
  PROVE  Parameters(text) \in Seq(Seq(C))
<1>1. PICK r : r[Len(text)] = ParamEnd(text) /\ \A i \in 0 .. Len(text) : r[i] \in ParamState(C)
  BY ParamRuns
<1>2. Len(text) \in 0 .. Len(text)
  OBVIOUS
<1> PICK s, params, current : s = ParamEnd(text) /\ params = s.params /\ current = s.current
  OBVIOUS
<1>3. params \in Seq(Seq(C)) /\ current \in Seq(C)
  BY <1>1, <1>2 DEF ParamState
<1>4. Parameters(text) = IF current = << >> THEN params ELSE Append(params, current)
  BY ParametersAre DEF LastParam
<1>5. Append(params, current) \in Seq(Seq(C))
  BY <1>3
<1> QED BY <1>3, <1>4, <1>5

\* The last character.
EndsIn(text, c) == Last(text) = c

\* What is the same with a character behind it and with one before it ends in that.
LEMMA SameEnd ==
  ASSUME NEW C, NEW text \in Seq(C), text # << >>, NEW join \in Seq(C), NEW c \in C,
         join \o <<c>> = <<c>> \o text
  PROVE  EndsIn(text, c)
<1> PICK n, l : n = Len(text) /\ l = Len(join)
  OBVIOUS
<1>1. n \in Nat /\ n # 0 /\ l \in Nat
  OBVIOUS
<1>2. Last(text) = text[n]
  BY DEF Last
<1>3. Len(<<c>> \o text) = n + 1 /\ (<<c>> \o text)[n + 1] = text[n]
  BY <1>1
<1>4. Len(join \o <<c>>) = l + 1 /\ (join \o <<c>>)[l + 1] = c
  BY <1>1
<1>5. n = l
  BY <1>1, <1>3, <1>4
<1>6. text[n] = c
  BY <1>3, <1>4, <1>5
<1> QED BY <1>2, <1>6 DEF EndsIn

\* Put together again without the first comma, the parameters are the text.
LEMMA JoinedAgain ==
  ASSUME NEW C, WithComma(C), NEW text \in Seq(C), text # << >>, ~EndsIn(text, ",")
  PROVE  Joined(Parameters(text)) = text
<1>1. \/ JoinEnd(Parameters(text)) = Comma \o text
      \/ JoinEnd(Parameters(text)) \o Comma = Comma \o text
  BY ParamsRejoined
<1> PICK join : join = JoinEnd(Parameters(text))
  OBVIOUS
<1>2. Joined(Parameters(text)) = Tail(join)
  BY Zenon DEF Joined, JoinEnd, Comma
<1>3. Tail(Comma \o text) = text
  <2>1. Heads(Comma \o text, C \cup {","}, text, ",")
    BY Headed, Zenon DEF Comma
  <2> QED BY <2>1, Zenon DEF Heads
<1>4. join \in Seq(C)
  BY JoinsTyped, ParametersTyped
<1>5. join \o Comma # Comma \o text
  <2>1. "," \in C
    BY Zenon DEF WithComma
  <2>2. join \o <<",">> = <<",">> \o text => EndsIn(text, ",")
    BY <1>4, <2>1, SameEnd
  <2> QED BY <2>2, Zenon DEF Comma
<1> QED BY <1>1, <1>2, <1>3, <1>5

\* GotoEitherWay, of any text.
LEMMA GotoIsEitherWay == chars \in Seq(Char) => GotoEitherWay
<1> SUFFICES ASSUME chars \in Seq(Char), chars # << >>, Balanced(chars), Last(chars) # ","
             PROVE  StepAccepted(Application("Goto", chars)) <=> StepAccepted(Jump(chars))
  BY DEF GotoEitherWay
<1> PICK text : text = chars
  OBVIOUS
<1>1. text \in Seq(Char) /\ text # << >> /\ Balanced(text) /\ Last(text) # ","
  OBVIOUS
<1>2. StepAccepted(Jump(text)) <=> TargetPasses(text)
  BY <1>1, JumpIs
<1>3. "Goto" \in Names /\ "Goto" # "m" /\ <<"Goto">> \in Applications
  BY DEF Names, Applications
<1>4. StepAccepted(Application("Goto", text)) <=> ParametersPass(<<"Goto">>, text)
  <2>1. StepAccepted(Application("Goto", text)) <=>
           IF "Goto" = "m" THEN text # << >> => Balanced(text) /\ ~SomeEmpty(Parameters(text))
           ELSE <<"Goto">> \in Applications /\ ParametersPass(<<"Goto">>, text)
    BY <1>1, <1>3, ApplicationIs
  <2> QED BY <1>3, <2>1
<1>5. ParametersPass(<<"Goto">>, text) <=> TargetPasses(Joined(Parameters(text)))
  BY <1>1, Zenon DEF ParametersPass
<1>6. Joined(Parameters(text)) = text
  <2> DEFINE C == Char \cup {","}
  <2>1. WithComma(C) /\ Char \subseteq C
    BY DEF WithComma
  <2> HIDE DEF C
  <2>2. text \in Seq(C)
    BY <1>1, <2>1, Wider
  <2>3. ~EndsIn(text, ",")
    BY <1>1 DEF EndsIn
  <2> QED BY <1>1, <2>1, <2>2, <2>3, JoinedAgain
<1> QED BY <1>2, <1>4, <1>5, <1>6

\* The first equals sign behind the name of a variable is what assigns.
LEMMA EqualsSecond ==
  ASSUME NEW D, NEW step \in Seq(D), Len(step) > 1, step[1] = "V", step[2] = "=", Assigns(step, 2)
  PROVE  AssignmentAt(step) = 2
<1>1. PICK r : /\ r[0] = AssignBase /\ r[Len(step)] = AssignEnd(step)
               /\ \A i \in 1 .. Len(step) : r[i] = AssignStep(step, r[i - 1], i)
  BY AssignRuns
<1> PICK n : n = Len(step)
  OBVIOUS
<1>2. n \in Nat /\ n > 1
  OBVIOUS
<1> PICK k : k = n - 2
  OBVIOUS
<1>3. k \in Nat /\ n = 2 + k /\ 0 \in 0 .. k /\ k \in 0 .. k /\ 1 \in 1 .. n /\ 2 \in 1 .. n /\ 2 - 1 = 1 /\ 1 - 1 = 0
  BY <1>2
<1>4. /\ AssignBase.skip = FALSE /\ AssignBase.at = 0 /\ AssignBase.quote = "" /\ AssignBase.depth = 0
      /\ [AssignBase EXCEPT !.at = 2].skip = FALSE /\ [AssignBase EXCEPT !.at = 2].at = 2
  BY DEF AssignBase
<1>5. AssignStep(step, AssignBase, 1) = AssignBase
  <2>1. /\ step[1] # "=" /\ step[1] \notin Quote /\ step[1] \notin {"(", "{"} /\ step[1] \notin {")", "}"}
    BY Tokens
  <2> QED BY <1>4, <2>1, Zenon DEF AssignStep
<1>6. AssignStep(step, AssignBase, 2) = [AssignBase EXCEPT !.at = 2]
  <2>1. /\ step[2] = "=" /\ step[2] \notin Quote /\ step[2] \notin {"(", "{"} /\ step[2] \notin {")", "}"}
    BY Tokens
  <2> QED BY <1>4, <2>1, Zenon DEF AssignStep
<1>7. r[1] = AssignBase /\ r[2] = [AssignBase EXCEPT !.at = 2]
  <2>1. r[1] = AssignStep(step, r[0], 1) /\ r[2] = AssignStep(step, r[1], 2)
    BY <1>1, <1>3
  <2>2. r[0] = AssignBase
    BY <1>1
  <2>3. r[1] = AssignBase
    BY <1>5, <2>1, <2>2, Zenon
  <2>4. r[2] = [AssignBase EXCEPT !.at = 2]
    BY <1>6, <2>1, <2>3, Zenon
  <2> QED BY <2>3, <2>4
<1> DEFINE S == {d \in 0 .. k : r[2 + d].skip = FALSE /\ r[2 + d].at = 2}
<1>8. 0 \in S
  <2>1. 2 + 0 = 2
    OBVIOUS
  <2> QED BY <1>3, <1>4, <1>7, <2>1
<1>9. ASSUME NEW d \in 1 .. k, d - 1 \in S PROVE d \in S
  <2> PICK i : i = 2 + d
    OBVIOUS
  <2>1. i \in 1 .. n /\ i - 1 = 2 + (d - 1) /\ d \in 0 .. k
    BY <1>3
  <2>2. r[i] = AssignStep(step, r[i - 1], i)
    BY <1>1, <2>1
  <2>3. r[i - 1].skip = FALSE /\ r[i - 1].at = 2
    BY <1>9, <2>1
  <2>a. 2 # 0
    OBVIOUS
  <2>4. AssignStep(step, r[i - 1], i) = r[i - 1]
    BY <2>3, <2>a, Zenon DEF AssignStep
  <2> QED BY <2>1, <2>2, <2>3, <2>4
<1>10. k \in S
  <2> HIDE DEF S
  <2> QED BY <1>3, <1>8, <1>9, Forwards
<1>11. AssignEnd(step).at = 2
  BY <1>1, <1>3, <1>10
<1> QED BY <1>11, AssignEndIs

\* An assignment is nothing else.
LEMMA AssignmentIs ==
  ASSUME NEW C, NEW text \in Seq(C), text = << >> \/ text[1] # "="
  PROVE  StepAccepted(Assignment("V", text)) <=> Balanced(text)
<1> DEFINE step == Assignment("V", text)
           D == C \cup {"V", "="}
<1>1. /\ step \in Seq(D) /\ Len(step) = Len(text) + 2 /\ step[1] = "V" /\ step[2] = "="
      /\ \A i \in 1 .. Len(text) : step[i + 2] = text[i]
      /\ SubSeq(step, 3, Len(step)) = text
  <2>1. Precedes(Assignment("V", text), C \cup {"V", "="}, text, "V", "=")
    BY Preceded, Zenon DEF Assignment
  <2> QED BY <2>1, Zenon DEF Precedes
<1> HIDE DEF step, D
<1>2. Len(step) > 1 /\ Len(step) # 0
  <2> PICK n, l : n = Len(text) /\ l = Len(step)
    OBVIOUS
  <2>1. l = n + 2
    BY <1>1
  <2>2. n \in Nat
    OBVIOUS
  <2> QED BY <2>1, <2>2
<1>3. Assigns(step, 2)
  <2>0. 2 - 1 = 1
    OBVIOUS
  <2>1. step[2 - 1] \notin {"!", "<", ">"}
    BY <1>1, <2>0, Tokens
  <2>2. CASE text = << >>
    <3>1. Len(step) = 2
      <4>1. Len(text) = 0 /\ 0 + 2 = 2
        BY <2>2
      <4> QED BY <1>1, <4>1, Zenon
    <3> QED BY <2>1, <3>1, Zenon DEF Assigns
  <2>3. CASE text # << >>
    <3>1. 1 \in 1 .. Len(text) /\ 1 + 2 = 3 /\ 2 + 1 = 3
      BY <2>3
    <3>2. step[2 + 1] = text[1]
      BY <1>1, <3>1, Zenon
    <3>3. step[2 + 1] # "="
      BY <2>3, <3>2, Zenon
    <3> QED BY <2>1, <3>3, Zenon DEF Assigns
  <2> QED BY <2>2, <2>3
<1>4. AssignmentAt(step) = 2
  BY <1>1, <1>2, <1>3, EqualsSecond
<1>5. IsAssignment(step)
  <2>1. \A i \in 1 .. 2 - 1 : i = 1
    OBVIOUS
  <2>2. 2 > 1
    OBVIOUS
  <2> QED BY <1>1, <1>4, <2>1, <2>2, Tokens, Zenon DEF IsAssignment
<1>6. ~IsMacroCall(step)
  <2>0. At(step, "(") \in 0 .. Len(step) /\ (At(step, "(") # 0 => step[At(step, "(")] = "(")
    <3>1. step \in Seq(D)
      BY <1>1
    <3> QED BY <3>1, FirstAt
  <2> PICK m, l : m = At(step, "(") /\ l = Len(step)
    OBVIOUS
  <2>b. step \in Seq(D)
    BY <1>1
  <2>c. l \in Nat
    BY <2>b
  <2>1. m \in 0 .. l /\ (m # 0 => step[m] = "(")
    BY <2>0, Zenon
  <2>2. m # 1
    <3>1. 1 # 0
      OBVIOUS
    <3> QED BY <1>1, <2>1, <3>1, Tokens, Zenon
  <2>a. m \in 0 .. l
    BY <2>1
  <2>4. MacroName(step)[1] = step[1]
    <3>1. CASE m = 0
      BY <3>1 DEF MacroName
    <3>2. CASE m # 0
      <4>1. MacroName(step) = SubSeq(step, 1, m - 1)
        BY <3>2 DEF MacroName, Before
      <4>2. 1 <= m - 1 /\ m - 1 <= l
        BY <2>2, <2>a, <2>c, <3>2
      <4>3. SubSeq(step, 1, m - 1)[1] = step[1]
        BY <2>a, <2>b, <2>c, <4>2
      <4> QED BY <4>1, <4>3
    <3> QED BY <3>1, <3>2
  <2>5. IsMacroCall(step) => MacroName(step) = <<"m">>
    BY DEF IsMacroCall, MacroNames
  <2>6. IsMacroCall(step) => step[1] = "m"
    BY <2>4, <2>5, OneToken, Zenon
  <2> QED BY <1>1, <2>6, Tokens, Zenon
<1>7. step # << >>
  <2>1. Len(<< >>) = 0
    OBVIOUS
  <2> QED BY <1>2, <2>1, Zenon
<1>8. Behind(step, 2) = text
  <2>1. 2 + 1 = 3
    OBVIOUS
  <2> QED BY <1>1, <2>1, Zenon DEF Behind
<1>9. StepAccepted(step) <=> Balanced(text)
  BY <1>4, <1>5, <1>6, <1>7, <1>8, Zenon DEF StepAccepted, AssignmentPasses
<1> QED BY <1>9 DEF step

\* ValuesBalanced, of any text.
LEMMA ValuesAreBalanced == chars \in Seq(Char) => ValuesBalanced
<1> SUFFICES ASSUME chars \in Seq(Char), chars = << >> \/ chars[1] # "="
             PROVE  StepAccepted(Assignment("V", chars)) <=> Balanced(chars)
  BY DEF ValuesBalanced
<1> PICK text : text = chars
  OBVIOUS
<1>1. text \in Seq(Char) /\ (text = << >> \/ text[1] # "=")
  OBVIOUS
<1>2. StepAccepted(Assignment("V", text)) <=> Balanced(text)
  BY <1>1, AssignmentIs
<1> QED BY <1>2

-----------------------------------------------------------------------------
(* Targets and parameters that are not empty. *)

\* Outside strings and brackets.
Unbracketed(s) == s.quote = "" /\ AtTop(s.level)

\* What a character does to the parameters.
Goes(s, u, c) ==
  \/ u.params = s.params /\ u.current = Append(s.current, c)
  \/ u.params = Append(s.params, s.current) /\ u.current = << >>

\* A step of the split does.
LEMMA ParamGoes ==
  ASSUME NEW C, NEW s \in ParamState(C), NEW c
  PROVE  Goes(s, ParamStep(s, c), c)
<1>1. s = [params |-> s.params, current |-> s.current, quote |-> s.quote, level |-> s.level]
  BY DEF ParamState
<1> PICK u : u = ParamStep(s, c)
  OBVIOUS
<1>2. \/ \E q, l : u = [s EXCEPT !.quote = q, !.current = Append(s.current, c)]
                   \/ u = [s EXCEPT !.current = Append(s.current, c), !.level = l]
      \/ u = [s EXCEPT !.params = Append(s.params, s.current), !.current = << >>]
  <2>1. \/ \E q : ParamStep(s, c) = [s EXCEPT !.quote = q, !.current = Append(s.current, c)]
        \/ \E l : ParamStep(s, c) = [s EXCEPT !.current = Append(s.current, c), !.level = l]
        \/ ParamStep(s, c) = [s EXCEPT !.params = Append(s.params, s.current), !.current = << >>]
    BY Zenon DEF ParamStep
  <2> QED BY <2>1
<1>3. CASE u = [s EXCEPT !.params = Append(s.params, s.current), !.current = << >>]
  <2>1. u.params = Append(s.params, s.current) /\ u.current = << >>
    BY <1>1, <1>3
  <2> QED BY <2>1 DEF Goes
<1>4. ASSUME NEW q, NEW l,
             \/ u = [s EXCEPT !.quote = q, !.current = Append(s.current, c)]
             \/ u = [s EXCEPT !.current = Append(s.current, c), !.level = l]
      PROVE  Goes(s, u, c)
  <2>1. u.params = s.params /\ u.current = Append(s.current, c)
    BY <1>1, <1>4
  <2> QED BY <2>1 DEF Goes
<1> QED BY <1>2, <1>3, <1>4

\* The parameter ends.
Splits(s, u) == u.params = Append(s.params, s.current) /\ u.current = << >> /\ Unbracketed(u)

\* It does at a comma outside strings and brackets.
LEMMA SplitAt ==
  ASSUME NEW C, NEW s \in ParamState(C), Unbracketed(s)
  PROVE  Splits(s, ParamStep(s, ","))
<1>1. s = [params |-> s.params, current |-> s.current, quote |-> s.quote, level |-> s.level]
  BY DEF ParamState
<1>2. "," \notin Quote /\ "," # "" /\ s.quote = "" /\ AtTop(s.level)
  <2>1. "," # ""
    OBVIOUS
  <2> QED BY <2>1, Kinds3 DEF Unbracketed
<1> PICK u : u = ParamStep(s, ",")
  OBVIOUS
<1>3. u = [s EXCEPT !.params = Append(s.params, s.current), !.current = << >>]
  <2>1. ParamStep(s, ",") = [s EXCEPT !.params = Append(s.params, s.current), !.current = << >>]
    BY <1>2, ParamMoves, Zenon
  <2> QED BY <2>1
<1>4. u.params = Append(s.params, s.current) /\ u.current = << >> /\ u.quote = s.quote /\ u.level = s.level
  BY <1>1, <1>3
<1> QED BY <1>2, <1>4 DEF Splits, Unbracketed

\* Arithmetic apart from the characters.
LEMMA NoneMore == 0 + 0 = 0
OBVIOUS

\* What a character is appended to is not empty.
LEMMA NotEmpty == ASSUME NEW C, NEW text \in Seq(C), NEW c PROVE Append(text, c) # << >>
<1>1. Len(Append(text, c)) = Len(text) + 1 /\ Len(text) \in Nat /\ Len(<< >>) = 0
  OBVIOUS
<1>2. Len(Append(text, c)) # 0
  BY <1>1
<1> QED BY <1>1, <1>2, Zenon

\* The character is one more of the parameter.
Plainly(s, u, c) == u.current = Append(s.current, c) /\ Unbracketed(u)

\* A character of no other meaning is.
LEMMA PlainStep ==
  ASSUME NEW C, NEW s \in ParamState(C), Unbracketed(s), NEW c,
         c \notin Quote, c \notin Opening, c \notin Closing, c # "", c # ","
  PROVE  Plainly(s, ParamStep(s, c), c)
<1>1. s = [params |-> s.params, current |-> s.current, quote |-> s.quote, level |-> s.level]
      /\ s.level \in [Opening -> Int]
  BY DEF ParamState
<1>2. s.quote = "" /\ AtTop(s.level)
  BY DEF Unbracketed
<1> PICK u, level : u = ParamStep(s, c) /\ level = Leveled(s.level, c)
  OBVIOUS
<1>3. u = [s EXCEPT !.current = Append(s.current, c), !.level = level]
  <2>1. ParamStep(s, c) = [s EXCEPT !.current = Append(s.current, c), !.level = Leveled(s.level, c)]
    BY <1>2, ParamMoves, Zenon
  <2> QED BY <2>1
<1>4. u.current = Append(s.current, c) /\ u.quote = s.quote /\ u.level = level
  BY <1>1, <1>3
<1>5. AtTop(level)
  <2> SUFFICES ASSUME NEW b \in Opening PROVE level[b] = 0
    BY DEF AtTop
  <2>1. c # b /\ c # Pair[b]
    BY Kinds3
  <2>2. Leveled(s.level, c)[b] = s.level[b] + (IF c = b THEN 1 ELSE IF c = Pair[b] THEN -1 ELSE 0)
    BY DEF Leveled
  <2>3. Leveled(s.level, c)[b] = s.level[b] + 0
    BY <2>1, <2>2, Zenon
  <2>4. s.level[b] = 0
    BY <1>2 DEF AtTop
  <2> QED BY <2>3, <2>4, NoneMore, Zenon
<1> QED BY <1>2, <1>4, <1>5 DEF Plainly, Unbracketed

-----------------------------------------------------------------------------
\* A parameter that is no word, or that is empty, stays one.
Spoils(s) ==
  (\E m \in DOMAIN s.params : ~IsWord(s.params[m]) \/ s.params[m] = << >>) \/ ~IsWord(s.current)

\* A word grows by the characters of words only.
LEMMA WordGrows ==
  ASSUME NEW C, NEW text \in Seq(C), NEW c
  PROVE  IsWord(Append(text, c)) <=> IsWord(text) /\ c \in Word \cup {"."}
<1> PICK W, more, n : W = Word \cup {"."} /\ more = Append(text, c) /\ n = Len(text)
  OBVIOUS
<1>1. n \in Nat /\ DOMAIN text = 1 .. n /\ DOMAIN more = 1 .. n + 1 /\ more[n + 1] = c
      /\ \A k \in 1 .. n : more[k] = text[k]
  OBVIOUS
<1>2. \A k : k \in 1 .. n + 1 <=> k \in 1 .. n \/ k = n + 1
  BY <1>1
<1>3. (\A k \in DOMAIN more : more[k] \in W) <=> (\A k \in DOMAIN text : text[k] \in W) /\ c \in W
  BY <1>1, <1>2, Zenon
<1> QED BY <1>3 DEF IsWord

\* A step keeps that.
LEMMA SpoiltStays ==
  ASSUME NEW C, NEW s \in ParamState(C), NEW c \in C, Spoils(s)
  PROVE  Spoils(ParamStep(s, c))
<1> PICK u, params, current : u = ParamStep(s, c) /\ params = s.params /\ current = s.current
  OBVIOUS
<1>1. params \in Seq(Seq(C)) /\ current \in Seq(C)
  BY DEF ParamState
<1>2. \/ u.params = params /\ u.current = Append(current, c)
      \/ u.params = Append(params, current) /\ u.current = << >>
  BY ParamGoes DEF Goes
<1>3. CASE u.params = params /\ u.current = Append(current, c)
  <2>1. ~IsWord(current) => ~IsWord(Append(current, c))
    BY <1>1, WordGrows
  <2> QED BY <1>3, <2>1 DEF Spoils
<1>4. CASE u.params = Append(params, current) /\ u.current = << >>
  <2>1. /\ \A m \in DOMAIN params : m \in DOMAIN Append(params, current) /\ Append(params, current)[m] = params[m]
        /\ Len(params) + 1 \in DOMAIN Append(params, current) /\ Append(params, current)[Len(params) + 1] = current
    BY <1>1
  <2>2. CASE ~IsWord(current)
    BY <1>4, <2>1, <2>2 DEF Spoils
  <2>3. CASE IsWord(current)
    <3>1. PICK m \in DOMAIN params : ~IsWord(params[m]) \/ params[m] = << >>
      BY <2>3 DEF Spoils
    <3> QED BY <1>4, <2>1, <3>1 DEF Spoils
  <2> QED BY <2>2, <2>3
<1> QED BY <1>2, <1>3, <1>4

\* A character of a target that the lexer leaves alone.
Passes(s, u, c) ==
  /\ Unbracketed(u)
  /\ \/ c = "," /\ s.current # << >> /\ u.current = << >>
     \/ c \in Word \cup {"."} /\ u.current # << >>

\* The characters of words have no other meaning.
LEMMA WordsApart ==
  \A c \in Word \cup {"."} : c \notin Quote /\ c \notin Opening /\ c \notin Closing /\ c # "" /\ c # "," /\ c # "$" /\ c # "dq"
BY DEF Word, Quote, Opening, Closing

\* A step of the split of an accepted target does.
LEMMA TargetMoves ==
  ASSUME NEW C, NEW s \in ParamState(C), NEW c \in C, Unbracketed(s), ~Spoils(ParamStep(s, c))
  PROVE  Passes(s, ParamStep(s, c), c)
<1> PICK u, params, current : u = ParamStep(s, c) /\ params = s.params /\ current = s.current
  OBVIOUS
<1>1. params \in Seq(Seq(C)) /\ current \in Seq(C)
  BY DEF ParamState
<1>2. CASE c = ","
  <2>1. u.params = Append(params, current) /\ u.current = << >> /\ Unbracketed(u)
    BY <1>2, SplitAt DEF Splits
  <2>2. Len(params) + 1 \in DOMAIN Append(params, current) /\ Append(params, current)[Len(params) + 1] = current
    BY <1>1
  <2>3. current # << >>
    BY <2>1, <2>2 DEF Spoils
  <2> QED BY <1>2, <2>1, <2>3 DEF Passes
<1>3. CASE c # ","
  <2>1. u.current = Append(current, c)
    <3>1. ASSUME u.current = << >>, u.params = Append(params, current) PROVE u.current = Append(current, c)
      <4>1. ParamStep(s, c) = [s EXCEPT !.quote = c, !.current = Append(s.current, c)]
            \/ ParamStep(s, c) = [s EXCEPT !.quote = "", !.current = Append(s.current, c)]
            \/ \E l : ParamStep(s, c) = [s EXCEPT !.current = Append(s.current, c), !.level = l]
        BY <1>3, Zenon DEF ParamStep
      <4>2. s = [params |-> s.params, current |-> s.current, quote |-> s.quote, level |-> s.level]
        BY DEF ParamState
      <4> QED BY <4>1, <4>2
    <3> QED BY <3>1, ParamGoes DEF Goes
  <2>2. c \in Word \cup {"."}
    <3>1. IsWord(u.current)
      BY DEF Spoils
    <3> QED BY <1>1, <2>1, <3>1, WordGrows
  <2>3. Unbracketed(u)
    <3>1. c \notin Quote /\ c \notin Opening /\ c \notin Closing /\ c # "" /\ c # ","
      BY <2>2, WordsApart
    <3> QED BY <3>1, PlainStep DEF Plainly
  <2>4. Append(current, c) # << >>
    BY <1>1, NotEmpty
  <2> QED BY <2>1, <2>2, <2>3, <2>4 DEF Passes
<1> QED BY <1>2, <1>3

\* Nothing is a word.
LEMMA EmptyIsWord == IsWord(<< >>)
<1>1. DOMAIN << >> = {}
  OBVIOUS
<1> QED BY <1>1, Zenon DEF IsWord

\* The characters of an accepted target, with the state of the split before and behind each.
LEMMA TargetRuns ==
  ASSUME NEW C, NEW text \in Seq(C),
         ~SomeEmpty(Parameters(text)), \A i \in DOMAIN Parameters(text) : IsWord(Parameters(text)[i])
  PROVE  \E p : /\ p[0] = ParamBase
                /\ \A i \in 1 .. Len(text) : Passes(p[i - 1], p[i], text[i])
<1>1. PICK p : /\ p[0] = ParamBase /\ p[Len(text)] = ParamEnd(text)
               /\ \A i \in 1 .. Len(text) : p[i] = ParamStep(p[i - 1], text[i])
               /\ \A i \in 0 .. Len(text) : p[i] \in ParamState(C)
  BY ParamRuns
<1> PICK n : n = Len(text)
  OBVIOUS
<1>2. n \in Nat /\ 0 \in 0 .. n /\ n \in 0 .. n
      /\ \A i \in 1 .. n : i \in 0 .. n /\ i - 1 \in 0 .. n /\ text[i] \in C
  OBVIOUS
<1>3. ~Spoils(p[n])
  <2> PICK s, params, current, parts : s = p[n] /\ params = s.params /\ current = s.current /\ parts = Parameters(text)
    OBVIOUS
  <2>1. params \in Seq(Seq(C)) /\ current \in Seq(C)
    BY <1>1, <1>2 DEF ParamState
  <2>2. parts = IF current = << >> THEN params ELSE Append(params, current)
    BY <1>1, ParametersAre DEF LastParam
  <2>3. \A m \in DOMAIN parts : IsWord(parts[m]) /\ parts[m] # << >>
    BY DEF SomeEmpty
  <2>4. CASE current = << >>
    BY <2>2, <2>3, <2>4, EmptyIsWord DEF Spoils
  <2>5. CASE current # << >>
    <3>1. /\ \A m \in DOMAIN params : m \in DOMAIN Append(params, current) /\ Append(params, current)[m] = params[m]
          /\ Len(params) + 1 \in DOMAIN Append(params, current) /\ Append(params, current)[Len(params) + 1] = current
      BY <2>1
    <3> QED BY <2>2, <2>3, <2>5, <3>1 DEF Spoils
  <2> QED BY <2>4, <2>5
<1> DEFINE S == {k \in 0 .. n : ~Spoils(p[n - k])}
<1>4. 0 \in S
  <2>1. n - 0 = n
    BY <1>2
  <2> QED BY <1>2, <1>3, <2>1
<1>5. ASSUME NEW k \in 1 .. n, k - 1 \in S PROVE k \in S
  <2>1. n - (k - 1) \in 1 .. n /\ (n - (k - 1)) - 1 = n - k /\ k \in 0 .. n
    BY <1>2
  <2> PICK i, j : i = n - (k - 1) /\ j = n - k
    OBVIOUS
  <2>2. p[i] = ParamStep(p[j], text[i]) /\ ~Spoils(p[i]) /\ p[j] \in ParamState(C) /\ text[i] \in C
    BY <1>1, <1>2, <1>5, <2>1
  <2> HIDE DEF S
  <2>3. ~Spoils(p[j])
    BY <2>2, SpoiltStays
  <2> USE DEF S
  <2> QED BY <2>1, <2>3
<1>6. \A k \in 0 .. n : k \in S
  <2> HIDE DEF S
  <2> QED BY <1>2, <1>4, <1>5, Forwards
<1>7. ASSUME NEW i \in 0 .. n PROVE ~Spoils(p[i])
  <2>1. n - i \in 0 .. n /\ n - (n - i) = i
    BY <1>2
  <2> QED BY <1>6, <2>1
<1> HIDE DEF S
<1>8. ASSUME NEW i \in 1 .. n, Unbracketed(p[i - 1]) PROVE Passes(p[i - 1], p[i], text[i])
  <2> PICK s, c : s = p[i - 1] /\ c = text[i]
    OBVIOUS
  <2>1. s \in ParamState(C) /\ c \in C /\ Unbracketed(s) /\ p[i] = ParamStep(s, c) /\ ~Spoils(ParamStep(s, c))
    BY <1>1, <1>2, <1>7, <1>8
  <2>2. Passes(s, ParamStep(s, c), c)
    BY <2>1, TargetMoves
  <2> QED BY <2>1, <2>2
<1> DEFINE T == {i \in 0 .. n : Unbracketed(p[i])}
<1>9. 0 \in T
  <2>1. ParamBase.quote = "" /\ ParamBase.level = [b \in Opening |-> 0]
    BY DEF ParamBase
  <2>2. Unbracketed(ParamBase)
    BY <2>1 DEF Unbracketed, AtTop
  <2> QED BY <1>1, <1>2, <2>2
<1>10. ASSUME NEW i \in 1 .. n, i - 1 \in T PROVE i \in T
  <2>1. Passes(p[i - 1], p[i], text[i])
    BY <1>8, <1>10
  <2> QED BY <1>2, <2>1 DEF Passes
<1>11. \A i \in 0 .. n : i \in T
  <2> HIDE DEF T
  <2> QED BY <1>2, <1>9, <1>10, Forwards
<1>12. \A i \in 1 .. n : Passes(p[i - 1], p[i], text[i])
  BY <1>2, <1>8, <1>11
<1> QED BY <1>1, <1>12

\* Characters of which none makes a component opaque.
Unquoted(C) == "$" \notin C /\ "dq" \notin C

\* Without them it has to be a word.
LEMMA WordsOnly ==
  ASSUME NEW C, Unquoted(C), NEW part \in Seq(C), HasVariable(part) \/ IsQuoted(part) \/ IsWord(part)
  PROVE  IsWord(part)
<1>1. ~HasVariable(part)
  <2>1. \A i \in 1 .. Len(part) - 1 : part[i] \in C
    OBVIOUS
  <2> QED BY <2>1, Zenon DEF HasVariable, Unquoted
<1>2. ~IsQuoted(part)
  <2>1. Len(part) >= 2 => part[1] \in C
    OBVIOUS
  <2> QED BY <2>1, Zenon DEF IsQuoted, Unquoted
<1> QED BY <1>1, <1>2

\* The characters of targets.
WordOrComma(c) == c \in Word \cup {".", ","}
IsComma(c) == c = ","

\* The characters of an accepted target without variables and strings.
LEMMA Targets ==
  ASSUME NEW C, Unquoted(C), NEW text \in Seq(C), TargetPasses(text)
  PROVE  /\ \A i \in 1 .. Len(text) : WordOrComma(text[i])
         /\ \A i \in 1 .. Len(text) : IsComma(text[i]) => i > 1 /\ ~IsComma(text[i - 1])
<1> PICK parts : parts = Parameters(text)
  OBVIOUS
<1>1. parts \in Seq(Seq(C)) /\ ~SomeEmpty(parts)
      /\ \A i \in DOMAIN parts : HasVariable(parts[i]) \/ IsQuoted(parts[i]) \/ IsWord(parts[i])
  BY ParametersTyped DEF TargetPasses
<1>2. ASSUME NEW i \in DOMAIN parts PROVE IsWord(parts[i])
  <2> PICK part : part = parts[i]
    OBVIOUS
  <2>1. part \in Seq(C) /\ (HasVariable(part) \/ IsQuoted(part) \/ IsWord(part))
    BY <1>1
  <2> QED BY <2>1, WordsOnly
<1>3. PICK p : /\ p[0] = ParamBase
               /\ \A i \in 1 .. Len(text) : Passes(p[i - 1], p[i], text[i])
  BY <1>1, <1>2, TargetRuns
<1>4. ParamBase.current = << >>
  BY DEF ParamBase
<1>5. \A i \in 1 .. Len(text) :
         /\ WordOrComma(text[i])
         /\ IsComma(text[i]) => p[i - 1].current # << >> /\ p[i].current = << >>
  <2> SUFFICES ASSUME NEW i \in 1 .. Len(text)
               PROVE  /\ WordOrComma(text[i])
                      /\ IsComma(text[i]) => p[i - 1].current # << >> /\ p[i].current = << >>
    OBVIOUS
  <2>1. \/ text[i] = "," /\ p[i - 1].current # << >> /\ p[i].current = << >>
        \/ text[i] \in Word \cup {"."}
    BY <1>3 DEF Passes
  <2>2. text[i] = "," \/ text[i] \in Word \cup {"."} => WordOrComma(text[i])
    BY DEF WordOrComma
  <2>3. text[i] = "," => text[i] \notin Word \cup {"."}
    BY WordsApart
  <2> QED BY <2>1, <2>2, <2>3, Zenon DEF IsComma
<1>6. ASSUME NEW i \in 1 .. Len(text), IsComma(text[i]) PROVE i > 1 /\ ~IsComma(text[i - 1])
  <2>1. i - 1 # 0
    BY <1>3, <1>4, <1>5, <1>6
  <2>2. i > 1 /\ i - 1 \in 1 .. Len(text)
    BY <2>1
  <2> QED BY <1>5, <1>6, <2>2
<1> QED BY <1>5, <1>6

\* TargetsAreWords, of any text.
LEMMA TargetsAre == chars \in Seq(Char) => TargetsAreWords
<1> SUFFICES ASSUME chars \in Seq(Char), StepAccepted(Jump(chars)), \A i \in DOMAIN chars : chars[i] \notin {"$", "dq"}
             PROVE  /\ \A i \in DOMAIN chars : chars[i] \in Word \cup {".", ","}
                    /\ \A i \in 1 .. Len(chars) - 1 : chars[i] = "," => i > 1 /\ chars[i + 1] # ","
  BY DEF TargetsAreWords
<1> DEFINE C == {c \in Char : c \notin {"$", "dq"}}
<1>1. PICK text : text = chars
  OBVIOUS
<1>2. text \in Seq(C) /\ Unquoted(C)
  <2>1. \A i \in 1 .. Len(text) : text[i] \in C
    <3>1. \A i \in 1 .. Len(text) : i \in DOMAIN text /\ text[i] \in Char
      BY <1>1
    <3> QED BY <1>1, <3>1
  <2>2. Unquoted(C)
    BY DEF Unquoted
  <2>3. text \in Seq(Char)
    BY <1>1
  <2> HIDE DEF C
  <2>4. text \in Seq(C)
    BY <2>1, <2>3
  <2> QED BY <2>2, <2>4
<1> HIDE DEF C
<1>3. CASE text = << >>
  <2>1. DOMAIN text = {} /\ 1 .. Len(text) - 1 = {}
    BY <1>3
  <2> QED BY <1>1, <2>1, Zenon
<1>4. CASE text # << >>
  <2>1. StepAccepted(Jump(text)) /\ text \in Seq(C)
    BY <1>1, <1>2
  <2>2. TargetPasses(text)
    BY <1>4, <2>1, JumpIs
  <2>3. /\ \A i \in 1 .. Len(text) : WordOrComma(text[i])
        /\ \A i \in 1 .. Len(text) : IsComma(text[i]) => i > 1 /\ ~IsComma(text[i - 1])
    BY <1>2, <2>2, Targets
  <2>4. DOMAIN text = 1 .. Len(text) /\ \A i \in 1 .. Len(text) - 1 : i \in 1 .. Len(text) /\ i + 1 \in 1 .. Len(text) /\ (i + 1) - 1 = i
    <3>1. text \in Seq(C)
      BY <2>1
    <3> QED BY <3>1
  <2>5. \A i \in DOMAIN text : text[i] \in Word \cup {".", ","}
    BY <2>3, <2>4, Zenon DEF WordOrComma
  <2>6. \A i \in 1 .. Len(text) - 1 : text[i] = "," => i > 1 /\ text[i + 1] # ","
    <3>1. \A i \in 1 .. Len(text) - 1 : IsComma(text[i]) => i > 1 /\ ~IsComma(text[i + 1])
      BY <2>3, <2>4
    <3> QED BY <3>1, Zenon DEF IsComma
  <2> QED BY <1>1, <2>5, <2>6
<1> QED BY <1>3, <1>4

\* No bracket and no string is open.
AtRest(s) == s.stack = << >> /\ s.quote = ""
\* A bracket or a string begins with it.
StartsOne(c) == c \in Opening \cup Quote

\* Without an opening bracket or a quote it stays so.
LEMMA StaysAtRest ==
  ASSUME NEW s \in BalanceState, s.ok, AtRest(s), NEW c, BalanceStep(s, c).ok, ~StartsOne(c)
  PROVE  AtRest(BalanceStep(s, c))
<1> PICK u : u = BalanceStep(s, c)
  OBVIOUS
<1>1. Pushes(s, c)
  BY StackMoves
<1>2. BalanceStep(s, c).quote = QuoteStep(s.quote, c)
  BY BalanceQuote
<1>3. QuoteStep(s.quote, c) = ""
  BY Zenon DEF QuoteStep, StartsOne, AtRest
<1>4. ~Popped(s.stack, c)
  BY Zenon DEF Popped, AtRest
<1>5. BalanceStep(s, c).stack = s.stack
  BY <1>1, <1>4, Zenon DEF Pushes, StartsOne
<1> QED BY <1>2, <1>3, <1>5, Zenon DEF AtRest

\* There is an empty parameter already.
Emptied(s) == \E m \in DOMAIN s.params : s.params[m] = << >>

\* A step keeps it.
LEMMA EmptiedStays ==
  ASSUME NEW C, NEW s \in ParamState(C), NEW c, Emptied(s)
  PROVE  Emptied(ParamStep(s, c))
<1> PICK u, params, current : u = ParamStep(s, c) /\ params = s.params /\ current = s.current
  OBVIOUS
<1>1. params \in Seq(Seq(C)) /\ current \in Seq(C)
  BY DEF ParamState
<1>2. u.params = params \/ u.params = Append(params, current)
  BY ParamGoes DEF Goes
<1>3. PICK m \in DOMAIN params : params[m] = << >>
  BY DEF Emptied
<1>4. m \in DOMAIN Append(params, current) /\ Append(params, current)[m] = params[m]
  BY <1>1
<1>5. m \in DOMAIN u.params /\ u.params[m] = << >>
  BY <1>2, <1>3, <1>4
<1> QED BY <1>5 DEF Emptied

\* The last element of what is appended to.
LEMMA LastOne ==
  ASSUME NEW C, NEW params \in Seq(C), NEW current
  PROVE  Len(params) + 1 \in DOMAIN Append(params, current) /\ Append(params, current)[Len(params) + 1] = current
OBVIOUS

\* A comma where a parameter begins makes one.
LEMMA CommaEmpties ==
  ASSUME NEW C, NEW s \in ParamState(C), Unbracketed(s), s.current = << >>
  PROVE  Emptied(ParamStep(s, ","))
<1> PICK u, params, current : u = ParamStep(s, ",") /\ params = s.params /\ current = s.current
  OBVIOUS
<1>1. params \in Seq(Seq(C)) /\ current \in Seq(C) /\ current = << >>
  BY DEF ParamState
<1>2. u.params = Append(params, current)
  BY SplitAt DEF Splits
<1>3. Len(params) + 1 \in DOMAIN Append(params, current) /\ Append(params, current)[Len(params) + 1] = current
  BY <1>1, LastOne
<1>4. \E m \in DOMAIN u.params : u.params[m] = << >>
  BY <1>1, <1>2, <1>3
<1> QED BY <1>4 DEF Emptied

\* The states of the split of a text with no empty parameter.
LEMMA NeverEmptied ==
  ASSUME NEW C, NEW text \in Seq(C), ~SomeEmpty(Parameters(text)), NEW p,
         p[Len(text)] = ParamEnd(text),
         \A i \in 1 .. Len(text) : p[i] = ParamStep(p[i - 1], text[i]),
         \A i \in 0 .. Len(text) : p[i] \in ParamState(C)
  PROVE  \A i \in 0 .. Len(text) : ~Emptied(p[i])
<1> PICK n : n = Len(text)
  OBVIOUS
<1>1. n \in Nat /\ n \in 0 .. n /\ \A i \in 1 .. n : i \in 0 .. n /\ i - 1 \in 0 .. n
  OBVIOUS
<1>2. ~Emptied(p[n])
  <2> PICK s, params, current, parts : s = p[n] /\ params = s.params /\ current = s.current /\ parts = Parameters(text)
    OBVIOUS
  <2>1. params \in Seq(Seq(C)) /\ current \in Seq(C)
    BY <1>1 DEF ParamState
  <2>2. parts = IF current = << >> THEN params ELSE Append(params, current)
    BY ParametersAre DEF LastParam
  <2>3. \A m \in DOMAIN parts : parts[m] # << >>
    BY DEF SomeEmpty
  <2>4. \A m \in DOMAIN params : m \in DOMAIN Append(params, current) /\ Append(params, current)[m] = params[m]
    BY <2>1
  <2>5. \A m \in DOMAIN params : m \in DOMAIN parts /\ parts[m] = params[m]
    BY <2>2, <2>4
  <2> QED BY <2>3, <2>5 DEF Emptied
<1> DEFINE S == {k \in 0 .. n : ~Emptied(p[n - k])}
<1>3. 0 \in S
  <2>1. n - 0 = n
    BY <1>1
  <2> QED BY <1>1, <1>2, <2>1
<1>4. ASSUME NEW k \in 1 .. n, k - 1 \in S PROVE k \in S
  <2>1. n - (k - 1) \in 1 .. n /\ (n - (k - 1)) - 1 = n - k /\ k \in 0 .. n
    BY <1>1
  <2> PICK i, j : i = n - (k - 1) /\ j = n - k
    OBVIOUS
  <2>2. p[i] = ParamStep(p[j], text[i]) /\ ~Emptied(p[i]) /\ p[j] \in ParamState(C)
    BY <1>1, <1>4, <2>1
  <2> HIDE DEF S
  <2>3. ~Emptied(p[j])
    BY <2>2, EmptiedStays
  <2> USE DEF S
  <2> QED BY <2>1, <2>3
<1>5. \A k \in 0 .. n : k \in S
  <2> HIDE DEF S
  <2> QED BY <1>1, <1>3, <1>4, Forwards
<1>6. ASSUME NEW i \in 0 .. n PROVE ~Emptied(p[i])
  <2>1. n - i \in 0 .. n /\ n - (n - i) = i
    BY <1>1
  <2> QED BY <1>5, <2>1
<1> QED BY <1>6

\* Where the parameters are not empty no comma is the first, and two in a row are in
\* brackets or in a string.
LEMMA ParametersFull ==
  ASSUME NEW C, NEW text \in Seq(C), text # << >>, Balanced(text), ~SomeEmpty(Parameters(text))
  PROVE  /\ ~IsComma(text[1])
         /\ \A i \in 2 .. Len(text) - 1 :
              IsComma(text[i]) /\ IsComma(text[i + 1]) => \E j \in 1 .. i - 1 : StartsOne(text[j])
<1> PICK n : n = Len(text)
  OBVIOUS
<1>1. n \in Nat /\ n # 0 /\ 1 - 1 = 0 /\ 1 \in 1 .. n /\ 0 \in 0 .. n
      /\ \A i \in 1 .. n : i \in 0 .. n /\ i - 1 \in 0 .. n
  <2>1. n \in Nat /\ n # 0
    OBVIOUS
  <2> QED BY <2>1
<1>2. PICK b : BalancedRun(b, text)
  BY BalancedRuns
<1>3. PICK p : /\ p[0] = ParamBase /\ p[n] = ParamEnd(text)
               /\ \A i \in 1 .. n : p[i] = ParamStep(p[i - 1], text[i])
               /\ \A i \in 0 .. n : p[i] \in ParamState(C) /\ Alongside(b[i], p[i])
  BY <1>2, RunsAlongside
<1>4. /\ b[0] = BalanceBase
      /\ \A i \in 1 .. n : b[i] = BalanceStep(b[i - 1], text[i])
      /\ \A i \in 0 .. n : b[i] \in BalanceState /\ b[i].ok
  BY <1>2 DEF BalancedRun
<1>5. \A i \in 0 .. n : ~Emptied(p[i])
  BY <1>3, NeverEmptied
<1>6. ASSUME NEW i \in 1 .. n, IsComma(text[i]), Unbracketed(p[i - 1]), p[i - 1].current = << >> PROVE FALSE
  <2> PICK s : s = p[i - 1]
    OBVIOUS
  <2>1. s \in ParamState(C) /\ Unbracketed(s) /\ s.current = << >>
    BY <1>1, <1>3, <1>6
  <2>2. Emptied(ParamStep(s, ","))
    BY <2>1, CommaEmpties
  <2>3. p[i] = ParamStep(s, ",")
    BY <1>3, <1>6, Zenon DEF IsComma
  <2> QED BY <1>1, <1>5, <2>2, <2>3
<1>7. ~IsComma(text[1])
  <2>1. ParamBase.quote = "" /\ ParamBase.level = [x \in Opening |-> 0] /\ ParamBase.current = << >>
    BY DEF ParamBase
  <2>2. Unbracketed(ParamBase)
    BY <2>1 DEF Unbracketed, AtTop
  <2> QED BY <1>1, <1>3, <1>6, <2>1, <2>2
<1>8. ASSUME NEW i \in 2 .. n - 1, IsComma(text[i]), IsComma(text[i + 1]), \A j \in 1 .. i - 1 : ~StartsOne(text[j])
      PROVE  FALSE
  <2>a. i \in 1 .. n /\ i + 1 \in 1 .. n /\ (i + 1) - 1 = i /\ i - 1 \in 0 .. n /\ i - 1 \in Nat /\ i - 1 \in 0 .. i - 1
        /\ \A k \in 1 .. i - 1 : k \in 1 .. n /\ k - 1 \in 0 .. i - 1 /\ k \in 0 .. i - 1
    BY <1>1
  <2> PICK h : h = i - 1
    OBVIOUS
  <2> DEFINE S == {k \in 0 .. h : AtRest(b[k])}
  <2>1. 0 \in S
    <3>1. BalanceBase.stack = << >> /\ BalanceBase.quote = ""
      BY DEF BalanceBase
    <3>2. 0 \in 0 .. h
      BY <2>a
    <3> QED BY <1>4, <3>1, <3>2 DEF AtRest
  <2>2. ASSUME NEW k \in 1 .. h, k - 1 \in S PROVE k \in S
    <3>0. k \in 1 .. n /\ k \in 0 .. h /\ k \in 0 .. n /\ k - 1 \in 0 .. n
      BY <1>1, <2>a
    <3> PICK s, c : s = b[k - 1] /\ c = text[k]
      OBVIOUS
    <3>1. s \in BalanceState /\ s.ok /\ AtRest(s) /\ ~StartsOne(c) /\ BalanceStep(s, c) = b[k] /\ BalanceStep(s, c).ok
      BY <1>4, <1>8, <2>2, <3>0
    <3>2. AtRest(BalanceStep(s, c))
      BY <3>1, StaysAtRest
    <3> QED BY <3>0, <3>1, <3>2
  <2>3. AtRest(b[h])
    <3>1. \A k \in 0 .. h : k \in S
      <4> HIDE DEF S
      <4> QED BY <2>a, <2>1, <2>2, Forwards
    <3> QED BY <2>a, <3>1
  <2> PICK s, t : s = p[h] /\ t = b[h]
    OBVIOUS
  <2>4. s \in ParamState(C) /\ Alongside(t, s) /\ AtRest(t) /\ t \in BalanceState
    BY <1>3, <1>4, <2>a, <2>3
  <2>5. Unbracketed(s)
    <3>1. s.quote = "" /\ SameLevels(s.level, t.stack) /\ t.stack \in Seq(Opening) /\ t.stack = << >>
      BY <2>4 DEF Alongside, AtRest, BalanceState
    <3> PICK level, stack : level = s.level /\ stack = t.stack
      OBVIOUS
    <3>2. AtTop(level)
      BY <3>1, TopIsEmpty
    <3> QED BY <3>1, <3>2 DEF Unbracketed
  <2>6. Splits(s, ParamStep(s, ","))
    BY <2>4, <2>5, SplitAt
  <2>7. p[i] = ParamStep(s, ",")
    BY <1>3, <1>8, <2>a, Zenon DEF IsComma
  <2>8. Unbracketed(p[i]) /\ p[i].current = << >>
    BY <2>6, <2>7 DEF Splits
  <2> QED BY <1>6, <1>8, <2>a, <2>8
<1> QED BY <1>7, <1>8

\* MacroParametersFull, of any text.
LEMMA MacroParametersAreFull == chars \in Seq(Char) => MacroParametersFull
<1> SUFFICES ASSUME chars \in Seq(Char), StepAccepted(Application("m", chars)), chars # << >>
             PROVE  /\ chars[1] # ","
                    /\ \A i \in 2 .. Len(chars) - 1 :
                         chars[i] = "," /\ chars[i + 1] = "," => \E j \in 1 .. i - 1 : chars[j] \in Opening \cup Quote
  BY DEF MacroParametersFull
<1> PICK text : text = chars
  OBVIOUS
<1>1. text \in Seq(Char) /\ text # << >> /\ StepAccepted(Application("m", text)) /\ "m" \in Names
  BY DEF Names
<1>2. Balanced(text) /\ ~SomeEmpty(Parameters(text))
  BY <1>1, ApplicationIs
<1>3. /\ ~IsComma(text[1])
      /\ \A i \in 2 .. Len(text) - 1 :
           IsComma(text[i]) /\ IsComma(text[i + 1]) => \E j \in 1 .. i - 1 : StartsOne(text[j])
  BY <1>1, <1>2, ParametersFull
<1> QED BY <1>3, Zenon DEF IsComma, StartsOne

\* StepsRead, of any text.
LEMMA StepsAreRead == chars \in Seq(Char) => StepsRead
BY ArgumentsAreBalanced, GotoIsEitherWay, ValuesAreBalanced, TargetsAre, MacroParametersAreFull DEF StepsRead

-----------------------------------------------------------------------------
(* What is typed. *)

\* A text is one of the characters.
TextInv == chars \in Seq(Char)

\* It is nothing at first.
LEMMA TextInitially == TextInit => TextInv
BY DEF TextInit, TextInv

\* It grows by one character.
LEMMA TextStep == TextInv /\ [TextNext]_chars => TextInv'
BY DEF TextInv, TextNext, TypeChar

\* Each scan reads it as the others and as the definitions that scan nothing.
LEMMA TextMeans == TextInv => TextRead /\ StepsRead
BY TextIsRead, StepsAreRead DEF TextInv
=============================================================================
