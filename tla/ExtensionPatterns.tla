-------------------------- MODULE ExtensionPatterns --------------------------
(***************************************************************************)
(* Patterns of extensions and prefixes: which ones the validator lets      *)
(* through (validate_asterisk_extension_prefix of core/validators.py) and  *)
(* in which order core/conf.py writes them (_asterisk_pattern_specificity).*)
(* What is typed here is the pattern behind its underscore; 1 and 9 stand  *)
(* for the digits, X for X, Z and N.                                       *)
(***************************************************************************)
EXTENDS Integers, Sequences, FiniteSets, FiniteSetsExt, SequencesExt

CONSTANTS
  Sign,     \* the characters that are typed
  MaxSigns  \* bound: characters of a pattern

ASSUME PatternAssumption == MaxSigns \in Nat

VARIABLE pattern

Digit == [d \in {"1", "9"} |-> IF d = "1" THEN 1 ELSE 9]
Occurs(p, c) == Cardinality({i \in DOMAIN p : p[i] = c})

-----------------------------------------------------------------------------

\* The regular expression finds an opening bracket up to the first closing one, and goes
\* on behind it.
Opens(p) ==
  {i \in DOMAIN p : p[i] = "[" /\
     \A h \in 1 .. i - 1 : p[h] = "[" => \E m \in h .. i : p[m] = "]"}
ClosesAt(p, i) == Min({k \in i .. Len(p) : p[k] = "]"})
Classes(p) == {SubSeq(p, i + 1, ClosesAt(p, i) - 1)
               : i \in {j \in Opens(p) : \E k \in j .. Len(p) : p[k] = "]"}}

\* Mutant of RangePasses: a range may be one of a digit and itself, or go down.
RangePassesAny(from, to) == TRUE

\* The first digit of a range is below the last.
RangePasses(from, to) == Digit[from] < Digit[to]

\* What is in brackets: something; a range of two digits when there is one hyphen.  With
\* more hyphens, nothing more is asked.
ClassPasses(class) ==
  /\ class # << >>
  /\ Occurs(class, "-") = 1 =>
       /\ Len(class) = 3 /\ class[2] = "-"
       /\ class[1] \in DOMAIN Digit /\ class[3] \in DOMAIN Digit
       /\ RangePasses(class[1], class[3])

\* A wildcard twice in a row.
Doubled(p) == \E i \in 1 .. Len(p) - 1 : p[i] \in {".", "!"} /\ p[i + 1] = p[i]

\* validate_asterisk_extension_prefix, behind the underscore.
PatternPasses(p) ==
  /\ p # << >>
  /\ Occurs(p, "[") = Occurs(p, "]")
  /\ \A class \in Classes(p) : ClassPasses(class)
  /\ ~Doubled(p)

\* Mutant of Wildcards: a wildcard makes a pattern more specific.
WildcardsCount(p) == Occurs(p, "X") + Occurs(p, "!") + Occurs(p, "[") + Occurs(p, "]")

\* The wildcards, as far as they are counted: the dot is not.
Wildcards(p) == -(Occurs(p, "X") + Occurs(p, "!") + Occurs(p, "[") + Occurs(p, "]"))

\* _asterisk_pattern_specificity: letters count as literals, X too.
Specificity(p) ==
  IF p = <<"X", "!">> THEN <<0, 0, 0, 1>>
  ELSE <<Occurs(p, "1") + Occurs(p, "9") + Occurs(p, "X"), Wildcards(p), Len(p), 0>>

\* Tuples in the order in which they are sorted: p is written before q.
WrittenBefore(p, q) ==
  LET left == Specificity(p) right == Specificity(q) IN
  \E i \in 1 .. 4 : left[i] > right[i] /\ \A j \in 1 .. i - 1 : left[j] = right[j]

PatternInit == pattern = << >>

\* One more character is typed.
TypeSign(c) == Len(pattern) < MaxSigns /\ pattern' = Append(pattern, c)

PatternNext == \E c \in Sign : TypeSign(c)

-----------------------------------------------------------------------------
(* Properties, against what Asterisk makes of a pattern.                       *)

\* The brackets are closed one after the other.
InTurn ==
  \A i \in DOMAIN pattern :
    LET Until(c) == Cardinality({j \in 1 .. i : pattern[j] = c})
    IN  Until("[") - Until("]") \in {0, 1}

\* The digits in brackets.
Digits(class) ==
  {d \in 1 .. 9 :
     \/ \E i \in DOMAIN class : class[i] \in DOMAIN Digit /\ Digit[class[i]] = d
     \/ \E i \in 2 .. Len(class) - 1 :
          /\ class[i] = "-" /\ class[i - 1] \in DOMAIN Digit /\ class[i + 1] \in DOMAIN Digit
          /\ d \in Digit[class[i - 1]] .. Digit[class[i + 1]]}

\* A pattern that is accepted can match: if its brackets close in turn, there is
\* something in each, and a range is more than one digit.
AcceptedCanMatch ==
  PatternPasses(pattern) /\ InTurn =>
    \A i \in DOMAIN pattern : pattern[i] = "[" =>
      LET class == SubSeq(pattern, i + 1, ClosesAt(pattern, i) - 1) IN
      /\ class # << >>
      /\ Occurs(class, "-") = 1 => Cardinality(Digits(class)) > 1

\* Of two patterns that differ in one place, the one with a digit there is written before
\* the one with an X, a dot or an exclamation mark.
DigitsFirst ==
  \A i \in DOMAIN pattern :
    LET Put(c) == [pattern EXCEPT ![i] = c] IN
    /\ WrittenBefore(Put("1"), Put("X"))
    /\ WrittenBefore(Put("1"), Put("!")) /\ WrittenBefore(Put("1"), Put("."))

\* Patterns are accepted and ordered for what they match.
PatternsRead == AcceptedCanMatch /\ DigitsFirst
=============================================================================
