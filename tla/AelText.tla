------------------------------- MODULE AelText -------------------------------
(***************************************************************************)
(* AsteriskDialplanValidator (core/validators.py), character by character: *)
(* the scans of one step for balanced brackets, for its parameters, for a  *)
(* condition's closing parenthesis and for structural braces.  Each scan   *)
(* keeps its own idea of quotes and depth; the properties say where they   *)
(* agree.  A text grows by one character; all other characters are "a".    *)
(***************************************************************************)
EXTENDS Integers, Sequences, FiniteSets, SequencesExt

CONSTANTS
  Char,     \* the characters that are typed
  MaxChars  \* bound: characters of a text

ASSUME CharsAssumption == MaxChars \in Nat

VARIABLE chars  \* the text between an application's parentheses

Quote == {"'", "dq"}  \* dq: the double quote
Opening == {"(", "[", "{"}
Closing == {")", "]", "}"}
Pair == [c \in Opening |-> CASE c = "(" -> ")" [] c = "[" -> "]" [] OTHER -> "}"]

-----------------------------------------------------------------------------

\* Mutant of Popped: any closing bracket closes the last one.
PoppedAny(stack, c) == stack # << >>

\* The closing bracket is that of the last one open.
Popped(stack, c) == stack # << >> /\ Pair[Last(stack)] = c

\* check_balanced_brackets_and_quotes: a stack of brackets, outside quotes.
BalanceStep(s, c) ==
  IF ~s.ok THEN s
  ELSE IF c \in Quote /\ s.quote = "" THEN [s EXCEPT !.quote = c]
  ELSE IF c = s.quote THEN [s EXCEPT !.quote = ""]
  ELSE IF s.quote # "" THEN s
  ELSE IF c \in Opening THEN [s EXCEPT !.stack = Append(@, c)]
  ELSE IF c \in Closing
  THEN IF Popped(s.stack, c) THEN [s EXCEPT !.stack = Front(@)] ELSE [s EXCEPT !.ok = FALSE]
  ELSE s

Balanced(text) ==
  LET end == FoldLeft(BalanceStep, [ok |-> TRUE, stack |-> << >>, quote |-> ""], text)
  IN  end.ok /\ end.stack = << >> /\ end.quote = ""

\* The levels of parse_parameters: one for each kind of bracket.
Leveled(level, c) ==
  [b \in Opening |-> level[b] + (IF c = b THEN 1 ELSE IF c = Pair[b] THEN -1 ELSE 0)]

\* Mutant of AtTop: only parentheses are looked at.
AtTopOfParens(level) == level["("] = 0

AtTop(level) == \A b \in Opening : level[b] = 0

\* parse_parameters: split at the commas outside brackets and quotes.
ParamStep(s, c) ==
  IF c \in Quote /\ s.quote = ""
  THEN [s EXCEPT !.quote = c, !.current = Append(@, c)]
  ELSE IF c = s.quote
  THEN [s EXCEPT !.quote = "", !.current = Append(@, c)]
  ELSE IF s.quote = "" /\ c = "," /\ AtTop(s.level)
  THEN [s EXCEPT !.params = Append(@, s.current), !.current = << >>]
  ELSE [s EXCEPT !.current = Append(@, c),
                 !.level = IF s.quote = "" THEN Leveled(@, c) ELSE @]

\* Mutant of LastParam: the last parameter is forgotten.
LastParamLost(s) == s.params

\* What follows the last comma is a parameter unless it is empty.
LastParam(s) == IF s.current = << >> THEN s.params ELSE Append(s.params, s.current)

Parameters(text) ==
  LastParam(FoldLeft(ParamStep,
    [params |-> << >>, current |-> << >>, quote |-> "",
     level |-> [b \in Opening |-> 0]], text))

\* A quote inside a string ends it unless a backslash is right before it.
Ends(text, i) == i > 1 /\ text[i - 1] # "\\"

\* Mutant of Closed: the first closing parenthesis will do.
ClosedAtOnce(depth) == TRUE

\* The closing parenthesis is that of the first opening one.
Closed(depth) == depth = 1

\* _find_matching_paren: where the parenthesis at the beginning is closed, or 0.
MatchingParen(text) ==
  LET step(s, i) ==
        LET c == text[i] IN
        IF s.at # 0 THEN s
        ELSE IF s.quote = "" /\ c \in Quote THEN [s EXCEPT !.quote = c]
        ELSE IF s.quote # ""
        THEN IF c = s.quote /\ Ends(text, i) THEN [s EXCEPT !.quote = ""] ELSE s
        ELSE IF c = "(" THEN [s EXCEPT !.depth = @ + 1]
        ELSE IF c = ")"
        THEN [s EXCEPT !.depth = @ - 1, !.at = IF Closed(s.depth) THEN i ELSE 0]
        ELSE s
  IN  IF text = << >> \/ text[1] # "(" THEN 0
      ELSE FoldLeft(step, [at |-> 0, depth |-> 0, quote |-> ""],
                    [i \in 1 .. Len(text) |-> i]).at

\* validate_condition_expression: parentheses and braces are counted outside quotes,
\* which no backslash escapes.
ConditionCounts(text) ==
  LET step(s, c) ==
        IF c \in Quote /\ s.quote = "" THEN [s EXCEPT !.quote = c]
        ELSE IF c = s.quote THEN [s EXCEPT !.quote = ""]
        ELSE IF s.quote # "" THEN s
        ELSE [s EXCEPT !.parens = @ + (IF c = "(" THEN 1 ELSE IF c = ")" THEN -1 ELSE 0),
                       !.braces = @ + (IF c = "{" THEN 1 ELSE IF c = "}" THEN -1 ELSE 0)]
  IN  FoldLeft(step, [parens |-> 0, braces |-> 0, quote |-> ""], text)

\* Mutant of OfVariable: the brace that ends a variable is counted.
OfVariableNever(vars) == FALSE

\* A closing brace is a variable's as long as one is open.
OfVariable(vars) == vars > 0

\* _count_structural_braces: not those in quotes, nor those of a variable's ${}.
StructuralBraces(text) ==
  LET step(s, i) ==
        LET c == text[i] IN
        IF s.skip THEN [s EXCEPT !.skip = FALSE]
        ELSE IF s.quote = "" /\ c \in Quote THEN [s EXCEPT !.quote = c]
        ELSE IF s.quote # ""
        THEN IF c = s.quote /\ Ends(text, i) THEN [s EXCEPT !.quote = ""] ELSE s
        ELSE IF c = "$" /\ i < Len(text) /\ text[i + 1] = "{"
        THEN [s EXCEPT !.vars = @ + 1, !.skip = TRUE]
        ELSE IF c = "}" /\ OfVariable(s.vars) THEN [s EXCEPT !.vars = @ - 1]
        ELSE IF c = "{" /\ s.vars = 0 THEN [s EXCEPT !.count = @ + 1]
        ELSE IF c = "}" THEN [s EXCEPT !.count = @ - 1]
        ELSE s
  IN  FoldLeft(step, [count |-> 0, vars |-> 0, quote |-> "", skip |-> FALSE],
               [i \in 1 .. Len(text) |-> i]).count

TextInit == chars = << >>

\* One more character is typed.
TypeChar(c) == Len(chars) < MaxChars /\ chars' = Append(chars, c)

TextNext == \E c \in Char : TypeChar(c)

-----------------------------------------------------------------------------
(* Properties, against definitions that scan nothing.                          *)

\* The quote of the string that is open after each character, or "".
Quoted(text) ==
  LET inside[i \in 0 .. Len(text)] ==
        IF i = 0 THEN ""
        ELSE IF inside[i - 1] = "" THEN IF text[i] \in Quote THEN text[i] ELSE ""
        ELSE IF text[i] = inside[i - 1] THEN "" ELSE inside[i - 1]
  IN  inside

\* The brackets of the text that are not quoted.
Brackets(text) ==
  {i \in 1 .. Len(text) :
     text[i] \in Opening \cup Closing /\ Quoted(text)[i - 1] = "" /\ Quoted(text)[i] = ""}

\* The brackets pair off, each with one of its kind, and what is between them is even
\* in every kind.
PairedOff(text) ==
  LET B == Brackets(text)
      Good(i, j) ==
        /\ text[i] \in Opening /\ text[j] = Pair[text[i]] /\ i < j
        /\ \A c \in Opening :
             LET In(x) == {k \in B : i < k /\ k < j /\ text[k] = x}
             IN  Cardinality(In(c)) = Cardinality(In(Pair[c]))
  IN  /\ \A i \in B : \E j \in B : Good(i, j) \/ Good(j, i)
      /\ Quoted(text)[Len(text)] = ""

Plain(text) == \A i \in 1 .. Len(text) : text[i] # "\\"

\* What is accepted as balanced is: every bracket outside quotes has its partner.
BalancedPairs == Balanced(chars) => PairedOff(chars)

\* The split loses nothing and adds nothing: put together again, the parameters of a
\* balanced text are the text, but for a comma at its end.
ParametersKept ==
  Balanced(chars) =>
    LET params == Parameters(chars)
        joined == FoldLeft(LAMBDA s, p : s \o <<",">> \o p, << >>, params)
        text == <<",">> \o chars
    IN  joined = text \/ (joined \o <<",">> = text)

\* Each parameter of a balanced text is balanced by itself: a split never cuts through
\* a bracket or a string, although it counts levels and the other scan keeps a stack.
ParametersWhole ==
  Balanced(chars) => \A i \in 1 .. Len(Parameters(chars)) : Balanced(Parameters(chars)[i])

\* Where the text has no backslash, what the block parser takes for the condition has
\* its parentheses balanced and its strings closed: the two scans see the same strings.
ConditionWhole ==
  LET end == MatchingParen(chars) IN
  Plain(chars) /\ end # 0 =>
    LET counts == ConditionCounts(SubSeq(chars, 2, end - 1))
    IN  counts.parens = 0 /\ counts.quote = ""

\* A step adds nothing to the braces of the block around it, if its braces are those of
\* variables, nested or not, and it is balanced and has no backslash.  (A bare brace
\* inside a variable's would be lost count of: ${{}} is -1.)
BracesNeutral ==
  /\ Balanced(chars) /\ Plain(chars)
  /\ \A i \in 1 .. Len(chars) : chars[i] = "{" => i > 1 /\ chars[i - 1] = "$"
  => StructuralBraces(chars) = 0

\* The validator's scans of one text agree with each other and with the text.
TextRead ==
  BalancedPairs /\ ParametersKept /\ ParametersWhole /\ ConditionWhole /\ BracesNeutral
=============================================================================
