------------------------------ MODULE AelBlocks ------------------------------
(***************************************************************************)
(* AsteriskDialplanValidator (core/validators.py), line by line: how the   *)
(* text of an extension is taken for steps and blocks before it is saved.  *)
(* The text grows by one line of any kind; a line is known by what the     *)
(* validator's tests tell apart: the braces it counts, whether it looks    *)
(* like the start of a block or of an else, and whether what is checked of *)
(* it passes.                                                              *)
(***************************************************************************)
EXTENDS Integers, Sequences

CONSTANTS
  Typed,    \* the kinds of lines that are typed
  MaxLines  \* bound: lines of a text

\* A line: the braces in it as _count_structural_braces adds them up, whether
\* is_block_start takes it, whether it starts with "else", and whether it passes what
\* would be checked of it, as a header or as a step; then what AEL makes of it: whether
\* it is sound, what its braces add to the depth, and how far they go below it first.
L(count, start, else, valid, sound, adds, dips) ==
  [count |-> count, start |-> start, else |-> else, valid |-> valid,
   sound |-> sound, adds |-> adds, dips |-> dips]

Lines ==
  [step   |-> L(0, FALSE, FALSE, TRUE, TRUE, 0, 0),      \* NoOp(x);
   bad    |-> L(0, FALSE, FALSE, FALSE, FALSE, 0, 0),    \* NoOp(x)
   noted  |-> L(0, FALSE, FALSE, FALSE, TRUE, 0, 0),     \* NoOp(x); // why
   if     |-> L(1, TRUE, FALSE, TRUE, TRUE, 1, 0),       \* if (x) {
   badif  |-> L(1, TRUE, FALSE, FALSE, FALSE, 1, 0),     \* if () {
   loose  |-> L(1, TRUE, FALSE, TRUE, FALSE, 1, 0),      \* if (x) garbage {
   oneif  |-> L(0, TRUE, FALSE, TRUE, TRUE, 0, 0),       \* if (x) { NoOp(x); }
   badone |-> L(0, TRUE, FALSE, TRUE, FALSE, 0, 0),      \* if (x) { NoOp(x) }
   else   |-> L(1, TRUE, TRUE, TRUE, TRUE, 1, 0),        \* else {
   orelse |-> L(0, TRUE, FALSE, TRUE, TRUE, 0, 1),       \* } else {
   badelse |-> L(0, TRUE, FALSE, TRUE, FALSE, 0, 1),     \* } garbage else {
   elif   |-> L(0, FALSE, TRUE, FALSE, TRUE, 0, 0),      \* else NoOp(x);
   switch |-> L(1, FALSE, FALSE, FALSE, TRUE, 1, 0),     \* switch (x) {
   close  |-> L(-1, FALSE, FALSE, TRUE, TRUE, -1, 1),    \* }
   badclose |-> L(-1, FALSE, FALSE, FALSE, FALSE, -1, 1), \* NoOp(x) }
   opens  |-> L(1, FALSE, FALSE, TRUE, TRUE, 0, 0),      \* // {
   closes |-> L(-1, FALSE, FALSE, TRUE, TRUE, 0, 0)]     \* // }

ASSUME LinesAssumption == Typed \subseteq DOMAIN Lines /\ MaxLines \in Nat

VARIABLE lines  \* the lines of the text that are not empty

-----------------------------------------------------------------------------

Line(i) == Lines[lines[i]]
Refused == 0
After == Len(lines) + 1

\* After a block, a line that starts with "else" continues it.
Chained(i) == i < After /\ Line(i).else

\* Mutant of Unbalanced: the end of the text closes the block.
UnbalancedNever(open) == FALSE

\* The loop over a block's lines has stopped with its braces not balanced.
Unbalanced(open) == open # 0

\* Mutant of Counted: the braces of a nested block are counted again.
CountedTwice(i, open) == open + Line(i).count

\* What a line adds to the braces of the block around it; a nested block is parsed on
\* its own and adds nothing.
Counted(i, open) == IF Line(i).start THEN open ELSE open + Line(i).count

\* Mutant of StepPasses: in a block, a step is not looked at.
StepPassesInside(i, open) == open > 0 \/ Line(i).valid

\* The step on line i is validated; the line with the block's last brace is not.
StepPasses(i, open) == open < 1 \/ Line(i).valid

\* parse_block: from line i with so many open braces, the index after the block, or
\* Refused.  A block starts at <<i + 1, its braces>>, its header checked.
Block ==
  LET Start(parse, i) ==
        IF Line(i).valid THEN parse[i + 1][Line(i).count] ELSE Refused
      parse[i \in 1 .. After] == [open \in Int |->
        IF open <= 0 \/ i = After
        THEN IF Unbalanced(open) THEN Refused
             ELSE IF Chained(i) THEN Start(parse, i) ELSE i
        ELSE IF Line(i).start
        THEN LET next == Start(parse, i)
             IN  IF next = Refused THEN Refused ELSE parse[next][Counted(i, open)]
        ELSE IF StepPasses(i, Counted(i, open))
        THEN parse[i + 1][Counted(i, open)]
        ELSE Refused]
  IN  [i \in 1 .. Len(lines) |-> Start(parse, i)]

\* parse_block_structure: blocks and steps, up to the end.
Accepted ==
  LET block == Block
      parse[i \in 0 .. After] ==
        IF i = Refused THEN FALSE
        ELSE IF i = After THEN TRUE
        ELSE IF Line(i).start THEN parse[block[i]]
        ELSE Line(i).valid /\ parse[i + 1]
  IN  lines # << >> /\ parse[1]

BlocksInit == lines = << >>

\* One more line is typed.
TypeLine(kind) ==
  /\ Len(lines) < MaxLines
  /\ lines' = Append(lines, kind)

BlocksNext == \E kind \in Typed : TypeLine(kind)

-----------------------------------------------------------------------------
(* Properties, against what AEL makes of the braces.                           *)

\* How deep the text is after each of its lines.
Depth ==
  LET depth[i \in 0 .. Len(lines)] ==
        IF i = 0 THEN 0 ELSE depth[i - 1] + Line(i).adds
  IN  depth

\* No brace closes more than the text has opened.
NeverBelow == \A i \in 1 .. Len(lines) : Depth[i - 1] >= Line(i).dips

Commented == \E i \in 1 .. Len(lines) : lines[i] \in {"opens", "closes"}

\* A text whose braces never close more than it has opened, and that has none in its
\* comments, is accepted only with every block closed: the extension's own brace stays
\* the last one, after any nesting and any chain of else.
NothingLeftOpen ==
  Accepted /\ ~Commented /\ NeverBelow => Depth[Len(lines)] = 0

\* What is wrong in an accepted text shares its line with a brace: it is in the line
\* that closes a block, or behind a header that is in order (parse_block,
\* validate_block_header).  No step on a line of its own and no condition is passed
\* over, however deep it is.
EveryLineRead ==
  Accepted => \A i \in 1 .. Len(lines) :
    ~Line(i).sound => Line(i).dips > 0 \/ (Line(i).start /\ Line(i).valid)

\* The text is a sequence of steps and blocks, of lines that the validator takes and
\* AEL too, its braces match, and an else follows a block.
WellFormed ==
  /\ lines # << >> /\ ~Commented
  /\ \A i \in 1 .. Len(lines) :
       /\ Line(i).valid /\ Line(i).sound
       /\ lines[i] = "else" => i > 1 /\ lines[i - 1] \in {"close", "oneif"}
  /\ NeverBelow /\ Depth[Len(lines)] = 0

\* Such a text is not refused, however its blocks are nested and chained.  (A switch, a
\* step with a comment behind it and an else without braces are refused, though
\* Asterisk would load them: "switch", "noted", "elif".)
WellFormedAccepted == WellFormed => Accepted

\* What the validator makes of blocks, against what AEL makes of them.
BlocksRead == NothingLeftOpen /\ EveryLineRead /\ WellFormedAccepted
=============================================================================
