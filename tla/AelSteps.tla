------------------------------- MODULE AelSteps -------------------------------
(***************************************************************************)
(* AsteriskDialplanValidator (core/validators.py), one step of the dialplan:*)
(* what kind of step it is taken for, and what is asked of it.  The text   *)
(* that grows in AelText is the argument of the step: of an application, of*)
(* a macro, of a goto, or the value of a variable.  The names are tokens of*)
(* one letter; blanks and the semicolon at the end are left out.           *)
(***************************************************************************)
EXTENDS AelText

\* "Answer" stands for the applications of ASTERISK_APPLICATIONS without a rule of their
\* own, "Wait" for the ones that are not in it.
Applications == {<<"Answer">>, <<"Goto">>}
MacroNames == {<<"m">>}
Keywords == {<<"return">>, <<"break">>, <<"continue">>}
Word == {"a", "x", "V", "Answer", "Goto", "Wait", "m"}

Application(name, text) == <<name, "(">> \o text \o <<")">>
Assignment(name, text) == <<name, "=">> \o text
Jump(text) == <<"goto ">> \o text

At(step, token) == SelectInSeq(step, LAMBDA t : t = token)
Before(step, i) == SubSeq(step, 1, i - 1)
Behind(step, i) == SubSeq(step, i + 1, Len(step))

-----------------------------------------------------------------------------

\* Mutant of Assigns: an equals sign behind ! counts.
AssignsComparing(step, i) == i = Len(step) \/ step[i + 1] # "="

\* The equals sign is not one of a comparison.
Assigns(step, i) ==
  /\ i = Len(step) \/ step[i + 1] # "="
  /\ i = 1 \/ step[i - 1] \notin {"!", "<", ">"}

\* _find_assignment_operator: where the first one outside brackets and quotes is, or 0.
AssignmentAt(text) ==
  LET step(s, i) ==
        LET c == text[i] IN
        IF s.skip THEN [s EXCEPT !.skip = FALSE]
        ELSE IF s.at # 0 THEN s
        ELSE IF s.quote # ""
        THEN IF c = s.quote /\ Ends(text, i) THEN [s EXCEPT !.quote = ""] ELSE s
        ELSE IF c \in Quote THEN [s EXCEPT !.quote = c]
        ELSE IF c \in {"(", "{"} THEN [s EXCEPT !.depth = @ + 1]
        ELSE IF c \in {")", "}"} THEN [s EXCEPT !.depth = @ - 1]
        ELSE IF c = "=" /\ s.depth = 0
        THEN IF Assigns(text, i) THEN [s EXCEPT !.at = i]
             ELSE [s EXCEPT !.skip = i < Len(text) /\ text[i + 1] = "="]
        ELSE s
  IN  FoldLeft(step, [at |-> 0, depth |-> 0, quote |-> "", skip |-> FALSE],
               [i \in 1 .. Len(text) |-> i]).at

\* is_variable_assignment: to its left is the name of a variable.
IsAssignment(step) ==
  LET at == AssignmentAt(step) IN at > 1 /\ \A i \in 1 .. at - 1 : step[i] \in Word

\* is_macro_call: up to the parenthesis it is the name of a macro.
MacroName(step) == IF At(step, "(") = 0 THEN step ELSE Before(step, At(step, "("))
IsMacroCall(step) == MacroName(step) \in MacroNames

\* What is between the first parenthesis and the last character.
Argument(step) == Front(Behind(step, At(step, "(")))

\* Mutant of SomeEmpty: empty parameters are passed on.
SomeEmptyNever(params) == FALSE

\* A parameter with nothing in it.
SomeEmpty(params) == \E i \in DOMAIN params : params[i] = << >>

\* validate_macro_call and validate_macro_parameters.
MacroPasses(step) ==
  At(step, "(") # 0 =>
    /\ Last(step) = ")"
    /\ Argument(step) # << >> =>
         Balanced(Argument(step)) /\ ~SomeEmpty(Parameters(Argument(step)))

\* Mutant of AssignmentPasses: the value is not looked at.
AssignmentPassesAny(step) == TRUE

\* validate_variable_assignment.
AssignmentPasses(step) == Balanced(Behind(step, AssignmentAt(step)))

\* A component of a goto: opaque, quoted, or a word.
HasVariable(part) == \E i \in 1 .. Len(part) - 1 : part[i] = "$" /\ part[i + 1] = "{"
IsQuoted(part) == Len(part) >= 2 /\ part[1] = "dq" /\ Last(part) = "dq"
IsWord(part) == \A i \in DOMAIN part : part[i] \in Word \cup {"."}

\* validate_goto_target.
TargetPasses(target) ==
  LET parts == Parameters(target) IN
  /\ parts # << >> /\ Len(parts) <= 3 /\ ~SomeEmpty(parts)
  /\ \A i \in DOMAIN parts : HasVariable(parts[i]) \/ IsQuoted(parts[i]) \/ IsWord(parts[i])

\* The parameters with commas between them.
Joined(params) == Tail(FoldLeft(LAMBDA s, p : s \o <<",">> \o p, << >>, params))

\* validate_parameters and validate_specific_application_params: nothing is asked of an
\* empty argument, whatever the application.
ParametersPass(name, text) ==
  text # << >> =>
    /\ Balanced(text)
    /\ name = <<"Goto">> => TargetPasses(Joined(Parameters(text)))

\* The application's name is known, its last character closes it.
ApplicationPasses(step) ==
  IF At(step, "(") = 0 THEN step \in Applications
  ELSE LET name == Before(step, At(step, "(")) IN
       /\ name \in Applications
       /\ Last(step) = ")"
       /\ ParametersPass(name, Argument(step))

\* validate_dialplan_step and parse_application_call: the kinds are tried in this order.
StepAccepted(step) ==
  IF step = << >> THEN FALSE
  ELSE IF IsMacroCall(step) THEN MacroPasses(step)
  ELSE IF IsAssignment(step) THEN AssignmentPasses(step)
  ELSE IF step \in Keywords THEN TRUE
  ELSE IF step[1] = "goto " THEN TargetPasses(Tail(step))
  ELSE ApplicationPasses(step)

-----------------------------------------------------------------------------
(* Properties *)

\* An application or a macro is accepted with a balanced argument only, whatever kind
\* the argument makes of the step.
ArgumentsBalanced ==
  \A name \in {"Answer", "Goto", "m", "Wait", "V"} :
    StepAccepted(Application(name, chars)) =>
      Balanced(chars) /\ name \in {"Answer", "Goto", "m"}

\* A goto and the application Goto go to the same places: what one accepts as a balanced
\* target the other accepts, although Goto takes the target apart and puts it together
\* again before it is looked at.  (Not so with commas at its end: of two, the first is
\* lost by each time that it is taken apart.)
GotoEitherWay ==
  chars # << >> /\ Balanced(chars) /\ Last(chars) # "," =>
    (StepAccepted(Application("Goto", chars)) <=> StepAccepted(Jump(chars)))

\* A value is assigned exactly when it is balanced, even one that compares.
ValuesBalanced ==
  chars = << >> \/ chars[1] # "=" => (StepAccepted(Assignment("V", chars)) <=> Balanced(chars))

\* A component of a target that the lexer takes apart is not accepted: each is a word, a
\* string, or has a variable in it; but for a comma at its end nothing is lost.
TargetsAreWords ==
  StepAccepted(Jump(chars)) /\ (\A i \in DOMAIN chars : chars[i] \notin {"$", "dq"}) =>
    /\ \A i \in DOMAIN chars : chars[i] \in Word \cup {".", ","}
    /\ \A i \in 1 .. Len(chars) - 1 : chars[i] = "," => i > 1 /\ chars[i + 1] # ","

\* A macro is given no empty parameter, but perhaps the last.
MacroParametersFull ==
  StepAccepted(Application("m", chars)) /\ chars # << >> =>
    /\ chars[1] # ","
    /\ \A i \in 2 .. Len(chars) - 1 :
         chars[i] = "," /\ chars[i + 1] = "," => \E j \in 1 .. i - 1 : chars[j] \in Opening \cup Quote

\* What is accepted as a step is what it is taken for.
StepsRead ==
  /\ ArgumentsBalanced /\ GotoEitherWay /\ ValuesBalanced /\ TargetsAreWords
  /\ MacroParametersFull
=============================================================================
