------------------------------- MODULE Scanner -------------------------------
(***************************************************************************)
(* scanner_get_token of scanner.c: the automaton that cuts the source code *)
(* into tokens, one action per turn of its loop, and the test of the EOL   *)
(* rule on the first character that is not a space.                        *)
(*                                                                         *)
(* The source code is any sequence of at most source.length characters of  *)
(* source.alphabet, chosen one by one as they are read. The states keep    *)
(* the names of the code without STATE_, except that those of the          *)
(* operators are one, OPERATOR, with the operator in mutable_string, and   *)
(* those of the three bases one BASE, the base being the second character  *)
(* of mutable_string.                                                      *)
(*                                                                         *)
(* Left out: line and column numbers, the carriage return that             *)
(* get_next_char drops, running out of memory, errors of the input stream  *)
(* and the values of floats (whether one is out of range is a choice).     *)
(***************************************************************************)
EXTENDS LexicalGrammar

CONSTANTS
  Sources,     \* the kinds of source code: records [alphabet, length]
  MAX_INT      \* the largest integer literal, LLONG_MAX in the code

VARIABLES
  source,            \* the kind of source code this is
  chars_read,        \* how much of it has been read
  read_char,         \* static: the last character read, "NUL" (EMPTY_CHAR) if it is used up
  next_char_result,  \* static: what get_next_char said of it
  in_call,           \* whether scanner_get_token runs
  eol_rule,          \* its argument
  automaton_state,
  scanner_result,
  mutable_string,
  token,             \* its other argument
  char_num,          \* token->context.char_num: where in text the lexeme starts
  text,              \* history: the characters the call has looked at
  refused,           \* history: the characters a lexical error was reported for
  reported           \* whether a lexical error has been reported (stderr_message)

scannerVars == <<source, chars_read, read_char, next_char_result, in_call, eol_rule,
                 automaton_state, scanner_result, mutable_string, token,
                 char_num, text, refused, reported>>

EolRules == {"FORBIDDEN", "REQUIRED", "OPTIONAL"}
NoToken == [type |-> "DEFAULT", data |-> <<>>, eol_read |-> FALSE]

-----------------------------------------------------------------------------
(* What one character does in one state: the next state, the string read   *)
(* so far, whether the character is used up, and the token or the error.   *)

Outcome == [state |-> automaton_state, string |-> mutable_string, used |-> TRUE,
            type |-> "DEFAULT", data |-> <<>>, result |-> "none", error |-> FALSE]

Eat(s, str) == [Outcome EXCEPT !.state = s, !.string = str]
Skip(s) == Eat(s, mutable_string)
Keep(s) == [Outcome EXCEPT !.state = s, !.used = FALSE]
Done(t, d) == [Outcome EXCEPT !.type = t, !.data = d, !.used = FALSE]
OutOfRange(t, d) == [Done(t, d) EXCEPT !.result = "NUMBER_OVERFLOW", !.error = TRUE]
(* Mutant: the largest literal is out of range, too. *)
DoneIntBelow(n) == IF n >= MAX_INT THEN OutOfRange("INT", <<MAX_INT>>) ELSE Done("INT", <<n>>)

DoneInt(n) == IF n > MAX_INT THEN OutOfRange("INT", <<MAX_INT>>) ELSE Done("INT", <<n>>)
Invalid == [Outcome EXCEPT !.result = "INVALID_STATE", !.error = TRUE, !.used = FALSE]

And(c) == Append(mutable_string, c)

\* The first character of a token.
FirstChar(s, c) ==
  CASE c \in {"NL", "TAB", "SP", "EOF", "NUL"} -> {Skip(s)}
    [] c \in Letters \cup {"_"} -> {Eat("ID", And(c))}
    [] c = "0" -> {Eat("ZERO", And(c))}
    [] c \in Digits \ {"0"} -> {Eat("INT", And(c))}
    [] c = "QUOTE" -> {Skip("STRING")}
    [] c \in Operators -> {Eat("OPERATOR", <<c>>)}
    [] OTHER -> {[Invalid EXCEPT !.state = s, !.used = TRUE]}

(* Mutant: digits end an identifier. *)
IdentifierOfLetters(s, c) ==
  IF c \in IdChars \ Digits THEN {Eat("ID", And(c))} ELSE {Done("ID", mutable_string)}

Identifier(s, c) ==
  IF c \in IdChars THEN {Eat("ID", And(c))}
  ELSE {Done(CASE mutable_string \in Keywords -> "KEYWORD"
               [] mutable_string \in BoolValues -> "BOOL"
               [] OTHER -> "ID", mutable_string)}

\* A literal written in base 2, 8 or 16, after its prefix.
BasedNumber(s, c) ==
  LET base == BasePrefix[mutable_string[2]]
      value == ValueOf(base, SubSeq(mutable_string, 3, Len(mutable_string)))
  IN CASE c \in DigitsOf(base) ->
            {IF s = "BASE_UNDERSCORE" THEN Keep("BASE_NUMBER") ELSE Eat("BASE_NUMBER", And(c))}
       [] c = "_" /\ s # "BASE_UNDERSCORE" -> {Skip("BASE_UNDERSCORE")}
       [] c \notin DigitsOf(base) /\ c # "_" /\ s = "BASE_NUMBER" -> {DoneInt(value)}
       [] OTHER -> {Invalid}

DecimalNumber(s, c) ==
  CASE c \in Digits /\ s = "INT_UNDERSCORE" -> {Keep("INT")}
    [] c \in Digits /\ s = "FLOAT_UNDERSCORE" -> {Keep("FLOAT")}
    [] c \in Digits /\ s = "FLOAT_EXPONENT_UNDERSCORE" -> {Keep("FLOAT_EXPONENT")}
    [] c \in Digits /\ s \in {"FLOAT_EXP_CHAR", "FLOAT_EXP_SIGN_CHAR"} ->
         {Eat("FLOAT_EXPONENT", And(c))}
    [] c \in Digits /\ s \in {"FLOAT_DOT", "FLOAT"} -> {Eat("FLOAT", And(c))}
    [] c \in Digits /\ s \in {"INT", "FLOAT_EXPONENT"} -> {Eat(s, And(c))}
    [] c = "e" /\ s \in {"INT", "FLOAT"} -> {Eat("FLOAT_EXP_CHAR", And(c))}
    [] c = "." /\ s = "INT" -> {Eat("FLOAT_DOT", And(c))}
    [] c = "_" /\ s = "INT" -> {Skip("INT_UNDERSCORE")}
    [] c = "_" /\ s = "FLOAT" -> {Skip("FLOAT_UNDERSCORE")}
    [] c = "_" /\ s = "FLOAT_EXPONENT" -> {Skip("FLOAT_EXPONENT_UNDERSCORE")}
    [] c \in {"+", "-"} /\ s = "FLOAT_EXP_CHAR" -> {Eat("FLOAT_EXP_SIGN_CHAR", And(c))}
    [] c \notin Digits \cup {"e", ".", "_"} /\ s = "INT" ->
         {DoneInt(ValueOf(10, mutable_string))}
    [] \/ s = "FLOAT" /\ c \notin Digits \cup {"e", "_"}
       \/ s = "FLOAT_EXPONENT" /\ c \notin Digits \cup {"_"} ->
         {Done("FLOAT", <<>>), OutOfRange("FLOAT", <<>>)}
    [] OTHER -> {Invalid}

\* A zero may start a literal in any base; alone it is the integer 0.
Zero(s, c) ==
  CASE s = "ZERO_UNDERSCORE" -> {IF c \in Digits THEN Keep("ZERO") ELSE Invalid}
    [] s = "ZERO" /\ c \in DOMAIN BasePrefix -> {Eat("BASE_PREFIX", And(c))}
    [] s = "ZERO" /\ c \in DigitsOf(8) ->
         {[Keep("BASE_PREFIX") EXCEPT !.string = And("o")]}
    [] s = "ZERO" /\ c = "." -> {Eat("FLOAT_DOT", And(c))}
    [] s = "ZERO" /\ c = "_" -> {Skip("ZERO_UNDERSCORE")}
    [] s = "ZERO" /\ c \in Digits \ DigitsOf(8) -> {Invalid}
    [] OTHER -> {Done("INT", <<0>>)}

\* The comments share their first character with an operator.
Operator(s, c) ==
  CASE mutable_string = <<"/">> /\ c = "/" -> {Eat("ONELINE_COMMENT", <<>>)}
    [] mutable_string = <<"/">> /\ c = "*" -> {Eat("MULTILINE_COMMENT", <<>>)}
    [] And(c) \in LongOperators -> {Eat("OPERATOR", And(c))}
    [] mutable_string \in {<<":">>, <<"&">>, <<"|">>} -> {Invalid}
    [] OTHER -> {Done("OPERATOR", mutable_string)}

(* Mutant: the end of the file inside a comment goes unnoticed. *)
CommentMayEndFile(s, c) ==
  CASE s = "ONELINE_COMMENT" -> {Skip(IF c = "NL" THEN "EOL_RESOLVED" ELSE s)}
    [] s = "MULTILINE_COMMENT" ->
         {Skip(IF c = "*" THEN "ASTERISK_IN_MULTILINE_COMMENT"
               ELSE IF c = "EOF" THEN "END_OF_MULTILINE_COMMENT" ELSE s)}
    [] s = "ASTERISK_IN_MULTILINE_COMMENT" ->
         {Skip(IF c = "/" THEN "END_OF_MULTILINE_COMMENT" ELSE "MULTILINE_COMMENT")}

Comment(s, c) ==
  CASE s = "ONELINE_COMMENT" ->
         {Skip(IF c = "NL" THEN "EOL_RESOLVED" ELSE "ONELINE_COMMENT")}
    [] s = "MULTILINE_COMMENT" ->
         IF c = "*" THEN {Skip("ASTERISK_IN_MULTILINE_COMMENT")}
         ELSE IF c = "EOF" THEN {[Skip("END_OF_MULTILINE_COMMENT") EXCEPT !.error = TRUE]}
         ELSE {Skip("MULTILINE_COMMENT")}
    [] s = "ASTERISK_IN_MULTILINE_COMMENT" ->
         {Skip(IF c = "/" THEN "END_OF_MULTILINE_COMMENT" ELSE "MULTILINE_COMMENT")}

StringInvalid == [Skip("STRING_INVALID") EXCEPT !.error = TRUE]

(* Mutant: one escape sequence is forgotten. *)
EscapesButNewLine == [t |-> "TAB", QUOTE |-> "QUOTE", BSL |-> "BSL"]

Escapes == [n |-> "NL", t |-> "TAB", QUOTE |-> "QUOTE", BSL |-> "BSL"]

StringChar(s, c) ==
  CASE s = "STRING" ->
         IF c = "QUOTE" THEN {[Done("STRING", mutable_string) EXCEPT !.used = TRUE]}
         ELSE IF c = "BSL" THEN {Skip("ESCAPE_CHARACTER_IN_STRING")}
         ELSE IF c \in {"NL", "EOF", "TAB", "CTRL", "NUL"} THEN {StringInvalid}
         ELSE {Eat("STRING", And(c))}
    [] s = "ESCAPE_CHARACTER_IN_STRING" ->
         IF c = "x" THEN {Skip("ESCAPE_HEXA_IN_STRING")}
         ELSE IF c \in DOMAIN Escapes THEN {Eat("STRING", And(Escapes[c]))}
         ELSE {StringInvalid}
    [] s = "ESCAPE_HEXA_IN_STRING" ->
         IF c \in HexDigits THEN {Eat("ESCAPE_HEXA_ONE_IN_STRING", And(c))}
         ELSE {[StringInvalid EXCEPT !.used = FALSE]}
    [] s = "ESCAPE_HEXA_ONE_IN_STRING" ->
         IF c \in HexDigits
         THEN {Eat("STRING", Append(Front(mutable_string), <<Last(mutable_string), c>>))}
         ELSE {[StringInvalid EXCEPT !.used = FALSE]}
    [] s = "STRING_INVALID" ->
         IF c = "QUOTE"
         THEN {[Outcome EXCEPT !.type = "STRING", !.result = "INVALID_STATE"]}
         ELSE {Skip("STRING_INVALID")}

-----------------------------------------------------------------------------
(* The EOL rule *)

handle_eol_rule(rule, c) ==
  CASE rule = "FORBIDDEN" /\ c = "NL" -> "EXCESS_EOL"
    [] rule = "REQUIRED" /\ c # "NL" -> "MISSING_EOL"
    [] rule = "OPTIONAL" /\ c = "NL" -> "OPTIONAL_EOL"
    [] OTHER -> "SUCCESS"

TestsEol(c) == /\ automaton_state \in {"DEFAULT", "ONELINE_COMMENT", "END_OF_MULTILINE_COMMENT"}
               /\ c \notin {"SP", "TAB"}

EolRead(c) == token.eol_read \/ (TestsEol(c) /\ c = "NL")

ResultAfterEolTest(c, so_far) ==
  LET rule_result == handle_eol_rule(eol_rule, c)
      after_comment == automaton_state = "END_OF_MULTILINE_COMMENT"
  IN CASE ~TestsEol(c) -> so_far
       [] after_comment /\ EolRead(c) /\ rule_result = "MISSING_EOL" -> "SUCCESS"
       [] rule_result \in {"EXCESS_EOL", "MISSING_EOL"} -> rule_result
       [] automaton_state = "ONELINE_COMMENT" /\ c = "NL" /\ rule_result = "SUCCESS" -> "SUCCESS"
       [] after_comment /\ rule_result = "SUCCESS" /\ so_far = "MISSING_EOL" -> "SUCCESS"
       [] OTHER -> so_far

StateAfterEolTest(c) ==
  IF TestsEol(c) /\ automaton_state # "ONELINE_COMMENT" THEN "EOL_RESOLVED"
                                                       ELSE automaton_state

-----------------------------------------------------------------------------
ScannerInit ==
  /\ source \in Sources
  /\ chars_read = 0
  /\ read_char = "NUL"
  /\ next_char_result = "SUCCESS"
  /\ in_call = FALSE
  /\ eol_rule = "OPTIONAL"
  /\ automaton_state = "DEFAULT"
  /\ scanner_result = "SUCCESS"
  /\ mutable_string = <<>>
  /\ token = NoToken
  /\ text = <<>>
  /\ char_num = 0
  /\ refused = <<>>
  /\ reported = FALSE

\* scanner_get_token(&token, rule) is called.
Call(rule) ==
  /\ ~in_call
  /\ in_call' = TRUE
  /\ eol_rule' = rule
  /\ automaton_state' = "DEFAULT"
  /\ scanner_result' = "SUCCESS"
  /\ mutable_string' = <<>>
  /\ token' = NoToken
  /\ text' = IF read_char = "NUL" THEN <<>> ELSE <<read_char>>
  /\ char_num' = 0
  /\ refused' = <<>>
  /\ UNCHANGED <<source, chars_read, read_char, next_char_result, reported>>

\* The top of the loop when the end of the file has been read before.
ReturnEof ==
  /\ in_call
  /\ next_char_result = "EOF"
  /\ read_char' = "NUL"
  /\ next_char_result' = "SUCCESS"
  /\ in_call' = FALSE
  /\ scanner_result' = "EOF"
  /\ UNCHANGED <<source, chars_read, eol_rule, automaton_state, mutable_string, token,
                 char_num, text, refused, reported>>

(* Mutant: the source never ends. *)
CharsWithoutEnd == IF read_char # "NUL" THEN {read_char} ELSE {"EOF"} \cup source.alphabet

\* Once the end of the file has been read, nothing else is.
NextChars == IF read_char # "NUL" THEN {read_char}
             ELSE {"EOF"} \cup (IF chars_read < source.length THEN source.alphabet ELSE {})

FirstCharStates == {"DEFAULT", "EOL_RESOLVED", "END_OF_MULTILINE_COMMENT"}

\* One turn of the loop that, after the EOL test, is in one of `states'.
Turn(states, Resolve(_, _)) ==
  /\ in_call
  /\ next_char_result # "EOF"
  /\ \E c \in NextChars :
       LET state == StateAfterEolTest(c)
           seen == IF read_char = "NUL" THEN Append(text, c) ELSE text
           start == IF state \in FirstCharStates THEN Len(seen) ELSE char_num
           at_eof == read_char = "NUL" /\ c = "EOF"
           tested == ResultAfterEolTest(c, IF at_eof THEN "EOF" ELSE scanner_result)
       IN /\ state \in states
          /\ \E out \in Resolve(state, c) :
               /\ scanner_result' = IF out.result = "none" THEN tested ELSE out.result
               /\ in_call' = (out.type = "DEFAULT" /\ out.result = "none")
               /\ automaton_state' = out.state
               /\ mutable_string' = out.string
               /\ token' = [type |-> out.type, data |-> out.data, eol_read |-> EolRead(c)]
               /\ read_char' = IF out.used THEN "NUL" ELSE c
               /\ reported' = (reported \/ out.error)
               /\ refused' = IF out.error THEN SubSeq(seen, start, Len(seen)) ELSE refused
          /\ text' = seen
          /\ char_num' = start
          /\ next_char_result' = IF at_eof THEN "EOF" ELSE next_char_result
          /\ chars_read' = IF at_eof THEN source.length
                           ELSE IF read_char = "NUL" THEN chars_read + 1 ELSE chars_read
  /\ UNCHANGED <<source, eol_rule>>

NumberStates == {"INT", "INT_UNDERSCORE", "FLOAT", "FLOAT_UNDERSCORE", "FLOAT_DOT",
                 "FLOAT_EXP_CHAR", "FLOAT_EXP_SIGN_CHAR", "FLOAT_EXPONENT",
                 "FLOAT_EXPONENT_UNDERSCORE"}
CommentStates == {"ONELINE_COMMENT", "MULTILINE_COMMENT", "ASTERISK_IN_MULTILINE_COMMENT"}
StringStates == {"STRING", "STRING_INVALID", "ESCAPE_CHARACTER_IN_STRING",
                 "ESCAPE_HEXA_IN_STRING", "ESCAPE_HEXA_ONE_IN_STRING"}

ScanFirstChar == Turn(FirstCharStates, FirstChar)
ScanIdentifier == Turn({"ID"}, Identifier)
ScanZero == Turn({"ZERO", "ZERO_UNDERSCORE"}, Zero)
ScanBasedNumber == Turn({"BASE_PREFIX", "BASE_NUMBER", "BASE_UNDERSCORE"}, BasedNumber)
ScanDecimalNumber == Turn(NumberStates, DecimalNumber)
ScanOperator == Turn({"OPERATOR"}, Operator)
ScanComment == Turn(CommentStates, Comment)
ScanString == Turn(StringStates, StringChar)

Scan == \/ ReturnEof
        \/ ScanFirstChar
        \/ ScanIdentifier
        \/ ScanZero
        \/ ScanBasedNumber
        \/ ScanDecimalNumber
        \/ ScanOperator
        \/ ScanComment
        \/ ScanString
=============================================================================
