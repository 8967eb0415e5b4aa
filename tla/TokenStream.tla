----------------------------- MODULE TokenStream -----------------------------
(***************************************************************************)
(* get_token of parser.c, which puts one token of lookahead before the     *)
(* scanner, and what the parser does with it: it asks for tokens under     *)
(* EOL rules, looks ahead after an identifier (precedence_parser.c:907),   *)
(* and after an error skips tokens until one that starts a line            *)
(* (recover() of parser.h). Which token it asks for next, and when it      *)
(* reports a syntax error, is a choice here.                               *)
(***************************************************************************)
EXTENDS Scanner

VARIABLES
  mode,            \* what the parser does
  peek_only,       \* the argument of the call of get_token that runs
  asked,           \* and its EOL rule
  peeked,          \* static: whether a token has been looked at and not taken
  peeked_result,   \* static
  result,          \* the scanner_result of parser.c, what get_token returned last
  parser_token     \* the token of parser.c

streamVars == <<mode, peek_only, asked, peeked, peeked_result, result, parser_token>>
vars == <<scannerVars, streamVars>>

Delivered == {"SUCCESS", "EXCESS_EOL", "MISSING_EOL"}

result_if_eol_ok(r) == IF r \in {"EXCESS_EOL", "MISSING_EOL"} THEN "SUCCESS" ELSE r

(* Mutant: the result of the look ahead is returned under every rule. *)
ResultOfPeek(eol, eol_read) == peeked_result

calculate_new_scanner_result(eol, eol_read) ==
  CASE eol = "FORBIDDEN" /\ eol_read -> "EXCESS_EOL"
    [] eol = "REQUIRED" /\ ~eol_read -> "MISSING_EOL"
    [] OTHER -> result_if_eol_ok(peeked_result)

Init ==
  /\ ScannerInit
  /\ mode = "parsing"
  /\ peek_only = FALSE
  /\ asked = "OPTIONAL"
  /\ peeked = FALSE
  /\ peeked_result = "SUCCESS"
  /\ result = "none"
  /\ parser_token = NoToken

\* get_token, when no token has been looked at before, calls the scanner ...
AskScanner(rule, peek) ==
  /\ ~peeked
  /\ Call(rule)
  /\ peek_only' = peek
  /\ asked' = rule
  /\ result' = "none"
  /\ UNCHANGED <<mode, peeked, peeked_result, parser_token>>

(* Mutant: recovering does not look for the end of the file. *)
ModeAfterAnyToken(r, t) == IF mode = "recovering" /\ t.eol_read THEN "parsing" ELSE mode

\* What the parser does after get_token (check_new_token, recover). It judges a token
\* when it takes it, not when it only looks at it.
ModeAfter(r, t) ==
  CASE r = "EOF" /\ (mode = "recovering" \/ t.type = "DEFAULT") -> "finished"
    [] r # "EOF" /\ mode = "recovering" -> IF t.eol_read THEN "parsing" ELSE "recovering"
    [] mode = "parsing"
       /\ r \in {"MISSING_EOL", "EXCESS_EOL", "INVALID_STATE", "NUMBER_OVERFLOW"} -> "recovering"
    [] OTHER -> "parsing"

\* ... and returns what it says.
ReturnScanned ==
  /\ result = "none"
  /\ ~in_call
  /\ result' = scanner_result
  /\ peeked' = peek_only
  /\ IF peek_only THEN /\ peeked_result' = scanner_result
                      /\ UNCHANGED <<mode, parser_token>>
     ELSE /\ mode' = ModeAfter(scanner_result, token)
          /\ parser_token' = token
          /\ UNCHANGED peeked_result
  /\ UNCHANGED <<scannerVars, peek_only, asked>>

\* get_token after a look ahead: peeked_token is the token the scanner filled last.
ReturnPeeked(rule, peek) ==
  /\ peeked
  /\ peeked' = peek
  /\ peek_only' = peek
  /\ asked' = rule
  /\ LET r == calculate_new_scanner_result(rule, token.eol_read)
     IN /\ result' = r
        /\ IF peek THEN UNCHANGED <<mode, parser_token>>
           ELSE mode' = ModeAfter(r, token) /\ parser_token' = token
  /\ UNCHANGED <<scannerVars, peeked_result>>

get_token(rule, peek) == AskScanner(rule, peek) \/ ReturnPeeked(rule, peek)

Returned == ~in_call /\ result # "none"

\* check_new_token. A token that was looked at is always taken under EOL_OPTIONAL.
NextToken == /\ Returned /\ mode = "parsing"
             /\ \E rule \in EolRules : (peeked => rule = "OPTIONAL") /\ get_token(rule, FALSE)

\* get_table_index: is the identifier a function's?
LookAhead == /\ Returned /\ mode = "parsing" /\ parser_token.type = "ID"
             /\ get_token("FORBIDDEN", TRUE)

\* A syntax error, or the end of a body() that recover() called.
Recover == /\ Returned /\ mode = "parsing"
           /\ mode' = IF result = "EOF" THEN "finished" ELSE "recovering"
           /\ UNCHANGED <<scannerVars, peek_only, asked, peeked, peeked_result, result,
                          parser_token>>

\* The inner loop of recover().
SkipToken == Returned /\ mode = "recovering" /\ get_token("OPTIONAL", FALSE)

Next == \/ Scan /\ UNCHANGED streamVars
        \/ ReturnScanned
        \/ NextToken
        \/ LookAhead
        \/ Recover
        \/ SkipToken

\* The compiler is one thread that never waits: it takes a step as long as it can.
Spec == Init /\ [][Next]_vars /\ WF_vars(Next)

-----------------------------------------------------------------------------
(* Properties *)

\* The parser's token and the scanner's variables have their types.
TypeOK ==
  /\ source \in Sources
  /\ chars_read \in 0 .. source.length
  /\ read_char \in source.alphabet \cup {"NUL", "EOF"}
  /\ next_char_result \in {"SUCCESS", "EOF"}
  /\ automaton_state \in FirstCharStates \cup NumberStates \cup CommentStates \cup StringStates
       \cup {"ID", "ZERO", "ZERO_UNDERSCORE", "BASE_PREFIX", "BASE_NUMBER", "BASE_UNDERSCORE",
             "OPERATOR"}
  /\ scanner_result \in Delivered \cup {"EOF", "INVALID_STATE", "NUMBER_OVERFLOW"}
  /\ result \in Delivered \cup {"EOF", "INVALID_STATE", "NUMBER_OVERFLOW", "none"}
  /\ {eol_rule, asked} \subseteq EolRules
  /\ mode \in {"parsing", "recovering", "finished"}

\* The scanner has just returned a token: the lexeme it was made from and the text
\* passed over before it. A character of value zero ends a lexeme and is dropped.
Scanned == ~in_call /\ token.type # "DEFAULT" /\ scanner_result # "INVALID_STATE"
Unread == IF read_char # "NUL" \/ Last(text) = "NUL" THEN 1 ELSE 0
lexeme == SubSeq(text, char_num, Len(text) - Unread)
blank == SubSeq(text, 1, char_num - 1)

\* Every token is what its lexeme says, with the value its lexeme has, and an integer
\* is refused exactly if it is larger than MAX_INT (scanner.c, the accepting states and
\* prepare_number_for_parsing).
TokenIsItsLexeme ==
  Scanned =>
    /\ token.type = TokenOf(lexeme)
    /\ CASE token.type = "INT" ->
              /\ token.data = <<Min({IntValue(lexeme), MAX_INT})>>
              /\ (scanner_result = "NUMBER_OVERFLOW") = (IntValue(lexeme) > MAX_INT)
         [] token.type = "FLOAT" -> TRUE
         [] token.type = "STRING" ->
              token.data = StringValue(SubSeq(lexeme, 2, Len(lexeme) - 1))
         [] OTHER -> token.data = lexeme

\* A token ends only where no longer one could be read. Not so for a zero and an
\* exponent: 0e1 is read as 0 and e1 (scanner.c:269).
LongestMatchUnlessZeroExponent ==
  Scanned /\ read_char # "NUL" /\ ~(lexeme = <<"0">> /\ read_char = "e") =>
    TokenOf(Append(lexeme, read_char)) = "none"

\* Two asterisks in a row inside a comment, and an asterisk at the end of the file, put
\* the automaton off (scanner.c:884).
AsteriskAmiss(s) ==
  \E i \in 1 .. Len(s) - 1 : s[i] = "*" /\ s[i + 1] \in {"*", "EOF"}

\* What the scanner passes over without making a token of it is white space and
\* comments, or else an unfinished lexeme or comment at the end of the file, and then
\* an error has been reported.
OnlyBlanksSkippedUnlessAsterisks ==
  /\ Scanned => IsBlank(blank) \/ AsteriskAmiss(blank)
  /\ ~in_call /\ scanner_result = "EOF" /\ token.type = "DEFAULT" =>
       IsBlank(text) \/ reported \/ AsteriskAmiss(text)

\* The verdict on the ends of lines, for the rule the parser gave when it took the
\* token, is about the text between this token and the one before it, whether the
\* token was looked at before under another rule or not; errors and the end of the
\* file are passed on (scanner.c:82, parser.c:36). A character of value zero hides the
\* ends of lines after it.
EolVerdictUnlessAmiss ==
  Returned /\ ~peeked /\ parser_token.type # "DEFAULT" /\ ~AsteriskAmiss(blank)
  /\ "NUL" \notin Range(blank) =>
    IF scanner_result \notin Delivered THEN result = scanner_result
    ELSE result = CASE asked = "FORBIDDEN" /\ EndsLine(blank) -> "EXCESS_EOL"
                    [] asked = "REQUIRED" /\ ~EndsLine(blank) -> "MISSING_EOL"
                    [] OTHER -> "SUCCESS"

\* A lexical error is reported only for characters that no token starts with.
ErrorsAreReal ==
  refused # <<>> /\ scanner_result # "NUMBER_OVERFLOW" => ~Viable(refused)

\* The parse ends, however many errors it recovers from: no loop of the scanner or of
\* recover() goes on for ever on a finite source.
ParseEnds == <>(mode = "finished")
=============================================================================
