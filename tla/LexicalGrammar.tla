---------------------------- MODULE LexicalGrammar ----------------------------
(***************************************************************************)
(* The lexical grammar of IFJ20, as the scanner should recognise it:       *)
(* which sequences of characters are lexemes, which are blank (white space *)
(* and comments) and what an integer literal is worth. It is written from  *)
(* the shape of the lexemes, not from the automaton, and is what Scanner   *)
(* is compared with. A character is a string; "NL" is the end of a line,   *)
(* "SP" a space, "TAB" a tab, "QUOTE" and "BSL" the quotation mark and the *)
(* backslash, "CTRL" is any character that neither starts a token nor may  *)
(* stand in a string, "NUL" the character of value zero, "EOF" the value   *)
(* read at the end of the file.                                            *)
(* The alphabets leave out the letters and digits that behave like one     *)
(* that is there.                                                          *)
(***************************************************************************)
EXTENDS Naturals, Sequences, SequencesExt, FiniteSetsExt

Letters == {"a", "b", "e", "f", "i", "o", "r", "t", "u", "x", "z", "n"}
Digits == {"0", "1", "8"}
HexDigits == Digits \cup {"a", "b", "e", "f"}
IdChars == Letters \cup Digits \cup {"_"}

DigitsOf(base) == CASE base = 2 -> {"0", "1"}
                    [] base = 8 -> {"0", "1"}
                    [] base = 10 -> Digits
                    [] base = 16 -> HexDigits

DigitValue == [d \in HexDigits |-> CASE d = "0" -> 0 [] d = "1" -> 1 [] d = "8" -> 8
                                     [] d = "a" -> 10 [] d = "b" -> 11
                                     [] d = "e" -> 14 [] d = "f" -> 15]

BasePrefix == [b |-> 2, o |-> 8, x |-> 16]

Operators == {"+", "-", "*", "/", ":", "=", "!", "&", "|", "(", ")", "{", "}",
              "<", ">", ",", ";"}
LongOperators == {<<"+", "=">>, <<"-", "=">>, <<"*", "=">>, <<"/", "=">>, <<":", "=">>,
                  <<"=", "=">>, <<"!", "=">>, <<"&", "&">>, <<"|", "|">>, <<"<", "=">>,
                  <<">", "=">>}

Keywords == {<<"i", "f">>, <<"f", "o", "r">>}
BoolValues == {<<"t", "r", "u", "e">>}

-----------------------------------------------------------------------------
(* Lexemes *)

After(s, n) == SubSeq(s, n + 1, Len(s))

IsIdentifier(s) == s # <<>> /\ s[1] \in Letters \cup {"_"} /\ Range(s) \subseteq IdChars

\* Digits with single underscores between them.
IsDigitRun(s, D) ==
  /\ s # <<>> /\ s[1] \in D /\ s[Len(s)] \in D
  /\ Range(s) \subseteq D \cup {"_"}
  /\ \A i \in 1 .. Len(s) - 1 : s[i] # "_" \/ s[i + 1] # "_"

IsDecimal(s) == IsDigitRun(s, Digits) /\ (s[1] # "0" \/ s = <<"0">>)

\* What follows the zero of a literal in another base: 0b1, 0x_1f, 0o17 or 017.
BaseAndDigits(s) ==
  LET marked == Len(s) > 1 /\ s[2] \in DOMAIN BasePrefix
      rest == After(s, IF marked THEN 2 ELSE 1)
  IN <<IF marked THEN BasePrefix[s[2]] ELSE 8,
       IF rest # <<>> /\ rest[1] = "_" THEN Tail(rest) ELSE rest>>

IsBased(s) == /\ s # <<>> /\ s[1] = "0"
              /\ IsDigitRun(BaseAndDigits(s)[2], DigitsOf(BaseAndDigits(s)[1]))

IsExponent(s) == /\ Len(s) > 1 /\ s[1] = "e"
                 /\ IsDigitRun(After(s, IF s[2] \in {"+", "-"} THEN 2 ELSE 1), Digits)

IsFraction(s) == Len(s) > 1 /\ s[1] = "." /\ IsDigitRun(Tail(s), Digits)

IsFloat(s) ==
  \E i \in 1 .. Len(s), j \in 1 .. Len(s) :
     /\ i <= j /\ (i < j \/ j < Len(s))
     /\ IsDecimal(SubSeq(s, 1, i))
     /\ (i = j \/ IsFraction(SubSeq(s, i + 1, j)))
     /\ (j = Len(s) \/ IsExponent(After(s, j)))

RECURSIVE IsStringBody(_)
IsStringBody(s) ==
  \/ s = <<>>
  \/ /\ s[1] \notin {"QUOTE", "BSL", "NL", "TAB", "CTRL", "NUL", "EOF"}
     /\ IsStringBody(Tail(s))
  \/ /\ Len(s) > 1 /\ s[1] = "BSL" /\ s[2] \in {"QUOTE", "BSL", "n", "t"}
     /\ IsStringBody(After(s, 2))
  \/ /\ Len(s) > 3 /\ s[1] = "BSL" /\ s[2] = "x" /\ {s[3], s[4]} \subseteq HexDigits
     /\ IsStringBody(After(s, 4))

IsString(s) == /\ Len(s) > 1 /\ s[1] = "QUOTE" /\ s[Len(s)] = "QUOTE"
               /\ IsStringBody(SubSeq(s, 2, Len(s) - 1))

IsOperator(s) == \/ s \in LongOperators
                 \/ Len(s) = 1 /\ s[1] \in Operators \ {":", "&", "|"}

\* The token a lexeme is, or "none".
TokenOf(s) == CASE s \in Keywords -> "KEYWORD"
                [] s \in BoolValues -> "BOOL"
                [] IsIdentifier(s) -> "ID"
                [] IsDecimal(s) \/ IsBased(s) -> "INT"
                [] IsFloat(s) -> "FLOAT"
                [] IsString(s) -> "STRING"
                [] IsOperator(s) -> "OPERATOR"
                [] OTHER -> "none"

\* A prefix of a lexeme: one of these completes whatever can be completed.
Completions == {<<>>, <<"0">>, <<"=">>, <<"&">>, <<"|">>, <<"QUOTE">>, <<"0", "QUOTE">>,
                <<"0", "0", "QUOTE">>, <<"n", "QUOTE">>}
Viable(s) == \E t \in Completions : TokenOf(s \o t) # "none"

\* The value of the digits s in a base, underscores left out.
ValueOf(base, s) == FoldLeft(LAMBDA n, d : IF d = "_" THEN n ELSE base * n + DigitValue[d], 0, s)

IntValue(s) == IF IsDecimal(s) THEN ValueOf(10, s)
                               ELSE ValueOf(BaseAndDigits(s)[1], BaseAndDigits(s)[2])

\* The characters a string literal stands for; a byte written in hexadecimal
\* is the pair of its digits.
RECURSIVE StringValue(_)
StringValue(body) ==
  IF body = <<>> THEN <<>>
  ELSE IF body[1] # "BSL" THEN <<body[1]>> \o StringValue(Tail(body))
  ELSE IF body[2] = "x" THEN << <<body[3], body[4]>> >> \o StringValue(After(body, 4))
  ELSE <<(CASE body[2] = "n" -> "NL" [] body[2] = "t" -> "TAB" [] OTHER -> body[2])>>
       \o StringValue(After(body, 2))

-----------------------------------------------------------------------------
(* Blank text *)

StartsWith(s, t) == Len(s) >= Len(t) /\ SubSeq(s, 1, Len(t)) = t

\* The first place at or after `from` where s has one of the sequences in T; Len(s) + 1 if none.
FirstOf(s, T, from) ==
  Min({i \in from .. Len(s) : \E t \in T : StartsWith(After(s, i - 1), t)} \cup {Len(s) + 1})

\* Text that starts at a place where a token may start, cut into the pieces that are
\* skipped one after the other: one blank character, or one comment with what ends it.
FirstPiece(s) ==
  IF StartsWith(s, <<"/", "/">>) THEN Min({Len(s), FirstOf(s, {<<"NL">>}, 3)})
  ELSE IF StartsWith(s, <<"/", "*">>) THEN FirstOf(s, {<<"*", "/">>}, 3) + 1
  ELSE 1

RECURSIVE IsBlank(_)
IsBlank(s) ==
  \/ s = <<>>
  \/ /\ \/ s[1] \in {"SP", "TAB", "NL", "NUL", "EOF"}
        \/ \E c \in {"/", "*"} : StartsWith(s, <<"/", c>>)
     /\ FirstPiece(s) <= Len(s)
     /\ IsBlank(After(s, FirstPiece(s)))

\* Whether blank text ends a line: a newline in it, outside the block comments.
RECURSIVE EndsLine(_)
EndsLine(s) ==
  /\ s # <<>>
  /\ \/ ~StartsWith(s, <<"/", "*">>) /\ s[FirstPiece(s)] = "NL"
     \/ EndsLine(After(s, FirstPiece(s)))
=============================================================================
