---------------------------- MODULE MCTokenStream ----------------------------
(* The kinds of source code on which TLC checks the scanner: each alphabet *)
(* holds the characters of a few states of the automaton that meet.        *)
EXTENDS TokenStream, TLC

Kind(chars, n) == [alphabet |-> chars, length |-> n]

MCSources == {
  Kind({"/", "*", "NL", "SP"}, 6),
  Kind({"/", "NL", "TAB", "=", "NUL"}, 5),
  Kind({"0", "1", "8", "_", "x", "a"}, 4),
  Kind({"0", "1", "o", "b", "_"}, 5),
  Kind({"1", ".", "e", "-", "_"}, 6),
  Kind({"0", ".", "e", "8", "SP"}, 4),
  Kind({"QUOTE", "BSL", "x", "a", "NL"}, 6),
  Kind({"QUOTE", "BSL", "n", "TAB", "CTRL", "NUL"}, 4),
  Kind({"&", "|", ":", "=", "<", "!"}, 3),
  Kind({"+", "(", "}", ">", ",", "="}, 3),
  Kind({"f", "o", "r", "i", "_"}, 4),
  Kind({"t", "r", "u", "e"}, 5) }
=============================================================================
