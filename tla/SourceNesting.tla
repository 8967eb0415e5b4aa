---------------------------- MODULE SourceNesting ----------------------------
(***************************************************************************)
(* What a control-flow graph builder promises: the statements of a program *)
(* recorded block by block, in source order.  A block is <<owner, arm>>:   *)
(* the body of a function, or the then, else or body arm of a statement.   *)
(* An `else if' is an else arm that holds the nested if statement.         *)
(*                                                                         *)
(* After the first error the promise is void.                              *)
(***************************************************************************)
EXTENDS Naturals, Sequences

CONSTANT MaxId     \* statements and functions are numbered 1 .. MaxId

VARIABLES
  content,    \* [blocks opened so far -> the statements they hold, in order]
  open,       \* the blocks being read, innermost last
  failed      \* an error was reported

vars == <<content, open, failed>>

Ids == 1 .. MaxId

Arms == {"func", "then", "else", "body"}

Recorded == UNION {{content[b][i] : i \in 1 .. Len(content[b])} : b \in DOMAIN content}

Innermost == open[Len(open)]

With(f, b, value) == [c \in DOMAIN f \union {b} |-> IF c = b THEN value ELSE f[c]]

LastStatement == content[Innermost][Len(content[Innermost])]

Init ==
  /\ content = << >>
  /\ open = << >>
  /\ failed = FALSE

OpenFunction(f) ==
  /\ open = << >>
  /\ <<f, "func">> \notin DOMAIN content
  /\ content' = With(content, <<f, "func">>, << >>)
  /\ open' = << <<f, "func">> >>

Add(s) ==
  /\ open # << >>
  /\ s \notin Recorded
  /\ content' = [content EXCEPT ![Innermost] = Append(@, s)]
  /\ UNCHANGED open

(* Only the statement just read may get an arm, and each arm once. *)
OpenArm(arm) ==
  /\ open # << >>
  /\ content[Innermost] # << >>
  /\ LET b == <<LastStatement, arm>>
     IN  /\ b \notin DOMAIN content
         /\ arm = "else" => <<LastStatement, "then">> \in DOMAIN content
         /\ content' = With(content, b, << >>)
         /\ open' = Append(open, b)

OpenElseIf(s) ==
  /\ open # << >>
  /\ content[Innermost] # << >>
  /\ s \notin Recorded
  /\ LET b == <<LastStatement, "else">>
     IN  /\ b \notin DOMAIN content
         /\ <<LastStatement, "then">> \in DOMAIN content
         /\ content' = With(content, b, <<s>>)
         /\ open' = Append(open, b)

Close ==
  /\ open # << >>
  /\ open' = SubSeq(open, 1, Len(open) - 1)
  /\ UNCHANGED content

Read ==
  \/ \E f \in Ids : OpenFunction(f)
  \/ \E s \in Ids : Add(s) \/ OpenElseIf(s)
  \/ \E arm \in Arms \ {"func"} : OpenArm(arm)
  \/ Close

Next ==
  \/ ~failed /\ Read /\ UNCHANGED failed
  \/ ~failed /\ failed' = TRUE /\ UNCHANGED <<content, open>>
  \/ failed /\ failed'

Spec == Init /\ [][Next]_vars
=============================================================================
