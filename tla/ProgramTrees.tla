----------------------------- MODULE ProgramTrees -----------------------------
(***************************************************************************)
(* Programs as the optimiser and the code generator see them: the trees of *)
(* TypeInference, and statements as trees over them.                       *)
(*   <<"NULL">>                     no tree                                *)
(*   <<"BASIC", tree>>              a definition, an assignment or a call  *)
(*   <<"RETURN", list>>                                                    *)
(*   <<"IF", condition, block, block>>     without an else, <<"NULL">>     *)
(*   <<"FOR", definition, condition, afterthought, block, scope>>          *)
(*   <<"BLOCK", statements, scope>> the statements of a chain, in order    *)
(* The scope of a block or of the header of a for names its symbol table.  *)
(* The empty BASIC statement every block but a function's begins with is   *)
(* left out, and so are the links CfgBuilder and DeadCode are about.       *)
(***************************************************************************)
EXTENDS Integers, Sequences, SequencesExt

Null == <<"NULL">>
Const(type, value) == <<"CONST", type, value>>
List(trees) == <<"LIST", trees>>

Leaves == {"NULL", "CONST", "ID", "BLACK_HOLE"}

IsConst(tree, type) == tree[1] = "CONST" /\ tree[2] = type
Is(tree, type, value) == IsConst(tree, type) /\ tree[3] = value
Symbol(id) == <<id[2], id[3]>>

\* Op of every element of a sequence, worked out once.
Mapped(Op(_), seq) == <<>> \o [i \in DOMAIN seq |-> Op(seq[i])]

Subtrees(tree) ==
  CASE tree[1] \in Leaves -> <<>>
    [] tree[1] \in {"LIST", "BLOCK"} -> tree[2]
    [] tree[1] = "CALL" -> tree[3]
    [] tree[1] = "FOR" -> SubSeq(tree, 2, 5)
    [] OTHER -> Tail(tree)

WithSubtrees(tree, subtrees) ==
  CASE tree[1] \in Leaves -> tree
    [] tree[1] = "LIST" -> <<"LIST", subtrees>>
    [] tree[1] = "BLOCK" -> [tree EXCEPT ![2] = subtrees]
    [] tree[1] = "CALL" -> [tree EXCEPT ![3] = subtrees]
    [] tree[1] = "FOR" -> <<"FOR">> \o subtrees \o <<tree[6]>>
    [] OTHER -> <<tree[1]>> \o subtrees

\* A tree and everything below it, in post-order.
RECURSIVE Nodes(_)
Nodes(tree) == FlattenSeq(Mapped(Nodes, Subtrees(tree))) \o <<tree>>

Has(tree, Test(_)) == LET nodes == Nodes(tree) IN \E i \in DOMAIN nodes : Test(nodes[i])

\* The variables of a tree, once for every time they stand in it.
Variables(tree) ==
  Mapped(Symbol, SelectSeq(Nodes(tree), LAMBDA n : n[1] = "ID"))

\* a += e is the assignment of a + e to the variable itself, not to a list.
IsAssignment(tree) == tree[1] \in {"ASSIGN", "DEFINE"}
IsModification(tree) == IsAssignment(tree) /\ tree[2][1] = "ID"

\* What an assignment assigns to.
Targets(tree) == IF IsModification(tree) THEN <<tree[2]>> ELSE tree[2][2]
===============================================================================
