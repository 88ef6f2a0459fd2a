------------------------------ MODULE InkTree ------------------------------
(***************************************************************************)
(* The nodes of the syntax trees that the parser hands to the code         *)
(* generator (front/ink/gen/gen.h): what the operands of each kind are.    *)
(* Sorts: an expression, one that may be IVM_NULL, and lists of            *)
(* expressions, names, entries, parameters and branches.  The fields that  *)
(* are numbers or tokens are the `val` of a node.                          *)
(***************************************************************************)
EXTENDS Integers, Sequences, TLC

LeafNodes == [none |-> <<>>, int |-> <<>>, float |-> <<>>, string |-> <<>>, missing |-> <<>>, id |-> <<>>]
BlockNodes == [expr_block |-> <<"exprs">>, varg_expr |-> <<"expr">>, import |-> <<"names">>, name |-> <<>>]
TableNodes == [table |-> <<"entries">>, entry |-> <<"expr">>, entry_np |-> <<"expr">>,
               entry_oop |-> <<"oop", "expr">>, entry_index |-> <<"exprs", "expr">>]
ListNodes == [list_expr |-> <<"exprs">>, list_comp_core |-> <<"expr">>, list_comp |-> <<"expr">>]
PlaceNodes == [call |-> <<"expr", "exprs">>, slot |-> <<"expr">>, slot_np |-> <<"expr">>,
               oop_expr |-> <<"expr", "oop">>, oop |-> <<>>, index |-> <<"expr", "exprs">>]
OperatorNodes == [unary |-> <<"expr">>, binary |-> <<"expr", "expr">>, cop |-> <<"expr", "opt">>,
                  cmp |-> <<"expr", "expr">>, logic |-> <<"expr", "expr">>]
FunctionNodes == [fn |-> <<"params", "expr">>, param |-> <<"opt">>, varg |-> <<"opt">>]
BranchNodes == [branch |-> <<"expr", "expr">>, if |-> <<"expr", "branches", "opt", "expr">>]
LoopNodes == [while |-> <<"expr", "expr">>, for |-> <<"expr", "expr", "expr">>]
TryNodes == [catch |-> <<"opt", "opt">>, try |-> <<"expr", "catch", "opt">>]
OtherNodes == [fork |-> <<"expr">>, assert |-> <<"expr">>, ret |-> <<"opt", "opt">>, cont |-> <<"opt", "opt">>,
               break |-> <<"opt", "opt">>, raise |-> <<"expr", "opt">>, yield |-> <<"opt", "opt">>,
               resume |-> <<"expr", "opt">>, assign |-> <<"expr", "expr">>]
Nodes == LeafNodes @@ BlockNodes @@ TableNodes @@ ListNodes @@ PlaceNodes @@ OperatorNodes @@ FunctionNodes
         @@ BranchNodes @@ LoopNodes @@ TryNodes @@ OtherNodes

Parts == {"name", "entry", "entry_np", "entry_oop", "entry_index", "oop", "param", "varg", "branch", "catch"}
ListOf == [exprs |-> "expr", names |-> "name", entries |-> "entry", params |-> "param", branches |-> "branch"]
KindsOf(sort) ==
  CASE sort = "expr"  -> DOMAIN Nodes \ Parts
    [] sort = "opt"   -> (DOMAIN Nodes \ Parts) \cup {"null"}
    [] sort = "entry" -> {"entry", "entry_np", "entry_oop", "entry_index"}
    [] sort = "param" -> {"param", "varg"}
    [] OTHER          -> {sort}

(* Does the tree have the shape that its fields are declared with?         *)
RECURSIVE WellFormed(_, _)
WellFormed(x, sort) ==
  IF sort \in DOMAIN ListOf
  THEN \/ sort = "branches" /\ x.op = "null"      \* of cond ? a : b
       \/ x.op = "list" /\ \A i \in DOMAIN x.sub : WellFormed(x.sub[i], ListOf[sort])
  ELSE /\ x.op \in KindsOf(sort)
       /\ \/ x.op = "null"
          \/ /\ Len(x.sub) = Len(Nodes[x.op])
             /\ \A i \in DOMAIN x.sub : WellFormed(x.sub[i], Nodes[x.op][i])
=============================================================================
