---------------------------- MODULE MCOperatorTools ----------------------------
(* A small instance of OperatorTools: migrations of the shapes the embedded *)
(* ones have, and an import of three lines of one subject, one of another   *)
(* and one that is refused.                                                 *)
EXTENDS OperatorTools

CONSTANTS table, view, c, edited

Create(o) == [kind |-> "create", object |-> o]
Alter(o) == [kind |-> "alter", object |-> o]
MCStatements ==
  (<<1, c>> :> <<Create(table)>>) @@
  (<<2, c>> :> <<Alter(table), Create(view)>>) @@
  (<<2, edited>> :> <<Create(view), Alter(view)>>) @@
  (<<3, c>> :> <<[kind |-> "replace", object |-> view], Alter(table)>>)

Old == [v \in 1..2 |-> c]
New == [v \in 1..3 |-> c]
Edited == [v \in 1..3 |-> IF v = 2 THEN edited ELSE c]

OldAndNew == {Old, New}
WithAnEdit == {Old, New, Edited}

MCLines == {"a1", "a2", "a3", "b1", "bad"}
MCSubjectOf == [line \in MCLines |-> IF line = "b1" THEN "b" ELSE "a"]
MCSound == MCLines \ {"bad"}
=============================================================================
