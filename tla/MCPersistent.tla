---------------------------- MODULE MCPersistent ----------------------------
(***************************************************************************)
(* The instance of Persistent that TLC checks: two documents, three type  *)
(* errors, and three reports of the Pyre server that add, change and     *)
(* remove the diagnostics of both documents.                             *)
(***************************************************************************)
EXTENDS Persistent

CONSTANTS p1, p2

\* Two errors in p1 and one in p2, as Pyre reports them (lines 1-based).
E1 == [path |-> p1, line |-> 3, column |-> 4, stop_line |-> 3, stop_column |-> 9,
       description |-> "Incompatible return type [7]"]
E2 == [path |-> p2, line |-> 1, column |-> 0, stop_line |-> 2, stop_column |-> 1,
       description |-> "Undefined attribute [16]"]
E3 == [path |-> p1, line |-> 7, column |-> 2, stop_line |-> 7, stop_column |-> 5,
       description |-> "Unbound name [10]"]

MCErrorLists == {<<>>, <<E1>>, <<E3, E2>>}

=============================================================================
