----------------------- MODULE MCDiagnosticTranslation -----------------------
(***************************************************************************)
(* type_errors_to_diagnostics checked against a reference definition on   *)
(* every list of at most MaxErrors errors drawn from three errors in two  *)
(* files.  The state is the input list; nothing changes it.               *)
(***************************************************************************)
EXTENDS DiagnosticTranslation, SequencesExt

CONSTANTS p1, p2, MaxErrors

VARIABLE errs

\* Two errors in p1 and one in p2, as Pyre reports them (lines 1-based).
E1 == [path |-> p1, line |-> 3, column |-> 4, stop_line |-> 3, stop_column |-> 9,
       description |-> "Incompatible return type [7]"]
E2 == [path |-> p2, line |-> 1, column |-> 0, stop_line |-> 2, stop_column |-> 1,
       description |-> "Undefined attribute [16]"]
E3 == [path |-> p1, line |-> 7, column |-> 2, stop_line |-> 7, stop_column |-> 5,
       description |-> "Unbound name [10]"]

Init == errs \in BoundedSeq({E1, E2, E3}, MaxErrors)

Next == UNCHANGED errs

Spec == Init /\ [][Next]_errs

(***************************************************************************)
(* The reference: the keys are exactly the paths that have an error, and  *)
(* the list of a path is its errors, translated, in the order the Pyre    *)
(* server reported them.                                                  *)
(***************************************************************************)
ReferenceDiagnostics(type_errors) ==
    [p \in {type_errors[i].path : i \in DOMAIN type_errors} |->
        LET OfPath(e) == e.path = p
        IN  [i \in DOMAIN SelectSeq(type_errors, OfPath) |->
               TypeErrorToDiagnostic(SelectSeq(type_errors, OfPath)[i])]]

(***************************************************************************)
(* The dictionary type_errors_to_diagnostics builds with setdefault and   *)
(* append keeps every error of a file, in order, and makes no key for a   *)
(* file without errors (update_type_errors relies on both: a file left    *)
(* out is shown with no diagnostics).                                      *)
(***************************************************************************)
TranslationMatchesReference ==
    TypeErrorsToDiagnostics(errs) = ReferenceDiagnostics(errs)

=============================================================================
