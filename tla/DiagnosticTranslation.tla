------------------------ MODULE DiagnosticTranslation ------------------------
(***************************************************************************)
(* The translation of Pyre type errors into LSP diagnostics               *)
(* (persistent.py: type_error_to_diagnostic, type_errors_to_diagnostics). *)
(*                                                                         *)
(* A type error keeps the fields the translation reads; its path is one   *)
(* of the document paths Paths.  Pyre reports lines 1-based and columns  *)
(* 0-based; LSP positions are 0-based in both, so only the lines shift.   *)
(***************************************************************************)
EXTENDS Integers, Sequences

CONSTANT Paths

TypeError ==
    [path: Paths, line: Int, column: Int, stop_line: Int, stop_column: Int,
     description: STRING]

Position == [line: Int, character: Int]

\* lsp.DiagnosticSeverity.ERROR and the `code=None` of the diagnostic.
DiagnosticSeverityError == 1
NoCode == "null"

Diagnostic ==
    [range: [start: Position, end: Position], message: STRING,
     severity: {DiagnosticSeverityError}, code: {NoCode}, source: {"Pyre"}]

\* type_error_to_diagnostic: one Pyre error as one LSP diagnostic.
TypeErrorToDiagnostic(type_error) ==
    [range    |-> [start |-> [line      |-> type_error.line - 1,
                              character |-> type_error.column],
                   end   |-> [line      |-> type_error.stop_line - 1,
                              character |-> type_error.stop_column]],
     message  |-> type_error.description,
     severity |-> DiagnosticSeverityError,
     code     |-> NoCode,
     source   |-> "Pyre"]

\* Mutant: each error replaces the list of its path instead of being
\* appended to it (an assignment where the code calls setdefault/append).
TypeErrorsToDiagnosticsOverwrite(type_errors) ==
    LET result[k \in 0 .. Len(type_errors)] ==
          IF k = 0 THEN [p \in {} |-> <<>>]
          ELSE LET before == result[k - 1]
                   path   == type_errors[k].path
               IN  [p \in DOMAIN before \cup {path} |->
                      IF p = path THEN <<TypeErrorToDiagnostic(type_errors[k])>>
                                  ELSE before[p]]
    IN  result[Len(type_errors)]

(***************************************************************************)
(* type_errors_to_diagnostics, as the code computes it: a loop over the   *)
(* errors that appends each translated error to the list of its path,     *)
(* creating the list on the first error of that path (dict.setdefault).   *)
(* result[k] is the dictionary after the first k errors.                  *)
(***************************************************************************)
TypeErrorsToDiagnostics(type_errors) ==
    LET result[k \in 0 .. Len(type_errors)] ==
          IF k = 0 THEN [p \in {} |-> <<>>]
          ELSE LET before == result[k - 1]
                   path   == type_errors[k].path
                   diag   == TypeErrorToDiagnostic(type_errors[k])
               IN  [p \in DOMAIN before \cup {path} |->
                      IF p = path
                      THEN IF p \in DOMAIN before THEN Append(before[p], diag)
                                                  ELSE <<diag>>
                      ELSE before[p]]
    IN  result[Len(type_errors)]

\* The diagnostics a path has in a dictionary of the code, empty when the
\* path is not a key.  Used by the properties only: the code itself reads
\* `diagnostics.get(path, None)` and skips the publish for a missing key.
DiagnosticsOf(dict, path) == IF path \in DOMAIN dict THEN dict[path] ELSE <<>>

=============================================================================
