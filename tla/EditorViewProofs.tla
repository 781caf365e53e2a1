--------------------------- MODULE EditorViewProofs ---------------------------
(***************************************************************************)
(* The proof that what the editor shows agrees with ServerState           *)
(* (EditorViewConsistent) when writes to the editor never suspend, for    *)
(* every set of paths and of error lists.  Then the loop of               *)
(* show_type_errors_to_client runs without a switch, so the set it        *)
(* iterates is the set of open documents, and the paths it has yielded    *)
(* already show their stored diagnostics: the strengthening VInv says so. *)
(***************************************************************************)
EXTENDS PersistentProofs

(***************************************************************************)
(* The inductive strengthening of EditorViewConsistent.  No document is   *)
(* open before initialization.  In a live session a closed document shows *)
(* nothing; outside the publish loop an open one shows its stored         *)
(* diagnostics; inside it, the loop iterates the open documents, those it *)
(* has finished with show their stored diagnostics, and the current one   *)
(* shows the empty list until its stored list is published.               *)
(***************************************************************************)
VInv ==
    /\ lsp = "uninitialized" => opened = {}
    /\ lsp \notin {"exited", "crashed"} =>
         /\ \A p \in Paths \ opened : view[p] = <<>>
         /\ ~Showing => \A p \in opened : view[p] = Stored(p)
         /\ Showing =>
              /\ iterOver = opened
              /\ cur \in seen /\ seen \subseteq opened
              /\ \A p \in seen \ {cur} : view[p] = Stored(p)
              /\ view[cur] = IF bridge = "showDiags" THEN <<>> ELSE Stored(cur)

-----------------------------------------------------------------------------
\* A step that changes nothing the editor view depends on keeps VInv.
LEMMA FrameKeepsVInv ==
    ASSUME VInv,
           UNCHANGED <<lsp, opened, diagnostics, view, bridge, iterOver, seen, cur>>
    PROVE  VInv'
BY DEF VInv, Showing, Stored, DiagnosticsOf

\* A step of the background task outside the publish loop that leaves
\* ServerState and the view alone keeps VInv.
LEMMA QuietStepKeepsVInv ==
    ASSUME VInv, UNCHANGED <<lsp, opened, diagnostics, view>>,
           ~Showing, ~Showing'
    PROVE  VInv'
BY DEF VInv, Stored, DiagnosticsOf

\* Once run_persistent has returned, VInv says nothing more.
LEMMA ExitKeepsVInv ==
    ASSUME lsp' \in {"exited", "crashed"}
    PROVE  VInv'
BY DEF VInv

(***************************************************************************)
(* The next step of the iterator of show_type_errors_to_client, once the  *)
(* current path shows its stored diagnostics: it either ends the loop,    *)
(* every open document having been yielded, or yields a new open         *)
(* document and publishes the empty list for it.  The RuntimeError of a   *)
(* set that changed size cannot happen, since the loop kept the event     *)
(* loop since the iterator was made.                                      *)
(***************************************************************************)
LEMMA IterationKeepsVInv ==
    ASSUME IInv, VInv, lsp \notin {"exited", "crashed"}, Showing,
           view[cur] = Stored(cur), IterationNext,
           UNCHANGED <<lsp, opened, diagnostics>>
    PROVE  VInv'
<1>1. /\ iterOver = opened /\ cur \in seen /\ seen \subseteq opened
      /\ \A p \in seen \ {cur} : view[p] = Stored(p)
      /\ \A p \in Paths \ opened : view[p] = <<>>
  BY DEF VInv
<1>2. \/ /\ seen = opened /\ bridge' = "read" /\ ResetIteration
         /\ UNCHANGED view
      \/ \E path \in opened \ seen :
            /\ PublishDiagnostics(path, <<>>)
            /\ cur' = path /\ seen' = seen \cup {path}
            /\ bridge' = "showDiags" /\ UNCHANGED iterOver
  BY <1>1 DEF IterationNext
<1>3. CASE seen = opened /\ bridge' = "read" /\ ResetIteration /\ UNCHANGED view
  <2>1. ~Showing'
    BY <1>3 DEF Showing
  <2>2. \A p \in opened : view'[p] = Stored(p)'
    BY <1>1, <1>3 DEF Stored, DiagnosticsOf
  <2>3. QED
    BY <1>1, <1>3, <2>1, <2>2 DEF VInv
<1>4. CASE \E path \in opened \ seen :
              /\ PublishDiagnostics(path, <<>>)
              /\ cur' = path /\ seen' = seen \cup {path}
              /\ bridge' = "showDiags" /\ UNCHANGED iterOver
  <2>1. PICK path \in opened \ seen :
              /\ PublishDiagnostics(path, <<>>)
              /\ cur' = path /\ seen' = seen \cup {path}
              /\ bridge' = "showDiags" /\ UNCHANGED iterOver
    BY <1>4
  <2>2. view' = [view EXCEPT ![path] = <<>>] /\ view \in [Paths -> DiagnosticLists]
        /\ opened \subseteq Paths
    BY <2>1 DEF PublishDiagnostics, IInv, TypeOK
  <2>3. Showing' /\ iterOver' = opened /\ cur' \in seen' /\ seen' \subseteq opened
    BY <1>1, <2>1 DEF Showing
  <2>4. \A p \in seen' \ {cur'} : view'[p] = Stored(p)'
    BY <1>1, <2>1, <2>2 DEF Stored, DiagnosticsOf
  <2>5. \A p \in Paths \ opened' : view'[p] = <<>>
    BY <1>1, <2>1, <2>2
  <2>6. view'[cur'] = <<>>
    BY <2>1, <2>2
  <2>7. QED
    BY <2>1, <2>3, <2>4, <2>5, <2>6 DEF VInv
<1>5. QED
  BY <1>2, <1>3, <1>4

-----------------------------------------------------------------------------
\* Init establishes VInv.
LEMMA InitVInv == Init => VInv
BY DEF Init, VInv, Showing

(***************************************************************************)
(* Every step keeps VInv when writes never suspend.  The LSP loop runs    *)
(* only outside the publish loop, so didOpen and didClose find every open *)
(* document showing its stored diagnostics; the background task replaces  *)
(* the diagnostics only when it starts the publish loop anew.             *)
(***************************************************************************)
LEMMA NextVInv ==
    ASSUME ~WriteSuspends, IInv, VInv, [Next]_vars
    PROVE  VInv'
<1>0. CASE lsp' \in {"exited", "crashed"}
  BY <1>0, ExitKeepsVInv
<1> SUFFICES ASSUME lsp' \notin {"exited", "crashed"} PROVE VInv'
  BY <1>0
<1>1. CASE InitializeExit \/ ReadMalformed \/ RunExit \/ WaitExit
  BY <1>1 DEF InitializeExit, ReadMalformed, RunExit, WaitExit
<1>2. CASE InitializeFailure \/ RunBadDocument \/ RunOther \/ WaitOther
  BY <1>2, FrameKeepsVInv
     DEF InitializeFailure, RunBadDocument, RunOther, WaitOther
<1>3. CASE RunShutdown
  BY <1>3 DEF RunShutdown, VInv, Showing, Stored, DiagnosticsOf
<1>4. CASE InitializeSuccess
  <2>1. opened = {}
    BY <1>4 DEF InitializeSuccess, VInv
  <2>2. \A p \in Paths : view'[p] = <<>>
    BY <1>4, <2>1 DEF InitializeSuccess, VInv
  <2>3. opened' = {} /\ ~Showing' /\ lsp' = "running"
    BY <1>4 DEF InitializeSuccess, Showing
  <2>4. QED
    BY <2>2, <2>3 DEF VInv
<1>5. CASE DidOpen \/ DidClose
  <2>1. ~Showing /\ ~Showing' /\ lsp \notin {"exited", "crashed"}
    BY <1>5 DEF DidOpen, DidClose, Receive, BridgeHoldsLoop, Showing
  <2>2. /\ \A p \in Paths \ opened : view[p] = <<>>
        /\ \A p \in opened : view[p] = Stored(p)
        /\ view \in [Paths -> DiagnosticLists] /\ pending.path \in Paths
    BY <1>5, <2>1 DEF VInv, IInv, TypeOK, DidOpen, DidClose, Messages,
                      NoMessage, DocumentMethods
  <2>3. CASE DidOpen
    <3> DEFINE path == pending.path
    <3>1. /\ opened' = opened \cup {path}
          /\ view' = IF path \in DOMAIN diagnostics
                        THEN [view EXCEPT ![path] = diagnostics[path]]
                        ELSE view
          /\ UNCHANGED <<lsp, diagnostics>> /\ lsp = "running"
      BY <2>3 DEF DidOpen, PublishDiagnostics
    <3>2. \A p \in Paths \ opened' : view'[p] = <<>>
      BY <2>2, <3>1
    <3>3. \A p \in opened' : view'[p] = Stored(p)'
      BY <2>2, <3>1 DEF Stored, DiagnosticsOf
    <3>4. QED
      BY <2>1, <3>1, <3>2, <3>3 DEF VInv
  <2>4. CASE DidClose
    <3> DEFINE path == pending.path
    <3>1. /\ opened' = opened \ {path}
          /\ view' = IF path \in opened /\ path \in DOMAIN diagnostics
                        THEN [view EXCEPT ![path] = <<>>]
                        ELSE view
          /\ UNCHANGED <<lsp, diagnostics>> /\ lsp = "running"
      BY <2>4 DEF DidClose, PublishDiagnostics
    <3>2. \A p \in Paths \ opened' : view'[p] = <<>>
      BY <2>2, <3>1 DEF Stored, DiagnosticsOf
    <3>3. \A p \in opened' : view'[p] = Stored(p)'
      BY <2>2, <3>1 DEF Stored, DiagnosticsOf
    <3>4. QED
      BY <2>1, <3>1, <3>2, <3>3 DEF VInv
  <2>5. QED
    BY <1>5, <2>3, <2>4
<1>6. CASE ConnectExisting \/ ConnectFailed \/ Reconnect \/ ReadEof \/ ReadReset
  BY <1>6, QuietStepKeepsVInv
     DEF ConnectExisting, ConnectFailed, Reconnect, ReadEof, ReadReset, Showing
<1>7. CASE SpawnServer \/ WaitServerReady
  <2>1. bridge' \in {"waitReady", "finished", "reconnect"}
        /\ UNCHANGED <<lsp, opened, diagnostics, view>>
    BY <1>7, Zenon DEF SpawnServer, WaitServerReady
  <2>2. ~Showing /\ ~Showing'
    BY <1>7, <2>1 DEF SpawnServer, WaitServerReady, Showing
  <2>3. QED
    BY <2>1, <2>2, QuietStepKeepsVInv
<1>8. CASE ReadSnapshot \/ ReadUpdate
  <2>1. /\ \E errs \in ErrorLists : UpdateAndShow(errs)
        /\ ~Showing /\ UNCHANGED <<lsp, opened>>
    BY <1>8, ReadLineTyped DEF ReadSnapshot, ReadUpdate, Showing, IInv, TypeOK
  <2>2. \A p \in Paths \ opened : view[p] = <<>>
    BY <2>1 DEF VInv
  <2>3. view \in [Paths -> DiagnosticLists] /\ opened \subseteq Paths
    BY DEF IInv, TypeOK
  <2>4. PICK errs \in ErrorLists : UpdateAndShow(errs)
    BY <2>1
  <2>5. CASE opened = {}
    <3>1. bridge' = "read" /\ UNCHANGED view
      BY <2>4, <2>5 DEF UpdateAndShow
    <3>2. QED
      BY <2>1, <2>2, <2>5, <3>1 DEF VInv, Showing
  <2>6. CASE opened # {}
    <3>1. PICK path \in opened : /\ PublishDiagnostics(path, <<>>)
                                 /\ iterOver' = opened
                                 /\ seen' = {path}
                                 /\ cur' = path
                                 /\ bridge' = "showDiags"
      BY <2>4, <2>6 DEF UpdateAndShow
    <3>2. Showing' /\ view' = [view EXCEPT ![path] = <<>>]
      BY <3>1 DEF Showing, PublishDiagnostics
    <3>3. QED
      BY <2>1, <2>2, <2>3, <3>1, <3>2 DEF VInv
  <2>7. QED
    BY <2>5, <2>6
<1>9. CASE ShowDiagnostics
  <2>1. Showing /\ bridge = "showDiags" /\ lsp \notin {"exited", "crashed"}
        /\ UNCHANGED <<lsp, opened, diagnostics>>
    BY <1>9 DEF ShowDiagnostics, Showing
  <2>2. /\ view[cur] = <<>> /\ cur \in opened /\ iterOver = opened
        /\ \A p \in seen \ {cur} : view[p] = Stored(p)
        /\ \A p \in Paths \ opened : view[p] = <<>>
    BY <2>1 DEF VInv
  <2>3. CASE cur \in DOMAIN diagnostics
    <3>1. view' = [view EXCEPT ![cur] = diagnostics[cur]] /\ bridge' = "showNext"
          /\ UNCHANGED <<iterOver, seen, cur>>
      BY <1>9, <2>3 DEF ShowDiagnostics, PublishDiagnostics
    <3>2. view \in [Paths -> DiagnosticLists] /\ opened \subseteq Paths
      BY DEF IInv, TypeOK
    <3>3. QED
      BY <2>1, <2>2, <2>3, <3>1, <3>2 DEF VInv, Showing, Stored, DiagnosticsOf
  <2>4. CASE cur \notin DOMAIN diagnostics
    <3>1. view[cur] = Stored(cur)
      BY <2>2, <2>4 DEF Stored, DiagnosticsOf
    <3>2. IterationNext
      BY <1>9, <2>4 DEF ShowDiagnostics
    <3>3. QED
      BY <2>1, <3>1, <3>2, IterationKeepsVInv
  <2>5. QED
    BY <2>3, <2>4
<1>10. CASE ShowNext
  <2>1. Showing /\ bridge = "showNext" /\ lsp \notin {"exited", "crashed"}
        /\ UNCHANGED <<lsp, opened, diagnostics>> /\ IterationNext
    BY <1>10 DEF ShowNext, Showing
  <2>2. view[cur] = Stored(cur)
    BY <2>1 DEF VInv
  <2>3. QED
    BY <2>1, <2>2, IterationKeepsVInv
<1>11. CASE \/ Spin
            \/ \E m \in Messages : EditorSend(m)
            \/ \E errs \in ErrorLists : DaemonErrorsChange(errs)
            \/ DaemonStops \/ Terminated \/ UNCHANGED vars
  BY <1>11, FrameKeepsVInv
     DEF Spin, EditorSend, DaemonErrorsChange, DaemonStops, Terminated, vars
<1>12. QED
  BY <1>1, <1>2, <1>3, <1>4, <1>5, <1>6, <1>7, <1>8, <1>9, <1>10, <1>11
     DEF Next, LspNext, BridgeNext

-----------------------------------------------------------------------------
(***************************************************************************)
(* When writes to the editor never suspend, what the editor shows agrees  *)
(* with ServerState in every state of a live session, whatever the order  *)
(* in which didOpen/didClose and the Pyre server's updates are handled:   *)
(* a closed document shows nothing, and outside show_type_errors_to_client *)
(* an open one shows its stored diagnostics.                              *)
(***************************************************************************)
THEOREM EditorViewConsistentInvariant ==
    ASSUME ~WriteSuspends
    PROVE  Spec => []EditorViewConsistent
<1>1. Init => IInv /\ VInv
  BY InitIInv, InitVInv
<1>2. IInv /\ VInv /\ [Next]_vars => IInv' /\ VInv'
  BY NextIInv, NextVInv
<1>3. VInv => EditorViewConsistent
  BY DEF VInv, EditorViewConsistent
<1>4. QED
  BY <1>1, <1>2, <1>3, PTL DEF Spec

-----------------------------------------------------------------------------
\* A publish changes what the editor shows for its own path only, to the
\* list it sends.
LEMMA PublishOnly ==
    ASSUME NEW path, NEW list, PublishDiagnostics(path, list),
           view \in [Paths -> DiagnosticLists],
           NEW p \in Paths, view'[p] # view[p]
    PROVE  p = path /\ view'[p] = list
BY DEF PublishDiagnostics

\* A step of the iterator of show_type_errors_to_client only clears markers.
LEMMA IterationOnlyClears ==
    ASSUME IterationNext, view \in [Paths -> DiagnosticLists],
           NEW p \in Paths, view'[p] # view[p]
    PROVE  view'[p] = <<>>
<1>1. CASE Cardinality(opened) # Cardinality(iterOver)
  BY <1>1 DEF IterationNext
<1>2. CASE Cardinality(opened) = Cardinality(iterOver)
  <2> DEFINE left == IF opened = iterOver THEN iterOver \ seen ELSE opened \ seen
  <2>1. UNCHANGED view \/ \E path \in left : PublishDiagnostics(path, <<>>)
    BY <1>2 DEF IterationNext
  <2>2. QED
    BY <2>1, PublishOnly
<1>3. QED
  BY <1>1, <1>2

\* While the background task is connected or publishing, the session is live.
LEMMA TaskMeansLive ==
    ASSUME TaskStoppedOnExit, bridge \notin {"idle", "finished"}
    PROVE  lsp \notin {"exited", "crashed"}
BY DEF TaskStoppedOnExit

\* Every step, from a state of the inductive invariants, publishes fresh
\* diagnostics only.
LEMMA NextFreshPublish ==
    ASSUME ~WriteSuspends, IInv, VInv, TaskStoppedOnExit, [Next]_vars
    PROVE  FreshPublish
<1> DEFINE Fresh(p) == \/ view'[p] = <<>>
                       \/ p \in opened' /\ view'[p] = Stored(p)'
<1> SUFFICES ASSUME view' # view
             PROVE  /\ lsp' \notin {"exited", "crashed"}
                    /\ \A p \in Paths : view'[p] # view[p] => Fresh(p)
  BY DEF FreshPublish
<1>0. view \in [Paths -> DiagnosticLists]
  BY DEF IInv, TypeOK
<1>1. CASE DidOpen
  <2> DEFINE path == pending.path
  <2>1. /\ path \in DOMAIN diagnostics
        /\ PublishDiagnostics(path, diagnostics[path])
        /\ opened' = opened \cup {path} /\ diagnostics' = diagnostics
        /\ lsp' = "running"
    BY <1>1 DEF DidOpen
  <2>2. DiagnosticsOf(diagnostics', path) = diagnostics[path]
    BY <2>1 DEF DiagnosticsOf
  <2>3. QED
    BY <1>0, <2>1, <2>2, PublishOnly DEF Stored
<1>2. CASE DidClose
  <2>1. PublishDiagnostics(pending.path, <<>>) /\ lsp' = "running"
    BY <1>2 DEF DidClose
  <2>2. QED
    BY <1>0, <2>1, PublishOnly
<1>3. CASE ReadSnapshot \/ ReadUpdate
  <2>1. /\ \E errs \in ErrorLists \cup {Head(sock).errs} : UpdateAndShow(errs)
        /\ lsp' = lsp /\ bridge \in {"readFirst", "read"}
    BY <1>3 DEF ReadSnapshot, ReadUpdate
  <2>2. \E path \in Paths : PublishDiagnostics(path, <<>>)
    BY <2>1 DEF UpdateAndShow, IInv, TypeOK
  <2>3. QED
    BY <1>0, <2>1, <2>2, PublishOnly, TaskMeansLive
<1>4. CASE ShowDiagnostics
  <2>1. bridge = "showDiags" /\ lsp' = lsp /\ opened' = opened
        /\ diagnostics' = diagnostics
    BY <1>4 DEF ShowDiagnostics
  <2>2. lsp \notin {"exited", "crashed"}
    BY <2>1, TaskMeansLive
  <2>3. CASE cur \in DOMAIN diagnostics
    <3>1. PublishDiagnostics(cur, diagnostics[cur])
      BY <1>4, <2>3 DEF ShowDiagnostics
    <3>2. cur \in opened
      BY <2>1, <2>2 DEF VInv, Showing
    <3>3. DiagnosticsOf(diagnostics', cur) = diagnostics[cur]
      BY <2>1, <2>3 DEF DiagnosticsOf
    <3>4. QED
      BY <1>0, <2>1, <2>2, <3>1, <3>2, <3>3, PublishOnly DEF Stored
  <2>4. CASE cur \notin DOMAIN diagnostics
    BY <1>0, <1>4, <2>1, <2>2, <2>4, IterationOnlyClears DEF ShowDiagnostics
  <2>5. QED
    BY <2>3, <2>4
<1>5. CASE ShowNext
  <2>1. IterationNext /\ bridge = "showNext" /\ lsp' = lsp
    BY <1>5 DEF ShowNext
  <2>2. QED
    BY <1>0, <2>1, TaskMeansLive, IterationOnlyClears
<1>6. CASE \/ InitializeExit \/ InitializeFailure \/ InitializeSuccess
           \/ ReadMalformed \/ RunExit \/ RunShutdown \/ RunBadDocument
           \/ RunOther \/ WaitExit \/ WaitOther
  BY <1>6 DEF InitializeExit, InitializeFailure, InitializeSuccess,
              ReadMalformed, RunExit, RunShutdown, RunBadDocument, RunOther,
              WaitExit, WaitOther
<1>7. CASE \/ ConnectExisting \/ ConnectFailed \/ SpawnServer
           \/ WaitServerReady \/ Reconnect \/ ReadEof \/ ReadReset \/ Spin
  <2>1. ASSUME ConnectExisting PROVE view' = view
    BY <2>1 DEF ConnectExisting
  <2>2. ASSUME ConnectFailed PROVE view' = view
    BY <2>2 DEF ConnectFailed
  <2>3. ASSUME SpawnServer PROVE view' = view
    BY <2>3 DEF SpawnServer
  <2>4. ASSUME WaitServerReady PROVE view' = view
    BY <2>4 DEF WaitServerReady
  <2>5. ASSUME Reconnect PROVE view' = view
    BY <2>5 DEF Reconnect
  <2>6. ASSUME ReadEof PROVE view' = view
    BY <2>6 DEF ReadEof
  <2>7. ASSUME ReadReset PROVE view' = view
    BY <2>7 DEF ReadReset
  <2>8. ASSUME Spin PROVE view' = view
    BY <2>8 DEF Spin, vars
  <2>9. QED
    BY <1>7, <2>1, <2>2, <2>3, <2>4, <2>5, <2>6, <2>7, <2>8
<1>8. CASE \/ \E m \in Messages : EditorSend(m)
           \/ \E errs \in ErrorLists : DaemonErrorsChange(errs)
           \/ DaemonStops \/ Terminated \/ UNCHANGED vars
  BY <1>8 DEF EditorSend, DaemonErrorsChange, DaemonStops, Terminated, vars
<1>9. QED
  BY <1>1, <1>2, <1>3, <1>4, <1>5, <1>6, <1>7, <1>8
     DEF Next, LspNext, BridgeNext

(***************************************************************************)
(* When writes to the editor never suspend, no step sends a               *)
(* publishDiagnostics after run_persistent returned, and none shows       *)
(* markers for a closed document or a list other than the stored one,    *)
(* whether it is process_open_request, process_close_request or a step of *)
(* show_type_errors_to_client that publishes.                             *)
(***************************************************************************)
THEOREM PublishesCurrentProperty ==
    ASSUME ~WriteSuspends
    PROVE  Spec => PublishesCurrent
<1> DEFINE Inv == IInv /\ VInv /\ TaskStoppedOnExit
<1>1. Init => Inv
  BY InitIInv, InitVInv DEF Init, TaskStoppedOnExit
<1>2. Inv /\ [Next]_vars => Inv'
  BY NextIInv, NextVInv, NextTaskStopped
<1>3. Inv /\ [Next]_vars => [FreshPublish]_vars
  BY NextFreshPublish
<1>4. QED
  BY <1>1, <1>2, <1>3, PTL DEF Spec, PublishesCurrent

=============================================================================
