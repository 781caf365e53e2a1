--------------------------- MODULE PersistentProofs ---------------------------
(***************************************************************************)
(* Proofs about one session of the persistent client, for every set of    *)
(* paths, every set of type error lists, every bound MaxInFlight and both *)
(* values of the scheduling flags.                                         *)
(***************************************************************************)
EXTENDS Persistent, TLAPS

(***************************************************************************)
(* An end of stream the Pyre server wrote (EOF or a reset) is the last    *)
(* line on the socket, and the server is no longer up: it writes nothing  *)
(* after it.  This is what makes ReadEof leave an empty socket behind.    *)
(***************************************************************************)
EndOfStreamLast ==
    \A i \in 1 .. Len(sock) :
        sock[i] \in {Eof, Reset} => i = Len(sock) /\ daemon # "up"

\* The background task is started only by a successful initialization
\* (Server.run calls ensure_task_running after try_initialize succeeded).
TaskIdleBeforeInit == lsp = "uninitialized" => bridge = "idle"

\* The inductive invariant: the type invariant, strengthened by the bounds
\* on the socket.
IInv == TypeOK /\ SocketBounded /\ EndOfStreamLast /\ TaskIdleBeforeInit

-----------------------------------------------------------------------------
\* Every list of diagnostics ServerState holds for a path is one the editor
\* may be shown.
LEMMA StoredListTyped ==
    ASSUME NEW d \in DiagnosticMaps, NEW p \in DOMAIN d
    PROVE  d[p] \in DiagnosticLists
<1>1. CASE d = NoDiagnostics
  BY <1>1 DEF NoDiagnostics
<1>2. CASE \E l \in ErrorLists : d = TypeErrorsToDiagnostics(l)
  BY <1>2 DEF DiagnosticLists
<1>3. QED
  BY <1>1, <1>2 DEF DiagnosticMaps

\* The empty list, published on didClose and at the start of each path of
\* show_type_errors_to_client, is one the editor may be shown.
LEMMA EmptyListTyped == <<>> \in DiagnosticLists
BY DEF DiagnosticLists

\* A line read from the socket as a snapshot or an update carries one of
\* the lists of type errors the Pyre server may report.
LEMMA ReadLineTyped ==
    ASSUME NEW s \in Seq(Lines), s # <<>>, Head(s).kind \in {"snapshot", "update"}
    PROVE  Head(s).errs \in ErrorLists
BY DEF Lines, Eof, Reset

\* update_type_errors followed by the first step of
\* show_type_errors_to_client keeps every variable it writes in its type.
LEMMA UpdateAndShowTyped ==
    ASSUME TypeOK, NEW errs \in ErrorLists, sock # <<>>, UpdateAndShow(errs)
    PROVE  /\ diagnostics' \in DiagnosticMaps
           /\ sock' \in Seq(Lines) /\ Len(sock') < Len(sock)
           /\ view' \in [Paths -> DiagnosticLists]
           /\ iterOver' \in SUBSET Paths /\ seen' \in SUBSET Paths
           /\ cur' \in Paths \cup {NoPath}
           /\ bridge' \in {"read", "showDiags"}
<1>1. diagnostics' \in DiagnosticMaps
  BY DEF UpdateAndShow, DiagnosticMaps
<1>2. sock' \in Seq(Lines) /\ Len(sock') < Len(sock)
  BY DEF UpdateAndShow, TypeOK
<1>3. CASE opened = {} /\ bridge' = "read" /\ UNCHANGED <<view, iterOver, seen, cur>>
  BY <1>1, <1>2, <1>3 DEF TypeOK
<1>4. CASE \E path \in opened : /\ PublishDiagnostics(path, <<>>)
                                /\ iterOver' = opened
                                /\ seen' = {path}
                                /\ cur' = path
                                /\ bridge' = "showDiags"
  BY <1>1, <1>2, <1>4, EmptyListTyped DEF TypeOK, PublishDiagnostics
<1>5. QED
  BY <1>1, <1>2, <1>3, <1>4 DEF UpdateAndShow

\* A step of the iterator of show_type_errors_to_client, and the
\* RuntimeError it may raise, keep every variable it writes in its type.
IterationStepTyped ==
    /\ view' \in [Paths -> DiagnosticLists]
    /\ iterOver' \in SUBSET Paths /\ seen' \in SUBSET Paths
    /\ cur' \in Paths \cup {NoPath}
    /\ bridge' \in {"finished", "read", "showDiags"}
    /\ bridge' = "finished" => sock' = <<>>
    /\ bridge' # "finished" => sock' = sock

LEMMA IterationNextTyped ==
    ASSUME TypeOK, IterationNext
    PROVE  IterationStepTyped
<1>1. CASE Cardinality(opened) # Cardinality(iterOver)
  BY <1>1 DEF IterationNext, TaskEnds, ResetIteration, TypeOK, IterationStepTyped
<1>2. CASE Cardinality(opened) = Cardinality(iterOver)
  BY <1>2, EmptyListTyped
     DEF IterationNext, ResetIteration, PublishDiagnostics, TypeOK,
         IterationStepTyped
<1>3. QED
  BY <1>1, <1>2

-----------------------------------------------------------------------------
\* Init establishes the inductive invariant.
LEMMA InitIInv == Init => IInv
<1> SUFFICES ASSUME Init PROVE IInv
  OBVIOUS
<1>1. TypeOK
  <2>1. view \in [Paths -> DiagnosticLists]
    BY EmptyListTyped DEF Init
  <2>2. diagnostics \in DiagnosticMaps
    BY DEF Init, DiagnosticMaps
  <2>3. QED
    BY <2>1, <2>2, MaxInFlightAssumption
       DEF Init, TypeOK, Messages, NoMessage, Replies, BridgeStates
<1>2. SocketBounded
  BY MaxInFlightAssumption DEF Init, SocketBounded, Subscribed
<1>3. EndOfStreamLast
  BY DEF Init, EndOfStreamLast
<1>4. TaskIdleBeforeInit
  BY DEF Init, TaskIdleBeforeInit
<1>5. QED
  BY <1>1, <1>2, <1>3, <1>4 DEF IInv

-----------------------------------------------------------------------------
(***************************************************************************)
(* Every step of the session preserves the inductive invariant: one case *)
(* per action of the LSP loop, of the background task and of the          *)
(* environment.                                                           *)
(***************************************************************************)
LEMMA NextIInv == IInv /\ [Next]_vars => IInv'
<1> SUFFICES ASSUME IInv, [Next]_vars PROVE IInv'
  OBVIOUS
<1> USE MaxInFlightAssumption, EmptyListTyped
        DEF IInv, TypeOK, SocketBounded, EndOfStreamLast, TaskIdleBeforeInit,
            Subscribed, Receive, Answer, Messages, NoMessage, Replies,
            BridgeStates, Methods, DocumentMethods, RequestMethods,
            NotificationMethods, ShowMessages, ShowMessageToClient
<1>1. CASE InitializeExit
  BY <1>1 DEF InitializeExit
<1>2. CASE InitializeFailure
  BY <1>2 DEF InitializeFailure
<1>3. CASE InitializeSuccess
  BY <1>3 DEF InitializeSuccess, DiagnosticMaps
<1>4. CASE ReadMalformed
  BY <1>4 DEF ReadMalformed, EnsureTaskStop, ResetIteration
<1>5. CASE RunExit
  BY <1>5 DEF RunExit, EnsureTaskStop, ResetIteration
<1>6. CASE RunShutdown
  BY <1>6 DEF RunShutdown
<1>7. CASE DidOpen
  BY <1>7, StoredListTyped DEF DidOpen, PublishDiagnostics
<1>8. CASE DidClose
  BY <1>8 DEF DidClose, PublishDiagnostics
<1>9. CASE RunBadDocument
  BY <1>9 DEF RunBadDocument
<1>10. CASE RunOther
  BY <1>10 DEF RunOther
<1>11. CASE WaitExit
  BY <1>11 DEF WaitExit, EnsureTaskStop, ResetIteration
<1>12. CASE WaitOther
  BY <1>12 DEF WaitOther
<1>13. CASE ConnectExisting
  BY <1>13 DEF ConnectExisting, Snapshot, Lines, Eof, Reset
<1>14. CASE ConnectFailed
  BY <1>14 DEF ConnectFailed
<1>15. CASE SpawnServer
  <2>1. TypeOK'
    <3>1. shown' \in SUBSET ShowMessages /\ daemon' \in {"up", "starting", "down"}
      BY <1>15, Zenon DEF SpawnServer, ShowMessages
    <3>2. QED
      BY <3>1, <1>15 DEF SpawnServer
  <2>2. SocketBounded'
    BY <1>15 DEF SpawnServer
  <2>3. EndOfStreamLast'
    BY <1>15 DEF SpawnServer
  <2>4. TaskIdleBeforeInit'
    BY <1>15 DEF SpawnServer
  <2>5. QED
    BY <2>1, <2>2, <2>3, <2>4
<1>16. CASE WaitServerReady
  <2>1. shown' \in SUBSET ShowMessages /\ daemon' \in {"up", "starting", "down"}
    BY <1>16, Zenon DEF WaitServerReady
  <2>2. QED
    BY <1>16, <2>1 DEF WaitServerReady
<1>17. CASE Reconnect
  <2>1. CASE daemon = "up"
    <3>0. bridge' = "readFirst" /\ conn' = "spawned"
          /\ sock' = <<Snapshot(daemonErrors)>>
      BY <1>17, <2>1 DEF Reconnect
    <3>1. TypeOK'
      BY <1>17, <3>0 DEF Reconnect, Snapshot, Lines
    <3>2. SocketBounded' /\ EndOfStreamLast' /\ TaskIdleBeforeInit'
      BY <1>17, <3>0 DEF Reconnect, Snapshot, Eof, Reset
    <3>3. QED
      BY <3>1, <3>2
  <2>2. CASE daemon # "up"
    <3>0. bridge' = "finished" /\ conn' = conn /\ sock' = sock
      BY <1>17, <2>2 DEF Reconnect
    <3>1. TypeOK'
      BY <1>17, <3>0 DEF Reconnect
    <3>2. SocketBounded' /\ EndOfStreamLast' /\ TaskIdleBeforeInit'
      BY <1>17, <3>0 DEF Reconnect
    <3>3. QED
      BY <3>1, <3>2
  <2>3. QED
    BY <2>1, <2>2
<1>18. CASE ReadSnapshot
  <2>1. Head(sock).errs \in ErrorLists
    BY <1>18, ReadLineTyped DEF ReadSnapshot
  <2>2. TypeOK'
    BY <1>18, <2>1, UpdateAndShowTyped DEF ReadSnapshot
  <2>3. QED
    BY <1>18, <2>2 DEF ReadSnapshot, UpdateAndShow, PublishDiagnostics
<1>19. CASE ReadUpdate
  <2>1. Head(sock).errs \in ErrorLists
    BY <1>19, ReadLineTyped DEF ReadUpdate
  <2>2. TypeOK'
    BY <1>19, <2>1, UpdateAndShowTyped DEF ReadUpdate
  <2>3. QED
    BY <1>19, <2>2 DEF ReadUpdate, UpdateAndShow, PublishDiagnostics
<1>20. CASE ReadEof
  BY <1>20 DEF ReadEof
<1>21. CASE ReadReset
  BY <1>21 DEF ReadReset
<1>22. CASE Spin
  BY <1>22 DEF Spin, vars
<1>23. CASE ShowDiagnostics
  <2>1. CASE cur \in DOMAIN diagnostics
    BY <1>23, <2>1, StoredListTyped DEF ShowDiagnostics, PublishDiagnostics
  <2>2. CASE cur \notin DOMAIN diagnostics
    <3>1. IterationNext
      BY <1>23, <2>2 DEF ShowDiagnostics
    <3>2. IterationStepTyped
      BY <3>1, IterationNextTyped
    <3>3. TypeOK'
      <4>1. sock' \in Seq(Lines) /\ Len(sock') <= MaxInFlight + 1
        <5>1. CASE bridge' = "finished"
          BY <3>2, <5>1 DEF IterationStepTyped
        <5>2. CASE bridge' # "finished"
          BY <3>2, <5>2 DEF IterationStepTyped
        <5>3. QED
          BY <5>1, <5>2
      <4>2. QED
        BY <1>23, <3>2, <4>1 DEF ShowDiagnostics, IterationStepTyped
    <3>4. SocketBounded' /\ EndOfStreamLast' /\ TaskIdleBeforeInit'
      BY <1>23, <3>2 DEF ShowDiagnostics, IterationStepTyped
    <3>5. QED
      BY <3>3, <3>4
  <2>3. QED
    BY <2>1, <2>2
<1>24. CASE ShowNext
  <2>1. IterationStepTyped
    BY <1>24, IterationNextTyped DEF ShowNext
  <2>2. TypeOK'
    <3>1. sock' \in Seq(Lines) /\ Len(sock') <= MaxInFlight + 1
      <4>1. CASE bridge' = "finished"
        BY <2>1, <4>1 DEF IterationStepTyped
      <4>2. CASE bridge' # "finished"
        BY <2>1, <4>2 DEF IterationStepTyped
      <4>3. QED
        BY <4>1, <4>2
    <3>2. view' \in [Paths -> DiagnosticLists] /\ bridge' \in BridgeStates
      BY <2>1 DEF IterationStepTyped
    <3>3. QED
      BY <1>24, <2>1, <3>1, <3>2 DEF ShowNext, IterationStepTyped
  <2>3. SocketBounded' /\ EndOfStreamLast' /\ TaskIdleBeforeInit'
    BY <1>24, <2>1 DEF ShowNext, IterationStepTyped
  <2>4. QED
    BY <2>2, <2>3
<1>25. CASE \E m \in Messages : EditorSend(m)
  BY <1>25 DEF EditorSend
<1>26. CASE \E errs \in ErrorLists : DaemonErrorsChange(errs)
  <2>1. PICK errs \in ErrorLists : DaemonErrorsChange(errs)
    BY <1>26
  <2>2. \A i \in 1 .. Len(sock) : sock[i] \notin {Eof, Reset}
    BY <2>1 DEF DaemonErrorsChange
  <2>3. CASE Subscribed
    <3>1. sock' = Append(sock, Update(errs)) /\ Len(sock') <= MaxInFlight
      BY <2>1, <2>3 DEF DaemonErrorsChange
    <3>2. Update(errs) \in Lines /\ Update(errs) \notin {Eof, Reset}
      BY DEF Update, Lines, Eof, Reset
    <3>3. TypeOK'
      BY <2>1, <3>1, <3>2 DEF DaemonErrorsChange
    <3>4. EndOfStreamLast'
      BY <2>1, <2>2, <3>1, <3>2 DEF DaemonErrorsChange
    <3>5. QED
      BY <2>1, <2>3, <3>1, <3>3, <3>4 DEF DaemonErrorsChange
  <2>4. CASE ~Subscribed
    BY <2>1, <2>4 DEF DaemonErrorsChange
  <2>5. QED
    BY <2>3, <2>4
<1>27. CASE DaemonStops
  <2>1. CASE Subscribed
    <3>1. PICK last \in {Eof, Reset} : sock' = Append(sock, last)
      BY <1>27, <2>1 DEF DaemonStops
    <3>2. \A i \in 1 .. Len(sock) : sock[i] \notin {Eof, Reset}
      BY <1>27 DEF DaemonStops
    <3>3. TypeOK'
      BY <1>27, <3>1 DEF DaemonStops, Lines
    <3>4. EndOfStreamLast'
      BY <1>27, <3>1, <3>2 DEF DaemonStops
    <3>5. QED
      BY <1>27, <2>1, <3>3, <3>4 DEF DaemonStops
  <2>2. CASE ~Subscribed
    BY <1>27, <2>2 DEF DaemonStops
  <2>3. QED
    BY <2>1, <2>2
<1>28. CASE Terminated
  BY <1>28 DEF Terminated, vars
<1>29. CASE UNCHANGED vars
  BY <1>29 DEF vars
<1>30. QED
  BY <1>1, <1>2, <1>3, <1>4, <1>5, <1>6, <1>7, <1>8, <1>9, <1>10, <1>11,
     <1>12, <1>13, <1>14, <1>15, <1>16, <1>17, <1>18, <1>19, <1>20, <1>21,
     <1>22, <1>23, <1>24, <1>25, <1>26, <1>27, <1>28, <1>29
     DEF Next, LspNext, BridgeNext

(***************************************************************************)
(* Once run_persistent has returned, through any of its exits, the        *)
(* background task is stopped and its socket closed, and it stays so:     *)
(* none of the task's steps is enabled in "idle" or "finished", and the  *)
(* Pyre server writes only to a subscribed client.                        *)
(***************************************************************************)
LEMMA NextTaskStopped ==
    IInv /\ TaskStoppedOnExit /\ [Next]_vars => TaskStoppedOnExit'
<1> SUFFICES ASSUME IInv, TaskStoppedOnExit, [Next]_vars
             PROVE  TaskStoppedOnExit'
  OBVIOUS
<1> USE DEF TaskStoppedOnExit, Subscribed
<1>1. CASE LspNext
  <2>1. CASE InitializeExit
    BY <1>1, <2>1 DEF InitializeExit, IInv, TaskIdleBeforeInit, SocketBounded
  <2>2. CASE InitializeFailure
    BY <1>1, <2>2 DEF InitializeFailure
  <2>3. CASE InitializeSuccess
    BY <1>1, <2>3 DEF InitializeSuccess
  <2>4. CASE ReadMalformed
    BY <1>1, <2>4 DEF ReadMalformed, EnsureTaskStop
  <2>5. CASE RunExit
    BY <1>1, <2>5 DEF RunExit, EnsureTaskStop
  <2>6. CASE RunShutdown
    BY <1>1, <2>6 DEF RunShutdown
  <2>7. CASE DidOpen
    BY <1>1, <2>7 DEF DidOpen
  <2>8. CASE DidClose
    BY <1>1, <2>8 DEF DidClose
  <2>9. CASE RunBadDocument
    BY <1>1, <2>9 DEF RunBadDocument
  <2>10. CASE RunOther
    BY <1>1, <2>10 DEF RunOther
  <2>11. CASE WaitExit
    BY <1>1, <2>11 DEF WaitExit, EnsureTaskStop
  <2>12. CASE WaitOther
    BY <1>1, <2>12 DEF WaitOther
  <2>13. QED
    BY <1>1, <2>1, <2>2, <2>3, <2>4, <2>5, <2>6, <2>7, <2>8, <2>9, <2>10,
       <2>11, <2>12 DEF LspNext
<1>2. CASE BridgeNext
  <2>1. CASE ConnectExisting
    BY <1>2, <2>1 DEF ConnectExisting
  <2>2. CASE ConnectFailed
    BY <1>2, <2>2 DEF ConnectFailed
  <2>3. CASE SpawnServer
    BY <1>2, <2>3 DEF SpawnServer
  <2>4. CASE WaitServerReady
    BY <1>2, <2>4 DEF WaitServerReady
  <2>5. CASE Reconnect
    BY <1>2, <2>5 DEF Reconnect
  <2>6. CASE ReadSnapshot
    BY <1>2, <2>6 DEF ReadSnapshot, UpdateAndShow
  <2>7. CASE ReadUpdate
    BY <1>2, <2>7 DEF ReadUpdate, UpdateAndShow
  <2>8. CASE ReadEof
    BY <1>2, <2>8 DEF ReadEof
  <2>9. CASE ReadReset
    BY <1>2, <2>9 DEF ReadReset
  <2>10. CASE Spin
    BY <1>2, <2>10 DEF Spin, vars
  <2>11. CASE ShowDiagnostics
    BY <1>2, <2>11 DEF ShowDiagnostics
  <2>12. CASE ShowNext
    BY <1>2, <2>12 DEF ShowNext
  <2>13. QED
    BY <1>2, <2>1, <2>2, <2>3, <2>4, <2>5, <2>6, <2>7, <2>8, <2>9, <2>10,
       <2>11, <2>12 DEF BridgeNext
<1>3. CASE \E m \in Messages : EditorSend(m)
  BY <1>3 DEF EditorSend
<1>4. CASE \E errs \in ErrorLists : DaemonErrorsChange(errs)
  BY <1>4 DEF DaemonErrorsChange
<1>5. CASE DaemonStops
  BY <1>5 DEF DaemonStops
<1>6. CASE Terminated \/ UNCHANGED vars
  BY <1>6 DEF Terminated, vars
<1>7. QED
  BY <1>1, <1>2, <1>3, <1>4, <1>5, <1>6 DEF Next

-----------------------------------------------------------------------------
\* Type correctness of the whole session: every variable keeps the type
\* TypeOK gives it, in every reachable state.
THEOREM TypeCorrect == Spec => []TypeOK
<1>1. Init => IInv
  BY InitIInv
<1>2. IInv /\ [Next]_vars => IInv'
  BY NextIInv
<1>3. IInv => TypeOK
  BY DEF IInv
<1>4. QED
  BY <1>1, <1>2, <1>3, PTL DEF Spec

\* The connection to the Pyre server holds no unread line while the task is
\* not subscribed, and at most MaxInFlight while the server is up.
THEOREM SocketBoundedInvariant == Spec => []SocketBounded
<1>1. IInv => SocketBounded
  BY DEF IInv
<1>2. QED
  BY <1>1, InitIInv, NextIInv, PTL DEF Spec

\* Every exit of run_persistent leaves the background task stopped and its
\* socket closed.
THEOREM TaskStoppedOnExitInvariant == Spec => []TaskStoppedOnExit
<1>1. Init => TaskStoppedOnExit
  BY DEF Init, TaskStoppedOnExit
<1>2. QED
  BY <1>1, InitIInv, NextIInv, NextTaskStopped, PTL DEF Spec

=============================================================================
