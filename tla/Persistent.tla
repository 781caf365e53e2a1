------------------------------ MODULE Persistent ------------------------------
(***************************************************************************)
(* One session of the persistent client: the LSP loop and the background  *)
(* task sharing ServerState, between the editor and the Pyre server.      *)
(* The editor and the server are the environment: they may send anything *)
(* at any time, and nothing obliges them to.                              *)
(***************************************************************************)
EXTENDS LspServer, PyreServerHandler

-----------------------------------------------------------------------------
(***************************************************************************)
(* The environment.                                                        *)
(***************************************************************************)

\* The editor writes a message on stdin.
EditorSend(m) ==
    /\ pending = NoMessage
    /\ lsp \notin {"exited", "crashed"}
    /\ pending' = m
    /\ UNCHANGED <<lsp, exitCode, opened, diagnostics, handled, view, shown,
                   bridge, conn, iterOver, seen, cur, daemon, daemonErrors, sock>>

\* The type errors known to the Pyre server change; a subscribed client is
\* sent the new list (at most MaxInFlight of them wait on the socket).
DaemonErrorsChange(errs) ==
    /\ daemon = "up"
    /\ errs # daemonErrors
    /\ daemonErrors' = errs
    /\ IF Subscribed
         THEN /\ Len(sock) < MaxInFlight
              /\ sock' = Append(sock, Update(errs))
         ELSE UNCHANGED sock
    /\ UNCHANGED <<lsp, exitCode, opened, diagnostics, pending, handled, view,
                   shown, bridge, conn, iterOver, seen, cur, daemon>>

\* The Pyre server exits (pyre stop, a crash, a restart); a connected
\* client reads the end of its stream, or an error.
DaemonStops ==
    /\ DaemonMayStop
    /\ daemon = "up"
    /\ daemon' = "down"
    /\ IF Subscribed
         THEN \E last \in {Eof, Reset} : sock' = Append(sock, last)
         ELSE UNCHANGED sock
    /\ UNCHANGED <<lsp, exitCode, opened, diagnostics, pending, handled, view,
                   shown, bridge, conn, iterOver, seen, cur, daemonErrors>>

\* The process has returned from run_persistent.
Terminated ==
    /\ lsp \in {"exited", "crashed"}
    /\ UNCHANGED vars

-----------------------------------------------------------------------------
Init ==
    /\ lsp = "uninitialized"
    /\ exitCode = -1
    /\ opened = {}
    /\ diagnostics = NoDiagnostics
    /\ pending = NoMessage
    /\ handled = [request |-> FALSE, reply |-> "none"]
    /\ view = [p \in Paths |-> <<>>]
    /\ shown = {}
    /\ bridge = "idle"
    /\ conn = "existing"
    /\ iterOver = {}
    /\ seen = {}
    /\ cur = NoPath
    /\ daemon \in {"up", "down"}
    /\ daemonErrors \in ErrorLists
    /\ sock = <<>>

Next ==
    \/ LspNext
    \/ BridgeNext
    \/ \E m \in Messages : EditorSend(m)
    \/ \E errs \in ErrorLists : DaemonErrorsChange(errs)
    \/ DaemonStops
    \/ Terminated

(***************************************************************************)
(* asyncio's event loop runs every task whose awaited I/O is ready, in    *)
(* FIFO order.  The LSP loop can run only while the background task is    *)
(* suspended: it is disabled during every show loop that does not         *)
(* suspend, and enabled again at the task's next await, when its ready    *)
(* callback is the next in the queue.  So it is strongly fair: a loop     *)
(* able to run again and again does run.  The background task, once its  *)
(* line has arrived, stays able to run until it runs: weak fairness.  The *)
(* editor and the Pyre server get no fairness.                            *)
(***************************************************************************)
Fairness ==
    /\ SF_vars(LspNext)
    /\ WF_vars(BridgeNext)

Spec == Init /\ [][Next]_vars /\ Fairness

-----------------------------------------------------------------------------
(***************************************************************************)
(* Properties.                                                             *)
(***************************************************************************)

\* The diagnostics the code holds for a path.
Stored(path) == DiagnosticsOf(diagnostics, path)

(***************************************************************************)
(* What the editor shows agrees with ServerState, whatever the order in   *)
(* which didOpen/didClose (LSP loop) and updates from the Pyre server     *)
(* (background task) are handled: a document that is not open shows no    *)
(* diagnostics (didClose cleared them, and updates publish for open       *)
(* documents only), and outside show_type_errors_to_client an open        *)
(* document shows exactly its stored diagnostics (didOpen published them, *)
(* or the last update did).  This is a promise of a live session: once   *)
(* run_persistent has returned, the editor no longer listens.            *)
(***************************************************************************)
EditorViewConsistent ==
    lsp \notin {"exited", "crashed"} =>
    \A p \in Paths :
        /\ p \notin opened => view[p] = <<>>
        /\ p \in opened /\ ~Showing => view[p] = Stored(p)

(***************************************************************************)
(* On every path out of run_persistent (exit before or after shutdown, an *)
(* exception) the background task has been stopped and its connection to  *)
(* the Pyre server closed (the finally of Server.run).                     *)
(***************************************************************************)
TaskStoppedOnExit ==
    lsp \in {"exited", "crashed"} => bridge \in {"idle", "finished"} /\ sock = <<>>

\* A step that publishes diagnostics does so in a live session, and for each
\* document it changes it either clears the markers or shows the stored
\* diagnostics of a document that is open after the step.
FreshPublish ==
    view' # view =>
        /\ lsp' \notin {"exited", "crashed"}
        /\ \A p \in Paths : view'[p] # view[p] =>
              \/ view'[p] = <<>>
              \/ p \in opened' /\ view'[p] = Stored(p)'

(***************************************************************************)
(* No publishDiagnostics, of process_open_request, process_close_request  *)
(* or show_type_errors_to_client, is sent after run_persistent returned,  *)
(* and none shows markers for a closed document or a list that is not     *)
(* the one ServerState holds once the step is over.  Both actors publish: *)
(* the LSP loop on didOpen/didClose, the background task in its loop over *)
(* the open documents.                                                     *)
(***************************************************************************)
PublishesCurrent == [][FreshPublish]_vars

(***************************************************************************)
(* The connection to the Pyre server is closed whenever the task is not   *)
(* subscribed: before it connects, while it starts a server, once it has  *)
(* read the end of the stream and after it ends, no unread line is left   *)
(* on a socket.  While the server is up at most MaxInFlight lines wait on *)
(* it.                                                                     *)
(***************************************************************************)
SocketBounded ==
    /\ ~Subscribed => sock = <<>>
    /\ daemon = "up" => Len(sock) <= MaxInFlight

(***************************************************************************)
(* The client keeps up with the Pyre server: while the task is subscribed *)
(* and the server up, the newest list of type errors the client has is    *)
(* the one the server knows of now.  That list is the last line waiting   *)
(* on the socket, or, when none waits, the one update_type_errors stored  *)
(* last (subscribe_to_type_error applies the snapshot, then every update, *)
(* in the order the server wrote them).  A lost or reordered update, a    *)
(* first response not applied, or a line of an old connection read after  *)
(* the snapshot of a new one leaves the client behind for good.           *)
(***************************************************************************)
ClientTracksServer ==
    Subscribed /\ daemon = "up" =>
        IF sock = <<>> THEN diagnostics = TypeErrorsToDiagnostics(daemonErrors)
                       ELSE sock[Len(sock)].errs = daemonErrors

(***************************************************************************)
(* The editor catches up with the Pyre server: while the client stays     *)
(* subscribed, a document stays open and the server's type errors stay    *)
(* the same, the editor eventually shows for that document the            *)
(* diagnostics of those errors (subscribe_to_type_error reads every       *)
(* update and show_type_errors_to_client publishes it).                   *)
(***************************************************************************)
ViewConverges ==
    \A p \in Paths, errs \in ErrorLists :
        (Subscribed /\ p \in opened /\ daemonErrors = errs)
          ~> \/ view[p] = DiagnosticsOf(TypeErrorsToDiagnostics(errs), p)
             \/ ~Subscribed \/ p \notin opened \/ daemonErrors # errs

(***************************************************************************)
(* Every message the editor sends is eventually read by the LSP loop,     *)
(* unless the process has exited: the background task never keeps the     *)
(* event loop from the LSP loop for ever (spec: "EOF on the socket ends   *)
(* the task").                                                             *)
(***************************************************************************)
EditorServed ==
    pending # NoMessage ~> (pending = NoMessage \/ lsp \in {"exited", "crashed"})

(***************************************************************************)
(* Every request the editor sends is answered (JSON-RPC); in particular   *)
(* shutdown is acknowledged with an empty result before exit is awaited   *)
(* (spec 4.3, scenario S5).                                                *)
(***************************************************************************)
RequestsAnswered == handled.request => handled.reply # "none"

(***************************************************************************)
(* A notification is never answered (JSON-RPC); after shutdown the loop   *)
(* ignores everything but exit (spec 4.3).                                 *)
(***************************************************************************)
NotificationsUnanswered == ~handled.request => handled.reply = "none"

(***************************************************************************)
(* A frame that cannot be decoded is answered with an error and does not  *)
(* end the session (spec 4.3, 7: decode errors are never fatal).          *)
(***************************************************************************)
DecodeErrorsNotFatal == lsp # "crashed"

(***************************************************************************)
(* Before the background task starts a new Pyre server, it has told the   *)
(* editor so with window/showMessage (spec 4.5 step 3, scenario S7).       *)
(***************************************************************************)
StartAnnounced == bridge \in {"spawn", "waitReady"} => "starting" \in shown

(***************************************************************************)
(* While the session runs and the Pyre server is up, the background task  *)
(* eventually holds a subscription to it (it connects to the running      *)
(* server, or reconnects to the one it started), unless the server stops  *)
(* or the session ends first: a failure of the task that leaves a live     *)
(* server behind would freeze the editor's diagnostics for the rest of     *)
(* the session, since the task manager never restarts the task.           *)
(***************************************************************************)
SubscribedWhileServerUp ==
    (lsp \in {"running", "shutdown"} /\ daemon = "up")
      ~> (Subscribed \/ daemon # "up" \/ lsp \in {"exited", "crashed"})

(***************************************************************************)
(* The background task gives up only on a Pyre server that is gone: while *)
(* the session runs, a task that has finished (PyreServerHandler.run      *)
(* returned or raised) leaves no server up behind it.  It ends when no    *)
(* server can be started, when the server it started does not come up or  *)
(* is not there for the second connect, or when that server's connection  *)
(* is reset; any other way out (an exception of the publish loop, a        *)
(* return without subscribing) would leave the editor without diagnostics *)
(* from a live server, since the task manager never restarts the task.    *)
(***************************************************************************)
TaskEndsOnlyWithoutServer ==
    bridge = "finished" /\ lsp \in {"running", "shutdown"} => daemon # "up"

-----------------------------------------------------------------------------
(***************************************************************************)
(* The refinement mapping to the LSP lifecycle: the phase of the loop, its *)
(* exit code, the open documents, and the supervised task, read off the   *)
(* task itself.  It is "notStarted" while never started, and "live" while *)
(* it runs or still holds a connection to the Pyre server.  A task that   *)
(* has finished with its connection closed is "stopped" once              *)
(* run_persistent has returned, and "ended" (on its own) before that.     *)
(***************************************************************************)
PhaseOf ==
    [uninitialized |-> "preInit", running |-> "active", shutdown |-> "shutdown",
     exited |-> "terminated", crashed |-> "terminated"]

PhaseBar == PhaseOf[lsp]

TaskBar ==
    IF bridge = "idle" THEN "notStarted"
    ELSE IF bridge # "finished" \/ sock # <<>> THEN "live"
    ELSE IF lsp \in {"exited", "crashed"} THEN "stopped"
    ELSE "ended"

Lifecycle == INSTANCE LspLifecycle
                 WITH phase <- PhaseBar, code <- exitCode, docs <- opened,
                      task <- TaskBar

(***************************************************************************)
(* The session implements the LSP lifecycle: its phases follow the state  *)
(* table of the LSP loop with the exit codes it prescribes (0 for exit    *)
(* before initialization and after shutdown, 1 for exit without           *)
(* shutdown), documents are opened and closed only while the session is   *)
(* active, and the background task is started by initialization only,     *)
(* never restarted, and stopped on every way out of run_persistent.       *)
(***************************************************************************)
ImplementsLifecycle == Lifecycle!Spec

=============================================================================
