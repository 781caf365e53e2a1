--------------------------- MODULE PersistentState ---------------------------
(***************************************************************************)
(* The state of one session of the persistent LSP client                  *)
(* (client/commands/v2/persistent.py), shared by the two asyncio tasks    *)
(* that run in it: the LSP loop (Server) and the background task that     *)
(* talks to the Pyre server (PyreServerHandler), and by the two external  *)
(* parties: the editor on stdin/stdout and the Pyre server on its socket. *)
(***************************************************************************)
EXTENDS Integers, Sequences, FiniteSets, DiagnosticTranslation

CONSTANTS
    ErrorLists,     \* the lists of type errors the Pyre server may report
    MaxInFlight,    \* bound on the updates queued on the server socket
    WriteSuspends,  \* whether a write to the editor may suspend its task
    DaemonMayStop,  \* whether the Pyre server may exit while connected
    NoPath          \* the path of a message that names no document

ASSUME ErrorListsAssumption == ErrorLists \subseteq Seq(TypeError)
ASSUME MaxInFlightAssumption == MaxInFlight \in Nat \ {0}
ASSUME FlagsAssumption == WriteSuspends \in BOOLEAN /\ DaemonMayStop \in BOOLEAN
ASSUME NoPathAssumption == NoPath \notin Paths

VARIABLES
    \* --- the LSP loop (run_persistent, Server) ---
    lsp,          \* where run_persistent is: "uninitialized" (try_initialize
                  \* loop), "running" (Server._run), "shutdown"
                  \* (wait_for_exit), "exited" or "crashed"
    exitCode,     \* the code run_persistent returned, -1 before it returns
    \* --- ServerState ---
    opened,       \* state.opened_documents
    diagnostics,  \* state.diagnostics: a function from a set of paths
    \* --- the editor channel ---
    pending,      \* the message the editor has sent and the loop not read
    handled,      \* whether the last message the loop read was a
                  \* request, and what the loop wrote back
    view,         \* the diagnostics the editor shows for each path: the
                  \* list of the last publishDiagnostics written for it
    shown,        \* the window/showMessage notifications written so far
    \* --- the background task (BackgroundTaskManager, PyreServerHandler) ---
    bridge,       \* where the task is (see BridgeStates)
    conn,         \* whose socket the task holds: "existing" or "spawned"
    iterOver,     \* show_type_errors_to_client: the set its iterator was
    seen,         \*   made on, the paths it has yielded,
    cur,          \*   and the path of the current iteration
    \* --- the Pyre server ---
    daemon,       \* "up", "starting" or "down"
    daemonErrors, \* the type errors the Pyre server currently knows of
    sock          \* the lines written on the socket not yet read

vars == <<lsp, exitCode, opened, diagnostics, pending, handled, view, shown,
          bridge, conn, iterOver, seen, cur, daemon, daemonErrors, sock>>

-----------------------------------------------------------------------------
(***************************************************************************)
(* Messages of the editor.  A message is a method name and, for the two  *)
(* document notifications, the path of its URI.  "badInitialize" is an    *)
(* initialize request without (valid) parameters, "badDocument" a         *)
(* didOpen/didClose without parameters or with a URI that is not a file,  *)
(* "malformed" a frame read_json_rpc cannot decode.                       *)
(***************************************************************************)
RequestMethods == {"initialize", "badInitialize", "shutdown", "otherRequest"}
NotificationMethods ==
    {"exit", "didOpen", "didClose", "badDocument", "otherNotification"}
Methods == RequestMethods \cup NotificationMethods \cup {"malformed"}
DocumentMethods == {"didOpen", "didClose"}

Messages ==
    [method: DocumentMethods, path: Paths]
      \cup [method: Methods \ DocumentMethods, path: {NoPath}]
NoMessage == [method |-> "none", path |-> NoPath]

\* What the loop wrote back for a message: nothing, a success response or
\* an error response.
Replies == {"none", "result", "error"}

\* Notifications of window/showMessage the background task writes.
ShowMessages == {"connected", "starting", "initialized", "cannotStart"}

(***************************************************************************)
(* Lines of the Pyre server socket: the answer to SubscribeToTypeErrors   *)
(* (a full snapshot), a subscription update, and the end of the stream:   *)
(* "eof" when the server closed it, "reset" when the read fails with an   *)
(* OSError (ConnectionResetError).                                        *)
(***************************************************************************)
Snapshot(errs) == [kind |-> "snapshot", errs |-> errs]
Update(errs)   == [kind |-> "update", errs |-> errs]
Eof            == [kind |-> "eof", errs |-> <<>>]
Reset          == [kind |-> "reset", errs |-> <<>>]
Lines == [kind: {"snapshot", "update"}, errs: ErrorLists]
           \cup {Eof, Reset}

(***************************************************************************)
(* The places of the background task.  "idle": not started yet;           *)
(* "connect": about to connect to the existing server; "spawn" and        *)
(* "waitReady": _start_pyre_server; "reconnect": connecting to the server *)
(* it started; "readFirst": reading the answer to the subscription;       *)
(* "read": reading an update; "showDiags" and "showNext": inside the loop *)
(* of show_type_errors_to_client, after the empty publish of cur and      *)
(* after the publish of its diagnostics; "spinning": reading an ended     *)
(* stream; "finished": returned, raised or cancelled.                     *)
(***************************************************************************)
BridgeStates ==
    {"idle", "connect", "spawn", "waitReady", "reconnect", "readFirst",
     "read", "showDiags", "showNext", "spinning", "finished"}

\* The task holds a subscribed connection to the Pyre server.
Subscribed == bridge \in {"readFirst", "read", "showDiags", "showNext"}

\* The task is inside show_type_errors_to_client.
Showing == bridge \in {"showDiags", "showNext"}

(***************************************************************************)
(* asyncio runs one task at a time and switches only where the running   *)
(* task awaits something that is not ready.  A write to the editor        *)
(* suspends only when the output buffer is full (drain); with             *)
(* WriteSuspends false it never does and the whole loop of                *)
(* show_type_errors_to_client runs without a switch.  Reading an ended    *)
(* stream never suspends (StreamReader.readline returns b"" at once), so  *)
(* a task in "spinning" keeps the event loop for ever.                    *)
(***************************************************************************)
BridgeHoldsLoop ==
    \/ bridge = "spinning"
    \/ ~WriteSuspends /\ Showing

\* The empty ServerState.diagnostics.
NoDiagnostics == [p \in {} |-> <<>>]

\* Every list of diagnostics the code can hold or publish for a path.
DiagnosticLists ==
    {<<>>} \cup UNION {LET dict == TypeErrorsToDiagnostics(l)
                        IN  {dict[p] : p \in DOMAIN dict} : l \in ErrorLists}

\* Every value ServerState.diagnostics can take.
DiagnosticMaps == {NoDiagnostics} \cup {TypeErrorsToDiagnostics(l) : l \in ErrorLists}

\* _publish_diagnostics(path, list): the editor now shows the list for path.
PublishDiagnostics(path, list) == view' = [view EXCEPT ![path] = list]

\* show_message_to_client (and log_and_show_message_to_client, which logs
\* first): a window/showMessage notification is written to the editor.
ShowMessageToClient(msg) == shown' = shown \cup {msg}

\* The background task is out of show_type_errors_to_client.
ResetIteration == iterOver' = {} /\ seen' = {} /\ cur' = NoPath

(***************************************************************************)
(* BackgroundTaskManager.ensure_task_stop (called in the finally of        *)
(* Server.run): cancel the task if it runs and wait for it.  Cancelling   *)
(* leaves the `async with` of its connection, which closes the socket.    *)
(***************************************************************************)
EnsureTaskStop ==
    /\ bridge' = IF bridge = "idle" THEN "idle" ELSE "finished"
    /\ sock' = <<>>
    /\ ResetIteration

-----------------------------------------------------------------------------
TypeOK ==
    /\ lsp \in {"uninitialized", "running", "shutdown", "exited", "crashed"}
    /\ exitCode \in {-1, 0, 1}
    /\ opened \in SUBSET Paths
    /\ diagnostics \in DiagnosticMaps
    /\ pending \in Messages \cup {NoMessage}
    /\ handled \in [request: BOOLEAN, reply: Replies]
    /\ view \in [Paths -> DiagnosticLists]
    /\ shown \in SUBSET ShowMessages
    /\ bridge \in BridgeStates
    /\ conn \in {"existing", "spawned"}
    /\ iterOver \in SUBSET Paths
    /\ seen \in SUBSET Paths
    /\ cur \in Paths \cup {NoPath}
    /\ daemon \in {"up", "starting", "down"}
    /\ daemonErrors \in ErrorLists
    /\ sock \in Seq(Lines)
    /\ Len(sock) <= MaxInFlight + 1

=============================================================================
