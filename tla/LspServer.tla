------------------------------ MODULE LspServer ------------------------------
(***************************************************************************)
(* The LSP loop of the persistent client: run_persistent and              *)
(* try_initialize before initialization, Server._run after it,            *)
(* Server.wait_for_exit after shutdown, and the didOpen/didClose handlers *)
(* that change ServerState.                                                *)
(*                                                                         *)
(* Each action is one read of a message (lsp.read_json_rpc) and all that  *)
(* the loop does with it up to its next read: the writes of the loop      *)
(* suspend only at their end, where nothing of the loop is left to do.    *)
(***************************************************************************)
EXTENDS PersistentState

\* The loop takes the editor's pending message.  It can only run while the
\* background task is suspended.
Receive ==
    /\ pending # NoMessage
    /\ ~BridgeHoldsLoop
    /\ pending' = NoMessage

\* Whether the message the loop read was a request, and what it wrote back.
Answer(reply) ==
    handled' = [request |-> pending.method \in RequestMethods, reply |-> reply]

-----------------------------------------------------------------------------
(***************************************************************************)
(* Before initialization: one call of try_initialize and what             *)
(* run_persistent does with its result.                                    *)
(***************************************************************************)

\* An exit notification: InitializationExit, run_persistent returns 0.
InitializeExit ==
    /\ lsp = "uninitialized"
    /\ pending.method = "exit"
    /\ Receive
    /\ Answer("none")
    /\ lsp' = "exited"
    /\ exitCode' = 0
    /\ UNCHANGED <<opened, diagnostics, view, shown, bridge, conn, iterOver,
                   seen, cur, daemon, daemonErrors, sock>>

\* Any other notification is an InitializationFailure without a response;
\* a request that is not a valid initialize raises ServerNotInitializedError
\* or InvalidParameterError, answered by an ErrorResponse.  run_persistent
\* loops.
InitializeFailure ==
    /\ lsp = "uninitialized"
    /\ pending.method \in (RequestMethods \ {"initialize"})
                            \cup (NotificationMethods \ {"exit"})
    /\ Receive
    /\ Answer(IF pending.method \in RequestMethods THEN "error" ELSE "none")
    /\ UNCHANGED <<lsp, exitCode, opened, diagnostics, view, shown, bridge,
                   conn, iterOver, seen, cur, daemon, daemonErrors, sock>>

\* A valid initialize request: the capabilities are written back, a fresh
\* ServerState is made and Server.run starts the background task
\* (ensure_task_running) before it enters _run.
InitializeSuccess ==
    /\ lsp = "uninitialized"
    /\ pending.method = "initialize"
    /\ Receive
    /\ Answer("result")
    /\ lsp' = "running"
    /\ opened' = {}
    /\ diagnostics' = NoDiagnostics
    /\ bridge' = "connect"
    /\ UNCHANGED <<exitCode, view, shown, conn, iterOver, seen, cur, daemon,
                   daemonErrors, sock>>

\* Mutant: the exception leaves run_persistent without the finally of
\* Server.run, and the background task is left running.
ReadMalformedNoStop ==
    /\ pending.method = "malformed"
    /\ lsp \in {"uninitialized", "running", "shutdown"}
    /\ Receive
    /\ Answer("none")
    /\ lsp' = "crashed"
    /\ UNCHANGED <<exitCode, opened, diagnostics, view, shown, bridge, conn,
                   iterOver, seen, cur, daemon, daemonErrors, sock>>

(***************************************************************************)
(* A frame that read_json_rpc cannot decode.  Its JSONRPCException is      *)
(* caught, but the handler reads the id of a message that was never       *)
(* assigned (`request.id` in try_initialize, `message.id` in               *)
(* _read_lsp_request): the UnboundLocalError leaves run_persistent, after  *)
(* the finally of Server.run has stopped the background task.             *)
(***************************************************************************)
ReadMalformed ==
    /\ pending.method = "malformed"
    /\ lsp \in {"uninitialized", "running", "shutdown"}
    /\ Receive
    /\ Answer("none")
    /\ lsp' = "crashed"
    /\ EnsureTaskStop
    /\ UNCHANGED <<exitCode, opened, diagnostics, view, shown, conn, daemon,
                   daemonErrors>>

-----------------------------------------------------------------------------
(***************************************************************************)
(* After initialization: one iteration of Server._run.                    *)
(***************************************************************************)

\* Mutant: exit without shutdown is taken for a clean exit.
RunExitSuccess ==
    /\ lsp = "running"
    /\ pending.method = "exit"
    /\ Receive
    /\ Answer("none")
    /\ lsp' = "exited"
    /\ exitCode' = 0
    /\ EnsureTaskStop
    /\ UNCHANGED <<opened, diagnostics, view, shown, conn, daemon, daemonErrors>>

\* exit without shutdown: _run returns ExitCode.FAILURE.
RunExit ==
    /\ lsp = "running"
    /\ pending.method = "exit"
    /\ Receive
    /\ Answer("none")
    /\ lsp' = "exited"
    /\ exitCode' = 1
    /\ EnsureTaskStop
    /\ UNCHANGED <<opened, diagnostics, view, shown, conn, daemon, daemonErrors>>

\* shutdown: the SuccessResponse is built by lsp.write_json_rpc, whose
\* coroutine is never awaited, so nothing is written; then wait_for_exit.
RunShutdown ==
    /\ lsp = "running"
    /\ pending.method = "shutdown"
    /\ Receive
    /\ Answer("none")
    /\ lsp' = "shutdown"
    /\ UNCHANGED <<exitCode, opened, diagnostics, view, shown, bridge, conn,
                   iterOver, seen, cur, daemon, daemonErrors, sock>>

\* Mutant: process_open_request publishes the stored diagnostics of the
\* path but forgets to add it to opened_documents.
DidOpenNotTracked ==
    /\ lsp = "running"
    /\ pending.method = "didOpen"
    /\ Receive
    /\ Answer("none")
    /\ LET path == pending.path IN
         IF path \in DOMAIN diagnostics
           THEN PublishDiagnostics(path, diagnostics[path])
           ELSE UNCHANGED view
    /\ UNCHANGED <<lsp, exitCode, opened, diagnostics, shown, bridge, conn,
                   iterOver, seen, cur, daemon, daemonErrors, sock>>

\* didOpen: process_open_request adds the path, then publishes the stored
\* diagnostics of the path if it has any.
DidOpen ==
    /\ lsp = "running"
    /\ pending.method = "didOpen"
    /\ Receive
    /\ Answer("none")
    /\ LET path == pending.path IN
         /\ opened' = opened \cup {path}
         /\ IF path \in DOMAIN diagnostics
              THEN PublishDiagnostics(path, diagnostics[path])
              ELSE UNCHANGED view
    /\ UNCHANGED <<lsp, exitCode, diagnostics, shown, bridge, conn, iterOver,
                   seen, cur, daemon, daemonErrors, sock>>

\* Mutant: process_close_request forgets to clear the closed document.
DidCloseNoClear ==
    /\ lsp = "running"
    /\ pending.method = "didClose"
    /\ Receive
    /\ Answer("none")
    /\ opened' = opened \ {pending.path}
    /\ UNCHANGED <<lsp, exitCode, diagnostics, view, shown, bridge, conn,
                   iterOver, seen, cur, daemon, daemonErrors, sock>>

\* didClose: process_close_request removes the path and, if it has stored
\* diagnostics, publishes an empty list; a path that is not open raises a
\* KeyError that is logged.
DidClose ==
    /\ lsp = "running"
    /\ pending.method = "didClose"
    /\ Receive
    /\ Answer("none")
    /\ LET path == pending.path IN
         IF path \in opened
           THEN /\ opened' = opened \ {path}
                /\ IF path \in DOMAIN diagnostics
                     THEN PublishDiagnostics(path, <<>>)
                     ELSE UNCHANGED view
           ELSE UNCHANGED <<opened, view>>
    /\ UNCHANGED <<lsp, exitCode, diagnostics, shown, bridge, conn, iterOver,
                   seen, cur, daemon, daemonErrors, sock>>

\* didOpen/didClose without parameters or with a URI that is no file:
\* InvalidRequestError, answered by _read_lsp_request with an ErrorResponse
\* whose id is the notification's (None).
RunBadDocument ==
    /\ lsp = "running"
    /\ pending.method = "badDocument"
    /\ Receive
    /\ Answer("error")
    /\ UNCHANGED <<lsp, exitCode, opened, diagnostics, view, shown, bridge,
                   conn, iterOver, seen, cur, daemon, daemonErrors, sock>>

\* Any other request: RequestCancelledError, answered with an error; any
\* other notification is dropped.
RunOther ==
    /\ lsp = "running"
    /\ pending.method \in {"initialize", "badInitialize", "otherRequest",
                           "otherNotification"}
    /\ Receive
    /\ Answer(IF pending.method \in RequestMethods THEN "error" ELSE "none")
    /\ UNCHANGED <<lsp, exitCode, opened, diagnostics, view, shown, bridge,
                   conn, iterOver, seen, cur, daemon, daemonErrors, sock>>

-----------------------------------------------------------------------------
(***************************************************************************)
(* After shutdown: one iteration of Server.wait_for_exit.                 *)
(***************************************************************************)

\* exit: wait_for_exit returns 0, and Server.run stops the task.
WaitExit ==
    /\ lsp = "shutdown"
    /\ pending.method = "exit"
    /\ Receive
    /\ Answer("none")
    /\ lsp' = "exited"
    /\ exitCode' = 0
    /\ EnsureTaskStop
    /\ UNCHANGED <<opened, diagnostics, view, shown, conn, daemon, daemonErrors>>

\* Every other message, request or notification, raises InvalidRequestError,
\* answered with an ErrorResponse.
WaitOther ==
    /\ lsp = "shutdown"
    /\ pending.method \in Methods \ {"exit", "malformed"}
    /\ Receive
    /\ Answer("error")
    /\ UNCHANGED <<lsp, exitCode, opened, diagnostics, view, shown, bridge,
                   conn, iterOver, seen, cur, daemon, daemonErrors, sock>>

LspNext ==
    \/ InitializeExit \/ InitializeFailure \/ InitializeSuccess
    \/ ReadMalformed
    \/ RunExit \/ RunShutdown \/ DidOpen \/ DidClose \/ RunBadDocument \/ RunOther
    \/ WaitExit \/ WaitOther

=============================================================================
