-------------------------- MODULE PyreServerHandler --------------------------
(***************************************************************************)
(* The background task of the persistent client: PyreServerHandler.run,   *)
(* _start_pyre_server, subscribe_to_type_error and                         *)
(* show_type_errors_to_client, run under BackgroundTaskManager.           *)
(*                                                                         *)
(* Each action runs the task from one suspension point to the next:       *)
(* connecting, starting the server process, waiting for its readiness,    *)
(* reading a line of the socket, and a write to the editor when           *)
(* WriteSuspends holds.                                                    *)
(***************************************************************************)
EXTENDS PersistentState

\* Mutant: a task that ends keeps its connection and the lines on it.
TaskEndsKeepsSocket ==
    /\ bridge' = "finished"
    /\ UNCHANGED sock
    /\ ResetIteration

\* The task returns or raises; _run_task of the manager logs and forgets it.
\* Leaving the `async with` of the connection closes the socket.
TaskEnds ==
    /\ bridge' = "finished"
    /\ sock' = <<>>
    /\ ResetIteration

(***************************************************************************)
(* The next step of the iterator of `for path in opened_documents` in     *)
(* show_type_errors_to_client, made on the set iterOver, followed by the  *)
(* empty publish of the path it yields.  CPython raises "Set changed size *)
(* during iteration" when the size of the set differs from the one it was *)
(* made on.  When the size is the same but the elements differ, the       *)
(* iterator goes on through the hash table: it may yield any element not  *)
(* yet yielded, or stop.                                                  *)
(***************************************************************************)
IterationNext ==
    IF Cardinality(opened) # Cardinality(iterOver)
      THEN /\ TaskEnds
           /\ UNCHANGED view
      ELSE LET left == IF opened = iterOver THEN iterOver \ seen
                                            ELSE opened \ seen
           IN  \/ /\ left = {} \/ opened # iterOver
                  /\ bridge' = "read"
                  /\ ResetIteration
                  /\ UNCHANGED <<sock, view>>
               \/ \E path \in left :
                  /\ PublishDiagnostics(path, <<>>)
                  /\ cur' = path
                  /\ seen' = seen \cup {path}
                  /\ bridge' = "showDiags"
                  /\ UNCHANGED <<iterOver, sock>>

\* Mutant: update_type_errors patches the stored dictionary instead of
\* replacing it, so paths the server no longer reports keep old entries.
UpdateAndShowPatched(errs) ==
    LET new == TypeErrorsToDiagnostics(errs) IN
    /\ diagnostics' = [p \in DOMAIN diagnostics \cup DOMAIN new |->
                         IF p \in DOMAIN new THEN new[p] ELSE diagnostics[p]]
    /\ sock' = Tail(sock)
    /\ \/ /\ opened = {}
          /\ bridge' = "read"
          /\ UNCHANGED <<view, iterOver, seen, cur>>
       \/ \E path \in opened :
          /\ PublishDiagnostics(path, <<>>)
          /\ iterOver' = opened
          /\ seen' = {path}
          /\ cur' = path
          /\ bridge' = "showDiags"

(***************************************************************************)
(* A list of type errors read from the server: update_type_errors         *)
(* replaces ServerState.diagnostics, then show_type_errors_to_client      *)
(* makes its iterator on opened_documents and takes its first step.       *)
(***************************************************************************)
UpdateAndShow(errs) ==
    /\ diagnostics' = TypeErrorsToDiagnostics(errs)
    /\ sock' = Tail(sock)
    /\ \/ /\ opened = {}
          /\ bridge' = "read"
          /\ UNCHANGED <<view, iterOver, seen, cur>>
       \/ \E path \in opened :
          /\ PublishDiagnostics(path, <<>>)
          /\ iterOver' = opened
          /\ seen' = {path}
          /\ cur' = path
          /\ bridge' = "showDiags"

-----------------------------------------------------------------------------
(***************************************************************************)
(* PyreServerHandler.run: connect to the socket of an existing server.    *)
(***************************************************************************)

\* The socket accepts: the client is told, then subscribe_to_type_error
\* writes SubscribeToTypeErrors, which the server answers with a snapshot.
ConnectExisting ==
    /\ bridge = "connect"
    /\ daemon = "up"
    /\ ShowMessageToClient("connected")
    /\ bridge' = "readFirst"
    /\ conn' = "existing"
    /\ sock' = <<Snapshot(daemonErrors)>>
    /\ UNCHANGED <<lsp, exitCode, opened, diagnostics, pending, handled, view,
                   iterOver, seen, cur, daemon, daemonErrors>>

\* No server listens: the OSError is caught.  The coroutine of
\* log_and_show_message_to_client("Starting a new Pyre server ...") is made
\* but not awaited, so nothing is written; _start_pyre_server follows.
ConnectFailed ==
    /\ bridge = "connect"
    /\ daemon # "up"
    /\ bridge' = "spawn"
    /\ UNCHANGED <<lsp, exitCode, opened, diagnostics, pending, handled, view,
                   shown, conn, iterOver, seen, cur, daemon, daemonErrors, sock>>

(***************************************************************************)
(* _start_pyre_server: create the process, then wait on its stdout for    *)
(* the initialization event.  Any exception makes it return False, after  *)
(* which run shows an error and returns.                                   *)
(***************************************************************************)
SpawnServer ==
    /\ bridge = "spawn"
    /\ \/ /\ daemon' = "starting"
          /\ bridge' = "waitReady"
          /\ UNCHANGED shown
       \/ /\ ShowMessageToClient("cannotStart")
          /\ bridge' = "finished"
          /\ UNCHANGED daemon
    /\ UNCHANGED <<lsp, exitCode, opened, diagnostics, pending, handled, view,
                   conn, iterOver, seen, cur, daemonErrors, sock>>

WaitServerReady ==
    /\ bridge = "waitReady"
    /\ \/ /\ daemon' = "up"
          /\ ShowMessageToClient("initialized")
          /\ bridge' = "reconnect"
       \/ /\ daemon' = "down"
          /\ ShowMessageToClient("cannotStart")
          /\ bridge' = "finished"
    /\ UNCHANGED <<lsp, exitCode, opened, diagnostics, pending, handled, view,
                   conn, iterOver, seen, cur, daemonErrors, sock>>

\* Mutant: after the second connect the task returns without subscribing.
ReconnectNoSubscribe ==
    /\ bridge = "reconnect"
    /\ bridge' = "finished"
    /\ UNCHANGED <<lsp, exitCode, opened, diagnostics, pending, handled, view,
                   shown, conn, iterOver, seen, cur, daemon, daemonErrors, sock>>

\* The second connect, inside the `except OSError` handler: if it fails,
\* its OSError leaves run and ends the task.
Reconnect ==
    /\ bridge = "reconnect"
    /\ \/ /\ daemon = "up"
          /\ bridge' = "readFirst"
          /\ conn' = "spawned"
          /\ sock' = <<Snapshot(daemonErrors)>>
       \/ /\ daemon # "up"
          /\ bridge' = "finished"
          /\ UNCHANGED <<conn, sock>>
    /\ UNCHANGED <<lsp, exitCode, opened, diagnostics, pending, handled, view,
                   shown, iterOver, seen, cur, daemon, daemonErrors>>

-----------------------------------------------------------------------------
(***************************************************************************)
(* subscribe_to_type_error: reading the socket.                           *)
(***************************************************************************)

\* Mutant: the first response is parsed but not stored, so the task waits
\* for the first update with an empty ServerState.diagnostics.
ReadSnapshotIgnored ==
    /\ bridge = "readFirst"
    /\ sock # <<>>
    /\ Head(sock).kind = "snapshot"
    /\ sock' = Tail(sock)
    /\ bridge' = "read"
    /\ UNCHANGED <<lsp, exitCode, opened, diagnostics, pending, handled, view,
                   shown, conn, iterOver, seen, cur, daemon, daemonErrors>>

\* The first line is parsed as a TypeErrors response.
ReadSnapshot ==
    /\ bridge = "readFirst"
    /\ sock # <<>>
    /\ Head(sock).kind = "snapshot"
    /\ UpdateAndShow(Head(sock).errs)
    /\ UNCHANGED <<lsp, exitCode, opened, pending, handled, shown, conn,
                   daemon, daemonErrors>>

\* Mutant: the name check of subscribe_to_type_error never matches, and
\* every update is read and dropped.
ReadUpdateDropped ==
    /\ bridge = "read"
    /\ sock # <<>>
    /\ Head(sock).kind = "update"
    /\ sock' = Tail(sock)
    /\ UNCHANGED <<lsp, exitCode, opened, diagnostics, pending, handled, view,
                   shown, bridge, conn, iterOver, seen, cur, daemon, daemonErrors>>

\* A later line is parsed as a SubscriptionResponse of this subscription.
ReadUpdate ==
    /\ bridge = "read"
    /\ sock # <<>>
    /\ Head(sock).kind = "update"
    /\ UpdateAndShow(Head(sock).errs)
    /\ UNCHANGED <<lsp, exitCode, opened, pending, handled, shown, conn,
                   daemon, daemonErrors>>

\* End of stream: readline returns "" without suspending, the parse error
\* is caught and logged by _read_server_response, and the loop reads again.
ReadEof ==
    /\ bridge \in {"readFirst", "read"}
    /\ sock # <<>>
    /\ Head(sock) = Eof
    /\ bridge' = "spinning"
    /\ sock' = Tail(sock)
    /\ UNCHANGED <<lsp, exitCode, opened, diagnostics, pending, handled, view,
                   shown, conn, iterOver, seen, cur, daemon, daemonErrors>>

\* A read that raises an OSError: on the first connection it is caught by
\* run's `except OSError`, which goes on to start a new server; on the
\* second it ends the task.
ReadReset ==
    /\ bridge \in {"readFirst", "read"}
    /\ sock # <<>>
    /\ Head(sock) = Reset
    /\ sock' = <<>>
    /\ bridge' = IF conn = "existing" THEN "spawn" ELSE "finished"
    /\ UNCHANGED <<lsp, exitCode, opened, diagnostics, pending, handled, view,
                   shown, conn, iterOver, seen, cur, daemon, daemonErrors>>

\* The task reads the ended stream again and again without suspending.
Spin ==
    /\ bridge = "spinning"
    /\ UNCHANGED vars

-----------------------------------------------------------------------------
(***************************************************************************)
(* show_type_errors_to_client, after the empty publish of cur: the stored *)
(* diagnostics of cur, read after that write, are published if there are *)
(* any; otherwise the loop goes straight on to its next path.             *)
(***************************************************************************)
ShowDiagnostics ==
    /\ bridge = "showDiags"
    /\ IF cur \in DOMAIN diagnostics
         THEN /\ PublishDiagnostics(cur, diagnostics[cur])
              /\ bridge' = "showNext"
              /\ UNCHANGED <<iterOver, seen, cur, sock>>
         ELSE IterationNext
    /\ UNCHANGED <<lsp, exitCode, opened, diagnostics, pending, handled, shown,
                   conn, daemon, daemonErrors>>

\* After the publish of the diagnostics of cur: the next path.
ShowNext ==
    /\ bridge = "showNext"
    /\ IterationNext
    /\ UNCHANGED <<lsp, exitCode, opened, diagnostics, pending, handled, shown,
                   conn, daemon, daemonErrors>>

BridgeNext ==
    \/ ConnectExisting \/ ConnectFailed \/ SpawnServer \/ WaitServerReady
    \/ Reconnect \/ ReadSnapshot \/ ReadUpdate \/ ReadEof \/ ReadReset
    \/ ShowDiagnostics \/ ShowNext \/ Spin

=============================================================================
