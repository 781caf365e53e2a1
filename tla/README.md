# TLA+ models of the persistent Pyre LSP client

This directory holds the verification project for
`src/client/commands/v2/persistent.py`, the `pyre persistent` client. The
client sits between an editor (LSP over stdin/stdout) and a Pyre server (a
local socket). It contains:

- TLA+ modules of the client;
- TLC configurations that model-check them;
- an abstract specification of the session's lifecycle, which the model is
  shown to implement;
- TLAPS proofs of the main safety invariants and of that refinement.

## The system

One asyncio event loop runs two tasks that share a `ServerState`:

- **LSP loop.** `run_persistent` loops on `try_initialize` until it sees an
  initialize request or `exit`. After initialization, `Server.run` starts the
  background task, and `Server._run` handles one message per iteration:
  - `exit` returns 1;
  - `shutdown` moves to `wait_for_exit`;
  - didOpen and didClose update `opened_documents` and publish diagnostics;
  - other requests get an error, and other notifications are dropped.

  In the shutdown state, `wait_for_exit` returns 0 on `exit` and raises
  InvalidRequest for anything else. The `finally` of `Server.run` stops the
  background task.
- **Background task** (`PyreServerHandler.run`):
  1. Connect to the existing server. If that fails, start one
     (`_start_pyre_server`, then a wait for readiness) and reconnect.
  2. Subscribe, then read a snapshot and then updates.
  3. For each snapshot or update, replace `ServerState.diagnostics`
     (`update_type_errors`) and run `show_type_errors_to_client`. For every
     open document, that loop publishes an empty list and then the stored
     list.
- **Diagnostic translation** (`type_error_to_diagnostic`,
  `type_errors_to_diagnostics`): a pure function from Pyre errors to LSP
  diagnostics grouped by path.

The two tasks interleave only where one awaits something that is not ready:
- a read of the editor channel;
- a read of the socket;
- connect, process start and the readiness wait;
- a write to the editor, but only when the output buffer is full.

Outside these points a task runs without interruption. This is the
granularity of the actions.

## Modules

| module | models | state / actions |
|---|---|---|
| `DiagnosticTranslation` | `type_error_to_diagnostic`, `type_errors_to_diagnostics` | The `setdefault`/`append` loop is a recursive function `result[k]` over the prefix of the error list. |
| `PersistentState` | `ServerState`, the editor and the socket, `_publish_diagnostics`, `ensure_task_stop` | The variables and the type invariant `TypeOK`. |
| `LspServer` | `try_initialize`, `run_persistent`, `Server._run`, `wait_for_exit`, the open/close handlers | One action per dispatch branch, from one read to the next. |
| `PyreServerHandler` | `PyreServerHandler.run`, `_start_pyre_server`, `subscribe_to_type_error`, `show_type_errors_to_client` | One action from one suspension point to the next. |
| `Persistent` | the session | The environment (the editor sends, the Pyre server's errors change, the server stops), `Init`, `Next`, fairness, the properties and the refinement mapping to `LspLifecycle`. |
| `LspLifecycle` | the contract of the session (spec 4.3 state table, 4.4 task manager) | Abstract: `phase`, `code`, `docs`, `task`; one action per row of the state table, plus `Abort` and `TaskEnds`. |
| `MCPersistent` | TLC instance | Two paths, three errors, three error lists. |
| `MCDiagnosticTranslation` | TLC instance | Every list of at most 4 of 3 errors in 2 files, checked against a reference. |
| `PersistentProofs` | TLAPS | Inductive invariant `IInv`, typing lemmas, `TypeOK`, `SocketBounded`, `TaskStoppedOnExit`. |
| `LifecycleProofs` | TLAPS | The session implements `LspLifecycle`. |
| `EditorViewProofs` | TLAPS | `EditorViewConsistent` and `PublishesCurrent` when writes never suspend. |
| `BridgeProofs` | TLAPS | `ClientTracksServer` always; `TaskEndsOnlyWithoutServer` when writes never suspend. |

### How the model corresponds to the code

The state variables:
- `opened` and `diagnostics` are the two fields of `ServerState`.
- `view[p]` is the last list published for `p`, which is what the editor shows.
- `handled` records whether the last message read was a request, and what
  was written back.
- `shown` is the set of `window/showMessage` notifications written.
- `bridge` is the background task's program counter.
- `iterOver`, `seen` and `cur` are the iterator of
  `for path in opened_documents`.
- `daemon`, `daemonErrors` and `sock` are the Pyre server and the unread
  lines on its socket.

The behaviours that matter are modelled as the code produces them:

- **The iterator over a live set.** `IterationNext` follows CPython:
  - It raises when the set's size has changed. The exception ends the task
    and closes its connection.
  - If the size is unchanged but the elements differ, it may yield any
    element not yet yielded, or stop.
- **Suspending writes.** `WriteSuspends` says whether a write to the editor
  may suspend.
  - FALSE: the whole of `show_type_errors_to_client` runs without a switch
    (`BridgeHoldsLoop`).
  - TRUE: the LSP loop may run between the empty publish and the stored
    publish of a path.
- **EOF on the socket.** `readline` returns `""` without suspending, and
  `_read_server_response` catches the parse error. The task then loops in
  `spinning`, holding the event loop.
- **Un-awaited coroutines.** Lines 270 and 518 are modelled as writing
  nothing.
- **The unbound variable in the decode-error handlers.** At lines 127 and
  147, `ReadMalformed` ends the session through the `finally`.

Data are abstracted:
- A message is a method and a path.
- Formatting, URIs, logging and the capabilities record are left out.
- `show_message_to_client` is `ShowMessageToClient(msg)`: the notification
  joins `shown`; its text and level are left out.
- The subscription-name check is left out. The server answers with the
  client's own name, so a mismatch changes no state.
- A malformed line from the server is left out: it is logged and skipped.

## Runs

All `MCPersistent` runs use two paths and the error lists `<<>>`, `<<E1>>` and
`<<E3, E2>>`. Together these:
- add, change and remove diagnostics;
- give one file two errors;
- leave a file without errors.

`MaxInFlight = 1` lets an update wait on the socket while the task is
showing. Larger bounds only repeat the same interleavings.

| run | cfg | expect | checks |
|---|---|---|---|
| session | `MCPersistent.cfg` | pass | `TypeOK`, `EditorViewConsistent`, `TaskStoppedOnExit`, `ClientTracksServer`, `TaskEndsOnlyWithoutServer`, `ViewConverges`, `SubscribedWhileServerUp`, `ImplementsLifecycle`, `PublishesCurrent` (non-suspending writes; the server may stop) |
| session_suspending_writes | `MCPersistentSuspend.cfg` | pass | `TypeOK`, `TaskStoppedOnExit`, `SocketBounded`, `ClientTracksServer` (writes may suspend: the LSP loop runs inside the publish loop, and the size-change RuntimeError happens) |
| translation | `MCDiagnosticTranslation.cfg` | pass | `TranslationMatchesReference`: the grouping equals the per-path `SelectSeq` reference (keys are exactly the paths with errors, and each list is in input order) |
| stale_markers | `MCPersistentStale.cfg` | violation | `EditorViewConsistent` |
| stale_markers_forever | `MCPersistentStaleForever.cfg` | violation | `ViewConverges` |
| eof_spin | `MCPersistentSpin.cfg` | violation | `EditorServed` |
| shutdown_reply | `MCPersistentShutdownReply.cfg` | violation | `RequestsAnswered` |
| notification_reply | `MCPersistentNotificationReply.cfg` | violation | `NotificationsUnanswered` |
| malformed_frame | `MCPersistentMalformed.cfg` | violation | `DecodeErrorsNotFatal` |
| start_message | `MCPersistentStartMessage.cfg` | violation | `StartAnnounced` |
| task_lost | `MCPersistentTaskLost.cfg` | violation | `SubscribedWhileServerUp` (writes may suspend; the server stays up) |

Each property of a passing run is shown to be sensitive to the code by a
mutant (PROJECT.json, "mutants"):
- `update_type_errors` patching the dictionary instead of replacing it;
- didClose without its clearing publish;
- the crash path skipping `ensure_task_stop`;
- a name check that drops every update;
- an ending task that keeps its socket;
- grouping that overwrites instead of appending;
- a reconnect after a successful start that returns without subscribing
  (`SubscribedWhileServerUp`);
- exit without shutdown returning 0 (`ImplementsLifecycle`);
- a first response that is parsed but not stored (`ClientTracksServer`);
- the same early-returning reconnect (`TaskEndsOnlyWithoutServer`).

`ClientTracksServer` says that while the task is subscribed and the server
is up, the newest list the client has is the server's current one. That
list is the last line waiting on the socket or, when none waits, the one
`update_type_errors` stored last. It holds with and without suspending
writes. `TaskEndsOnlyWithoutServer` says that while the session runs, a
finished task leaves no server up. It holds in `session`. With suspending
writes it fails: the RuntimeError of the publish loop ends the task while the
server is up, which is the `task_lost` finding in its safety form.

### What the violations show

1. **Stale markers on a closed file** (persistent.py:459–465). With
   suspending writes, the following sequence ends with diagnostics published
   for a file the editor has closed:
   1. The task publishes `[]` for `p` and suspends.
   2. The editor closes `p`.
   3. The task resumes and publishes the stored diagnostics of `p`.

   This breaks spec P2 and P4.
2. **…that stay for good.** The file is later reopened after its errors are
   gone. `process_open_request` publishes only when the path has stored
   diagnostics (line 236), so the stale markers are never cleared.
   - With non-suspending writes, `EditorViewConsistent` and `ViewConverges`
     hold. The publish-only-if-present rule is harmless on its own; it
     differs from spec P1 only in wording.
3. **EOF starves the editor** (line 492). Once the server closes the socket,
   the task never suspends again.
4. **Shutdown is never answered** (line 270).
5. **Notifications are answered with errors** after shutdown (line 222) and
   for a didOpen/didClose without a file URI (lines 229, 247).
6. **A malformed frame is fatal** (lines 127, 147).
7. **"Starting a new Pyre server" is never shown** (line 518).
8. **The task is lost while the server runs** (line 459). With suspending
   writes, a didClose (or didOpen) handled at a publish inside
   `show_type_errors_to_client` changes the size of `opened_documents`. The
   iterator's next step raises RuntimeError, which ends the task; nothing
   restarts it. The Pyre server stays up, but the client never reads another
   update. Spec 4.5 ends the task only on EOF or a failed spawn.

## Fairness

`SF_vars(LspNext) /\ WF_vars(BridgeNext)`. asyncio runs every task whose
awaited I/O is ready, in FIFO order.
- The LSP loop can run only while the background task is suspended. It is
  disabled during every show loop that does not suspend, and enabled again
  at the task's next await, when its ready callback comes next in the
  queue. An LSP loop that is able to run again and again therefore does
  run, which is strong fairness. Weak fairness would be weaker than asyncio:
  it allows the server to keep sending updates, each followed by a show
  loop, with the LSP loop never taken.
- The background task, once a line has arrived on its socket, stays able
  to run until it runs, which is weak fairness.

The editor and the Pyre server get no fairness: nothing obliges them to
send.

`ViewConverges` is a leads-to from "subscribed, `p` open, errors `errs`" to
one of:
- "the editor shows the diagnostics of `errs` for `p`";
- one of those three conditions having changed.

`SubscribedWhileServerUp` is a leads-to from "the session runs and the
Pyre server is up" to "the task is subscribed, the server is down, or the
session has ended". Under this fairness it holds when writes never suspend:
the task only gives up (a failed spawn, a failed reconnect, a reset on the
second connection) once the server is gone. Its violation with suspending
writes is finding 8.

`EditorServed` fails even under this fairness, and only through the spin.
Once the task spins on EOF it never suspends again, so `LspNext` is never
enabled again and even strong fairness does not force it. The
counterexample of `eof_spin` runs as follows:
1. the server stops;
2. the task reads EOF and spins;
3. the LSP loop never reads the shutdown request waiting on stdin.

## Proofs (TLAPS)

**Assumptions** (named in `PersistentState`):
- `ErrorListsAssumption`: every error list is a sequence of `TypeError`s;
- `MaxInFlight ∈ Nat \ {0}`;
- the two flags are Booleans;
- `NoPath ∉ Paths`.

**Theorems**, which hold for every value of the constants:
- `TypeCorrect`: `Spec => []TypeOK`.
- `SocketBoundedInvariant`: `Spec => []SocketBounded`.
- `TaskStoppedOnExitInvariant`: `Spec => []TaskStoppedOnExit`.
- `LifecycleRefinement` (`LifecycleProofs`): `Spec => ImplementsLifecycle`,
  that is `Spec => Lifecycle!Spec`.
- `EditorViewConsistentInvariant` (`EditorViewProofs`): under the assumption
  `~WriteSuspends`, `Spec => []EditorViewConsistent`.
- `ClientTracksServerInvariant` (`BridgeProofs`): `Spec => []ClientTracksServer`,
  whether or not writes suspend.
- `TaskEndsOnlyWithoutServerInvariant` (`BridgeProofs`): under the assumption
  `~WriteSuspends`, `Spec => []TaskEndsOnlyWithoutServer`. Without that
  assumption the `task_lost` counterexample refutes it, so the assumption is
  needed.
- `PublishesCurrentProperty` (`EditorViewProofs`): under the assumption
  `~WriteSuspends`, `Spec => PublishesCurrent`. This is the action property
  `[][FreshPublish]_vars`. With suspending writes it fails: the publish
  loop can show the stored markers of a document closed during its await.

**The inductive invariant** is
`IInv == TypeOK /\ SocketBounded /\ EndOfStreamLast /\ TaskIdleBeforeInit`.
`TypeOK` alone is not inductive, because its bound
`Len(sock) <= MaxInFlight + 1` needs three more facts:
- While the server is up, at most `MaxInFlight` lines wait (`SocketBounded`).
- An EOF or reset is the last line and the server is down
  (`EndOfStreamLast`). This makes `ReadEof` leave an empty socket.
- The task is idle before initialization (`TaskIdleBeforeInit`), so
  initialization finds the socket empty.

**The refinement.** `Persistent` maps its state to the lifecycle:
- `PhaseBar` maps `lsp` to the phase of the state table;
- `exitCode` and `opened` map to `code` and `docs`;
- `TaskBar` reads the task off the background task itself. It is
  "notStarted" while `bridge` is idle. It is "live" while the task runs or
  still holds a connection (`sock` not empty). A task that has finished
  with its connection closed is "stopped" once `run_persistent` has
  returned, and "ended" before that.

Since "stopped" needs the task finished and its socket closed, the lifecycle's
`StopTask` on `Exit` and `Abort` holds only if `ensure_task_stop` ran. A
session that skips it does not refine the lifecycle: with the mutant
`ReadMalformedNoStop`, TLC reports the `ImplementsLifecycle` violation on
the crash step.

`NextRefines` shows that each step of the session is a step of the
lifecycle or a stutter of it. It needs `IInv` and `TaskStoppedOnExit`: a
step of the background task happens only between initialization and the
return of `run_persistent` (`BridgeFrame`). Such a step is then a stutter,
or `TaskEnds` when the task finishes. A step of the Pyre server changes
the socket only of a subscribed task, which stays "live". `StopTaskMaps` shows that
`ensure_task_stop` is the lifecycle's `StopTask` on each way out.

**The editor view.** `EditorViewConsistent` is not inductive: inside the
publish loop the open documents not yet visited show old diagnostics. The
strengthening `VInv` says:
- no document is open before initialization;
- in a live session a closed document shows nothing;
- outside the loop, an open one shows its stored diagnostics;
- inside the loop, the loop iterates exactly the open documents, those it
  has visited show their stored diagnostics, and the current one shows `[]`
  until its stored list is published.

With `~WriteSuspends`, didOpen and didClose run only outside the loop. So
the iterated set cannot change size: the RuntimeError branch of
`IterationNext` is unreachable, which `IterationKeepsVInv` uses.

**What a step may publish.** `NextFreshPublish` proves the step of
`PublishesCurrent` from `IInv`, `VInv` and `TaskStoppedOnExit`. It rests on
two lemmas about the operators:
- `PublishOnly`: a publish changes only its own path, to the list it sends;
- `IterationOnlyClears`: a step of the iterator only clears markers.

didOpen shows the stored list of a path it has just opened. A step of the
background task runs only in a live session (`TaskMeansLive`, from
`TaskStoppedOnExit`). The stored list it publishes is for the current path,
which `VInv` keeps among the open documents.

**Keeping up with the server.** `ClientTracksServer` needs one more fact:
`FirstLineWaiting` says that while the task waits for the first response,
that response is on the socket. The invariant is
`TrackInv == IInv /\ FirstLineWaiting /\ ClientTracksServer`. The steps that
matter are these:
- A subscribe puts `Snapshot(daemonErrors)` on an empty socket.
- A change of the server's errors appends them.
- A read takes the head of the socket (`ApplyLineKeepsTrack`). The sequence
  lemma `TailKeepsLast` shows that what is left keeps its last line, or is
  empty when the head was that line. In that case the list stored is the
  server's.

**The task gives up only on a missing server.**
`TaskEndsOnlyWithoutServer` is strengthened to
`EndInv == IInv /\ VInv /\ NoServerWhileStarting /\ TaskEndsOnlyWithoutServer`.
- `NoServerWhileStarting` says `_start_pyre_server` runs only while no
  server is up. So its failure leaves none up.
- A reset comes only from a server that stopped (`ResetMeansDown`, from
  `EndOfStreamLast`).
- The publish loop never raises (`LoopNeverRaises`), because by `VInv` it
  iterates the set of open documents itself.

**The diagnostics types.** The sets `DiagnosticMaps` and `DiagnosticLists`
are the images of the translation. This lets the type of `diagnostics` and
`view` be proved without induction over the recursive function.

**Proof outline.**
- `InitIInv` proves `Init => IInv`.
- `NextIInv` proves `IInv /\ [Next]_vars => IInv'`, with one case per
  action.
- Lemmas about the sub-actions `UpdateAndShow` and `IterationNext`, and
  about stored lists, are stated once and cited.
- `NextTaskStopped` adds `TaskStoppedOnExit` on top of `IInv`.
- `NextRefines`, `NextVInv`, `NextFreshPublish`, `NextTrack` and `NextEnd` give the steps of
  the refinement, of `VInv`, of `TrackInv` and of `EndInv`, with one case
  per action or group of actions.
- PTL combines the steps.

**Left to TLC:**
- Liveness (`ViewConverges`, `EditorServed`), since TLAPS does not handle
  fairness and ENABLED.
- What the recursive translation computes for every input (the `translation`
  run), since that needs induction over data, which the provers cannot
  instantiate.
- `SubscribedWhileServerUp` and the other liveness properties, because
  they need fairness. The safety half of `SubscribedWhileServerUp` is
  `TaskEndsOnlyWithoutServer`, which is proved: the task never abandons a
  live server. That the task then does subscribe needs fairness, and is
  left to TLC.

## Not modelled

- The JSON-RPC codec: it is outside `src/`; its results are inputs.
- The `run` entry point and `process_initialize_request`: configuration and
  constant data.
- The subscription-name check and malformed server lines: no state changes.
- The readiness waiter's internals: the wait is one step that succeeds or
  fails.
- stdin EOF: the codec's `ConnectionClosed` is outside `src/`.
