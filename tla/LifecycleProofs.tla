--------------------------- MODULE LifecycleProofs ---------------------------
(***************************************************************************)
(* The proof that a session of the persistent client implements the LSP   *)
(* lifecycle (LspLifecycle) under the refinement mapping of Persistent:   *)
(* Init maps to the lifecycle's Init, and every step of the session maps  *)
(* to a step of the lifecycle or leaves the mapped state unchanged.  The  *)
(* step needs the inductive invariant of PersistentProofs and the         *)
(* invariant TaskStoppedOnExit: a step of the background task happens     *)
(* only after initialization and before run_persistent returns, so it     *)
(* maps to a stutter or to the task ending on its own.                    *)
(***************************************************************************)
EXTENDS PersistentProofs

\* The mapped state.
LVars == <<PhaseBar, exitCode, opened, TaskBar>>

-----------------------------------------------------------------------------
\* A step of the background task happens between initialization and the
\* return of run_persistent, and changes nothing the lifecycle sees but
\* the task: the task may end, and never goes back to "idle".
BridgeStepFrame ==
    /\ lsp \in {"running", "shutdown"}
    /\ bridge \notin {"idle", "finished"}
    /\ bridge' # "idle"
    /\ UNCHANGED <<lsp, exitCode, opened>>

LEMMA BridgeFrame ==
    ASSUME IInv, TaskStoppedOnExit, BridgeNext
    PROVE  BridgeStepFrame
<1>1. bridge \notin {"idle", "finished"}
  BY DEF BridgeNext, ConnectExisting, ConnectFailed, SpawnServer,
         WaitServerReady, Reconnect, ReadSnapshot, ReadUpdate, ReadEof,
         ReadReset, Spin, ShowDiagnostics, ShowNext
<1>2. lsp \in {"running", "shutdown"}
  BY <1>1 DEF IInv, TypeOK, TaskIdleBeforeInit, TaskStoppedOnExit
<1>3. bridge' # "idle" /\ UNCHANGED <<lsp, exitCode, opened>>
  <2>1. CASE ShowDiagnostics \/ ShowNext
    BY <2>1 DEF ShowDiagnostics, ShowNext, IterationNext, TaskEnds
  <2>2. CASE ~(ShowDiagnostics \/ ShowNext)
    BY <2>2 DEF BridgeNext, ConnectExisting, ConnectFailed, SpawnServer,
                WaitServerReady, Reconnect, ReadSnapshot, ReadUpdate,
                UpdateAndShow, ReadEof, ReadReset, Spin, vars
  <2>3. QED
    BY <2>1, <2>2
<1>4. QED
  BY <1>1, <1>2, <1>3 DEF BridgeStepFrame

-----------------------------------------------------------------------------
\* ensure_task_stop, on the way out of run_persistent, maps to the
\* lifecycle's StopTask: a task never started stays so, any other is
\* stopped.
TaskStopping ==
    TaskBar' = IF TaskBar = "notStarted" THEN "notStarted" ELSE "stopped"

LEMMA StopTaskMaps ==
    ASSUME EnsureTaskStop, lsp \notin {"exited", "crashed"},
           lsp' \in {"exited", "crashed"},
           lsp = "uninitialized" => bridge = "idle"
    PROVE  TaskStopping
<1>1. CASE bridge = "idle"
  BY <1>1 DEF EnsureTaskStop, TaskStopping, TaskBar
<1>2. CASE bridge # "idle"
  BY <1>2 DEF EnsureTaskStop, TaskStopping, TaskBar
<1>3. QED
  BY <1>1, <1>2

-----------------------------------------------------------------------------
\* Every step of the session maps to a step of the lifecycle or to a
\* stutter of it.
LEMMA NextRefines ==
    IInv /\ TaskStoppedOnExit /\ [Next]_vars => [Lifecycle!Next]_LVars
<1> SUFFICES ASSUME IInv, TaskStoppedOnExit, [Next]_vars
             PROVE  [Lifecycle!Next]_LVars
  OBVIOUS
<1> USE DEF LVars, PhaseBar, PhaseOf, TaskBar
<1>1. CASE InitializeExit
  <2>1. bridge = "idle" /\ bridge' = "idle"
    BY <1>1 DEF InitializeExit, IInv, TaskIdleBeforeInit
  <2>2. PhaseBar = "preInit" /\ PhaseBar' = "terminated" /\ exitCode' = 0
    BY <1>1 DEF InitializeExit
  <2>3. TaskBar = "notStarted" /\ TaskBar' = "notStarted"
    BY <2>1
  <2>4. Lifecycle!Exit
    BY <1>1, <2>2, <2>3 DEF InitializeExit, Lifecycle!Exit, Lifecycle!StopTask
  <2>5. QED
    BY <2>4 DEF Lifecycle!Next
<1>2. CASE InitializeSuccess
  <2>1. Lifecycle!Initialize
    BY <1>2 DEF InitializeSuccess, Lifecycle!Initialize
  <2>2. QED
    BY <2>1 DEF Lifecycle!Next
<1>3. CASE ReadMalformed
  <2>1. PhaseBar # "terminated" /\ PhaseBar' = "terminated"
    BY <1>3 DEF ReadMalformed
  <2>2. TaskStopping
    BY <1>3, StopTaskMaps DEF ReadMalformed, IInv, TaskIdleBeforeInit
  <2>3. Lifecycle!Abort
    BY <1>3, <2>1, <2>2 DEF ReadMalformed, Lifecycle!Abort, Lifecycle!StopTask,
                            TaskStopping
  <2>4. QED
    BY <2>3 DEF Lifecycle!Next
<1>4. CASE RunExit \/ WaitExit
  <2>1. /\ PhaseBar \in {"active", "shutdown"} /\ PhaseBar' = "terminated"
        /\ exitCode' = IF PhaseBar = "active" THEN 1 ELSE 0
    BY <1>4 DEF RunExit, WaitExit
  <2>2. TaskStopping
    BY <1>4, StopTaskMaps DEF RunExit, WaitExit
  <2>3. Lifecycle!Exit
    BY <1>4, <2>1, <2>2 DEF RunExit, WaitExit, Lifecycle!Exit,
                            Lifecycle!StopTask, TaskStopping
  <2>4. QED
    BY <2>3 DEF Lifecycle!Next
<1>5. CASE RunShutdown
  <2>1. Lifecycle!Shutdown
    BY <1>5 DEF RunShutdown, Lifecycle!Shutdown
  <2>2. QED
    BY <2>1 DEF Lifecycle!Next
<1>6. CASE DidOpen
  <2>1. pending.path \in Paths
    BY <1>6 DEF DidOpen, IInv, TypeOK, Messages, NoMessage, DocumentMethods
  <2>2. Lifecycle!Open(pending.path)
    BY <1>6 DEF DidOpen, Lifecycle!Open
  <2>3. QED
    BY <2>1, <2>2 DEF Lifecycle!Next
<1>7. CASE DidClose
  <2>1. pending.path \in Paths
    BY <1>7 DEF DidClose, IInv, TypeOK, Messages, NoMessage, DocumentMethods
  <2>2. CASE pending.path \in opened
    <3>1. Lifecycle!Close(pending.path)
      BY <1>7, <2>2 DEF DidClose, Lifecycle!Close
    <3>2. QED
      BY <2>1, <3>1 DEF Lifecycle!Next
  <2>3. CASE pending.path \notin opened
    BY <1>7, <2>3 DEF DidClose
  <2>4. QED
    BY <2>2, <2>3
<1>8. CASE InitializeFailure \/ RunBadDocument \/ RunOther \/ WaitOther
  BY <1>8 DEF InitializeFailure, RunBadDocument, RunOther, WaitOther
<1>9. CASE BridgeNext
  <2>1. BridgeStepFrame
    BY <1>9, BridgeFrame
  <2>2. CASE bridge' = "finished" /\ sock' = <<>>
    <3>1. Lifecycle!TaskEnds
      BY <2>1, <2>2 DEF BridgeStepFrame, Lifecycle!TaskEnds
    <3>2. QED
      BY <3>1 DEF Lifecycle!Next
  <2>3. CASE bridge' # "finished" \/ sock' # <<>>
    BY <2>1, <2>3 DEF BridgeStepFrame
  <2>4. QED
    BY <2>2, <2>3
<1>10. CASE \/ \E m \in Messages : EditorSend(m)
            \/ Terminated \/ UNCHANGED vars
  BY <1>10 DEF EditorSend, Terminated, vars
\* The Pyre server writes only to a connected task, which stays "live".
<1>11. CASE \E errs \in ErrorLists : DaemonErrorsChange(errs)
  <2>1. UNCHANGED <<lsp, exitCode, opened, bridge>>
        /\ (Subscribed \/ sock' = sock)
    BY <1>11 DEF DaemonErrorsChange
  <2>2. QED
    BY <2>1 DEF Subscribed
<1>12. CASE DaemonStops
  <2>1. UNCHANGED <<lsp, exitCode, opened, bridge>>
        /\ (Subscribed \/ sock' = sock)
    BY <1>12 DEF DaemonStops
  <2>2. QED
    BY <2>1 DEF Subscribed
<1>13. QED
  BY <1>1, <1>2, <1>3, <1>4, <1>5, <1>6, <1>7, <1>8, <1>9, <1>10, <1>11, <1>12
     DEF Next, LspNext

-----------------------------------------------------------------------------
(***************************************************************************)
(* The session implements the LSP lifecycle, for every value of the       *)
(* constants: the loop moves through the phases of the LSP state table    *)
(* with its exit codes, documents change only while it is active, and the *)
(* background task is started by initialization alone, never restarted,   *)
(* and stopped on every way out of run_persistent.                        *)
(***************************************************************************)
THEOREM LifecycleRefinement == Spec => ImplementsLifecycle
<1>1. Init => Lifecycle!Init
  BY DEF Init, Lifecycle!Init, PhaseBar, PhaseOf, TaskBar
<1>2. Init => TaskStoppedOnExit
  BY DEF Init, TaskStoppedOnExit
<1>3. QED
  BY <1>1, <1>2, InitIInv, NextIInv, NextTaskStopped, NextRefines, PTL
     DEF Spec, ImplementsLifecycle, Lifecycle!Spec, Lifecycle!vars, LVars

=============================================================================
