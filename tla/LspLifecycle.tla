---------------------------- MODULE LspLifecycle ----------------------------
(***************************************************************************)
(* What the persistent client promises about the life of a session,      *)
(* independently of how it talks to the Pyre server: the state machine of *)
(* the LSP loop (pre-init, active, shutdown, terminated with an exit      *)
(* code), the documents the editor has open, and the life of the one      *)
(* background task the task manager supervises: started when the session  *)
(* is initialized, possibly ending on its own, and stopped on every way   *)
(* out of the session.                                                    *)
(***************************************************************************)
EXTENDS Integers

CONSTANT Paths

VARIABLES
    phase,  \* "preInit", "active", "shutdown" or "terminated"
    code,   \* the exit code of the session, -1 while it has none
    docs,   \* the documents the editor has open
    task    \* the supervised task: "notStarted", "live", "ended", "stopped"

vars == <<phase, code, docs, task>>

TypeOK ==
    /\ phase \in {"preInit", "active", "shutdown", "terminated"}
    /\ code \in {-1, 0, 1}
    /\ docs \in SUBSET Paths
    /\ task \in {"notStarted", "live", "ended", "stopped"}

Init ==
    /\ phase = "preInit"
    /\ code = -1
    /\ docs = {}
    /\ task = "notStarted"

\* ensure_stopped: a task that was started is stopped; one never started
\* stays so (the operation is idempotent).
StopTask == task' = IF task = "notStarted" THEN "notStarted" ELSE "stopped"

\* pre-init, initialize request: the session becomes active with no open
\* document, and ensure_running starts the task.
Initialize ==
    /\ phase = "preInit"
    /\ phase' = "active"
    /\ docs' = {}
    /\ task' = "live"
    /\ UNCHANGED code

\* active, shutdown request: the shutdown state.
Shutdown ==
    /\ phase = "active"
    /\ phase' = "shutdown"
    /\ UNCHANGED <<code, docs, task>>

\* exit notification: terminated(0) before initialization and after
\* shutdown, terminated(1) when it comes without a shutdown.
Exit ==
    /\ phase \in {"preInit", "active", "shutdown"}
    /\ phase' = "terminated"
    /\ code' = IF phase = "active" THEN 1 ELSE 0
    /\ StopTask
    /\ UNCHANGED docs

\* An exception leaves the loop: the session ends without an exit code, and
\* the task is stopped on that path too.
Abort ==
    /\ phase # "terminated"
    /\ phase' = "terminated"
    /\ StopTask
    /\ UNCHANGED <<code, docs>>

\* active, didOpen / didClose of an open document.
Open(p) ==
    /\ phase = "active"
    /\ docs' = docs \cup {p}
    /\ UNCHANGED <<phase, code, task>>

Close(p) ==
    /\ phase = "active"
    /\ p \in docs
    /\ docs' = docs \ {p}
    /\ UNCHANGED <<phase, code, task>>

\* The task returns or fails on its own; the manager does not restart it.
TaskEnds ==
    /\ task = "live"
    /\ task' = "ended"
    /\ UNCHANGED <<phase, code, docs>>

Next ==
    \/ Initialize \/ Shutdown \/ Exit \/ Abort \/ TaskEnds
    \/ \E p \in Paths : Open(p) \/ Close(p)

Spec == Init /\ [][Next]_vars

=============================================================================
