---------------------------- MODULE BridgeProofs ----------------------------
(***************************************************************************)
(* The proof that the client keeps up with the Pyre server                *)
(* (ClientTracksServer), for every set of paths and error lists, every    *)
(* bound MaxInFlight and both values of the scheduling flags.  The        *)
(* background task applies the lines of its socket in order, and the      *)
(* server appends its current list to the socket of a subscribed client:  *)
(* so the last line waiting, or the stored diagnostics once none waits,   *)
(* follow the server.  The invariant needs one more fact: while the task  *)
(* waits for the first response, that response is on the socket.          *)
(*                                                                         *)
(* Then the proof that the task gives up only on a server that is gone    *)
(* (TaskEndsOnlyWithoutServer) when writes never suspend: it rests on the *)
(* strengthening VInv of EditorViewProofs, by which the publish loop       *)
(* iterates the very set of open documents and cannot raise.              *)
(***************************************************************************)
EXTENDS EditorViewProofs, SequenceTheorems

\* The answer to SubscribeToTypeErrors is on the socket as soon as the task
\* subscribes, and stays there until the task reads it.
FirstLineWaiting == bridge = "readFirst" => sock # <<>>

\* The inductive invariant.
TrackInv == IInv /\ FirstLineWaiting /\ ClientTracksServer

-----------------------------------------------------------------------------
\* A step after which the task holds no subscription keeps both facts.
LEMMA LeavesSubscription ==
    ASSUME ~Subscribed'
    PROVE  FirstLineWaiting' /\ ClientTracksServer'
BY DEF Subscribed, FirstLineWaiting, ClientTracksServer

\* A step that leaves the socket, the stored diagnostics and the server
\* alone, and subscribes no task that was not, keeps both facts.
LEMMA SteadyKeepsTrack ==
    ASSUME FirstLineWaiting, ClientTracksServer,
           UNCHANGED <<sock, diagnostics, daemon, daemonErrors>>,
           Subscribed' => Subscribed,
           bridge' = "readFirst" => bridge = "readFirst"
    PROVE  FirstLineWaiting' /\ ClientTracksServer'
BY DEF FirstLineWaiting, ClientTracksServer

\* Taking the head off a non-empty sequence: what is left is empty exactly
\* when the head was the last element, and otherwise ends as before.
LEMMA TailKeepsLast ==
    ASSUME NEW S, NEW s \in Seq(S), s # <<>>
    PROVE  /\ Tail(s) = <<>> => Head(s) = s[Len(s)]
           /\ Tail(s) # <<>> => Tail(s)[Len(Tail(s))] = s[Len(s)]
<1>1. Len(s) \in Nat \ {0}
  BY EmptySeq
<1>2. Len(Tail(s)) = Len(s) - 1
      /\ \A i \in 1 .. Len(Tail(s)) : Tail(s)[i] = s[i + 1]
  BY HeadTailProperties
<1>3. Tail(s) = <<>> => Len(s) = 1
  BY <1>1, <1>2, EmptySeq
<1>4. Tail(s) # <<>> => Len(Tail(s)) \in 1 .. Len(Tail(s))
  BY <1>2, EmptySeq, HeadTailProperties
<1>5. QED
  BY <1>1, <1>2, <1>3, <1>4

(***************************************************************************)
(* Reading a snapshot or an update while the server is up: the line read  *)
(* is the head of the socket.  If it was the last, update_type_errors     *)
(* stores exactly the server's current list; otherwise the last line      *)
(* waiting is unchanged.                                                  *)
(***************************************************************************)
LEMMA ApplyLineKeepsTrack ==
    ASSUME IInv, ClientTracksServer, Subscribed, Subscribed',
           sock # <<>>, sock' = Tail(sock),
           diagnostics' = TypeErrorsToDiagnostics(Head(sock).errs),
           UNCHANGED <<daemon, daemonErrors>>
    PROVE  ClientTracksServer'
<1> SUFFICES ASSUME daemon = "up" PROVE ClientTracksServer'
  BY DEF ClientTracksServer
<1>1. sock[Len(sock)].errs = daemonErrors /\ sock \in Seq(Lines)
  BY DEF ClientTracksServer, IInv, TypeOK
<1>2. /\ sock' = <<>> => Head(sock) = sock[Len(sock)]
      /\ sock' # <<>> => sock'[Len(sock')] = sock[Len(sock)]
  BY <1>1, TailKeepsLast
<1>3. QED
  BY <1>1, <1>2 DEF ClientTracksServer

-----------------------------------------------------------------------------
\* Init establishes the invariant: the task is idle.
LEMMA InitTrack == Init => TrackInv
BY InitIInv DEF Init, TrackInv, FirstLineWaiting, ClientTracksServer, Subscribed

(***************************************************************************)
(* Every step keeps the invariant.  Steps of the LSP loop either leave the *)
(* task alone or stop it; steps of the task subscribe with the server's   *)
(* current list as snapshot, read the head line, iterate without touching *)
(* the socket, or give up the subscription; the server appends its new    *)
(* list, or stops.                                                        *)
(***************************************************************************)
LEMMA NextTrack == TrackInv /\ [Next]_vars => TrackInv'
<1> SUFFICES ASSUME TrackInv, [Next]_vars
             PROVE  FirstLineWaiting' /\ ClientTracksServer'
  BY NextIInv DEF TrackInv
<1> USE DEF TrackInv
<1>1. CASE \/ InitializeExit \/ InitializeFailure \/ RunShutdown
           \/ DidOpen \/ DidClose \/ RunBadDocument \/ RunOther \/ WaitOther
           \/ \E m \in Messages : EditorSend(m)
           \/ Terminated \/ Spin \/ UNCHANGED vars
  BY <1>1, SteadyKeepsTrack
     DEF InitializeExit, InitializeFailure, RunShutdown, DidOpen, DidClose,
         RunBadDocument, RunOther, WaitOther, EditorSend, Terminated, Spin,
         vars, Subscribed
<1>2. CASE \/ InitializeSuccess \/ ReadMalformed \/ RunExit \/ WaitExit
           \/ ConnectFailed \/ SpawnServer \/ WaitServerReady
           \/ ReadEof \/ ReadReset
  <2>1. ~Subscribed'
    BY <1>2 DEF InitializeSuccess, ReadMalformed, RunExit, WaitExit,
                EnsureTaskStop, ConnectFailed, SpawnServer, WaitServerReady,
                ReadEof, ReadReset, Subscribed
  <2>2. QED
    BY <2>1, LeavesSubscription
<1>3. CASE ConnectExisting
  BY <1>3 DEF ConnectExisting, Snapshot, FirstLineWaiting, ClientTracksServer,
              Subscribed
<1>4. CASE Reconnect
  <2>1. CASE daemon = "up"
    <3>1. bridge' = "readFirst" /\ sock' = <<Snapshot(daemonErrors)>>
          /\ UNCHANGED <<daemon, daemonErrors>>
      BY <1>4, <2>1 DEF Reconnect
    <3>2. QED
      BY <3>1 DEF Snapshot, FirstLineWaiting, ClientTracksServer
  <2>2. CASE daemon # "up"
    <3>1. bridge' = "finished"
      BY <1>4, <2>2 DEF Reconnect
    <3>2. QED
      BY <3>1, LeavesSubscription DEF Subscribed
  <2>3. QED
    BY <2>1, <2>2
<1>5. CASE ReadSnapshot \/ ReadUpdate
  <2>1. /\ sock # <<>> /\ sock' = Tail(sock)
        /\ diagnostics' = TypeErrorsToDiagnostics(Head(sock).errs)
        /\ bridge \in {"readFirst", "read"} /\ bridge' \in {"read", "showDiags"}
        /\ UNCHANGED <<daemon, daemonErrors>>
    BY <1>5 DEF ReadSnapshot, ReadUpdate, UpdateAndShow
  <2>2. Subscribed /\ Subscribed' /\ FirstLineWaiting'
    BY <2>1 DEF Subscribed, FirstLineWaiting
  <2>3. QED
    BY <2>1, <2>2, ApplyLineKeepsTrack
<1>6. CASE ShowDiagnostics \/ ShowNext
  <2>1. UNCHANGED <<diagnostics, daemon, daemonErrors>> /\ Showing
    BY <1>6 DEF ShowDiagnostics, ShowNext, Showing
  <2>2. CASE bridge' = "finished"
    BY <2>2, LeavesSubscription DEF Subscribed
  <2>3. CASE bridge' # "finished"
    <3>1. sock' = sock /\ bridge' # "readFirst"
      <4>1. CASE ShowDiagnostics /\ cur \in DOMAIN diagnostics
        BY <4>1 DEF ShowDiagnostics
      <4>2. CASE ShowDiagnostics /\ cur \notin DOMAIN diagnostics
        <5>1. IterationStepTyped
          BY <4>2, IterationNextTyped DEF ShowDiagnostics, IInv
        <5>2. QED
          BY <2>3, <5>1 DEF IterationStepTyped
      <4>3. CASE ShowNext
        <5>1. IterationStepTyped
          BY <4>3, IterationNextTyped DEF ShowNext, IInv
        <5>2. QED
          BY <2>3, <5>1 DEF IterationStepTyped
      <4>4. QED
        BY <1>6, <4>1, <4>2, <4>3
    <3>2. Subscribed /\ (Subscribed' => Subscribed)
      BY <2>1 DEF Showing, Subscribed
    <3>3. (bridge' = "readFirst" => bridge = "readFirst")
          /\ UNCHANGED <<sock, diagnostics, daemon, daemonErrors>>
      BY <2>1, <3>1
    <3>4. QED
      BY <3>2, <3>3, SteadyKeepsTrack
  <2>4. QED
    BY <2>2, <2>3
<1>7. CASE \E errs \in ErrorLists : DaemonErrorsChange(errs)
  <2>1. PICK errs \in ErrorLists : DaemonErrorsChange(errs)
    BY <1>7
  <2>2. CASE Subscribed
    <3>1. sock' = Append(sock, Update(errs)) /\ daemonErrors' = errs
          /\ UNCHANGED <<bridge, daemon>>
      BY <2>1, <2>2 DEF DaemonErrorsChange
    <3>2. sock' # <<>> /\ sock'[Len(sock')].errs = daemonErrors'
      BY <3>1 DEF Update, IInv, TypeOK
    <3>3. QED
      BY <3>1, <3>2 DEF FirstLineWaiting, ClientTracksServer, Subscribed
  <2>3. CASE ~Subscribed
    <3>1. UNCHANGED <<bridge, sock>>
      BY <2>1, <2>3 DEF DaemonErrorsChange
    <3>2. QED
      BY <2>3, <3>1, LeavesSubscription DEF Subscribed
  <2>4. QED
    BY <2>2, <2>3
<1>8. CASE DaemonStops
  <2>1. daemon' = "down" /\ UNCHANGED bridge
    BY <1>8 DEF DaemonStops
  <2>2. CASE Subscribed
    <3>1. PICK last \in {Eof, Reset} : sock' = Append(sock, last)
      BY <1>8, <2>2 DEF DaemonStops
    <3>2. QED
      BY <2>1, <3>1 DEF FirstLineWaiting, ClientTracksServer
  <2>3. CASE ~Subscribed
    BY <2>1, <2>3, LeavesSubscription DEF Subscribed
  <2>4. QED
    BY <2>2, <2>3
<1>9. QED
  BY <1>1, <1>2, <1>3, <1>4, <1>5, <1>6, <1>7, <1>8
     DEF Next, LspNext, BridgeNext

-----------------------------------------------------------------------------
(***************************************************************************)
(* For every value of the constants, whenever the task is subscribed and  *)
(* the Pyre server up, the newest list the client has (the last line      *)
(* waiting on its socket, or the stored diagnostics once none waits) is   *)
(* the server's current list: subscribe_to_type_error loses and reorders  *)
(* no update, whether or not writes to the editor suspend.                *)
(***************************************************************************)
THEOREM ClientTracksServerInvariant == Spec => []ClientTracksServer
<1>1. TrackInv => ClientTracksServer
  BY DEF TrackInv
<1>2. QED
  BY <1>1, InitTrack, NextTrack, PTL DEF Spec

-----------------------------------------------------------------------------
\* _start_pyre_server runs only when no server is up: the connect failed,
\* or the connection to the existing server was reset.
NoServerWhileStarting == bridge \in {"spawn", "waitReady"} => daemon # "up"

\* The inductive invariant of TaskEndsOnlyWithoutServer.
EndInv == IInv /\ VInv /\ NoServerWhileStarting /\ TaskEndsOnlyWithoutServer

\* A reset read from the socket comes from a server that is no longer up.
LEMMA ResetMeansDown ==
    ASSUME IInv, sock # <<>>, Head(sock) = Reset
    PROVE  daemon # "up"
<1>1. sock \in Seq(Lines) /\ Len(sock) \in Nat \ {0}
  <2>1. \A q \in Seq(Lines) : q # <<>> => Len(q) \in Nat \ {0}
    BY EmptySeq
  <2>2. QED
    BY <2>1 DEF IInv, TypeOK
<1>2. sock[1] = Reset /\ 1 \in 1 .. Len(sock)
  BY <1>1
<1>3. QED
  BY <1>2 DEF IInv, EndOfStreamLast

(***************************************************************************)
(* In a live session with writes that never suspend, a step of the        *)
(* publish loop never ends the task: the set it iterates has the size of   *)
(* the set of open documents, as it is that set.                          *)
(***************************************************************************)
LEMMA LoopNeverRaises ==
    ASSUME IInv, VInv, ~WriteSuspends, lsp \notin {"exited", "crashed"},
           Showing, IterationNext
    PROVE  bridge' # "finished"
<1>1. iterOver = opened
  BY DEF VInv
<1>2. Cardinality(opened) = Cardinality(iterOver)
  BY <1>1
<1>3. QED
  BY <1>2 DEF IterationNext, ResetIteration

\* Init establishes the invariant.
LEMMA InitEnd == Init => EndInv
BY InitIInv, InitVInv
   DEF Init, EndInv, NoServerWhileStarting, TaskEndsOnlyWithoutServer

(***************************************************************************)
(* Every step keeps the invariant when writes never suspend.  A server    *)
(* comes up only when the task it started is waiting for it; the task    *)
(* ends on a failed start, a server that did not come up or is gone, a     *)
(* reset of a server that stopped, or on the way out of run_persistent.   *)
(***************************************************************************)
LEMMA NextEnd ==
    ASSUME ~WriteSuspends, EndInv, [Next]_vars
    PROVE  EndInv'
<1> USE DEF EndInv
<1>0. IInv' /\ VInv'
  BY NextIInv, NextVInv
<1> SUFFICES NoServerWhileStarting' /\ TaskEndsOnlyWithoutServer'
  BY <1>0
<1>1. CASE \/ InitializeExit \/ InitializeFailure \/ RunShutdown
           \/ DidOpen \/ DidClose \/ RunBadDocument \/ RunOther \/ WaitOther
           \/ \E m \in Messages : EditorSend(m)
           \/ \E errs \in ErrorLists : DaemonErrorsChange(errs)
           \/ Terminated \/ Spin \/ UNCHANGED vars
  <2>1. UNCHANGED <<bridge, daemon>>
        /\ (lsp' \in {"running", "shutdown"} => lsp \in {"running", "shutdown"})
    BY <1>1 DEF InitializeExit, InitializeFailure, RunShutdown, DidOpen,
                DidClose, RunBadDocument, RunOther, WaitOther, EditorSend,
                DaemonErrorsChange, Terminated, Spin, vars
  <2>2. QED
    BY <2>1 DEF NoServerWhileStarting, TaskEndsOnlyWithoutServer
<1>2. CASE InitializeSuccess \/ ReadMalformed \/ RunExit \/ WaitExit
  <2>1. /\ bridge' # "finished" \/ lsp' \in {"exited", "crashed"}
        /\ bridge' \notin {"spawn", "waitReady"}
        /\ UNCHANGED daemon
    BY <1>2 DEF InitializeSuccess, ReadMalformed, RunExit, WaitExit,
                EnsureTaskStop
  <2>2. QED
    BY <2>1 DEF NoServerWhileStarting, TaskEndsOnlyWithoutServer
<1>3. CASE ConnectExisting \/ ConnectFailed \/ ReadEof
  <2>1. UNCHANGED <<lsp, daemon>> /\ bridge' \notin {"finished", "waitReady"}
        /\ (bridge' = "spawn" => daemon # "up")
    BY <1>3 DEF ConnectExisting, ConnectFailed, ReadEof
  <2>2. QED
    BY <2>1 DEF NoServerWhileStarting, TaskEndsOnlyWithoutServer
<1>4. CASE SpawnServer
  <2>1. daemon # "up" /\ UNCHANGED lsp
    BY <1>4 DEF SpawnServer, NoServerWhileStarting
  <2>2. daemon' # "up"
    BY <1>4, <2>1 DEF SpawnServer
  <2>3. QED
    BY <2>2 DEF NoServerWhileStarting, TaskEndsOnlyWithoutServer
<1>5. CASE WaitServerReady
  <2>1. \/ daemon' = "up" /\ bridge' = "reconnect"
        \/ daemon' = "down" /\ bridge' = "finished"
    BY <1>5, Zenon DEF WaitServerReady
  <2>2. QED
    BY <2>1 DEF NoServerWhileStarting, TaskEndsOnlyWithoutServer
<1>6. CASE Reconnect
  <2>1. UNCHANGED <<lsp, daemon>>
        /\ (bridge' = "finished" => daemon # "up") /\ bridge' # "spawn"
        /\ bridge' # "waitReady"
    BY <1>6 DEF Reconnect
  <2>2. QED
    BY <2>1 DEF NoServerWhileStarting, TaskEndsOnlyWithoutServer
<1>7. CASE ReadReset
  <2>1. daemon # "up"
    BY <1>7, ResetMeansDown DEF ReadReset
  <2>2. UNCHANGED <<lsp, daemon>>
    BY <1>7 DEF ReadReset
  <2>3. QED
    BY <2>1, <2>2 DEF NoServerWhileStarting, TaskEndsOnlyWithoutServer
<1>8. CASE ReadSnapshot \/ ReadUpdate
  <2>1. UNCHANGED <<lsp, daemon>> /\ bridge' \in {"read", "showDiags"}
    BY <1>8 DEF ReadSnapshot, ReadUpdate, UpdateAndShow
  <2>2. QED
    BY <2>1 DEF NoServerWhileStarting, TaskEndsOnlyWithoutServer
<1>9. CASE ShowDiagnostics \/ ShowNext
  <2>1. UNCHANGED <<lsp, daemon>> /\ Showing
    BY <1>9 DEF ShowDiagnostics, ShowNext, Showing
  <2>2. CASE lsp \in {"exited", "crashed"}
    <3>1. bridge' \notin {"spawn", "waitReady"}
      <4>1. CASE ShowDiagnostics /\ cur \in DOMAIN diagnostics
        BY <4>1 DEF ShowDiagnostics
      <4>2. CASE ShowDiagnostics /\ cur \notin DOMAIN diagnostics
        BY <4>2, IterationNextTyped DEF ShowDiagnostics, IterationStepTyped, IInv
      <4>3. CASE ShowNext
        BY <4>3, IterationNextTyped DEF ShowNext, IterationStepTyped, IInv
      <4>4. QED
        BY <1>9, <4>1, <4>2, <4>3
    <3>2. QED
      BY <2>1, <2>2, <3>1 DEF NoServerWhileStarting, TaskEndsOnlyWithoutServer
  <2>3. CASE lsp \notin {"exited", "crashed"}
    <3>1. bridge' \notin {"finished", "spawn", "waitReady"}
      <4>1. CASE ShowDiagnostics /\ cur \in DOMAIN diagnostics
        BY <4>1 DEF ShowDiagnostics
      <4>2. CASE ShowDiagnostics /\ cur \notin DOMAIN diagnostics
        <5>1. IterationNext
          BY <4>2 DEF ShowDiagnostics
        <5>2. QED
          BY <2>1, <2>3, <5>1, LoopNeverRaises, IterationNextTyped
             DEF IterationStepTyped, IInv
      <4>3. CASE ShowNext
        <5>1. IterationNext
          BY <4>3 DEF ShowNext
        <5>2. QED
          BY <2>1, <2>3, <5>1, LoopNeverRaises, IterationNextTyped
             DEF IterationStepTyped, IInv
      <4>4. QED
        BY <1>9, <4>1, <4>2, <4>3
    <3>2. QED
      BY <2>1, <3>1 DEF NoServerWhileStarting, TaskEndsOnlyWithoutServer
  <2>4. QED
    BY <2>2, <2>3
<1>10. CASE DaemonStops
  BY <1>10 DEF DaemonStops, NoServerWhileStarting, TaskEndsOnlyWithoutServer
<1>11. QED
  BY <1>1, <1>2, <1>3, <1>4, <1>5, <1>6, <1>7, <1>8, <1>9, <1>10
     DEF Next, LspNext, BridgeNext

(***************************************************************************)
(* When writes to the editor never suspend, for every value of the        *)
(* constants: while the session runs, the background task has finished    *)
(* only if no Pyre server is up.  The task never ends on an exception of  *)
(* the publish loop, and never leaves a live server it could follow.      *)
(***************************************************************************)
THEOREM TaskEndsOnlyWithoutServerInvariant ==
    ASSUME ~WriteSuspends
    PROVE  Spec => []TaskEndsOnlyWithoutServer
<1>1. EndInv => TaskEndsOnlyWithoutServer
  BY DEF EndInv
<1>2. EndInv /\ [Next]_vars => EndInv'
  BY NextEnd
<1>3. QED
  BY <1>1, <1>2, InitEnd, PTL DEF Spec

=============================================================================
