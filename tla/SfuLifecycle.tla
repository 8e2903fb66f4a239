---------------------------- MODULE SfuLifecycle ----------------------------
(***************************************************************************)
(* How the server of main.rs comes up and goes down.                       *)
(*                                                                         *)
(* A task of its own waits for ctrl-c, asks for the mutex around SfuCore,  *)
(* closes all sessions, and tells serve_with_shutdown through a oneshot    *)
(* channel to stop; it gives up on the mutex after five seconds and tells  *)
(* it all the same.  Meanwhile calls come in, wait for the mutex behind or *)
(* before that task, and open streams.  tonic stops accepting and then     *)
(* waits for every call and every stream that is still there.              *)
(*                                                                         *)
(* tokio's Mutex serves those who wait in the order in which they came,    *)
(* and whoever stops waiting leaves the queue.  The queue is kept as the   *)
(* set of those who wait or hold, each with the ones ahead of it.          *)
(*                                                                         *)
(* Of the calls, register_session and close_session change the sessions,   *)
(* and subscribe_to_events leaves a stream.  A call stands for the         *)
(* participant who makes it.  What a session is otherwise made of plays no *)
(* part, and of what may keep the mutex for seconds there is the replay of *)
(* a subscription: no other call here waits for anything while it holds    *)
(* the mutex.                                                              *)
(*                                                                         *)
(* A definition whose name has an underscore is a faulty variant of the    *)
(* definition after which it is named, and no part of the specification.   *)
(***************************************************************************)
EXTENDS FiniteSets

CONSTANTS
  Call,             (* gRPC calls, each used again when it is over          *)
  SessionId,        (* ids of sessions, each given once                     *)
  NoSession,        (* the call has no session id                           *)
  ShutdownTask,     (* the task that waits for ctrl-c                       *)
  ReplayMayBlock    (* may there be more producers to replay than space?    *)

ASSUME TaskAssumption == ShutdownTask \notin Call
ASSUME ReplayAssumption == ReplayMayBlock \in BOOLEAN

VARIABLES
  server,           (* where main() is                                      *)
  shutdown,         (* where the shutdown task is                           *)
  signalled,        (* shutdown_rx has resolved: sent, or sender dropped    *)
  queue,            (* who holds or waits for the mutex around SfuCore      *)
  ahead,            (* who is to have it before                             *)
  stage,            (* what each call is doing                              *)
  target,           (* the session it is about                              *)
  sessions,         (* keys of SfuCore.sessions                             *)
  event_senders,    (* <<session, participant>> of each sender in it       *)
  issued            (* ids of all sessions there ever were                  *)

coreVars == <<sessions, event_senders, issued>>
vars == <<server, shutdown, signalled, queue, ahead, stage, target, coreVars>>

Waiter == Call \cup {ShutdownTask}
Holds(w) == w \in queue /\ ahead[w] = {}

\* The shutdown task has asked for the mutex and not had it.
Locking == shutdown \in {"locking", "expired"}

\* A replay waits for a reader that it has yet to return.
Stuck == \E c \in Call : stage[c] = "stuck"

\* lock(): takes the last place in the queue.
Lock(w) ==
  /\ queue' = queue \cup {w}
  /\ ahead' = [ahead EXCEPT ![w] = queue]

\* The guard is dropped, or the future that waits for it.
Leave(w) ==
  /\ queue' = queue \ {w}
  /\ ahead' = [v \in Waiter |-> IF v = w THEN {} ELSE ahead[v] \ {w}]

Init ==
  /\ server = "starting"
  /\ shutdown = "listening"
  /\ signalled = FALSE
  /\ queue = {}
  /\ ahead = [w \in Waiter |-> {}]
  /\ stage = [c \in Call |-> "idle"]
  /\ target = [c \in Call |-> NoSession]
  /\ sessions = {} /\ event_senders = {} /\ issued = {}
-----------------------------------------------------------------------------
\* The task was spawned before the gRPC server binds and begins to serve.
Serve ==
  /\ server = "starting"
  /\ server' = "serving"
  /\ UNCHANGED <<shutdown, signalled, queue, ahead, stage, target, coreVars>>

CtrlC ==
  /\ shutdown = "listening"
  /\ shutdown' = "locking"
  /\ Lock(ShutdownTask)
  /\ UNCHANGED <<server, signalled, stage, target, coreVars>>

\* ctrl_c() fails: the task returns, and drops the sender of the channel.
ListenFails ==
  /\ shutdown = "listening"
  /\ shutdown' = "failed"
  /\ signalled' = TRUE
  /\ UNCHANGED <<server, queue, ahead, stage, target, coreVars>>

ShutdownCore_SendersKept ==
  /\ Locking
  /\ Holds(ShutdownTask)
  /\ Leave(ShutdownTask)
  /\ shutdown' = "completed"
  /\ sessions' = {}
  /\ UNCHANGED <<server, signalled, stage, target, event_senders, issued>>

\* SfuCore::shutdown, all sessions in one turn of the mutex: close_session for
\* each of them, with its entry of event_senders.
ShutdownCore ==
  /\ Locking
  /\ Holds(ShutdownTask)
  /\ Leave(ShutdownTask)
  /\ shutdown' = "completed"
  /\ sessions' = {}
  /\ event_senders' = {e \in event_senders : e[1] \notin sessions}
  /\ UNCHANGED <<server, signalled, stage, target, issued>>

\* Five seconds are over.  The task has yet to be polled, and takes the mutex
\* if it is free by then.
TimerExpires ==
  /\ shutdown = "locking"
  /\ Stuck
  /\ shutdown' = "expired"
  /\ UNCHANGED <<server, signalled, queue, ahead, stage, target, coreVars>>

ShutdownTimeout_Never == FALSE /\ UNCHANGED vars

ShutdownTimeout_StillQueued ==
  /\ shutdown = "expired"
  /\ ~Holds(ShutdownTask)
  /\ shutdown' = "timed out"
  /\ UNCHANGED <<server, signalled, queue, ahead, stage, target, coreVars>>

ShutdownTimeout_ClosesAnyway ==
  /\ shutdown = "expired"
  /\ ~Holds(ShutdownTask)
  /\ Leave(ShutdownTask)
  /\ shutdown' = "timed out"
  /\ sessions' = {} /\ event_senders' = {}
  /\ UNCHANGED <<server, signalled, stage, target, issued>>

\* It is not: timeout() drops the future that waits for it.
ShutdownTimeout ==
  /\ shutdown = "expired"
  /\ ~Holds(ShutdownTask)
  /\ Leave(ShutdownTask)
  /\ shutdown' = "timed out"
  /\ UNCHANGED <<server, signalled, stage, target, coreVars>>

SendSignal_First ==
  /\ Locking
  /\ ~signalled
  /\ signalled' = TRUE
  /\ UNCHANGED <<server, shutdown, queue, ahead, stage, target, coreVars>>

\* shutdown_tx.send(()).
SendSignal ==
  /\ shutdown \in {"completed", "timed out"}
  /\ ~signalled
  /\ signalled' = TRUE
  /\ UNCHANGED <<server, shutdown, queue, ahead, stage, target, coreVars>>

\* serve_with_shutdown sees shutdown_rx resolved.
StopAccepting ==
  /\ server = "serving"
  /\ signalled
  /\ server' = "draining"
  /\ UNCHANGED <<shutdown, signalled, queue, ahead, stage, target, coreVars>>

\* No call and no stream is left: main() returns.
Stop ==
  /\ server = "draining"
  /\ \A c \in Call : stage[c] = "idle"
  /\ server' = "stopped"
  /\ UNCHANGED <<shutdown, signalled, queue, ahead, stage, target, coreVars>>
-----------------------------------------------------------------------------
\* A valid request: its handler asks for the mutex.
Request(c, st, s) ==
  /\ server = "serving"
  /\ stage[c] = "idle"
  /\ stage' = [stage EXCEPT ![c] = st]
  /\ target' = [target EXCEPT ![c] = s]
  /\ Lock(c)
  /\ UNCHANGED <<server, shutdown, signalled, coreVars>>

\* The call is over, and so is what it held.
Return(c) ==
  /\ Leave(c)
  /\ stage' = [stage EXCEPT ![c] = "idle"]
  /\ target' = [target EXCEPT ![c] = NoSession]

\* register_session finds room, or does not.
Register(c) ==
  /\ stage[c] = "registering"
  /\ Holds(c)
  /\ \/ \E s \in SessionId \ issued : sessions' = sessions \cup {s} /\ issued' = issued \cup {s}
     \/ UNCHANGED <<sessions, issued>>
  /\ Return(c)
  /\ UNCHANGED <<server, shutdown, signalled, event_senders>>

\* A session that is not there is not closed, and leaves all as it is.
CloseSession(c) ==
  /\ stage[c] = "closing"
  /\ Holds(c)
  /\ \/ /\ target[c] \in sessions
        /\ sessions' = sessions \ {target[c]}
        /\ event_senders' = {e \in event_senders : e[1] # target[c]}
     \/ /\ target[c] \notin sessions
        /\ UNCHANGED <<sessions, event_senders>>
  /\ Return(c)
  /\ UNCHANGED <<server, shutdown, signalled, issued>>

\* subscribe_to_events of a session that is not there.
SessionNotFound(c) ==
  /\ stage[c] = "subscribing"
  /\ Holds(c)
  /\ target[c] \notin sessions
  /\ Return(c)
  /\ UNCHANGED <<server, shutdown, signalled, coreVars>>

\* The sender is stored and the replay begins, which may be too long.
SubscribeToEvents(c) ==
  /\ stage[c] = "subscribing"
  /\ Holds(c)
  /\ target[c] \in sessions
  /\ event_senders' = event_senders \cup {<<target[c], c>>}
  /\ \E st \in {"replaying"} \cup (IF ReplayMayBlock THEN {"stuck"} ELSE {}) :
       stage' = [stage EXCEPT ![c] = st]
  /\ UNCHANGED <<server, shutdown, signalled, queue, ahead, target, sessions, issued>>

SubscribeReturn(c) ==
  /\ stage[c] = "replaying"
  /\ Leave(c)
  /\ stage' = [stage EXCEPT ![c] = "streaming"]
  /\ UNCHANGED <<server, shutdown, signalled, target, coreVars>>

\* The sender of the stream is gone and the client has read the rest.
StreamEnd(c) ==
  /\ stage[c] = "streaming"
  /\ <<target[c], c>> \notin event_senders
  /\ Return(c)
  /\ UNCHANGED <<server, shutdown, signalled, coreVars>>

\* The client gives up its call or its stream.  The sender of a stream stays
\* behind, without a receiver, until its session is closed.
Disconnect(c) ==
  /\ stage[c] # "idle"
  /\ Return(c)
  /\ UNCHANGED <<server, shutdown, signalled, coreVars>>

Requests ==
  \E c \in Call :
    \/ Request(c, "registering", NoSession)
    \/ \E s \in issued : Request(c, "subscribing", s) \/ Request(c, "closing", s)

HandlerStep(c) ==
  Register(c) \/ CloseSession(c) \/ SessionNotFound(c) \/ SubscribeToEvents(c) \/ SubscribeReturn(c)

Next ==
  \/ Serve \/ CtrlC \/ ListenFails \/ ShutdownCore \/ TimerExpires \/ ShutdownTimeout
  \/ SendSignal \/ StopAccepting \/ Stop \/ Requests
  \/ \E c \in Call : HandlerStep(c) \/ StreamEnd(c) \/ Disconnect(c)

Spec == Init /\ [][Next]_vars

\* Every task is polled, the timer fires, and a client that stays reads its
\* stream.  Nobody has to press ctrl-c, to call or to leave.
Fairness ==
  /\ WF_vars(Serve) /\ WF_vars(StopAccepting) /\ WF_vars(Stop)
  /\ WF_vars(ShutdownCore \/ ShutdownTimeout) /\ WF_vars(TimerExpires) /\ WF_vars(SendSignal)
  /\ \A c \in Call : WF_vars(HandlerStep(c)) /\ WF_vars(StreamEnd(c))

FairSpec == Spec /\ Fairness
-----------------------------------------------------------------------------
TypeOK ==
  /\ server \in {"starting", "serving", "draining", "stopped"}
  /\ shutdown \in {"listening", "failed", "locking", "expired", "completed", "timed out"}
  /\ signalled \in BOOLEAN
  /\ signalled => shutdown \in {"failed", "completed", "timed out"}
  /\ queue \subseteq Waiter
  /\ ahead \in [Waiter -> SUBSET queue]
  /\ stage \in [Call -> {"idle", "registering", "closing", "subscribing", "replaying",
                         "stuck", "streaming"}]
  /\ target \in [Call -> SessionId \cup {NoSession}]
  /\ issued \subseteq SessionId /\ sessions \subseteq issued
  /\ event_senders \subseteq issued \X Call

Inside == {c \in Call : stage[c] \in {"replaying", "stuck"}}
InCore == {c \in Call : stage[c] \in {"registering", "closing", "subscribing"}} \cup Inside

(* The queue of the mutex holds the calls that are before or inside the     *)
(* core and, while it waits, the shutdown task, in one line.  A task that   *)
(* has given up, or a client that has gone, leaves no place behind that     *)
(* nobody would ever free.                                                  *)
QueueExact ==
  /\ queue = InCore \cup (IF Locking THEN {ShutdownTask} ELSE {})
  /\ \A v, w \in queue : v # w => (v \in ahead[w] <=> w \notin ahead[v])

(* While a subscription replays, whatever else is going on, its session is  *)
(* open and its sender stored: neither close_session nor the shutdown, in   *)
(* time or not, comes between.                                              *)
ReplayUndisturbed ==
  \A c \in Inside : Holds(c) /\ target[c] \in sessions /\ <<target[c], c>> \in event_senders

(* A stored sender belongs to a session that is there: a stream whose       *)
(* session was closed, or shut down with all the others, can end.           *)
SendersInSessions == \A e \in event_senders : e[1] \in sessions

(* After ctrl-c tonic is told to stop, even though the mutex is never free. *)
ShutdownSignalled == shutdown = "locking" ~> signalled

(* Whoever waits for the mutex gets it and gives it back, whether the       *)
(* shutdown comes first, comes later or gives up, unless a replay is stuck. *)
CallsReturn == \A c \in Call : c \in queue ~> c \notin queue \/ Stuck

(* A server that has no session left when it stops accepting does stop: its *)
(* streams end, and calls that are under way return.                        *)
EmptyServerStops ==
  server = "draining" /\ sessions = {} ~> server = "stopped" \/ sessions # {} \/ Stuck

(* The shutdown comes to an end: main.rs:118 lets it wait for five seconds, *)
(* "SFU shutdown timed out after 5 seconds".                                *)
ShutdownStops == shutdown = "locking" ~> server = "stopped"
=============================================================================
