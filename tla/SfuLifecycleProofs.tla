------------------------- MODULE SfuLifecycleProofs -------------------------
(***************************************************************************)
(* Proofs about SfuLifecycle for any calls and session ids.                *)
(*                                                                         *)
(* TypeOK, QueueExact and ReplayUndisturbed need each other: a replay is   *)
(* undisturbed because it holds the mutex, two cannot hold it because the  *)
(* queue is one line, and the line stays one because whoever joins it was  *)
(* not in it, of which QueueExact and the stages keep account.             *)
(***************************************************************************)
EXTENDS SfuLifecycle, TLAPS

Inv == TypeOK /\ QueueExact /\ ReplayUndisturbed

(* Of two who are in the queue one is ahead of the other, so that only one  *)
(* of them can hold the mutex.                                              *)
LEMMA OneHolder ==
  ASSUME Inv, NEW v \in Waiter, NEW w \in Waiter, Holds(v), Holds(w)
  PROVE  v = w
BY DEF Inv, QueueExact, Holds

(* Calls and the shutdown task wait for the mutex, and differ.              *)
LEMMA WaiterType == ShutdownTask \in Waiter /\ \A c \in Call : c \in Waiter /\ c # ShutdownTask
BY TaskAssumption DEF Waiter

(* Where the calls are that have or want the mutex.                         *)
LEMMA QueuedCalls ==
  ASSUME Inv, NEW c \in Call
  PROVE  /\ c \in queue <=> c \in InCore
         /\ stage[c] = "idle" \/ stage[c] = "streaming" => c \notin queue
         /\ c \in InCore <=> stage[c] \in {"registering", "closing", "subscribing", "replaying", "stuck"}
<1>1. c \in queue <=> c \in InCore
  BY WaiterType DEF Inv, QueueExact
<1>2. QED
  BY <1>1 DEF InCore, Inside

(* The shutdown task is in the queue exactly while it locks.                *)
LEMMA QueuedTask == ASSUME Inv PROVE ShutdownTask \in queue <=> Locking
BY WaiterType DEF Inv, QueueExact, InCore, Inside
-----------------------------------------------------------------------------
(* The line of the mutex: types and order, whoever joins or leaves.         *)
Line ==
  /\ queue \subseteq Waiter
  /\ ahead \in [Waiter -> SUBSET queue]
  /\ \A v, w \in queue : v # w => (v \in ahead[w] <=> w \notin ahead[v])

(* The invariant contains that the queue is a line.                         *)
LEMMA InvLine == Inv => Line
BY DEF Inv, TypeOK, QueueExact, Line

(* One more at the end of a line leaves it a line.                          *)
LEMMA LineLock ==
  ASSUME Line, NEW w \in Waiter, w \notin queue, Lock(w)
  PROVE  /\ Line'
         /\ queue' = queue \cup {w}
         /\ \A v \in Waiter : Holds(v) => Holds(v)'
<1>1. ahead' \in [Waiter -> SUBSET queue']
  BY DEF Line, Lock
<1>2. \A u, v \in queue' : u # v => (u \in ahead'[v] <=> v \notin ahead'[u])
  <2> SUFFICES ASSUME NEW u \in queue', NEW v \in queue', u # v
               PROVE  u \in ahead'[v] <=> v \notin ahead'[u]
    OBVIOUS
  <2>1. CASE u # w /\ v # w
    BY <2>1 DEF Line, Lock
  <2>2. CASE u = w
    BY <2>2 DEF Line, Lock
  <2>3. CASE v = w
    BY <2>3 DEF Line, Lock
  <2>4. QED
    BY <2>1, <2>2, <2>3
<1>3. \A v \in Waiter : Holds(v) => Holds(v)'
  BY DEF Line, Lock, Holds
<1>4. QED
  BY <1>1, <1>2, <1>3 DEF Line, Lock

(* A line from which one has gone is a line of the others.                  *)
LEMMA LineLeave ==
  ASSUME Line, NEW w \in Waiter, Leave(w)
  PROVE  /\ Line'
         /\ queue' = queue \ {w}
         /\ \A v \in Waiter \ {w} : Holds(v) => Holds(v)'
<1>1. ahead' \in [Waiter -> SUBSET queue']
  BY DEF Line, Leave
<1>2. \A u, v \in queue' : u # v => (u \in ahead'[v] <=> v \notin ahead'[u])
  BY DEF Line, Leave
<1>3. \A v \in Waiter \ {w} : Holds(v) => Holds(v)'
  BY DEF Line, Leave, Holds
<1>4. QED
  BY <1>1, <1>2, <1>3 DEF Line, Leave
-----------------------------------------------------------------------------
(* The invariant holds initially.                                           *)
LEMMA InitInv == Init => Inv
<1> SUFFICES ASSUME Init PROVE Inv
  OBVIOUS
<1>1. TypeOK
  BY DEF Init, TypeOK
<1>2. QueueExact /\ ReplayUndisturbed
  BY DEF Init, QueueExact, ReplayUndisturbed, InCore, Inside, Locking
<1>3. QED
  BY <1>1, <1>2 DEF Inv

(* Steps of main() that leave the mutex, the calls and the sessions alone.  *)
LEMMA ServerSteps ==
  ASSUME Inv, Serve \/ ListenFails \/ TimerExpires \/ SendSignal \/ StopAccepting \/ Stop \/ UNCHANGED vars
  PROVE  Inv'
<1>1. UNCHANGED <<queue, ahead, stage, target, coreVars>>
  BY DEF Serve, ListenFails, TimerExpires, SendSignal, StopAccepting, Stop, vars
<1>2. Locking' <=> Locking
  BY DEF Locking, Serve, ListenFails, TimerExpires, SendSignal, StopAccepting, Stop, vars
<1>3. TypeOK'
  <2>1. signalled' \in BOOLEAN /\ (signalled' => shutdown' \in {"failed", "completed", "timed out"})
    <3>1. CASE UNCHANGED <<shutdown, signalled>>
      BY <3>1 DEF Inv, TypeOK
    <3>2. CASE ListenFails
      BY <3>2 DEF ListenFails
    <3>3. CASE TimerExpires
      BY <3>3 DEF Inv, TypeOK, TimerExpires
    <3>4. CASE SendSignal
      BY <3>4 DEF SendSignal
    <3>5. QED
      BY <3>1, <3>2, <3>3, <3>4 DEF Serve, StopAccepting, Stop, vars
  <2>2. /\ server' \in {"starting", "serving", "draining", "stopped"}
        /\ shutdown' \in {"listening", "failed", "locking", "expired", "completed", "timed out"}
    BY DEF Inv, TypeOK, Serve, ListenFails, TimerExpires, SendSignal, StopAccepting, Stop, vars
  <2>3. QED
    BY <1>1, <2>1, <2>2 DEF Inv, TypeOK, coreVars
<1>4. QueueExact'
  BY <1>1, <1>2 DEF Inv, QueueExact, InCore, Inside
<1>5. ReplayUndisturbed'
  BY <1>1 DEF Inv, ReplayUndisturbed, Inside, Holds, coreVars
<1>6. QED
  BY <1>3, <1>4, <1>5 DEF Inv

(* ctrl-c: the shutdown task lines up.                                      *)
LEMMA CtrlCStep == ASSUME Inv, CtrlC PROVE Inv'
<1>1. ShutdownTask \in Waiter /\ ShutdownTask \notin queue /\ Lock(ShutdownTask)
  BY WaiterType, QueuedTask DEF CtrlC, Locking
<1>2. Line' /\ queue' = queue \cup {ShutdownTask} /\ \A v \in Waiter : Holds(v) => Holds(v)'
  BY <1>1, LineLock, InvLine
<1>3. UNCHANGED <<stage, target, coreVars>>
  BY DEF CtrlC
<1>4. TypeOK'
  BY <1>2, <1>3 DEF Inv, TypeOK, CtrlC, Line, coreVars
<1>5. QueueExact'
  BY <1>2, <1>3 DEF Inv, QueueExact, InCore, Inside, CtrlC, Line, Locking
<1>6. ReplayUndisturbed'
  BY <1>2, <1>3, WaiterType DEF Inv, ReplayUndisturbed, Inside, coreVars
<1>7. QED
  BY <1>4, <1>5, <1>6 DEF Inv

(* The shutdown task has the mutex, so nothing is replaying.                *)
LEMMA ShutdownCoreStep == ASSUME Inv, ShutdownCore PROVE Inv'
<1>1. Line' /\ queue' = queue \ {ShutdownTask}
  BY WaiterType, LineLeave, InvLine DEF ShutdownCore
<1>2. Inside = {}
  BY WaiterType, OneHolder DEF Inv, ReplayUndisturbed, Inside, ShutdownCore
<1>3. UNCHANGED <<stage, target>>
  BY DEF ShutdownCore
<1>4. TypeOK'
  BY <1>1, <1>3 DEF Inv, TypeOK, ShutdownCore, Line, Locking
<1>5. QueueExact'
  BY <1>1, <1>3, WaiterType DEF Inv, QueueExact, InCore, Inside, ShutdownCore, Line, Locking
<1>6. ReplayUndisturbed'
  BY <1>2, <1>3 DEF ReplayUndisturbed, Inside
<1>7. QED
  BY <1>4, <1>5, <1>6 DEF Inv

(* The shutdown task gives up, and takes nothing but its place.             *)
LEMMA ShutdownTimeoutStep == ASSUME Inv, ShutdownTimeout PROVE Inv'
<1>1. /\ Line' /\ queue' = queue \ {ShutdownTask}
      /\ \A v \in Waiter \ {ShutdownTask} : Holds(v) => Holds(v)'
  BY WaiterType, LineLeave, InvLine DEF ShutdownTimeout
<1>2. UNCHANGED <<stage, target, coreVars>>
  BY DEF ShutdownTimeout
<1>3. TypeOK'
  BY <1>1, <1>2 DEF Inv, TypeOK, ShutdownTimeout, Line, coreVars
<1>4. QueueExact'
  <2>1. InCore' = InCore /\ ShutdownTask \notin InCore
    BY <1>2, WaiterType DEF InCore, Inside
  <2>2. queue = InCore \cup {ShutdownTask} /\ ~Locking'
    BY DEF Inv, QueueExact, ShutdownTimeout, Locking
  <2>3. QED
    BY <1>1, <2>1, <2>2 DEF QueueExact, Line
<1>5. ReplayUndisturbed'
  BY <1>1, <1>2, WaiterType DEF Inv, ReplayUndisturbed, Inside, coreVars
<1>6. QED
  BY <1>3, <1>4, <1>5 DEF Inv
-----------------------------------------------------------------------------
(* A request: its call lines up.                                            *)
LEMMA RequestStep ==
  ASSUME Inv, NEW c \in Call, NEW st \in {"registering", "subscribing", "closing"},
         NEW s \in SessionId \cup {NoSession}, Request(c, st, s)
  PROVE  Inv'
<1>1. c \in Waiter /\ c \notin queue /\ Lock(c)
  BY WaiterType, QueuedCalls DEF Request
<1>2. Line' /\ queue' = queue \cup {c} /\ \A v \in Waiter : Holds(v) => Holds(v)'
  BY <1>1, LineLock, InvLine
<1>3. /\ stage' = [stage EXCEPT ![c] = st] /\ target' = [target EXCEPT ![c] = s]
      /\ UNCHANGED <<shutdown, coreVars>>
  BY DEF Request
<1>4. TypeOK'
  <2>1. /\ stage' \in [Call -> {"idle", "registering", "closing", "subscribing", "replaying",
                                "stuck", "streaming"}]
        /\ target' \in [Call -> SessionId \cup {NoSession}]
    BY <1>3 DEF Inv, TypeOK
  <2>2. UNCHANGED <<server, signalled>>
    BY DEF Request
  <2>3. QED
    BY <1>2, <1>3, <2>1, <2>2 DEF Inv, TypeOK, Line, coreVars
<1>5. QueueExact'
  <2>1. InCore' = InCore \cup {c}
    BY <1>3 DEF Inv, TypeOK, InCore, Inside
  <2>2. QED
    BY <1>2, <1>3, <2>1 DEF Inv, QueueExact, Line, Locking
<1>6. ReplayUndisturbed'
  <2>1. Inside' = Inside /\ c \notin Inside
    BY <1>3 DEF Inv, TypeOK, Inside, Request
  <2>2. \A d \in Inside : target'[d] = target[d] /\ Holds(d)'
    BY <1>2, <1>3, <2>1, WaiterType DEF Inv, TypeOK, ReplayUndisturbed, Inside
  <2>3. QED
    BY <1>3, <2>1, <2>2 DEF Inv, ReplayUndisturbed, coreVars
<1>7. QED
  BY <1>4, <1>5, <1>6 DEF Inv

(* What the end of a call leaves: the others keep stage, target and place.  *)
LEMMA Returned ==
  ASSUME Inv, NEW c \in Call, Return(c), UNCHANGED shutdown
  PROVE  /\ Line' /\ queue' = queue \ {c}
         /\ QueueExact'
         /\ stage' \in [Call -> {"idle", "registering", "closing", "subscribing", "replaying",
                                 "stuck", "streaming"}]
         /\ target' \in [Call -> SessionId \cup {NoSession}]
         /\ Inside' = Inside \ {c}
         /\ \A d \in Inside' : Holds(d)' /\ target'[d] = target[d]
<1>1. /\ Line' /\ queue' = queue \ {c}
      /\ \A v \in Waiter \ {c} : Holds(v) => Holds(v)'
  BY WaiterType, LineLeave, InvLine DEF Return
<1>2. /\ stage' = [stage EXCEPT ![c] = "idle"] /\ target' = [target EXCEPT ![c] = NoSession]
      /\ stage \in [Call -> {"idle", "registering", "closing", "subscribing", "replaying",
                             "stuck", "streaming"}]
      /\ target \in [Call -> SessionId \cup {NoSession}]
  BY DEF Return, Inv, TypeOK
<1>3. Inside' = Inside \ {c} /\ InCore' = InCore \ {c}
  BY <1>2 DEF Inside, InCore
<1>4. QueueExact'
  BY <1>1, <1>3, WaiterType DEF Inv, QueueExact, Line, Locking
<1>5. \A d \in Inside' : Holds(d)' /\ target'[d] = target[d]
  <2>1. \A d \in Inside : d \in Waiter /\ Holds(d) /\ d \in Call
    BY WaiterType DEF Inv, ReplayUndisturbed, Inside
  <2>2. QED
    BY <1>1, <1>2, <1>3, <2>1
<1>6. QED
  BY <1>1, <1>2, <1>3, <1>4, <1>5
-----------------------------------------------------------------------------
(* Calls that have the mutex and end: nobody else is inside.                *)
LEMMA HolderSteps ==
  ASSUME Inv, NEW c \in Call, Register(c) \/ CloseSession(c) \/ SessionNotFound(c)
  PROVE  Inv'
<1>1. Holds(c) /\ Return(c) /\ UNCHANGED <<server, shutdown, signalled>>
  BY DEF Register, CloseSession, SessionNotFound
<1>2. Inside' = {}
  <2>1. \A d \in Inside : d = c
    BY <1>1, WaiterType, OneHolder DEF Inv, ReplayUndisturbed, Inside
  <2>2. QED
    BY <1>1, <2>1, Returned
<1>3. TypeOK'
  <2>1. issued' \subseteq SessionId /\ sessions' \subseteq issued' /\ event_senders' \subseteq issued' \X Call
    BY DEF Inv, TypeOK, Register, CloseSession, SessionNotFound, coreVars
  <2>2. QED
    BY <1>1, <2>1, Returned DEF Inv, TypeOK, Line
<1>4. QueueExact'
  BY <1>1, Returned
<1>5. ReplayUndisturbed'
  BY <1>2 DEF ReplayUndisturbed
<1>6. QED
  BY <1>3, <1>4, <1>5 DEF Inv

(* Streams that end and clients that leave take no sender away.             *)
LEMMA ClientSteps ==
  ASSUME Inv, NEW c \in Call, StreamEnd(c) \/ Disconnect(c)
  PROVE  Inv'
<1>1. Return(c) /\ UNCHANGED <<server, shutdown, signalled, sessions, event_senders, issued>>
  BY DEF StreamEnd, Disconnect, coreVars
<1>2. TypeOK'
  BY <1>1, Returned DEF Inv, TypeOK, Line
<1>3. QueueExact'
  BY <1>1, Returned
<1>4. ReplayUndisturbed'
  <2>1. \A d \in Inside' : d \in Inside /\ d # c /\ Holds(d)' /\ target'[d] = target[d]
    BY <1>1, Returned
  <2>2. QED
    BY <1>1, <2>1 DEF Inv, ReplayUndisturbed
<1>5. QED
  BY <1>2, <1>3, <1>4 DEF Inv

(* A subscription begins its replay, with the mutex and the sender stored.  *)
LEMMA SubscribeStep == ASSUME Inv, NEW c \in Call, SubscribeToEvents(c) PROVE Inv'
<1>1. PICK st \in {"replaying", "stuck"} : stage' = [stage EXCEPT ![c] = st]
  BY DEF SubscribeToEvents
<1>2. /\ stage[c] = "subscribing" /\ Holds(c) /\ target[c] \in sessions
      /\ event_senders' = event_senders \cup {<<target[c], c>>}
      /\ UNCHANGED <<server, shutdown, signalled, queue, ahead, target, sessions, issued>>
  BY DEF SubscribeToEvents
<1>3. Inside' = Inside \cup {c} /\ InCore' = InCore
  BY <1>1, <1>2 DEF Inv, TypeOK, Inside, InCore
<1>4. TypeOK'
  <2>1. event_senders' \subseteq issued' \X Call
    <3>1. target[c] \in issued /\ event_senders \subseteq issued \X Call
      BY <1>2 DEF Inv, TypeOK
    <3>2. <<target[c], c>> \in issued \X Call
      BY <3>1
    <3>3. QED
      BY <1>2, <3>1, <3>2
  <2>2. stage' \in [Call -> {"idle", "registering", "closing", "subscribing", "replaying",
                             "stuck", "streaming"}]
    BY <1>1 DEF Inv, TypeOK
  <2>3. QED
    BY <1>2, <2>1, <2>2 DEF Inv, TypeOK
<1>5. QueueExact'
  BY <1>2, <1>3 DEF Inv, QueueExact, Locking
<1>6. ReplayUndisturbed'
  BY <1>2, <1>3 DEF Inv, ReplayUndisturbed, Holds
<1>7. QED
  BY <1>4, <1>5, <1>6 DEF Inv

(* A subscription returns and gives the mutex back.                         *)
LEMMA SubscribeReturnStep == ASSUME Inv, NEW c \in Call, SubscribeReturn(c) PROVE Inv'
<1>1. /\ stage[c] = "replaying" /\ Leave(c) /\ stage' = [stage EXCEPT ![c] = "streaming"]
      /\ UNCHANGED <<server, shutdown, signalled, target, coreVars>>
  BY DEF SubscribeReturn
<1>2. /\ Line' /\ queue' = queue \ {c}
      /\ \A v \in Waiter \ {c} : Holds(v) => Holds(v)'
  BY <1>1, WaiterType, LineLeave, InvLine
<1>3. Inside' = Inside \ {c} /\ InCore' = InCore \ {c}
  BY <1>1 DEF Inv, TypeOK, Inside, InCore
<1>4. TypeOK'
  <2>1. stage' \in [Call -> {"idle", "registering", "closing", "subscribing", "replaying",
                             "stuck", "streaming"}]
    BY <1>1 DEF Inv, TypeOK
  <2>2. QED
    BY <1>1, <1>2, <2>1 DEF Inv, TypeOK, Line, coreVars
<1>5. QueueExact'
  BY <1>1, <1>2, <1>3, WaiterType DEF Inv, QueueExact, Line, Locking
<1>6. ReplayUndisturbed'
  <2>1. \A d \in Inside' : d \in Inside /\ d \in Waiter \ {c}
    BY <1>3, WaiterType DEF Inside
  <2>2. QED
    BY <1>1, <1>2, <2>1 DEF Inv, ReplayUndisturbed, coreVars
<1>7. QED
  BY <1>4, <1>5, <1>6 DEF Inv

(* Each step preserves the invariant.                                       *)
LEMMA InvNext == Inv /\ [Next]_vars => Inv'
<1> SUFFICES ASSUME Inv, [Next]_vars PROVE Inv'
  OBVIOUS
<1>1. CASE Serve \/ ListenFails \/ TimerExpires \/ SendSignal \/ StopAccepting \/ Stop \/ UNCHANGED vars
  BY <1>1, ServerSteps
<1>2. CASE CtrlC
  BY <1>2, CtrlCStep
<1>3. CASE ShutdownCore
  BY <1>3, ShutdownCoreStep
<1>4. CASE ShutdownTimeout
  BY <1>4, ShutdownTimeoutStep
<1>5. CASE Requests
  <2>1. issued \subseteq SessionId
    BY DEF Inv, TypeOK
  <2>2. QED
    BY <1>5, <2>1, RequestStep DEF Requests
<1>6. ASSUME NEW c \in Call, HandlerStep(c) \/ StreamEnd(c) \/ Disconnect(c)
      PROVE  Inv'
  BY <1>6, HolderSteps, ClientSteps, SubscribeStep, SubscribeReturnStep DEF HandlerStep
<1>7. QED
  BY <1>1, <1>2, <1>3, <1>4, <1>5, <1>6 DEF Next
-----------------------------------------------------------------------------
(* Types, queue and replays are invariant together.                         *)
THEOREM InvHolds == Spec => []Inv
<1>1. QED
  BY InitInv, InvNext, PTL DEF Spec

(* The variables have their types.                                          *)
THEOREM TypeCorrect == Spec => []TypeOK
<1>1. Inv => TypeOK
  BY DEF Inv
<1>2. QED
  BY <1>1, InvHolds, PTL

(* However calls, clients that leave and the shutdown interleave, the mutex *)
(* is waited for in one line of exactly those who want it.                  *)
THEOREM QueueIsExact == Spec => []QueueExact
<1>1. Inv => QueueExact
  BY DEF Inv
<1>2. QED
  BY <1>1, InvHolds, PTL

(* A replay is never disturbed, for any number of calls and sessions.       *)
THEOREM ReplayIsUndisturbed == Spec => []ReplayUndisturbed
<1>1. Inv => ReplayUndisturbed
  BY DEF Inv
<1>2. QED
  BY <1>1, InvHolds, PTL
-----------------------------------------------------------------------------
(* A subscription stores its sender for a session that is there, and the    *)
(* senders go with the session, those that nobody listens to included.      *)
LEMMA SendersNext == Inv /\ SendersInSessions /\ [Next]_vars => SendersInSessions'
<1> SUFFICES ASSUME Inv, SendersInSessions, [Next]_vars PROVE SendersInSessions'
  OBVIOUS
<1>1. CASE ShutdownCore
  BY <1>1 DEF ShutdownCore, SendersInSessions
<1>2. ASSUME NEW c \in Call, Register(c) PROVE SendersInSessions'
  BY <1>2 DEF Register, SendersInSessions
<1>3. ASSUME NEW c \in Call, CloseSession(c) PROVE SendersInSessions'
  BY <1>3 DEF CloseSession, SendersInSessions
<1>4. ASSUME NEW c \in Call, SubscribeToEvents(c) PROVE SendersInSessions'
  <2>1. target[c] \in sessions /\ event_senders' = event_senders \cup {<<target[c], c>>} /\ sessions' = sessions
    BY <1>4 DEF SubscribeToEvents
  <2>2. QED
    BY <2>1 DEF SendersInSessions
<1>5. CASE UNCHANGED <<sessions, event_senders>>
  BY <1>5 DEF SendersInSessions
<1>6. CASE \/ Serve \/ CtrlC \/ ListenFails \/ TimerExpires \/ ShutdownTimeout \/ SendSignal
           \/ StopAccepting \/ Stop \/ Requests \/ UNCHANGED vars
           \/ \E c \in Call : SessionNotFound(c) \/ SubscribeReturn(c) \/ StreamEnd(c) \/ Disconnect(c)
  <2>1. UNCHANGED <<sessions, event_senders>>
    BY <1>6 DEF Serve, CtrlC, ListenFails, TimerExpires, ShutdownTimeout, SendSignal, StopAccepting,
                Stop, Requests, Request, SessionNotFound, SubscribeReturn, StreamEnd, Disconnect,
                vars, coreVars
  <2>2. QED
    BY <1>5, <2>1
<1>7. QED
  BY <1>1, <1>2, <1>3, <1>4, <1>6 DEF Next, HandlerStep

(* No stream keeps its sender when its session is gone, neither through a   *)
(* close nor through a shutdown, in time or not.                            *)
THEOREM SendersHaveSessions == Spec => []SendersInSessions
<1>1. Init => SendersInSessions
  BY DEF Init, SendersInSessions
<1>2. QED
  BY <1>1, InitInv, InvNext, SendersNext, PTL DEF Spec
=============================================================================
