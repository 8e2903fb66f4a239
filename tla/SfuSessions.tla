---------------------------- MODULE SfuSessions ----------------------------
(***************************************************************************)
(* The session registry of SfuCore and the router pool of RouterManager.   *)
(*                                                                         *)
(* Every gRPC handler takes the one tokio mutex around SfuCore and keeps   *)
(* it until the core operation returns, across every await inside it.      *)
(* register_session is the operation of this module that has awaits: it    *)
(* probes the routers one after the other through get_next_router, and a   *)
(* client that goes away makes tonic drop the call at one of those awaits, *)
(* which releases the mutex.  join_session, close_session and shutdown     *)
(* have none, so each is one step taken while nobody holds the mutex.      *)
(*                                                                         *)
(* The counter of a router is an AtomicUsize: it is read (load) when the   *)
(* router is probed and increased (fetch_add) when the session is stored.  *)
(* The model keeps the two apart, in ProbeRouter and RegisterCommit: it is *)
(* the mutex that makes them one.                                          *)
(*                                                                         *)
(* A definition whose name has an underscore, as in MutexFree_Ignored, is  *)
(* no part of the specification: it is a faulty variant of the definition  *)
(* after which it is named, with which some property must fail.            *)
(***************************************************************************)
EXTENDS Integers, FiniteSets

CONSTANTS
  NumRouters,           (* routers in the pool, one per mediasoup worker   *)
  MaxSessionsPerRouter, (* max_sessions_per_router                         *)
  SessionId,            (* the UUIDs that registrations draw, each once    *)
  ParticipantId,        (* participant ids found in requests               *)
  EmptyId,              (* the empty string, one of ParticipantId          *)
  Call,                 (* register_session calls that may be in flight    *)
  NoCall,               (* the mutex is free                               *)
  NoSession             (* the id is no key of the sessions map            *)

ASSUME PoolAssumption == NumRouters \in Nat /\ MaxSessionsPerRouter \in Nat
ASSUME SessionIdAssumption == IsFiniteSet(SessionId)
ASSUME EmptyIdAssumption == EmptyId \in ParticipantId
ASSUME CallAssumption == NoCall \notin Call

VARIABLES
  sfu_core,                   (* who holds the mutex around SfuCore        *)
  stage,                      (* how far each register_session call is     *)
  caller,                     (* the participant id the call carries       *)
  probes,                     (* routers the call has found full           *)
  chosen,                     (* the router the call found room on         *)
  next_index,                 (* RouterManager.next_index                  *)
  active_sessions_per_router, (* the session counter of each router        *)
  sessions,                   (* SfuCore.sessions                          *)
  issued                      (* ids of all sessions there ever were       *)

callVars == <<stage, caller, probes, chosen>>
vars == <<sfu_core, callVars, next_index, active_sessions_per_router, sessions, issued>>

Router == 0 .. NumRouters - 1

\* Maximum number of participants of a session, set in register_session.
MaxParticipants == 2

\* One participant, or two.
Session == [router : Router, participants : {{p, q} : p, q \in ParticipantId}]

ASSUME NoSessionAssumption == NoSession \notin Session

Open == {s \in SessionId : sessions[s] # NoSession}
SessionsOn(r) == {s \in Open : sessions[s].router = r}

MutexFree_Ignored == TRUE
MutexFree == sfu_core = NoCall
-----------------------------------------------------------------------------
Init ==
  /\ sfu_core = NoCall
  /\ stage = [c \in Call |-> "idle"]
  /\ caller = [c \in Call |-> EmptyId]
  /\ probes = [c \in Call |-> 0]
  /\ chosen = [c \in Call |-> 0]
  /\ next_index = 0
  /\ active_sessions_per_router = [r \in Router |-> 0]
  /\ sessions = [s \in SessionId |-> NoSession]
  /\ issued = {}

\* The call returns or is dropped: its state is gone and the guard with it.
Release(c) ==
  /\ sfu_core' = NoCall
  /\ stage' = [stage EXCEPT ![c] = "idle"]
  /\ caller' = [caller EXCEPT ![c] = EmptyId]
  /\ probes' = [probes EXCEPT ![c] = 0]
  /\ chosen' = [chosen EXCEPT ![c] = 0]

\* Bound of the model: a registration starts only while an id is left.
IdLeft == issued # SessionId

\* A request with a participant id reaches the core and gets the mutex.
RegisterLock(c, p) ==
  /\ p # EmptyId
  /\ IdLeft
  /\ stage[c] = "idle"
  /\ MutexFree
  /\ sfu_core' = c
  /\ stage' = [stage EXCEPT ![c] = "scanning"]
  /\ caller' = [caller EXCEPT ![c] = p]
  /\ UNCHANGED <<probes, chosen, next_index, active_sessions_per_router, sessions, issued>>

GetNextRouter_Stuck(r) == next_index = r /\ UNCHANGED next_index

GetNextRouter_OffByOne(r) == next_index = r /\ next_index' = (next_index + 1) % (NumRouters - 1)

\* get_next_router: takes the index and moves it on.
GetNextRouter(r) ==
  /\ next_index = r
  /\ next_index' = (next_index + 1) % NumRouters

HasRoom(r) == active_sessions_per_router[r] < MaxSessionsPerRouter

CountProbe_Endless(c) == UNCHANGED probes

\* for _ in 0..total
CountProbe(c) == probes' = [probes EXCEPT ![c] = @ + 1]

\* One round of the loop of get_available_router.
ProbeRouter(c) ==
  /\ stage[c] = "scanning"
  /\ probes[c] < NumRouters
  /\ \E r \in Router :
       /\ GetNextRouter(r)
       /\ \/ /\ HasRoom(r)
             /\ stage' = [stage EXCEPT ![c] = "chosen"]
             /\ chosen' = [chosen EXCEPT ![c] = r]
             /\ UNCHANGED probes
          \/ /\ ~HasRoom(r)
             /\ CountProbe(c)
             /\ UNCHANGED <<stage, chosen>>
  /\ UNCHANGED <<sfu_core, caller, active_sessions_per_router, sessions, issued>>

\* The loop is over, or the pool is empty: AllRoutersFull.
RegisterReject(c) ==
  /\ stage[c] = "scanning"
  /\ probes[c] = NumRouters
  /\ Release(c)
  /\ UNCHANGED <<next_index, active_sessions_per_router, sessions, issued>>

\* The future is dropped at the await of a probe.
RegisterDropped(c) ==
  /\ stage[c] = "scanning"
  /\ Release(c)
  /\ UNCHANGED <<next_index, active_sessions_per_router, sessions, issued>>

\* The rest of register_session, which has no await.
RegisterCommit(c) ==
  /\ stage[c] = "chosen"
  /\ active_sessions_per_router' = [active_sessions_per_router EXCEPT ![chosen[c]] = @ + 1]
  /\ \E s \in SessionId \ issued :
       /\ sessions' = [sessions EXCEPT
                         ![s] = [router |-> chosen[c], participants |-> {caller[c]}]]
       /\ issued' = issued \cup {s}
  /\ Release(c)
  /\ UNCHANGED next_index

JoinSession_OffByOne(s, p) ==
  /\ MutexFree
  /\ s \in Open
  /\ Cardinality(sessions[s].participants) <= MaxParticipants
  /\ p \notin sessions[s].participants
  /\ sessions' = [sessions EXCEPT ![s].participants = @ \cup {p}]
  /\ UNCHANGED <<sfu_core, callVars, next_index, active_sessions_per_router, issued>>

JoinSession(s, p) ==
  /\ MutexFree
  /\ s \in Open
  /\ Cardinality(sessions[s].participants) < MaxParticipants
  /\ p \notin sessions[s].participants
  /\ sessions' = [sessions EXCEPT ![s].participants = @ \cup {p}]
  /\ UNCHANGED <<sfu_core, callVars, next_index, active_sessions_per_router, issued>>

CloseSession_CountedTwice(s) ==
  /\ MutexFree
  /\ s \in Open
  /\ active_sessions_per_router' =
       [active_sessions_per_router EXCEPT ![sessions[s].router] = @ - 2]
  /\ sessions' = [sessions EXCEPT ![s] = NoSession]
  /\ UNCHANGED <<sfu_core, callVars, next_index, issued>>

CloseSession(s) ==
  /\ MutexFree
  /\ s \in Open
  /\ active_sessions_per_router' =
       [active_sessions_per_router EXCEPT ![sessions[s].router] = @ - 1]
  /\ sessions' = [sessions EXCEPT ![s] = NoSession]
  /\ UNCHANGED <<sfu_core, callVars, next_index, issued>>

Shutdown_CountersKept ==
  /\ MutexFree
  /\ sessions' = [s \in SessionId |-> NoSession]
  /\ UNCHANGED <<sfu_core, callVars, next_index, active_sessions_per_router, issued>>

\* close_session for every session, in one turn of the mutex.
Shutdown ==
  /\ MutexFree
  /\ active_sessions_per_router' =
       [r \in Router |-> active_sessions_per_router[r] - Cardinality(SessionsOn(r))]
  /\ sessions' = [s \in SessionId |-> NoSession]
  /\ UNCHANGED <<sfu_core, callVars, next_index, issued>>

Next ==
  \/ \E c \in Call, p \in ParticipantId : RegisterLock(c, p)
  \/ \E c \in Call : ProbeRouter(c)
  \/ \E c \in Call : RegisterReject(c)
  \/ \E c \in Call : RegisterDropped(c)
  \/ \E c \in Call : RegisterCommit(c)
  \/ \E s \in SessionId, p \in ParticipantId : JoinSession(s, p)
  \/ \E s \in SessionId : CloseSession(s)
  \/ Shutdown

Spec == Init /\ [][Next]_vars

\* A call that holds the mutex is polled until it returns.
Fairness ==
  \A c \in Call : WF_vars(ProbeRouter(c) \/ RegisterReject(c) \/ RegisterCommit(c))

FairSpec == Spec /\ Fairness
-----------------------------------------------------------------------------
TypeOK ==
  /\ sfu_core \in Call \cup {NoCall}
  /\ stage \in [Call -> {"idle", "scanning", "chosen"}]
  /\ caller \in [Call -> ParticipantId]
  /\ probes \in [Call -> 0 .. NumRouters]
  /\ chosen \in [Call -> Nat]
  /\ next_index \in Nat
  /\ active_sessions_per_router \in [Router -> Nat]
  /\ sessions \in [SessionId -> Session \cup {NoSession}]
  /\ issued \in SUBSET SessionId

(* The counter of a router is the number of open sessions placed on it:     *)
(* no path through register, close and shutdown, and no dropped call,       *)
(* counts a session twice, forgets one, or takes back what it never added.  *)
CountersMatchSessions ==
  \A r \in Router : active_sessions_per_router[r] = Cardinality(SessionsOn(r))

(* No router serves more sessions than max_sessions_per_router, although    *)
(* the counter is read in one step and increased in another.                *)
RouterCapacity ==
  \A r \in Router : Cardinality(SessionsOn(r)) <= MaxSessionsPerRouter

(* A registration that is about to be refused with AllRoutersFull has seen  *)
(* the truth: every router is full now, whichever index the scan started    *)
(* from and however many calls before it were dropped half way.             *)
RejectionJustified ==
  \A c \in Call : stage[c] = "scanning" /\ probes[c] = NumRouters =>
    \A r \in Router : Cardinality(SessionsOn(r)) = MaxSessionsPerRouter

(* As long as no session has been closed, round-robin keeps the routers     *)
(* balanced: their loads differ by at most one, with dropped and refused    *)
(* registrations in between.                                                *)
RoundRobinBalance ==
  issued = Open =>
    \A q, r \in Router : Cardinality(SessionsOn(q)) <= Cardinality(SessionsOn(r)) + 1

(* No participant goes by the empty id: handler.rs:125 refuses to register  *)
(* one with "Participant ID is required", and handler.rs:169 says           *)
(* "Participant id is required" of a request to join.                       *)
ParticipantIdsPresent == \A s \in Open : EmptyId \notin sessions[s].participants

(* A registration that holds the mutex gives it back: the scan ends.        *)
MutexReleased == \A c \in Call : sfu_core = c ~> sfu_core # c

\* Steps that c needs at most before its last one.
StepsLeft(c) == IF stage[c] = "scanning" THEN NumRouters - probes[c] ELSE 0

(* While a registration holds the mutex nothing happens but its own steps,  *)
(* and each brings it nearer to the end: it keeps the server waiting for no *)
(* more than NumRouters + 1 steps, however full the routers are.            *)
ScanAdvances ==
  [][\A c \in Call : sfu_core = c /\ sfu_core' = c => StepsLeft(c)' < StepsLeft(c)]_vars

(* The registry implements what SessionService promises.                    *)
Service == INSTANCE SessionService
ServiceSpec == Service!Spec
=============================================================================
