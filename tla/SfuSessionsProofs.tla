------------------------- MODULE SfuSessionsProofs -------------------------
(***************************************************************************)
(* Proofs about SfuSessions for any number of routers, sessions, calls and *)
(* participants.  The inductive invariant is Inv: what the mutex protects  *)
(* (MutexInv), what a scan has learnt so far (ScanInv), what it holds when *)
(* it has found room (ChosenInv), and the counters (CountersInv).          *)
(***************************************************************************)
EXTENDS SfuSessions, FiniteSetTheorems, TLAPS

USE PoolAssumption, SessionIdAssumption, EmptyIdAssumption, CallAssumption, NoSessionAssumption

IndexInv == NumRouters > 0 => next_index \in Router

\* Only the call that holds the mutex is under way.
MutexInv == \A c \in Call : stage[c] # "idle" <=> sfu_core = c

\* A call that has not begun has probed nothing.
IdleInv == \A c \in Call : stage[c] = "idle" => probes[c] = 0

\* How many probes ago next_index pointed to router r, from 1 to NumRouters.
Behind(r) == IF r < next_index THEN next_index - r ELSE next_index + NumRouters - r

\* The routers a scan has probed were full, and still are.
ScanInv ==
  \A c \in Call : stage[c] = "scanning" =>
    \A r \in Router : Behind(r) <= probes[c] => ~HasRoom(r)

\* The router a scan has chosen had room, and still has.
ChosenInv ==
  \A c \in Call : stage[c] = "chosen" => chosen[c] \in Router /\ HasRoom(chosen[c])

CountersInv ==
  /\ CountersMatchSessions
  /\ \A r \in Router : active_sessions_per_router[r] <= MaxSessionsPerRouter

Inv ==
  /\ TypeOK
  /\ IndexInv
  /\ MutexInv
  /\ IdleInv
  /\ ScanInv
  /\ ChosenInv
  /\ CountersInv
  /\ Open \subseteq issued
-----------------------------------------------------------------------------
(* Open and SessionsOn are finite, so their cardinalities are numbers.      *)
LEMMA SessionsOnFinite ==
  ASSUME NEW r PROVE IsFiniteSet(SessionsOn(r)) /\ Cardinality(SessionsOn(r)) \in Nat
<1>1. SessionsOn(r) \in SUBSET SessionId
  BY DEF SessionsOn, Open
<1>2. QED
  BY <1>1, FS_Subset, FS_CardinalityType

(* The modulus of get_next_router is a wrap to zero.                        *)
LEMMA NextIndex ==
  ASSUME NEW q \in Router, GetNextRouter(q)
  PROVE  next_index' = IF q = NumRouters - 1 THEN 0 ELSE q + 1
<1>1. NumRouters \in Nat /\ NumRouters > 0 /\ q = next_index /\ q \in 0 .. NumRouters - 1
  BY DEF GetNextRouter, Router
<1>2. CASE q = NumRouters - 1
  <2>1. (q + 1) % NumRouters = 0
    BY <1>1, <1>2
  <2>2. QED
    BY <1>1, <1>2, <2>1 DEF GetNextRouter
<1>3. CASE q # NumRouters - 1
  <2>1. q + 1 \in 0 .. NumRouters - 1
    BY <1>1, <1>3
  <2>2. (q + 1) % NumRouters = q + 1
    BY <1>1, <2>1
  <2>3. QED
    BY <1>1, <1>3, <2>2 DEF GetNextRouter
<1>4. QED
  BY <1>2, <1>3

(* Moving next_index on by one moves every other router one probe back.     *)
LEMMA IndexMovesOn ==
  ASSUME IndexInv, NEW q \in Router, GetNextRouter(q)
  PROVE  /\ IndexInv'
         /\ next_index' \in Nat
         /\ Behind(q)' = 1
         /\ \A r \in Router \ {q} : Behind(r)' = Behind(r) + 1
<1>1. NumRouters \in Nat /\ NumRouters > 0 /\ q = next_index /\ q \in 0 .. NumRouters - 1
  BY DEF GetNextRouter, Router
<1>2. next_index' = IF q = NumRouters - 1 THEN 0 ELSE q + 1
  BY NextIndex
<1>3. QED
  BY <1>1, <1>2 DEF IndexInv, Behind, Router

(* The invariant holds before any session is registered.                    *)
LEMMA InitInv == Init => Inv
<1> SUFFICES ASSUME Init PROVE Inv
  OBVIOUS
<1>1. TypeOK /\ IndexInv /\ MutexInv /\ IdleInv /\ ScanInv /\ ChosenInv
  BY DEF Init, TypeOK, IndexInv, MutexInv, IdleInv, ScanInv, ChosenInv, Router
<1>2. Open = {}
  BY DEF Init, Open
<1>3. ASSUME NEW r \in Router
      PROVE  /\ active_sessions_per_router[r] = Cardinality(SessionsOn(r))
             /\ active_sessions_per_router[r] <= MaxSessionsPerRouter
  <2>1. SessionsOn(r) = {}
    BY <1>2 DEF SessionsOn
  <2>2. active_sessions_per_router[r] = 0
    BY DEF Init
  <2>3. QED
    BY <2>1, <2>2, FS_EmptySet
<1>4. CountersInv
  BY <1>3 DEF CountersInv, CountersMatchSessions
<1>5. QED
  BY <1>1, <1>2, <1>4 DEF Inv

(* While the registry stands still, so do the counters and what they count. *)
LEMMA RegistryUnchanged ==
  ASSUME CountersInv, Open \subseteq issued,
         UNCHANGED <<active_sessions_per_router, sessions, issued>>
  PROVE  CountersInv' /\ (Open \subseteq issued)'
BY DEF CountersInv, CountersMatchSessions, SessionsOn, Open

(* A registration takes the mutex.                                          *)
LEMMA RegisterLockInv ==
  ASSUME Inv, NEW c \in Call, NEW p \in ParticipantId, RegisterLock(c, p)
  PROVE  Inv'
<1> USE DEF Inv
<1>1. TypeOK'
  BY DEF TypeOK, RegisterLock
<1>2. IndexInv'
  BY DEF IndexInv, RegisterLock
<1>3. MutexInv' /\ IdleInv'
  BY DEF MutexInv, IdleInv, RegisterLock, MutexFree, TypeOK
<1>4. ScanInv'
  <2> SUFFICES ASSUME NEW d \in Call, stage'[d] = "scanning",
                      NEW r \in Router, Behind(r)' <= probes'[d]
               PROVE  ~HasRoom(r)'
    BY DEF ScanInv
  <2>1. Behind(r)' = Behind(r) /\ HasRoom(r)' = HasRoom(r) /\ probes' = probes
    BY DEF RegisterLock, Behind, HasRoom
  <2>2. Behind(r) \in Int /\ 1 <= Behind(r)
    BY DEF TypeOK, IndexInv, Behind, Router
  <2>3. probes[c] = 0
    BY DEF IdleInv, RegisterLock
  <2>4. d # c
    <3>1. Behind(r) <= probes[d]
      BY <2>1
    <3>2. QED
      BY <2>2, <2>3, <3>1
  <2>5. stage[d] = "scanning"
    BY <2>4 DEF RegisterLock, TypeOK
  <2>6. QED
    BY <2>1, <2>5 DEF ScanInv
<1>5. ChosenInv'
  BY DEF ChosenInv, RegisterLock, HasRoom, TypeOK
<1>6. CountersInv' /\ (Open \subseteq issued)'
  BY RegistryUnchanged DEF RegisterLock
<1>7. QED
  BY <1>1, <1>2, <1>3, <1>4, <1>5, <1>6

(* A probe moves the index on and sees one router.                          *)
LEMMA ProbeRouterInv ==
  ASSUME Inv, NEW c \in Call, ProbeRouter(c)
  PROVE  Inv'
<1> USE DEF Inv
<1>1. PICK q \in Router :
        /\ GetNextRouter(q)
        /\ \/ /\ HasRoom(q)
              /\ stage' = [stage EXCEPT ![c] = "chosen"]
              /\ chosen' = [chosen EXCEPT ![c] = q]
              /\ UNCHANGED probes
           \/ /\ ~HasRoom(q)
              /\ probes' = [probes EXCEPT ![c] = @ + 1]
              /\ UNCHANGED <<stage, chosen>>
  BY DEF ProbeRouter, CountProbe
<1>2. /\ IndexInv' /\ next_index' \in Nat /\ Behind(q)' = 1
      /\ \A r \in Router \ {q} : Behind(r)' = Behind(r) + 1
  BY <1>1, IndexMovesOn
<1>3. /\ stage[c] = "scanning" /\ probes[c] < NumRouters
      /\ UNCHANGED <<sfu_core, caller, active_sessions_per_router, sessions, issued>>
  BY DEF ProbeRouter, CountProbe
<1>4. \A d \in Call \ {c} : stage[d] = "idle"
  BY <1>3 DEF MutexInv
<1>5. TypeOK'
  <2>1. q \in Nat
    BY DEF Router
  <2>2. probes[c] \in 0 .. NumRouters
    BY DEF TypeOK
  <2>3. probes' \in [Call -> 0 .. NumRouters]
    BY <1>1, <1>3, <2>2 DEF TypeOK
  <2>4. chosen' \in [Call -> Nat]
    BY <1>1, <2>1 DEF TypeOK
  <2>5. stage' \in [Call -> {"idle", "scanning", "chosen"}]
    BY <1>1 DEF TypeOK
  <2>6. QED
    BY <1>2, <1>3, <2>3, <2>4, <2>5 DEF TypeOK
<1>6. MutexInv' /\ IdleInv'
  BY <1>1, <1>3, <1>4 DEF MutexInv, IdleInv, TypeOK
<1>7. ScanInv'
  <2> SUFFICES ASSUME NEW d \in Call, stage'[d] = "scanning",
                      NEW r \in Router, Behind(r)' <= probes'[d]
               PROVE  ~HasRoom(r)'
    BY DEF ScanInv
  <2>1. d = c
    BY <1>1, <1>4 DEF TypeOK
  <2>2. ~HasRoom(q) /\ probes'[c] = probes[c] + 1
    BY <1>1, <2>1 DEF TypeOK
  <2>3. HasRoom(r)' = HasRoom(r)
    BY <1>3 DEF HasRoom
  <2>4. CASE r = q
    BY <2>2, <2>3, <2>4
  <2>5. CASE r # q
    <3>1. Behind(r) + 1 <= probes[c] + 1
      BY <1>2, <2>1, <2>2, <2>5
    <3>2. Behind(r) \in Int /\ probes[c] \in Int
      BY DEF Behind, Router, TypeOK
    <3>3. QED
      BY <1>3, <2>3, <3>1, <3>2 DEF ScanInv
  <2>6. QED
    BY <2>4, <2>5
<1>8. ChosenInv'
  BY <1>1, <1>3, <1>4 DEF ChosenInv, HasRoom, TypeOK
<1>9. CountersInv' /\ (Open \subseteq issued)'
  BY <1>3, RegistryUnchanged
<1>10. QED
  BY <1>2, <1>5, <1>6, <1>7, <1>8, <1>9

(* A call that leaves gives back what it held, and disturbs no other call.  *)
LEMMA ReleaseInv ==
  ASSUME Inv, NEW c \in Call, stage[c] # "idle", Release(c)
  PROVE  /\ sfu_core' \in Call \cup {NoCall}
         /\ stage' \in [Call -> {"idle", "scanning", "chosen"}]
         /\ caller' \in [Call -> ParticipantId]
         /\ probes' \in [Call -> 0 .. NumRouters]
         /\ chosen' \in [Call -> Nat]
         /\ MutexInv' /\ IdleInv' /\ ScanInv' /\ ChosenInv'
<1> USE DEF Inv
<1>1. \A d \in Call : stage'[d] = "idle"
  BY DEF MutexInv, Release, TypeOK
<1>2. MutexInv' /\ ScanInv' /\ ChosenInv'
  BY <1>1 DEF MutexInv, ScanInv, ChosenInv, Release
<1>3. IdleInv'
  BY DEF IdleInv, MutexInv, Release, TypeOK
<1>4. 0 \in 0 .. NumRouters
  OBVIOUS
<1>5. QED
  BY <1>2, <1>3, <1>4 DEF Release, TypeOK

(* A registration that is refused or dropped leaves the registry as it is.  *)
LEMMA RegisterAbandonedInv ==
  ASSUME Inv, NEW c \in Call, RegisterReject(c) \/ RegisterDropped(c)
  PROVE  Inv'
<1>1. /\ stage[c] # "idle" /\ Release(c)
      /\ UNCHANGED <<next_index, active_sessions_per_router, sessions, issued>>
  BY DEF RegisterReject, RegisterDropped
<1>2. CountersInv' /\ (Open \subseteq issued)'
  BY <1>1, RegistryUnchanged DEF Inv
<1>3. IndexInv'
  BY <1>1 DEF Inv, IndexInv
<1>4. TypeOK'
  BY <1>1, ReleaseInv DEF Inv, TypeOK
<1>5. QED
  BY <1>1, <1>2, <1>3, <1>4, ReleaseInv DEF Inv

(* A session is stored on the router that was chosen.                       *)
LEMMA RegisterCommitInv ==
  ASSUME Inv, NEW c \in Call, RegisterCommit(c)
  PROVE  Inv'
<1> DEFINE q == chosen[c]
           new == [router |-> q, participants |-> {caller[c]}]
<1>1. PICK s \in SessionId \ issued :
        /\ sessions' = [sessions EXCEPT ![s] = new]
        /\ issued' = issued \cup {s}
  BY DEF RegisterCommit
<1>2. /\ stage[c] = "chosen" /\ Release(c) /\ UNCHANGED next_index
      /\ active_sessions_per_router' = [active_sessions_per_router EXCEPT ![q] = @ + 1]
  BY DEF RegisterCommit
<1>3. q \in Router /\ HasRoom(q)
  BY <1>2 DEF Inv, ChosenInv
<1>4. new \in Session /\ new # NoSession
  <2>1. {caller[c]} \in {{a, b} : a, b \in ParticipantId}
    <3>1. caller[c] \in ParticipantId
      BY DEF Inv, TypeOK
    <3>2. {caller[c]} = {caller[c], caller[c]}
      OBVIOUS
    <3>3. QED
      BY <3>1, <3>2
  <2>2. new \in Session
    BY <1>3, <2>1 DEF Session
  <2>3. QED
    BY <2>2
<1>5. TypeOK'
  <2>1. active_sessions_per_router' \in [Router -> Nat]
    BY <1>2, <1>3 DEF Inv, TypeOK
  <2>2. sessions' \in [SessionId -> Session \cup {NoSession}]
    BY <1>1, <1>4 DEF Inv, TypeOK
  <2>3. issued' \in SUBSET SessionId
    BY <1>1 DEF Inv, TypeOK
  <2>4. QED
    BY <1>2, <2>1, <2>2, <2>3, ReleaseInv DEF Inv, TypeOK
<1>6. IndexInv'
  BY <1>2 DEF Inv, IndexInv
<1>7. Open' = Open \cup {s} /\ s \notin Open
  BY <1>1, <1>4 DEF Inv, TypeOK, Open
<1>8. (Open \subseteq issued)'
  BY <1>1, <1>7 DEF Inv
<1>9. ASSUME NEW r \in Router
      PROVE  /\ active_sessions_per_router'[r] = Cardinality(SessionsOn(r)')
             /\ active_sessions_per_router'[r] <= MaxSessionsPerRouter
  <2>1. /\ active_sessions_per_router[r] = Cardinality(SessionsOn(r))
        /\ active_sessions_per_router[r] <= MaxSessionsPerRouter
        /\ active_sessions_per_router[r] \in Nat
    BY DEF Inv, TypeOK, CountersInv, CountersMatchSessions
  <2>2. CASE r = q
    <3>1. SessionsOn(r)' = SessionsOn(r) \cup {s} /\ s \notin SessionsOn(r)
      BY <1>1, <1>7, <2>2 DEF SessionsOn, Inv, TypeOK, Open
    <3>2. Cardinality(SessionsOn(r)') = Cardinality(SessionsOn(r)) + 1
      BY <3>1, SessionsOnFinite, FS_AddElement
    <3>3. active_sessions_per_router'[r] = active_sessions_per_router[r] + 1
      BY <1>2, <2>2 DEF Inv, TypeOK
    <3>4. QED
      BY <1>3, <2>1, <2>2, <3>2, <3>3 DEF HasRoom
  <2>3. CASE r # q
    <3>1. SessionsOn(r)' = SessionsOn(r)
      BY <1>1, <1>7, <2>3 DEF SessionsOn, Inv, TypeOK, Open
    <3>2. active_sessions_per_router'[r] = active_sessions_per_router[r]
      BY <1>2, <2>3 DEF Inv, TypeOK
    <3>3. QED
      BY <2>1, <3>1, <3>2
  <2>4. QED
    BY <2>2, <2>3
<1>10. CountersInv'
  BY <1>9 DEF CountersInv, CountersMatchSessions
<1>11. QED
  BY <1>2, <1>5, <1>6, <1>8, <1>10, ReleaseInv DEF Inv

(* The session operations run only while no registration is under way, so   *)
(* no scan and no choice is affected.                                       *)
LEMMA CallsIdle ==
  ASSUME Inv, MutexFree, UNCHANGED <<sfu_core, callVars, next_index>>
  PROVE  MutexInv' /\ IdleInv' /\ ScanInv' /\ ChosenInv' /\ IndexInv'
<1>1. \A c \in Call : stage[c] = "idle"
  BY DEF Inv, MutexInv, MutexFree
<1>2. QED
  BY <1>1 DEF Inv, MutexInv, IdleInv, ScanInv, ChosenInv, IndexInv, callVars

(* A session that is joined has one participant, who is another one.        *)
LEMMA JoinsOnlyParticipant ==
  ASSUME TypeOK, NEW s \in SessionId, NEW p \in ParticipantId, JoinSession(s, p)
  PROVE  \E a \in ParticipantId \ {p} : sessions[s].participants = {a}
<1>1. PICK a \in ParticipantId, b \in ParticipantId : sessions[s].participants = {a, b}
  BY DEF JoinSession, Open, TypeOK, Session
<1>2. a = b
  <2> SUFFICES ASSUME a # b PROVE FALSE
    OBVIOUS
  <2>1. {a, b} = {a} \cup {b} /\ b \notin {a}
    OBVIOUS
  <2>2. Cardinality({a, b}) = 2
    <3>1. IsFiniteSet({a}) /\ Cardinality({a}) = 1
      BY FS_Singleton
    <3>2. Cardinality({a} \cup {b}) = Cardinality({a}) + 1
      BY <2>1, <3>1, FS_AddElement
    <3>3. QED
      BY <2>1, <3>1, <3>2
  <2>3. QED
    BY <1>1, <2>2 DEF JoinSession, MaxParticipants
<1>3. QED
  BY <1>1, <1>2 DEF JoinSession

(* A session that is joined stays on its router.                            *)
LEMMA JoinSessionInv ==
  ASSUME Inv, NEW s \in SessionId, NEW p \in ParticipantId, JoinSession(s, p)
  PROVE  Inv'
<1> DEFINE joined == [sessions[s] EXCEPT !.participants = @ \cup {p}]
<1>1. /\ MutexFree /\ s \in Open /\ sessions' = [sessions EXCEPT ![s] = joined]
      /\ UNCHANGED <<sfu_core, callVars, next_index, active_sessions_per_router, issued>>
  BY DEF JoinSession
<1>2. sessions[s] \in Session
  BY <1>1 DEF Inv, TypeOK, Open
<1>3. joined \in Session /\ joined # NoSession /\ joined.router = sessions[s].router
  <2>1. PICK a \in ParticipantId \ {p} : sessions[s].participants = {a}
    BY JoinsOnlyParticipant DEF Inv
  <2>2. {a} \cup {p} = {a, p}
    OBVIOUS
  <2>3. joined = [router |-> sessions[s].router, participants |-> {a, p}]
    BY <1>2, <2>1, <2>2 DEF Session
  <2>4. joined \in Session
    BY <1>2, <2>3 DEF Session
  <2>5. QED
    BY <2>3, <2>4
<1>4. TypeOK'
  BY <1>1, <1>3 DEF Inv, TypeOK, callVars
<1>5. Open' = Open
  BY <1>1, <1>3 DEF Inv, TypeOK, Open
<1>6. \A r \in Router : SessionsOn(r)' = SessionsOn(r)
  BY <1>1, <1>3, <1>5 DEF Inv, TypeOK, SessionsOn, Open
<1>7. CountersInv' /\ (Open \subseteq issued)'
  BY <1>1, <1>5, <1>6 DEF Inv, CountersInv, CountersMatchSessions
<1>8. QED
  BY <1>1, <1>4, <1>7, CallsIdle DEF Inv

(* A session that is closed gives its place back.                           *)
LEMMA CloseSessionInv ==
  ASSUME Inv, NEW s \in SessionId, CloseSession(s)
  PROVE  Inv'
<1> DEFINE q == sessions[s].router
<1>1. /\ MutexFree /\ s \in Open /\ sessions' = [sessions EXCEPT ![s] = NoSession]
      /\ active_sessions_per_router' = [active_sessions_per_router EXCEPT ![q] = @ - 1]
      /\ UNCHANGED <<sfu_core, callVars, next_index, issued>>
  BY DEF CloseSession
<1>2. q \in Router
  BY <1>1 DEF Inv, TypeOK, Open, Session
<1>3. Open' = Open \ {s}
  BY <1>1 DEF Inv, TypeOK, Open
<1>4. ASSUME NEW r \in Router
      PROVE  /\ active_sessions_per_router'[r] = Cardinality(SessionsOn(r)')
             /\ active_sessions_per_router'[r] <= MaxSessionsPerRouter
             /\ active_sessions_per_router'[r] \in Nat
  <2>1. /\ active_sessions_per_router[r] = Cardinality(SessionsOn(r))
        /\ active_sessions_per_router[r] <= MaxSessionsPerRouter
        /\ active_sessions_per_router[r] \in Nat
    BY DEF Inv, TypeOK, CountersInv, CountersMatchSessions
  <2>2. CASE r = q
    <3>1. SessionsOn(r)' = SessionsOn(r) \ {s} /\ s \in SessionsOn(r)
      BY <1>1, <1>3, <2>2 DEF SessionsOn, Inv, TypeOK, Open
    <3>2. Cardinality(SessionsOn(r)') = Cardinality(SessionsOn(r)) - 1
      BY <3>1, SessionsOnFinite, FS_RemoveElement
    <3>3. Cardinality(SessionsOn(r)') \in Nat
      BY <3>1, SessionsOnFinite, FS_Subset, FS_CardinalityType
    <3>4. active_sessions_per_router'[r] = active_sessions_per_router[r] - 1
      BY <1>1, <2>2 DEF Inv, TypeOK
    <3>5. QED
      BY <2>1, <3>2, <3>3, <3>4
  <2>3. CASE r # q
    <3>1. SessionsOn(r)' = SessionsOn(r)
      BY <1>1, <1>3, <2>3 DEF SessionsOn, Inv, TypeOK, Open
    <3>2. active_sessions_per_router'[r] = active_sessions_per_router[r]
      BY <1>1, <2>3 DEF Inv, TypeOK
    <3>3. QED
      BY <2>1, <3>1, <3>2
  <2>4. QED
    BY <2>2, <2>3
<1>5. CountersInv'
  BY <1>4 DEF CountersInv, CountersMatchSessions
<1>6. active_sessions_per_router' \in [Router -> Nat]
  BY <1>1, <1>4 DEF Inv, TypeOK
<1>7. TypeOK'
  BY <1>1, <1>6 DEF Inv, TypeOK, callVars
<1>8. QED
  BY <1>1, <1>3, <1>5, <1>7, CallsIdle DEF Inv

(* A shutdown gives all places back.                                        *)
LEMMA ShutdownInv ==
  ASSUME Inv, Shutdown
  PROVE  Inv'
<1>1. /\ MutexFree /\ sessions' = [s \in SessionId |-> NoSession]
      /\ active_sessions_per_router' =
           [r \in Router |-> active_sessions_per_router[r] - Cardinality(SessionsOn(r))]
      /\ UNCHANGED <<sfu_core, callVars, next_index, issued>>
  BY DEF Shutdown
<1>2. Open' = {}
  BY <1>1 DEF Open
<1>3. ASSUME NEW r \in Router
      PROVE  active_sessions_per_router'[r] = 0 /\ Cardinality(SessionsOn(r)') = 0
  <2>1. active_sessions_per_router[r] = Cardinality(SessionsOn(r))
    BY DEF Inv, CountersInv, CountersMatchSessions
  <2>2. SessionsOn(r)' = {}
    BY <1>2 DEF SessionsOn
  <2>3. QED
    BY <1>1, <2>1, <2>2, SessionsOnFinite, FS_EmptySet
<1>4. CountersInv'
  BY <1>3 DEF CountersInv, CountersMatchSessions
<1>5. active_sessions_per_router' \in [Router -> Nat]
  BY <1>1, <1>3
<1>6. TypeOK'
  BY <1>1, <1>5 DEF Inv, TypeOK, callVars
<1>7. QED
  BY <1>1, <1>2, <1>4, <1>6, CallsIdle DEF Inv

-----------------------------------------------------------------------------
(* Each step preserves the invariant.                                       *)
LEMMA InvNext == Inv /\ [Next]_vars => Inv'
<1> SUFFICES ASSUME Inv, [Next]_vars PROVE Inv'
  OBVIOUS
<1>1. ASSUME NEW c \in Call, NEW p \in ParticipantId, RegisterLock(c, p) PROVE Inv'
  BY <1>1, RegisterLockInv
<1>2. ASSUME NEW c \in Call, ProbeRouter(c) PROVE Inv'
  BY <1>2, ProbeRouterInv
<1>3. ASSUME NEW c \in Call, RegisterReject(c) PROVE Inv'
  BY <1>3, RegisterAbandonedInv
<1>4. ASSUME NEW c \in Call, RegisterDropped(c) PROVE Inv'
  BY <1>4, RegisterAbandonedInv
<1>5. ASSUME NEW c \in Call, RegisterCommit(c) PROVE Inv'
  BY <1>5, RegisterCommitInv
<1>6. ASSUME NEW s \in SessionId, NEW p \in ParticipantId, JoinSession(s, p) PROVE Inv'
  BY <1>6, JoinSessionInv
<1>7. ASSUME NEW s \in SessionId, CloseSession(s) PROVE Inv'
  BY <1>7, CloseSessionInv
<1>8. CASE Shutdown
  BY <1>8, ShutdownInv
<1>9. CASE UNCHANGED vars
  BY <1>9 DEF vars, callVars, Inv, TypeOK, IndexInv, MutexInv, IdleInv, ScanInv, Behind, HasRoom,
     ChosenInv, CountersInv, CountersMatchSessions, SessionsOn, Open
<1>10. QED
  BY <1>1, <1>2, <1>3, <1>4, <1>5, <1>6, <1>7, <1>8, <1>9 DEF Next

(* The inductive invariant holds all along.                                 *)
THEOREM InvHolds == Spec => []Inv
<1>1. QED
  BY InitInv, InvNext, PTL DEF Spec

(* Every variable of the registry keeps its type; in particular no counter  *)
(* ever goes below zero (they are usize, and fetch_sub would wrap around).  *)
THEOREM TypeCorrect == Spec => []TypeOK
<1>1. Inv => TypeOK
  BY DEF Inv
<1>2. QED
  BY <1>1, InvHolds, PTL

(* The counter of each router is the number of open sessions placed on it.  *)
THEOREM CountersCorrect == Spec => []CountersMatchSessions
<1>1. Inv => CountersMatchSessions
  BY DEF Inv, CountersInv
<1>2. QED
  BY <1>1, InvHolds, PTL

(* No router ever serves more than max_sessions_per_router sessions.        *)
THEOREM CapacityRespected == Spec => []RouterCapacity
<1>1. Inv => RouterCapacity
  BY DEF Inv, CountersInv, CountersMatchSessions, RouterCapacity
<1>2. QED
  BY <1>1, InvHolds, PTL

(* AllRoutersFull is only ever answered when all routers are full.          *)
THEOREM RejectionsJustified == Spec => []RejectionJustified
<1>1. ASSUME Inv PROVE RejectionJustified
  <2> SUFFICES ASSUME NEW c \in Call, stage[c] = "scanning", probes[c] = NumRouters,
                      NEW r \in Router
               PROVE  Cardinality(SessionsOn(r)) = MaxSessionsPerRouter
    BY DEF RejectionJustified
  <2>1. Behind(r) <= NumRouters
    BY <1>1 DEF Inv, TypeOK, IndexInv, Behind, Router
  <2>2. ~HasRoom(r)
    BY <1>1, <2>1 DEF Inv, ScanInv
  <2>3. /\ active_sessions_per_router[r] \in Nat
        /\ active_sessions_per_router[r] <= MaxSessionsPerRouter
        /\ active_sessions_per_router[r] = Cardinality(SessionsOn(r))
    BY <1>1 DEF Inv, TypeOK, CountersInv, CountersMatchSessions
  <2>4. QED
    BY <2>2, <2>3 DEF HasRoom
<1>2. QED
  BY <1>1, InvHolds, PTL

(* While a registration holds the mutex only its own probes keep it, and a  *)
(* probe counts or finds room.                                              *)
LEMMA ProbesAdvance ==
  ASSUME Inv, [Next]_vars, NEW c \in Call, sfu_core = c, sfu_core' = c
  PROVE  StepsLeft(c)' < StepsLeft(c) \/ UNCHANGED vars
<1>1. sfu_core # NoCall /\ sfu_core' # NoCall
  BY CallAssumption
<1>2. CASE UNCHANGED vars
  BY <1>2
<1>3. ASSUME NEW d \in Call, ProbeRouter(d) PROVE StepsLeft(c)' < StepsLeft(c)
  <2>1. d = c
    BY <1>3 DEF ProbeRouter, CountProbe, Inv, MutexInv
  <2>2. /\ stage[c] = "scanning" /\ probes[c] \in Nat /\ probes[c] < NumRouters /\ NumRouters \in Nat
        /\ stage \in [Call -> {"idle", "scanning", "chosen"}] /\ probes \in [Call -> 0 .. NumRouters]
    BY <1>3, <2>1, PoolAssumption DEF ProbeRouter, CountProbe, Inv, TypeOK
  <2>3. \/ stage'[c] = "chosen"
        \/ stage'[c] = "scanning" /\ probes'[c] = probes[c] + 1
    BY <1>3, <2>1, <2>2 DEF ProbeRouter, CountProbe
  <2>4. QED
    BY <2>2, <2>3 DEF StepsLeft
<1>4. QED
  BY <1>1, <1>2, <1>3
  DEF Next, RegisterLock, RegisterReject, RegisterDropped, RegisterCommit, Release, JoinSession,
      CloseSession, Shutdown, MutexFree

(* A registration keeps the mutex for NumRouters + 1 steps at most, and     *)
(* nobody else takes a step meanwhile.                                      *)
THEOREM ScansAdvance == Spec => ScanAdvances
<1>1. Inv /\ [Next]_vars =>
        [\A c \in Call : sfu_core = c /\ sfu_core' = c => StepsLeft(c)' < StepsLeft(c)]_vars
  BY ProbesAdvance
<1>2. QED
  BY <1>1, InvHolds, PTL DEF Spec, ScanAdvances
-----------------------------------------------------------------------------
(* Every step of the registry is a step of the service, or none.            *)
LEMMA StepRefines ==
  ASSUME Inv, [Next]_vars
  PROVE  [Service!Next]_(Service!vars)
<1>1. ASSUME NEW c \in Call, RegisterCommit(c) PROVE Service!Next
  <2>1. PICK s \in SessionId \ issued :
          /\ sessions' = [sessions EXCEPT
                            ![s] = [router |-> chosen[c], participants |-> {caller[c]}]]
          /\ issued' = issued \cup {s}
    BY <1>1 DEF RegisterCommit
  <2>2. chosen[c] \in Router /\ HasRoom(chosen[c]) /\ caller[c] \in ParticipantId
    BY <1>1 DEF RegisterCommit, Inv, ChosenInv, TypeOK
  <2>3. Cardinality(SessionsOn(chosen[c])) < MaxSessionsPerRouter
    BY <2>2 DEF Inv, CountersInv, CountersMatchSessions, HasRoom
  <2>4. Service!PlacedOn(chosen[c]) = SessionsOn(chosen[c])
    BY DEF Service!PlacedOn, SessionsOn, Open
  <2>5. Service!Register(s, chosen[c], caller[c])
    <3>1. Service!Cardinality(SessionsOn(chosen[c])) = Cardinality(SessionsOn(chosen[c]))
      BY DEF Service!Cardinality, Cardinality
    <3>2. QED
      BY <2>1, <2>3, <2>4, <3>1 DEF Service!Register
  <2>6. QED
    BY <2>1, <2>2, <2>5 DEF Service!Next
<1>2. ASSUME NEW s \in SessionId, NEW p \in ParticipantId, JoinSession(s, p)
      PROVE  Service!Next
  <2>1. \E q \in ParticipantId \ {p} : sessions[s].participants = {q}
    BY <1>2, JoinsOnlyParticipant DEF Inv
  <2>2. Service!Join(s, p)
    BY <1>2, <2>1 DEF JoinSession, Open, Service!Join
  <2>3. QED
    BY <2>2 DEF Service!Next
<1>3. ASSUME NEW s \in SessionId, CloseSession(s) PROVE Service!Next
  <2>1. Service!Close({s})
    BY <1>3 DEF CloseSession, Service!Close, Inv, TypeOK
  <2>2. QED
    BY <2>1 DEF Service!Next
<1>4. CASE Shutdown
  <2>1. Service!Close(SessionId)
    BY <1>4 DEF Shutdown, Service!Close
  <2>2. QED
    BY <2>1 DEF Service!Next
<1>5. ASSUME NEW c \in Call, \/ \E p \in ParticipantId : RegisterLock(c, p)
                             \/ ProbeRouter(c) \/ RegisterReject(c) \/ RegisterDropped(c)
      PROVE  UNCHANGED Service!vars
  BY <1>5 DEF RegisterLock, ProbeRouter, RegisterReject, RegisterDropped, Service!vars
<1>6. CASE UNCHANGED vars
  BY <1>6 DEF vars, Service!vars
<1>7. QED
  BY <1>1, <1>2, <1>3, <1>4, <1>5, <1>6 DEF Next

(* The registry, with its mutex, its counters and its scan, implements the  *)
(* session service: sessions are placed only where there is room, stay on   *)
(* their router, gain at most one more participant, and never come back.    *)
THEOREM ImplementsService == Spec => ServiceSpec
<1>1. Init => Service!Init
  BY DEF Init, Service!Init
<1>2. QED
  BY <1>1, StepRefines, InvHolds, PTL DEF Spec, ServiceSpec, Service!Spec
=============================================================================
