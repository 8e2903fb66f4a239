-------------------------- MODULE SfuBalanceProofs --------------------------
(***************************************************************************)
(* Proof that round-robin balances the routers of SfuSessions.  As long as *)
(* no session was closed, the loads form a stair: the routers before       *)
(* next_index have one session more than those from next_index on, or all  *)
(* routers are full and it does not matter where next_index points to.     *)
(***************************************************************************)
EXTENDS SfuSessionsProofs

USE PoolAssumption, CallAssumption

\* The router that a registration has chosen and not yet used.
Pending(r) == IF \E c \in Call : stage[c] = "chosen" /\ chosen[c] = r THEN 1 ELSE 0
Load(r) == active_sessions_per_router[r] + Pending(r)

Step(r) == IF r < next_index THEN 1 ELSE 0

Full == \A r \in Router : Load(r) = MaxSessionsPerRouter
Stair == \A q, r \in Router : Load(q) - Step(q) = Load(r) - Step(r)

StairInv ==
  /\ \A c \in Call : stage[c] = "chosen" => Behind(chosen[c]) = 1
  /\ issued = Open => Full \/ Stair
-----------------------------------------------------------------------------
(* Empty routers form a stair.                                              *)
LEMMA StairInit == Init => StairInv
<1> SUFFICES ASSUME Init PROVE StairInv
  OBVIOUS
<1>1. \A c \in Call : stage[c] = "idle"
  BY DEF Init
<1>2. \A r \in Router : Load(r) = 0 /\ Step(r) = 0
  BY <1>1 DEF Init, Load, Pending, Step, Router
<1>3. QED
  BY <1>1, <1>2 DEF StairInv, Stair

(* Once a session has been closed, issued and Open differ for ever; a step  *)
(* that keeps them equal has closed nothing.                                *)
LEMMA StairUnchanged ==
  ASSUME StairInv, Open' = Open, issued' = issued, next_index' = next_index,
         \A c \in Call : stage'[c] = "chosen" => stage[c] = "chosen" /\ chosen'[c] = chosen[c],
         \A r \in Router : Load(r)' = Load(r)
  PROVE  StairInv'
<1>1. \A r : Behind(r)' = Behind(r) /\ Step(r)' = Step(r)
  BY DEF Behind, Step
<1>2. (Full \/ Stair) => (Full \/ Stair)'
  BY <1>1 DEF Full, Stair
<1>3. QED
  BY <1>1, <1>2 DEF StairInv

(* A probe raises the next step of the stair, or finds a full router.       *)
LEMMA StairProbe ==
  ASSUME Inv, StairInv, NEW c \in Call, ProbeRouter(c)
  PROVE  StairInv'
<1>1. PICK q \in Router :
        /\ GetNextRouter(q)
        /\ \/ /\ HasRoom(q)
              /\ stage' = [stage EXCEPT ![c] = "chosen"]
              /\ chosen' = [chosen EXCEPT ![c] = q]
           \/ ~HasRoom(q) /\ UNCHANGED <<stage, chosen>>
  BY DEF ProbeRouter, CountProbe
<1>2. /\ stage[c] = "scanning"
      /\ UNCHANGED <<active_sessions_per_router, sessions, issued>>
  BY DEF ProbeRouter, CountProbe
<1>3. \A d \in Call \ {c} : stage[d] = "idle"
  BY <1>2 DEF Inv, MutexInv
<1>4. Behind(q)' = 1
  BY <1>1, IndexMovesOn DEF Inv
<1>5. \A d \in Call : stage'[d] = "chosen" => d = c /\ HasRoom(q) /\ chosen'[d] = q
  BY <1>1, <1>2, <1>3 DEF Inv, TypeOK
<1>6. \A r \in Router : Pending(r) = 0 /\ Load(r) = active_sessions_per_router[r]
  <2>1. \A d \in Call : stage[d] # "chosen"
    BY <1>2, <1>3
  <2>2. QED
    BY <2>1 DEF Load, Pending, Inv, TypeOK
<1>7. ASSUME issued' = Open' PROVE (Full \/ Stair)'
  <2>1. Full \/ Stair
    BY <1>2, <1>7 DEF StairInv, Open
  <2>2. \A r \in Router : Load(r) \in Nat /\ Load(r) <= MaxSessionsPerRouter
    BY <1>6 DEF Inv, TypeOK, CountersInv
  <2>3. q = next_index /\ q \in Nat /\ NumRouters \in Nat
    <3>1. q = next_index /\ q \in 0 .. NumRouters - 1
      BY <1>1 DEF GetNextRouter, Router
    <3>2. QED
      BY <3>1
  <2>4. CASE ~HasRoom(q)
    <3>1. \A r \in Router : Load(r)' = Load(r)
      BY <1>1, <1>2, <2>4 DEF Load, Pending
    <3>2. Load(q) = MaxSessionsPerRouter
      BY <1>1, <1>6, <2>2, <2>4 DEF HasRoom
    <3>3. Full
      <4> SUFFICES ASSUME Stair, NEW r \in Router PROVE Load(r) = MaxSessionsPerRouter
        BY <2>1 DEF Full
      <4>1. Load(q) - Step(q) = Load(r) - Step(r)
        BY DEF Stair
      <4>2. Step(q) = 0 /\ Step(r) \in {0, 1}
        BY <2>3 DEF Step
      <4>3. QED
        BY <2>2, <3>2, <4>1, <4>2
    <3>4. QED
      BY <3>1, <3>3 DEF Full
  <2>5. CASE HasRoom(q)
    <3>1. Load(q) < MaxSessionsPerRouter /\ Stair
      BY <1>1, <1>6, <2>1, <2>2, <2>5 DEF HasRoom, Full
    <3>2. stage'[c] = "chosen" /\ chosen'[c] = q
      BY <1>1, <2>5 DEF Inv, TypeOK
    <3>3. \A r \in Router : Load(r)' = Load(r) + (IF r = q THEN 1 ELSE 0)
      BY <1>2, <1>5, <1>6, <3>2 DEF Load, Pending, Inv, TypeOK
    <3>4. next_index' = IF q = NumRouters - 1 THEN 0 ELSE q + 1
      BY <1>1, NextIndex
    <3>5. \A r \in Router : Load(r) = Load(q) + Step(r)
      <4> TAKE r \in Router
      <4>1. Load(q) - Step(q) = Load(r) - Step(r)
        BY <3>1 DEF Stair
      <4>2. Step(q) = 0 /\ Step(r) \in {0, 1}
        BY <2>3 DEF Step
      <4>3. QED
        BY <2>2, <4>1, <4>2
    <3>6. ASSUME NEW r \in Router
          PROVE  Load(r)' - Step(r)' = IF q = NumRouters - 1 THEN Load(q) + 1 ELSE Load(q)
      <4>1. Load(r)' = Load(q) + Step(r) + (IF r = q THEN 1 ELSE 0)
        BY <2>2, <3>3, <3>5
      <4>2. r \in 0 .. NumRouters - 1 /\ q \in 0 .. NumRouters - 1 /\ Load(q) \in Nat
        BY <2>2 DEF Router
      <4>3. CASE q = NumRouters - 1
        <5>1. Step(r)' = 0
          BY <3>4, <4>2, <4>3 DEF Step
        <5>2. Step(r) = IF r = q THEN 0 ELSE 1
          BY <2>3, <4>2, <4>3 DEF Step
        <5>3. QED
          BY <4>1, <4>2, <4>3, <5>1, <5>2
      <4>4. CASE q # NumRouters - 1
        <5>1. Step(r)' = IF r < q + 1 THEN 1 ELSE 0
          BY <3>4, <4>4 DEF Step
        <5>2. Step(r) = IF r < q THEN 1 ELSE 0
          BY <2>3 DEF Step
        <5>3. QED
          BY <4>1, <4>2, <4>4, <5>1, <5>2
      <4>5. QED
        BY <4>3, <4>4
    <3>7. QED
      BY <3>6 DEF Stair
  <2>6. QED
    BY <2>4, <2>5
<1>8. QED
  BY <1>4, <1>5, <1>7 DEF StairInv

(* The chosen router gets the session that its load had counted.            *)
LEMMA StairCommit ==
  ASSUME Inv, StairInv, NEW c \in Call, RegisterCommit(c)
  PROVE  StairInv'
<1> DEFINE q == chosen[c]
<1>1. PICK s \in SessionId \ issued :
        /\ sessions' = [sessions EXCEPT
                          ![s] = [router |-> q, participants |-> {caller[c]}]]
        /\ issued' = issued \cup {s}
  BY DEF RegisterCommit
<1>2. /\ stage[c] = "chosen" /\ Release(c) /\ next_index' = next_index
      /\ active_sessions_per_router' = [active_sessions_per_router EXCEPT ![q] = @ + 1]
  BY DEF RegisterCommit
<1>3. \A d \in Call : stage'[d] = "idle"
  BY <1>2 DEF Inv, MutexInv, Release, TypeOK
<1>4. \A d \in Call : stage[d] = "chosen" => d = c
  BY <1>2 DEF Inv, MutexInv
<1>5. ASSUME NEW r \in Router PROVE Load(r)' = Load(r)
  <2>1. Pending(r)' = 0
    BY <1>3 DEF Pending
  <2>2. Pending(r) = IF r = q THEN 1 ELSE 0
    BY <1>2, <1>4 DEF Pending
  <2>3. active_sessions_per_router'[r]
          = active_sessions_per_router[r] + (IF r = q THEN 1 ELSE 0)
    BY <1>2 DEF Inv, TypeOK
  <2>4. active_sessions_per_router[r] \in Nat
    BY DEF Inv, TypeOK
  <2>5. QED
    BY <2>1, <2>2, <2>3, <2>4 DEF Load
<1>6. issued' = Open' => issued = Open
  <2>1. Open' \ {s} \subseteq Open /\ Open \subseteq issued /\ s \notin issued
    BY <1>1 DEF Inv, Open, TypeOK
  <2>2. QED
    BY <1>1, <2>1
<1>7. (Full \/ Stair) => (Full \/ Stair)'
  <2>1. \A r : Step(r)' = Step(r)
    BY <1>2 DEF Step
  <2>2. QED
    BY <1>5, <2>1 DEF Full, Stair
<1>8. QED
  BY <1>3, <1>6, <1>7 DEF StairInv

(* Once a session was closed nothing is left to show.                       *)
LEMMA StairClose ==
  ASSUME Inv, StairInv, (\E s \in SessionId : CloseSession(s)) \/ Shutdown
  PROVE  StairInv'
<1>1. /\ \A c \in Call : stage[c] = "idle"
      /\ stage' = stage /\ issued' = issued /\ next_index' = next_index
  BY DEF CloseSession, Shutdown, MutexFree, callVars, Inv, MutexInv
<1>2. CASE Open = {}
  <2>1. Shutdown
    BY <1>2 DEF CloseSession
  <2>2. \A r \in Router : SessionsOn(r) = {}
    BY <1>2 DEF SessionsOn
  <2>3. \A r \in Router : active_sessions_per_router'[r] = active_sessions_per_router[r]
    BY <2>1, <2>2, FS_EmptySet DEF Shutdown, Inv, TypeOK
  <2>4. \A r \in Router : Load(r)' = Load(r)
    BY <1>1, <2>3 DEF Load, Pending
  <2>5. Open' = Open
    BY <1>2, <2>1 DEF Shutdown, Open
  <2>6. QED
    BY <1>1, <2>4, <2>5, StairUnchanged
<1>3. CASE Open # {}
  <2>1. \E s \in Open : s \notin Open'
    BY <1>3 DEF CloseSession, Shutdown, Open, Inv, TypeOK
  <2>2. issued' # Open'
    BY <1>1, <2>1 DEF Inv
  <2>3. QED
    BY <1>1, <2>2 DEF StairInv
<1>4. QED
  BY <1>2, <1>3

(* Joining changes no load.                                                 *)
LEMMA StairJoin ==
  ASSUME Inv, StairInv, NEW s \in SessionId, NEW p \in ParticipantId, JoinSession(s, p)
  PROVE  StairInv'
<1>1. /\ stage' = stage /\ chosen' = chosen /\ issued' = issued /\ next_index' = next_index
      /\ active_sessions_per_router' = active_sessions_per_router
  BY DEF JoinSession, callVars
<1>2. Open' \subseteq Open
  BY DEF JoinSession, Open, Inv, TypeOK
<1>3. issued' = Open' => issued = Open
  BY <1>1, <1>2 DEF Inv
<1>4. \A r : Load(r)' = Load(r) /\ Step(r)' = Step(r) /\ Behind(r)' = Behind(r)
  BY <1>1 DEF Load, Pending, Step, Behind
<1>5. QED
  BY <1>1, <1>3, <1>4 DEF StairInv, Full, Stair

(* Each step leaves a stair.                                                *)
LEMMA StairNext == Inv /\ StairInv /\ [Next]_vars => StairInv'
<1> SUFFICES ASSUME Inv, StairInv, [Next]_vars PROVE StairInv'
  OBVIOUS
<1>1. ASSUME NEW c \in Call,
             \/ \E p \in ParticipantId : RegisterLock(c, p)
             \/ RegisterReject(c) \/ RegisterDropped(c)
      PROVE  StairInv'
  <2>1. UNCHANGED <<next_index, active_sessions_per_router, sessions, issued>>
    BY <1>1 DEF RegisterLock, RegisterReject, RegisterDropped
  <2>2. \A d \in Call : /\ stage'[d] = "chosen" <=> stage[d] = "chosen"
                        /\ stage[d] = "chosen" => chosen'[d] = chosen[d]
    BY <1>1 DEF RegisterLock, RegisterReject, RegisterDropped, Release, Inv, TypeOK
  <2>3. \A r \in Router : Load(r)' = Load(r)
    BY <2>1, <2>2 DEF Load, Pending
  <2>4. QED
    BY <2>1, <2>2, <2>3, StairUnchanged DEF Open
<1>2. ASSUME NEW c \in Call, ProbeRouter(c) PROVE StairInv'
  BY <1>2, StairProbe
<1>3. ASSUME NEW c \in Call, RegisterCommit(c) PROVE StairInv'
  BY <1>3, StairCommit
<1>4. ASSUME NEW s \in SessionId, NEW p \in ParticipantId, JoinSession(s, p) PROVE StairInv'
  BY <1>4, StairJoin
<1>5. CASE (\E s \in SessionId : CloseSession(s)) \/ Shutdown
  BY <1>5, StairClose
<1>6. CASE UNCHANGED vars
  BY <1>6 DEF vars, callVars, StairInv, Behind, Full, Stair, Load, Pending, Step, Open
<1>7. QED
  BY <1>1, <1>2, <1>3, <1>4, <1>5, <1>6 DEF Next

(* The stair balances the sessions themselves: the router that is chosen    *)
(* but not yet used is the one before next_index, so one with a high load.  *)
LEMMA StairBalances == Inv /\ StairInv => RoundRobinBalance
<1> SUFFICES ASSUME Inv, StairInv, issued = Open, NEW q \in Router, NEW r \in Router
             PROVE  Cardinality(SessionsOn(q)) <= Cardinality(SessionsOn(r)) + 1
  BY DEF RoundRobinBalance
<1>1. /\ Cardinality(SessionsOn(q)) = active_sessions_per_router[q]
      /\ Cardinality(SessionsOn(r)) = active_sessions_per_router[r]
      /\ active_sessions_per_router[q] \in Nat /\ active_sessions_per_router[r] \in Nat
      /\ active_sessions_per_router[q] <= MaxSessionsPerRouter
  BY DEF Inv, TypeOK, CountersInv, CountersMatchSessions
<1>2. /\ Load(q) = active_sessions_per_router[q] + Pending(q)
      /\ Load(r) = active_sessions_per_router[r] + Pending(r)
      /\ Pending(q) \in {0, 1} /\ Pending(r) \in {0, 1}
      /\ Step(q) \in {0, 1} /\ Step(r) \in {0, 1}
  BY DEF Load, Pending, Step
<1>3. CASE Full
  <2>1. Load(r) = MaxSessionsPerRouter
    BY <1>3 DEF Full
  <2>2. QED
    BY <1>1, <1>2, <2>1
<1>4. CASE Stair
  <2>1. Load(q) - Step(q) = Load(r) - Step(r)
    BY <1>4 DEF Stair
  <2>2. CASE Pending(r) = 0
    BY <1>1, <1>2, <2>1, <2>2
  <2>3. CASE Pending(r) = 1
    <3>1. Behind(r) = 1
      BY <2>3 DEF Pending, StairInv
    <3>2. Step(q) <= Step(r)
      <4>1. q \in 0 .. NumRouters - 1 /\ r \in 0 .. NumRouters - 1 /\ next_index \in Nat
        BY DEF Router, Inv, TypeOK
      <4>2. NumRouters \in Nat
        OBVIOUS
      <4>3. next_index \in 0 .. NumRouters - 1
        BY <4>1, <4>2 DEF Inv, IndexInv, Router
      <4>4. next_index = r + 1 \/ next_index = 0
        BY <3>1, <4>1, <4>2, <4>3 DEF Behind
      <4>5. QED
        BY <4>1, <4>4 DEF Step
    <3>3. QED
      BY <1>1, <1>2, <2>1, <2>3, <3>2
  <2>4. QED
    BY <1>2, <2>2, <2>3
<1>5. QED
  BY <1>3, <1>4 DEF StairInv

(* Until a session is closed, the loads of any two routers differ by at     *)
(* most one, however many registrations were refused or dropped meanwhile.  *)
THEOREM RoundRobinBalances == Spec => []RoundRobinBalance
<1>1. QED
  BY StairInit, StairNext, StairBalances, InvHolds, PTL DEF Spec
=============================================================================
