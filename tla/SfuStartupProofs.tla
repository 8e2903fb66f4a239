-------------------------- MODULE SfuStartupProofs --------------------------
(***************************************************************************)
(* Proofs about SfuStartup for any configuration.  Inv says what each      *)
(* phase has behind it: a loop is left only with its vector complete.      *)
(***************************************************************************)
EXTENDS SfuStartup, TLAPS

Count == config.mediasoup_workers

PhasesInv ==
  /\ phase \in {"ports", "routers", "healthy", "serving"} => workers = Count
  /\ phase \in {"routers", "healthy", "serving"} => webrtc_servers = workers
  /\ phase \in {"healthy", "serving"} => routers = workers

Inv == TypeOK /\ PhasesInv

(* The invariant holds before anything is made.                             *)
LEMMA InitInv == Init => Inv
<1> SUFFICES ASSUME Init PROVE Inv
  OBVIOUS
<1>1. TypeOK
  <2>1. config.mediasoup_workers \in Nat
    BY CountsAssumption DEF Init
  <2>2. /\ workers \in 0 .. config.mediasoup_workers /\ webrtc_servers \in 0 .. workers
        /\ routers \in 0 .. webrtc_servers /\ webrtc_servers <= PortRange
    BY <2>1, PortsAssumption DEF Init
  <2>3. QED
    BY <2>2 DEF Init, TypeOK
<1>2. PhasesInv
  BY DEF Init, PhasesInv
<1>3. QED
  BY <1>1, <1>2 DEF Inv

(* Each step of main() preserves the invariant.                             *)
LEMMA InvNext == Inv /\ [Next]_vars => Inv'
<1> SUFFICES ASSUME Inv, [Next]_vars PROVE Inv'
  OBVIOUS
<1>1. Count \in Nat
  BY CountsAssumption DEF Inv, TypeOK, Count
<1> USE DEF Inv, TypeOK, PhasesInv, Count
<1>2. CASE Fails
  BY <1>1, <1>2 DEF Fails
<1>3. CASE CreateWorker
  BY <1>1, <1>3 DEF CreateWorker
<1>4. CASE WorkersDone
  BY <1>1, <1>4 DEF WorkersDone
<1>5. CASE CreateWebRtcServer
  BY <1>1, <1>5, PortsAssumption DEF CreateWebRtcServer, IndexFits
<1>6. CASE ServersDone
  BY <1>1, <1>6 DEF ServersDone
<1>7. CASE CreateRouter
  BY <1>1, <1>7 DEF CreateRouter
<1>8. CASE SpawnHealthServer
  BY <1>1, <1>8 DEF SpawnHealthServer
<1>9. CASE Serve
  BY <1>1, <1>9 DEF Serve
<1>10. CASE UNCHANGED vars
  BY <1>10 DEF vars
<1>11. QED
  BY <1>2, <1>3, <1>4, <1>5, <1>6, <1>7, <1>8, <1>9, <1>10 DEF Next

(* The invariant holds all along.                                           *)
THEOREM InvHolds == Spec => []Inv
<1>1. QED
  BY InitInv, InvNext, PTL DEF Spec

(* The lengths of the three vectors never run ahead of each other, and the  *)
(* index of every WebRTC server fits into a u16.                            *)
THEOREM TypeCorrect == Spec => []TypeOK
<1>1. Inv => TypeOK
  BY DEF Inv
<1>2. QED
  BY <1>1, InvHolds, PTL

(* A server that serves has the pool it was configured for, whatever fails  *)
(* on the way.                                                              *)
THEOREM PoolsComplete == Spec => []PoolComplete
<1>1. Inv => PoolComplete
  BY DEF Inv, PhasesInv, PoolComplete, Ready, Count
<1>2. QED
  BY <1>1, InvHolds, PTL

(* A number that overflows once.                                            *)
LEMMA Wrapped ==
  ASSUME NEW n \in Nat, NEW sum \in Nat, sum < n + n
  PROVE  sum % n = IF sum < n THEN sum ELSE sum - n
<1>1. n > 0
  OBVIOUS
<1>2. sum < n => sum % n = sum
  BY <1>1
<1>3. sum >= n => sum % n = sum - n
  BY <1>1
<1>4. QED
  BY <1>2, <1>3

(* What the addition of u16 numbers gives, where it wraps around and where  *)
(* it does not.                                                             *)
LEMMA PortValue ==
  ASSUME NEW k \in Nat, k < PortRange
  PROVE  PortOf(k) = IF FirstPort + k < PortRange THEN FirstPort + k ELSE (FirstPort + k) - PortRange
<1>1. FirstPort + k \in Nat /\ FirstPort + k < PortRange + PortRange /\ PortRange \in Nat
  BY PortsAssumption
<1>2. QED
  BY <1>1, Wrapped DEF PortOf

(* Different indices that fit into a u16 have different ports.              *)
LEMMA PortsInjective ==
  ASSUME NEW i \in Nat, NEW j \in Nat, i < j, j < PortRange
  PROVE  PortOf(i) # PortOf(j)
<1>1. i < PortRange
  BY PortsAssumption
<1>2. (IF FirstPort + i < PortRange THEN FirstPort + i ELSE (FirstPort + i) - PortRange)
        # (IF FirstPort + j < PortRange THEN FirstPort + j ELSE (FirstPort + j) - PortRange)
  BY PortsAssumption
<1>3. QED
  BY <1>1, <1>2, PortValue

(* Workers never share a port, up to the number of workers for which the    *)
(* index fits into a u16, whether the ports wrap around or not.             *)
THEOREM PortsAreDistinct == Spec => []PortsDistinct
<1>1. Inv => PortsDistinct
  <2> SUFFICES ASSUME Inv, NEW i \in 1 .. webrtc_servers - 1
               PROVE  PortOf(i - 1) # PortOf(webrtc_servers - 1)
    BY DEF PortsDistinct
  <2>1. Count \in Nat
    BY CountsAssumption DEF Inv, TypeOK, Count
  <2>2. webrtc_servers \in Nat /\ webrtc_servers <= PortRange
    BY <2>1 DEF Inv, TypeOK, Count
  <2>3. /\ i - 1 \in Nat /\ webrtc_servers - 1 \in Nat
        /\ i - 1 < webrtc_servers - 1 /\ webrtc_servers - 1 < PortRange
    BY <2>2, PortsAssumption
  <2>4. QED
    BY <2>3, PortsInjective
<1>2. QED
  BY <1>1, InvHolds, PTL
=============================================================================
