----------------------------- MODULE SfuStartup -----------------------------
(***************************************************************************)
(* main() up to the gRPC server: WorkerManager::new, RouterManager::new,   *)
(* the health server.  The first step that fails ends the process.         *)
(*                                                                         *)
(* Workers, WebRTC servers and routers are made in order, one await each;  *)
(* worker i has the index i in each of the three vectors, of which the     *)
(* lengths are kept.  Ports and indices are u16.  An overflow panics in a  *)
(* build with overflow checks and wraps around in one without.             *)
(*                                                                         *)
(* A definition whose name has an underscore is a faulty variant of the    *)
(* definition after which it is named, and no part of the specification.   *)
(***************************************************************************)
EXTENDS Integers

CONSTANTS
  WorkerCounts,   (* values of mediasoup_workers                           *)
  PortRange,      (* the values of a u16, of which there are 65536         *)
  FirstPort       (* the port of the first worker, 10000                   *)

ASSUME CountsAssumption == WorkerCounts \subseteq Nat
ASSUME PortsAssumption == PortRange \in Nat /\ FirstPort \in Nat /\ FirstPort < PortRange

VARIABLES
  config,         (* the worker count, and how the program was built       *)
  phase,          (* where main() is                                       *)
  workers, webrtc_servers,  (* lengths of WorkerManager's vectors          *)
  routers         (* length of RouterManager.routers                       *)

vars == <<config, phase, workers, webrtc_servers, routers>>

PortOf_NoOffset(i) == FirstPort
PortOf(i) == (FirstPort + i) % PortRange

Init ==
  /\ config \in [mediasoup_workers : WorkerCounts, overflow_checks : BOOLEAN]
  /\ phase = "workers"
  /\ workers = 0 /\ webrtc_servers = 0 /\ routers = 0

\* An error is returned with `?`, or something panics.
Fails ==
  /\ phase \notin {"serving", "failed"}
  /\ phase' = "failed"
  /\ UNCHANGED <<config, workers, webrtc_servers, routers>>

CreateWorker_OneMore ==
  /\ phase = "workers"
  /\ workers <= config.mediasoup_workers
  /\ workers' = workers + 1
  /\ UNCHANGED <<config, phase, webrtc_servers, routers>>

CreateWorker ==
  /\ phase = "workers"
  /\ workers < config.mediasoup_workers
  /\ workers' = workers + 1
  /\ UNCHANGED <<config, phase, webrtc_servers, routers>>

WorkersDone ==
  /\ phase = "workers"
  /\ workers = config.mediasoup_workers
  /\ phase' = "ports"
  /\ UNCHANGED <<config, workers, webrtc_servers, routers>>

\* u16::try_from(i), or else TooManyWorkers.
IndexFits(i) == i < PortRange

CreateWebRtcServer ==
  /\ phase = "ports"
  /\ webrtc_servers < workers
  /\ IndexFits(webrtc_servers)
  /\ config.overflow_checks => FirstPort + webrtc_servers < PortRange
  /\ webrtc_servers' = webrtc_servers + 1
  /\ UNCHANGED <<config, phase, workers, routers>>

ServersDone_TooFew ==
  /\ phase = "ports"
  /\ workers <= webrtc_servers + 1
  /\ phase' = "routers"
  /\ UNCHANGED <<config, workers, webrtc_servers, routers>>

ServersDone ==
  /\ phase = "ports"
  /\ webrtc_servers = workers
  /\ phase' = "routers"
  /\ UNCHANGED <<config, workers, webrtc_servers, routers>>

\* zip() ends with the shorter of the two vectors.
CreateRouter ==
  /\ phase = "routers"
  /\ routers < workers /\ routers < webrtc_servers
  /\ routers' = routers + 1
  /\ UNCHANGED <<config, phase, workers, webrtc_servers>>

\* The pool is complete and the health server is spawned.
SpawnHealthServer ==
  /\ phase = "routers"
  /\ routers = workers \/ routers = webrtc_servers
  /\ phase' = "healthy"
  /\ UNCHANGED <<config, workers, webrtc_servers, routers>>

\* The health server answers, and its answer does not depend on anything.
Ready == phase \in {"healthy", "serving"}

\* The gRPC server binds.
Serve ==
  /\ phase = "healthy"
  /\ phase' = "serving"
  /\ UNCHANGED <<config, workers, webrtc_servers, routers>>

Next ==
  \/ Fails \/ CreateWorker \/ WorkersDone \/ CreateWebRtcServer \/ ServersDone
  \/ CreateRouter \/ SpawnHealthServer \/ Serve

Spec == Init /\ [][Next]_vars
-----------------------------------------------------------------------------
TypeOK ==
  /\ config \in [mediasoup_workers : WorkerCounts, overflow_checks : BOOLEAN]
  /\ phase \in {"workers", "ports", "routers", "healthy", "serving", "failed"}
  /\ workers \in 0 .. config.mediasoup_workers
  /\ webrtc_servers \in 0 .. workers
  /\ routers \in 0 .. webrtc_servers
  /\ webrtc_servers <= PortRange

(* Whoever is answered "ready" has behind it all the routers the server was *)
(* configured for, each with a WebRTC server: no failure on the way         *)
(* shortens the pool unnoticed, and MissingWebRtcServer is never answered.  *)
PoolComplete == Ready => routers = config.mediasoup_workers /\ webrtc_servers = routers

(* No two workers share a port, also where the addition wraps around.       *)
PortsDistinct ==
  \A i \in 1 .. webrtc_servers - 1 : PortOf(i - 1) # PortOf(webrtc_servers - 1)
=============================================================================
