---------------------------- MODULE CloseEvents ----------------------------
(***************************************************************************)
(* How the close of a mediasoup resource is announced: setup_transport_    *)
(* events, setup_producer_events and setup_consumer_events of EventHandler.*)
(*                                                                         *)
(* Each of them registers two or three callbacks, for the reasons a        *)
(* resource may close, which share one flag.  A close may have several     *)
(* reasons at once (a producer is dropped while its router dies), so       *)
(* mediasoup may run several of the callbacks, on different threads and    *)
(* interleaved.  The one whose compare_exchange finds the flag down spawns *)
(* the task that broadcasts the event.                                     *)
(*                                                                         *)
(* mediasoup is external: it may run any of the callbacks, at any time,    *)
(* in any order and again and again, or none at all.                       *)
(***************************************************************************)
EXTENDS Naturals

CONSTANTS
  Resource,     (* transports, producers and consumers with their callbacks *)
  Callback,     (* on_close, on_router_close, on_transport_close, ...       *)
  CallbacksOf   (* the callbacks of each resource                           *)

ASSUME CallbacksAssumption == CallbacksOf \in [Resource -> SUBSET Callback]

VARIABLES
  is_closed,    (* the flag of each resource                                *)
  running,      (* where the run of each callback is                        *)
  spawned       (* the number of broadcasts of its close that were spawned  *)

vars == <<is_closed, running, spawned>>

Init ==
  /\ is_closed = [x \in Resource |-> FALSE]
  /\ running = [x \in Resource |-> [k \in Callback |-> "idle"]]
  /\ spawned = [x \in Resource |-> 0]

\* mediasoup runs a callback.
Close(x, k) ==
  /\ k \in CallbacksOf[x]
  /\ running[x][k] = "idle"
  /\ running' = [running EXCEPT ![x][k] = "called"]
  /\ UNCHANGED <<is_closed, spawned>>

CompareExchange_NotStored(x, k) ==
  /\ running[x][k] = "called"
  /\ running' = [running EXCEPT ![x][k] = IF is_closed[x] THEN "idle" ELSE "first"]
  /\ UNCHANGED <<is_closed, spawned>>

CompareExchange_Swapped(x, k) ==
  /\ running[x][k] = "called"
  /\ running' = [running EXCEPT ![x][k] = IF is_closed[x] THEN "first" ELSE "idle"]
  /\ is_closed' = [is_closed EXCEPT ![x] = FALSE]
  /\ UNCHANGED spawned

\* is_closed.compare_exchange(false, true): one atomic step.
CompareExchange(x, k) ==
  /\ running[x][k] = "called"
  /\ running' = [running EXCEPT ![x][k] = IF is_closed[x] THEN "idle" ELSE "first"]
  /\ is_closed' = [is_closed EXCEPT ![x] = TRUE]
  /\ UNCHANGED spawned

\* The first callback makes the event and spawns its broadcast.
Announce(x, k) ==
  /\ running[x][k] = "first"
  /\ running' = [running EXCEPT ![x][k] = "idle"]
  /\ spawned' = [spawned EXCEPT ![x] = @ + 1]
  /\ UNCHANGED is_closed

Next ==
  \E x \in Resource, k \in Callback : Close(x, k) \/ CompareExchange(x, k) \/ Announce(x, k)

Spec == Init /\ [][Next]_vars

\* A callback that mediasoup has called runs to its end.
Fairness ==
  \A x \in Resource, k \in Callback : WF_vars(CompareExchange(x, k) \/ Announce(x, k))

FairSpec == Spec /\ Fairness
-----------------------------------------------------------------------------
TypeOK ==
  /\ is_closed \in [Resource -> BOOLEAN]
  /\ running \in [Resource -> [Callback -> {"idle", "called", "first"}]]
  /\ spawned \in [Resource -> Nat]

(* However many callbacks run, and however they interleave, the close of a  *)
(* resource is broadcast once at most; and a callback that gives way to     *)
(* another can rely on it: once the flag is up the close has been           *)
(* broadcast, or a callback is about to do it.                              *)
AnnouncedOnce ==
  \A x \in Resource :
    /\ spawned[x] <= 1
    /\ is_closed[x] => spawned[x] = 1 \/ \E k \in Callback : running[x][k] = "first"

(* If any of the callbacks is called, the close is broadcast in the end,    *)
(* also when the callback that was called first is overtaken by another.    *)
CloseIsAnnounced ==
  \A x \in Resource :
    (\E k \in Callback : running[x][k] = "called") ~> spawned[x] > 0
=============================================================================
