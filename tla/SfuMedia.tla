------------------------------ MODULE SfuMedia ------------------------------
(***************************************************************************)
(* What the participants have of mediasoup: transports, producers and      *)
(* consumers, of several sessions that share the routers.                  *)
(*                                                                         *)
(* Every operation of SfuCore that is modelled here has one await, a       *)
(* request to the mediasoup worker, and holds the mutex across it; what it *)
(* reads before and writes after nobody else can touch, and a future that  *)
(* is dropped at the await drops the new object as well.  So each is one   *)
(* step, the moment the worker answers.  A refused request changes nothing *)
(* and is left out.  After the mutex the handler still has a reference to  *)
(* what it made (PendingEventSetup), and so has the task that announces a  *)
(* producer.                                                               *)
(*                                                                         *)
(* mediasoup is external: an object is closed when its last reference is   *)
(* dropped or its router dies, a consumer also when its producer closes; a *)
(* producer or consumer refers to its transport.                           *)
(*                                                                         *)
(* A definition whose name has an underscore is a faulty variant of the    *)
(* definition after which it is named, and no part of the specification.   *)
(***************************************************************************)
EXTENDS FiniteSets

CONSTANTS
  Participant,   (* the participants of all sessions                       *)
  SessionOf,     (* the session of each                                    *)
  RouterOf,      (* the router of each session, chosen at registration     *)
  TransportId, ProducerId, ConsumerId,   (* ids that mediasoup may give    *)
  None           (* no transport, no producer, no participant              *)

Session == DOMAIN RouterOf
Router == {RouterOf[s] : s \in Session}
Media == ProducerId \cup ConsumerId

ASSUME PlacementAssumption == SessionOf \in [Participant -> Session]
ASSUME NoneAssumption == None \notin TransportId \cup ProducerId \cup Participant \cup Session
ASSUME IdsAssumption ==
  /\ TransportId \cap Media = {}
  /\ ProducerId \cap ConsumerId = {}

VARIABLES
  sessions,      (* those in SfuCore.sessions                              *)
  router_up,     (* routers whose worker lives                             *)
  send, recv,    (* Transports of each participant                         *)
  producers, consumers, (* ParticipantState of each                        *)
  maker,         (* the participant each transport was made for            *)
  carrier,       (* the transport each producer and consumer was made on   *)
  source,        (* the producer of each consumer                          *)
  connected,     (* transports that have their remote parameters           *)
  resumed,       (* consumers that are not paused                          *)
  handling       (* objects that a handler or its task still refers to     *)

stateVars == <<send, recv, producers, consumers>>
mediasoupVars == <<maker, carrier, source>>
vars == <<sessions, router_up, stateVars, mediasoupVars, connected, resumed, handling>>

Open(p) == SessionOf[p] \in sessions
RouterUp(p) == RouterOf[SessionOf[p]] \in router_up

Held == handling \cup UNION {producers[p] \cup consumers[p] : p \in Participant}
TransportHeld(t) ==
  t \in handling \/ (\E p \in Participant : t \in {send[p], recv[p]}) \/ \E x \in Held \cap Media : carrier[x] = t
TransportOpen(t) == maker[t] # None /\ RouterUp(maker[t]) /\ TransportHeld(t)
ProducerOpen(x) == x \in Held /\ RouterUp(maker[carrier[x]])
ConsumerOpen(k) == k \in Held /\ RouterUp(maker[carrier[k]]) /\ ProducerOpen(source[k])

Init ==
  /\ sessions = Session
  /\ router_up = Router
  /\ send = [p \in Participant |-> None] /\ recv = [p \in Participant |-> None]
  /\ producers = [p \in Participant |-> {}] /\ consumers = [p \in Participant |-> {}]
  /\ maker = [t \in TransportId |-> None]
  /\ carrier = [x \in Media |-> None]
  /\ source = [k \in ConsumerId |-> None]
  /\ connected = {} /\ resumed = {} /\ handling = {}

-----------------------------------------------------------------------------
CreateTransport_Cleanup(p, t) ==
  /\ Open(p)
  /\ RouterUp(p)
  /\ maker[t] = None
  /\ maker' = [maker EXCEPT ![t] = p]
  /\ \/ /\ send' = [send EXCEPT ![p] = t]
        /\ producers' = [producers EXCEPT ![p] = {}]
        /\ UNCHANGED <<recv, consumers>>
     \/ /\ recv' = [recv EXCEPT ![p] = t]
        /\ consumers' = [consumers EXCEPT ![p] = {}]
        /\ UNCHANGED <<send, producers>>
  /\ handling' = handling \cup {t}
  /\ UNCHANGED <<sessions, router_up, carrier, source, connected, resumed>>

\* A transport for sending or receiving, in place of an earlier one.
CreateTransport(p, t) ==
  /\ Open(p)
  /\ RouterUp(p)
  /\ maker[t] = None
  /\ maker' = [maker EXCEPT ![t] = p]
  /\ \/ send' = [send EXCEPT ![p] = t] /\ UNCHANGED recv
     \/ recv' = [recv EXCEPT ![p] = t] /\ UNCHANGED send
  /\ handling' = handling \cup {t}
  /\ UNCHANGED <<sessions, router_up, producers, consumers, carrier, source, connected, resumed>>

\* The id in the request is the one of a transport that the participant has.
ConnectTransport(p, t) ==
  /\ Open(p)
  /\ t \in {send[p], recv[p]} \ {None}
  /\ RouterUp(p)
  /\ t \notin connected
  /\ connected' = connected \cup {t}
  /\ UNCHANGED <<sessions, router_up, stateVars, mediasoupVars, resumed, handling>>

CreateProducer_StaleTransport(p, x) ==
  /\ \E t \in TransportId :
       /\ maker[t] = p /\ RouterUp(p)
       /\ carrier[x] = None
       /\ carrier' = [carrier EXCEPT ![x] = t]
  /\ producers' = [producers EXCEPT ![p] = @ \cup {x}]
  /\ handling' = handling \cup {x}
  /\ UNCHANGED <<sessions, router_up, send, recv, consumers, maker, source, connected, resumed>>

CreateProducer(p, x) ==
  /\ Open(p)
  /\ send[p] # None
  /\ RouterUp(p)
  /\ carrier[x] = None
  /\ carrier' = [carrier EXCEPT ![x] = send[p]]
  /\ producers' = [producers EXCEPT ![p] = @ \cup {x}]
  /\ handling' = handling \cup {x}
  /\ UNCHANGED <<sessions, router_up, send, recv, consumers, maker, source, connected, resumed>>

\* can_consume: the router knows the producer and the capabilities fit.
CanConsume(p, x) ==
  /\ carrier[x] # None /\ ProducerOpen(x)
  /\ RouterOf[SessionOf[maker[carrier[x]]]] = RouterOf[SessionOf[p]]

CreateConsumer_NoTransport(p, k, x) ==
  /\ Open(p)
  /\ CanConsume(p, x)
  /\ carrier[k] = None
  /\ carrier' = [carrier EXCEPT ![k] = recv[p]]
  /\ source' = [source EXCEPT ![k] = x]
  /\ consumers' = [consumers EXCEPT ![p] = @ \cup {k}]
  /\ handling' = handling \cup {k}
  /\ UNCHANGED <<sessions, router_up, send, recv, producers, maker, connected, resumed>>

\* Consumers start paused.
CreateConsumer(p, k, x) ==
  /\ Open(p)
  /\ recv[p] # None
  /\ CanConsume(p, x)
  /\ carrier[k] = None
  /\ carrier' = [carrier EXCEPT ![k] = recv[p]]
  /\ source' = [source EXCEPT ![k] = x]
  /\ consumers' = [consumers EXCEPT ![p] = @ \cup {k}]
  /\ handling' = handling \cup {k}
  /\ UNCHANGED <<sessions, router_up, send, recv, producers, maker, connected, resumed>>

ResumeConsumer(p, k) ==
  /\ Open(p)
  /\ k \in consumers[p]
  /\ ConsumerOpen(k)
  /\ resumed' = resumed \cup {k}
  /\ UNCHANGED <<sessions, router_up, stateVars, mediasoupVars, connected, handling>>

\* The handler, or the task it spawned, is done with what it made.
Release(x) ==
  /\ x \in handling
  /\ handling' = handling \ {x}
  /\ UNCHANGED <<sessions, router_up, stateVars, mediasoupVars, connected, resumed>>

\* The SessionState is dropped with all its ParticipantStates.
CloseSession(s) ==
  /\ s \in sessions
  /\ sessions' = sessions \ {s}
  /\ send' = [p \in Participant |-> IF SessionOf[p] = s THEN None ELSE send[p]]
  /\ recv' = [p \in Participant |-> IF SessionOf[p] = s THEN None ELSE recv[p]]
  /\ producers' = [p \in Participant |-> IF SessionOf[p] = s THEN {} ELSE producers[p]]
  /\ consumers' = [p \in Participant |-> IF SessionOf[p] = s THEN {} ELSE consumers[p]]
  /\ UNCHANGED <<router_up, mediasoupVars, connected, resumed, handling>>

RouterDies(r) ==
  /\ r \in router_up
  /\ router_up' = router_up \ {r}
  /\ UNCHANGED <<sessions, stateVars, mediasoupVars, connected, resumed, handling>>

Next ==
  \/ \E p \in Participant, t \in TransportId : CreateTransport(p, t) \/ ConnectTransport(p, t)
  \/ \E p \in Participant, x \in ProducerId : CreateProducer(p, x)
  \/ \E p \in Participant, k \in ConsumerId, x \in ProducerId : CreateConsumer(p, k, x)
  \/ \E p \in Participant, k \in ConsumerId : ResumeConsumer(p, k)
  \/ \E x \in handling : Release(x)
  \/ \E s \in Session : CloseSession(s)
  \/ \E r \in Router : RouterDies(r)

Spec == Init /\ [][Next]_vars
-----------------------------------------------------------------------------
TypeOK ==
  /\ sessions \subseteq Session /\ router_up \subseteq Router
  /\ send \in [Participant -> TransportId \cup {None}]
  /\ recv \in [Participant -> TransportId \cup {None}]
  /\ producers \in [Participant -> SUBSET ProducerId]
  /\ consumers \in [Participant -> SUBSET ConsumerId]
  /\ maker \in [TransportId -> Participant \cup {None}]
  /\ carrier \in [Media -> TransportId \cup {None}]
  /\ source \in [ConsumerId -> ProducerId \cup {None}]
  /\ connected \subseteq TransportId /\ resumed \subseteq ConsumerId
  /\ handling \subseteq TransportId \cup Media
  /\ \A x \in Held \cap Media : carrier[x] # None /\ maker[carrier[x]] # None
  /\ \A k \in Held \cap ConsumerId : source[k] # None /\ carrier[source[k]] # None

\* The participant a producer or consumer belongs to.
Owner(x) == maker[carrier[x]]

\* Media reaches the participant through the consumer k.
Flowing(k) ==
  /\ k \in resumed
  /\ ConsumerOpen(k)
  /\ \A x \in {k, source[k]} : carrier[x] \in connected /\ TransportOpen(carrier[x])

(* Media that flows stops only when one of the two sessions is closed or    *)
(* their router dead: no request of anyone else, no retry, no second        *)
(* transport and no handler that ends stops it.                             *)
MediaUninterrupted ==
  [][\A k \in ConsumerId : Flowing(k) /\ ~Flowing(k)' =>
       \E x \in {k, source[k]} : ~(Open(Owner(x)) /\ RouterUp(Owner(x)))']_vars

(* Nothing outlives its session: whatever is open in mediasoup belongs to   *)
(* an open session, or a handler that made it has not come to its end.      *)
NothingOutlivesSession ==
  /\ \A x \in Held \cap Media : Open(Owner(x)) \/ x \in handling
  /\ \A t \in TransportId : TransportOpen(t) =>
       Open(maker[t]) \/ \E x \in handling : x = t \/ (x \in Media /\ carrier[x] = t)

\* The session of each producer, sessions with a router, producers that are open.
Home == [x \in ProducerId |-> IF carrier[x] = None THEN None ELSE SessionOf[Owner(x)]]
Routed == {s \in Session : RouterOf[s] \in router_up}
Live == {x \in ProducerId : carrier[x] # None /\ ProducerOpen(x)}

(* Transports replaced, consumers, other sessions on the same router: none  *)
(* of it closes a producer.  It lives as long as ProducerLifetime says.     *)
Lifetime == INSTANCE ProducerLifetime WITH
  Producer <- ProducerId, Nowhere <- None,
  open <- sessions, routed <- Routed, home <- Home,
  held <- handling \cap ProducerId, live <- Live
LifetimeSpec == Lifetime!Spec
=============================================================================
