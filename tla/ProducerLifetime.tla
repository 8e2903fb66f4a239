-------------------------- MODULE ProducerLifetime --------------------------
(***************************************************************************)
(* How long a producer lives: until its router is gone, or until both its  *)
(* session and the call that made it, with the task of that call, have let *)
(* go of it.                                                               *)
(*                                                                         *)
(* SfuMedia derives this from the references to transports and producers;  *)
(* SfuEvents, where there are no transports, closes the producers that it  *)
(* names.  Both implement this specification: what SfuEvents says of the   *)
(* closing of producers is what the references amount to.                  *)
(***************************************************************************)
CONSTANTS
  Producer,   (* the producers there may be                                *)
  Session,    (* the sessions                                              *)
  Nowhere     (* none of the sessions                                      *)

VARIABLES
  open,       (* sessions that are not closed                              *)
  routed,     (* sessions whose router lives                               *)
  home,       (* the session of each producer, once it is made             *)
  held,       (* producers that the call that made them still refers to    *)
  live        (* producers that mediasoup has not closed                   *)

vars == <<open, routed, home, held, live>>

Init ==
  /\ open = Session /\ routed = Session
  /\ home = [x \in Producer |-> Nowhere]
  /\ held = {} /\ live = {}

Create(x, s) ==
  /\ s \in open \cap routed
  /\ home[x] = Nowhere
  /\ home' = [home EXCEPT ![x] = s]
  /\ held' = held \cup {x}
  /\ live' = live \cup {x}
  /\ UNCHANGED <<open, routed>>

\* The call and its task are done with the producer.
LetGo(x) ==
  /\ x \in held
  /\ held' = held \ {x}
  /\ live' = {y \in live : y # x \/ home[y] \in open}
  /\ UNCHANGED <<open, routed, home>>

Close(s) ==
  /\ s \in open
  /\ open' = open \ {s}
  /\ live' = {y \in live : home[y] # s \/ y \in held}
  /\ UNCHANGED <<routed, home, held>>

\* A router dies, and with it all that the sessions S have on it.
Lose(S) ==
  /\ S \subseteq routed
  /\ routed' = routed \ S
  /\ live' = {y \in live : home[y] \notin S}
  /\ UNCHANGED <<open, home, held>>

Next ==
  \/ \E x \in Producer, s \in Session : Create(x, s)
  \/ \E x \in Producer : LetGo(x)
  \/ \E s \in Session : Close(s)
  \/ \E S \in SUBSET Session : Lose(S)

Spec == Init /\ [][Next]_vars
=============================================================================
