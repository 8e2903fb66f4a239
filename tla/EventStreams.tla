---------------------------- MODULE EventStreams ----------------------------
(***************************************************************************)
(* What subscribers are promised, without participants, producers, tasks   *)
(* or a mutex: a stream is a bounded queue.  It begins with a confirmation *)
(* and has no second one; what is put in comes out in that order; once it  *)
(* has ended it stays as it is, and it ends, unless the client drops it,   *)
(* only after everything was read.                                         *)
(***************************************************************************)
EXTENDS Naturals, Sequences

CONSTANTS Channel, Capacity, Event, Confirmed

VARIABLES
  phase,  (* has the stream begun, is it over?                             *)
  log,    (* the events put into it                                        *)
  read    (* how many of them came out                                     *)

vars == <<phase, log, read>>

Init ==
  /\ phase = [c \in Channel |-> "unused"]
  /\ log = [c \in Channel |-> <<>>]
  /\ read = [c \in Channel |-> 0]

Begin(c) ==
  /\ phase[c] = "unused"
  /\ phase' = [phase EXCEPT ![c] = "open"]
  /\ UNCHANGED <<log, read>>

\* One event goes into some of the open streams that have space for it.
Put(e, C) ==
  /\ \A c \in C : /\ phase[c] = "open"
                  /\ Len(log[c]) - read[c] < Capacity
                  /\ log[c] = <<>> <=> e = Confirmed
  /\ log' = [c \in Channel |-> IF c \in C THEN Append(log[c], e) ELSE log[c]]
  /\ UNCHANGED <<phase, read>>

Take(c) ==
  /\ phase[c] = "open"
  /\ read[c] < Len(log[c])
  /\ read' = [read EXCEPT ![c] = @ + 1]
  /\ UNCHANGED <<phase, log>>

End(c) ==
  /\ phase[c] = "open"
  /\ read[c] = Len(log[c])
  /\ phase' = [phase EXCEPT ![c] = "ended"]
  /\ UNCHANGED <<log, read>>

Drop(c) ==
  /\ phase[c] = "open"
  /\ phase' = [phase EXCEPT ![c] = "dropped"]
  /\ UNCHANGED <<log, read>>

Next ==
  \/ \E e \in Event, C \in SUBSET Channel : Put(e, C)
  \/ \E c \in Channel : Begin(c) \/ Take(c) \/ End(c) \/ Drop(c)

Spec == Init /\ [][Next]_vars
=============================================================================
