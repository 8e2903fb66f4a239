--------------------------- MODULE SessionService ---------------------------
(***************************************************************************)
(* What the session registry of the SFU promises to the signaling server,  *)
(* without its mutex, its counters and its round-robin scan:               *)
(*                                                                         *)
(*  - a session is placed on one router when it is registered, only if     *)
(*    that router serves fewer than MaxSessionsPerRouter sessions, and     *)
(*    stays there;                                                         *)
(*  - it starts with one participant, and may gain a second, different     *)
(*    one;                                                                 *)
(*  - a closed session is gone: its id is never used again.                *)
(***************************************************************************)
EXTENDS Naturals, FiniteSets

CONSTANTS
  Router,               (* the routers of the pool                         *)
  SessionId,            (* the ids registration draws from                 *)
  ParticipantId,        (* the ids participants go by                      *)
  MaxSessionsPerRouter, (* how many sessions a router may serve            *)
  NoSession             (* marks an id that is not the id of a session     *)

VARIABLES
  sessions,             (* the sessions, by id                             *)
  issued                (* the ids that have been given to a session       *)

vars == <<sessions, issued>>

Session == [router : Router, participants : SUBSET ParticipantId]

PlacedOn(r) == {s \in SessionId : sessions[s] # NoSession /\ sessions[s].router = r}

Init ==
  /\ sessions = [s \in SessionId |-> NoSession]
  /\ issued = {}

Register(s, r, p) ==
  /\ s \notin issued
  /\ Cardinality(PlacedOn(r)) < MaxSessionsPerRouter
  /\ sessions' = [sessions EXCEPT ![s] = [router |-> r, participants |-> {p}]]
  /\ issued' = issued \cup {s}

Join(s, p) ==
  /\ sessions[s] # NoSession
  /\ \E q \in ParticipantId \ {p} : sessions[s].participants = {q}
  /\ sessions' = [sessions EXCEPT ![s].participants = @ \cup {p}]
  /\ UNCHANGED issued

Close(S) ==
  /\ sessions' = [s \in SessionId |-> IF s \in S THEN NoSession ELSE sessions[s]]
  /\ UNCHANGED issued

Next ==
  \/ \E s \in SessionId, r \in Router, p \in ParticipantId : Register(s, r, p)
  \/ \E s \in SessionId, p \in ParticipantId : Join(s, p)
  \/ \E S \in SUBSET SessionId : Close(S)

Spec == Init /\ [][Next]_vars
=============================================================================
