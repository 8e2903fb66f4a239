----------------------------- MODULE MCSfuMedia -----------------------------
(***************************************************************************)
(* The small instance of SfuMedia: a session of two participants, one that *)
(* shares its router, and one on a router of its own.                      *)
(***************************************************************************)
EXTENDS SfuMedia, TLC

CONSTANTS web, llm, other, far, s1, s2, s3, r1, r2

Placement == (web :> s1) @@ (llm :> s1) @@ (other :> s2) @@ (far :> s3)
Routers == (s1 :> r1) @@ (s2 :> r1) @@ (s3 :> r2)

Symmetry == Permutations(TransportId) \cup Permutations(ProducerId) \cup Permutations(ConsumerId)
=============================================================================
