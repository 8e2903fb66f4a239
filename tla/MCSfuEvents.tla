---------------------------- MODULE MCSfuEvents -----------------------------
(***************************************************************************)
(* Small instances of SfuEvents, for all of its runs: a session of two     *)
(* participants; one run adds an observer, an id that is no participant.   *)
(* Participants, producers and channels are interchangeable, which the     *)
(* runs that check only invariants use.                                    *)
(***************************************************************************)
EXTENDS SfuEvents, TLC

Symmetry == Permutations(Member) \cup Permutations(ProducerId) \cup Permutations(Channel)
=============================================================================
