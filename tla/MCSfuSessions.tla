--------------------------- MODULE MCSfuSessions ----------------------------
(***************************************************************************)
(* Small instances of SfuSessions, for all of its runs.  The ids of        *)
(* sessions outnumber the places in the pool, so that the pool fills up,   *)
(* refuses a registration, is emptied and fills up again.  Three           *)
(* participant ids, the empty one among them, let a third one try to join. *)
(***************************************************************************)
EXTENDS SfuSessions

MCEmptyId == ""
MCParticipantId == {MCEmptyId, "web", "llm"}
=============================================================================
