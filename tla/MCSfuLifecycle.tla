--------------------------- MODULE MCSfuLifecycle ---------------------------
(***************************************************************************)
(* Small instances of SfuLifecycle: model values for calls and sessions,   *)
(* given in the configurations.  What is safety only does not tell calls   *)
(* or sessions apart, and is checked up to their symmetry.                 *)
(***************************************************************************)
EXTENDS SfuLifecycle, TLC

Symmetry == Permutations(Call) \cup Permutations(SessionId)
=============================================================================
