---------------------------- MODULE MCSfuStartup ----------------------------
(***************************************************************************)
(* A small instance of SfuStartup.  There are eight ports and the first is *)
(* five: the ports of three workers fit, those of more wrap around, and    *)
(* more than eight workers are too many.                                   *)
(***************************************************************************)
EXTENDS SfuStartup

MCWorkerCounts == 0 .. 10
=============================================================================
