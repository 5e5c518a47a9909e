--------------------------------- MODULE MCDns ---------------------------------
(***************************************************************************)
(* Dns with two names that can be sent and one that cannot, and four       *)
(* calls, so that a late answer and a socket left over meet a later call.  *)
(***************************************************************************)
EXTENDS Dns

CONSTANTS a, b, long
=============================================================================
