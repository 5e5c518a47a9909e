------------------------------ MODULE MCRtl8139 ------------------------------
(***************************************************************************)
(* Rtl8139 with a ring that holds three or four packets, packets that end  *)
(* before, at and after a multiple of four, and two transmit buffers for   *)
(* up to four frames.                                                      *)
(***************************************************************************)
EXTENDS Rtl8139
=============================================================================
