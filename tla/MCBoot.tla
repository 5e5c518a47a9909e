-------------------------------- MODULE MCBoot --------------------------------
(***************************************************************************)
(* Boot on machines of up to thirteen frames in three regions, more and    *)
(* fewer than the ten that a heap of four pages needs with its tables of   *)
(* two entries, and with up to two slots of two functions.                 *)
(***************************************************************************)
EXTENDS Boot

At(s, e, u) == [start |-> s, end |-> e, usable |-> u]

MCMemoryMaps ==
  {<<At(0, a, u), At(a, b, v), At(b, e, w)>> :
     a \in {4}, b \in {6, 9}, e \in {10, 13}, u, v, w \in BOOLEAN}
=============================================================================
