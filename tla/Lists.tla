-------------------------------- MODULE Lists --------------------------------
(***************************************************************************)
(* What the models use of Rust's vectors, slices and iterators, over       *)
(* sequences.  The definitions are short and of first order, which is what *)
(* the proofs about them need.                                             *)
(***************************************************************************)
EXTENDS Integers, Sequences

(* Iterator::flat_map: the sequences of a sequence, one after the other. *)
Flatten(seqs) ==
  LET upTo[n \in 0 .. Len(seqs)] == IF n = 0 THEN << >> ELSE upTo[n - 1] \o seqs[n]
  IN  upTo[Len(seqs)]

(* Vec::retain and Iterator::filter: the elements at the given places, in  *)
(* their order.                                                            *)
SelectAt(s, places) ==
  Flatten([i \in DOMAIN s |-> IF i \in places THEN <<s[i]>> ELSE << >>])

(* str::starts_with *)
starts_with(s, prefix) ==
  Len(prefix) <= Len(s) /\ \A i \in DOMAIN prefix : s[i] = prefix[i]

(* The sequences of up to n elements of S. *)
SequencesUpTo(S, n) == UNION {[1 .. k -> S] : k \in 0 .. n}
=============================================================================
