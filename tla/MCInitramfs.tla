----------------------------- MODULE MCInitramfs -----------------------------
(***************************************************************************)
(* Every archive of up to two entries and six blocks of two bytes: entries *)
(* that are empty, exactly one block and a block and a half, cut at every  *)
(* byte, with names that collide, names agents use and invalid names; data *)
(* that looks like the header of a file, and data that looks like the end. *)
(***************************************************************************)
EXTENDS Initramfs

MCFileData == [at : 0 .. MaxArchive, size : Sizes]
MCMaxArchive == 6 * BLOCK
MCFileNames == {<<"a">>, <<"b">>}
MCEntryNames == {<<"a">>, <<"b">>, NotUtf8}
MCBodies == {[null |-> FALSE, name |-> <<"b">>, size |-> 2, regular |-> TRUE],
             [null |-> TRUE, name |-> <<"a">>, size |-> 0, regular |-> TRUE]}
MCWriteData == {[at |-> 0, size |-> 0], [at |-> 1, size |-> 3]}
=============================================================================
