----------------------------- MODULE MCInterrupts -----------------------------
(***************************************************************************)
(* Interrupts on a screen of two rows and two columns: prints that end a   *)
(* line, that fill more than one and that hold a byte without a glyph, so  *)
(* that an interrupt can come in the middle of one; keys with a character, *)
(* with a newline and with a name.                                         *)
(***************************************************************************)
EXTENDS Interrupts

MCTexts == {<<"a", Newline>>, <<"b", "c", "utf8">>}
MCKeys == {<<"k">>, <<Newline>>, <<"F", "b">>}
=============================================================================
