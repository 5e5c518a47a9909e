---------------------------------- MODULE Vga ----------------------------------
(***************************************************************************)
(* vga_buffer.rs: the Writer, as operators on its state.  It writes into   *)
(* the last row of the screen only and scrolls.  A character is a member   *)
(* of Printable, a newline, or a byte that write_string shows as a box.    *)
(***************************************************************************)
EXTENDS Integers, Sequences

CONSTANTS
  BUFFER_HEIGHT,
  BUFFER_WIDTH,
  Printable      \* the bytes 0x20 to 0x7e

ASSUME VgaAssumption == BUFFER_HEIGHT \in Nat \ {0} /\ BUFFER_WIDTH \in Nat \ {0}

Blank == "blank"
Old == "old"           \* what the boot loader left on the screen
Newline == "newline"
Box == "box"           \* the byte 0xfe

Rows == 1 .. BUFFER_HEIGHT
Columns == 1 .. BUFFER_WIDTH

(* WRITER, when it is first used. *)
NewWriter == [column_position |-> 0,
              chars |-> [row \in Rows |-> [col \in Columns |-> Old]]]

clear_row == [col \in Columns |-> Blank]

(* Every row moves up by one; the first is lost. *)
new_line(w) ==
  [column_position |-> 0,
   chars |-> [row \in Rows |-> IF row < BUFFER_HEIGHT THEN w.chars[row + 1] ELSE clear_row]]

LineFull(w) == w.column_position >= BUFFER_WIDTH

\* mutant: a full line is overwritten from its start
Wrapped_InPlace(w) == IF LineFull(w) THEN [w EXCEPT !.column_position = 0] ELSE w

(* The writer, with room for one more character. *)
Wrapped(w) == IF LineFull(w) THEN new_line(w) ELSE w

write_byte(w, byte) ==
  IF byte = Newline THEN new_line(w)
  ELSE LET v == Wrapped(w)
           col == v.column_position + 1
       IN  [column_position |-> col,
            chars |-> [v.chars EXCEPT ![BUFFER_HEIGHT] = [@ EXCEPT ![col] = byte]]]

(* write_string: the byte that is written for a byte. *)
Glyph(byte) == IF byte \in Printable \cup {Newline} THEN byte ELSE Box

-----------------------------------------------------------------------------
(* The lines of a text, on paper without end: a newline ends a line, and so *)
(* does a character that has no room.                                       *)
Printed(lines, byte) ==
  IF byte = Newline THEN Append(lines, << >>)
  ELSE IF Len(lines[Len(lines)]) = BUFFER_WIDTH THEN Append(lines, <<byte>>)
  ELSE [lines EXCEPT ![Len(lines)] = Append(@, byte)]

Paper(text) ==
  LET paper[i \in 0 .. Len(text)] ==
        IF i = 0 THEN << << >> >> ELSE Printed(paper[i - 1], text[i])
  IN  paper[Len(text)]

(* What a cell shows when the text is on the paper: its last lines, the     *)
(* last one at the bottom; the first line is not cleared before it is used. *)
Cell(lines, row, col) ==
  LET n == Len(lines) - BUFFER_HEIGHT + row
  IN  IF n < 1 THEN Old
      ELSE IF col <= Len(lines[n]) THEN lines[n][col]
      ELSE IF n = 1 THEN Old ELSE Blank
=============================================================================
