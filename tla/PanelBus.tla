------------------------------ MODULE PanelBus ------------------------------
(***************************************************************************)
(* The 8080 bus of the panel as the readers see it: a stream of words, each *)
(* a command or data.  The framebuffer and the glyph decoder frame it       *)
(* alike, each with its own copy of the window registers.                   *)
(***************************************************************************)
EXTENDS Integers, Sequences

CONSTANTS
  BYTE,            \* 256
  WIDTH, HEIGHT    \* of the panel

ASSUME PanelConstants ==
  /\ BYTE \in Nat /\ BYTE > 1
  /\ WIDTH \in 1..(BYTE * BYTE - 1) /\ HEIGHT \in 1..(BYTE * BYTE - 1)

U16 == BYTE * BYTE
Wrap(n) == n % U16

\* SET_COLUMN_ADDRESS, SET_ROW_ADDRESS, MEMORY_WRITE, MEMORY_WRITE_CONTINUE and
\* every other command.
Commands == {"2A", "2B", "2C", "3C", "other"}
NoCmd == [kind |-> "other", buf |-> <<>>]
Begun(c) == [kind |-> IF c = "3C" THEN "2C" ELSE c, buf |-> <<>>]

Window(cs, ce, rs, re) ==
  [col_start |-> cs, col_end |-> ce, row_start |-> rs, row_end |-> re]

Pair(hi, lo) == hi * BYTE + lo

\* The word after an address command; the fourth sets the registers.  More are
\* ignored, like the words after any other command.
Address(s, data) ==
  LET buf == Append(s.cmd.buf, data % BYTE)
      from == Pair(buf[1], buf[2])
      to == Pair(buf[3], buf[4])
  IN  IF Len(buf) < 4 THEN [s EXCEPT !.cmd.buf = buf]
      ELSE IF s.cmd.kind = "2A"
      THEN [s EXCEPT !.cmd = NoCmd, !.win.col_start = from, !.win.col_end = to]
      ELSE [s EXCEPT !.cmd = NoCmd, !.win.row_start = from, !.win.row_end = to]

TakesAddress(s) == s.cmd.kind \in {"2A", "2B"}
TakesPixels(s) == s.cmd.kind = "2C"
=============================================================================
