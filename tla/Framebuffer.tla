---------------------------- MODULE Framebuffer ----------------------------
(***************************************************************************)
(* framebuffer/src/lib.rs: the panel's memory rebuilt from its bus.  A store *)
(* is a function from pixel places to colours; the palette that quantises    *)
(* them is left out.                                                        *)
(***************************************************************************)
EXTENDS PanelBus

Places == (0..(WIDTH - 1)) \X (0..(HEIGHT - 1))

NewFramebuffer(colour) ==
  [pixels |-> [p \in Places |-> colour],
   win |-> Window(0, WIDTH - 1, 0, HEIGHT - 1),
   cursor_col |-> 0, cursor_row |-> 0,
   cmd |-> NoCmd]

FbCommand(fb, c) ==
  IF c = "2C"
  THEN [fb EXCEPT !.cmd = Begun(c), !.cursor_col = fb.win.col_start,
                  !.cursor_row = fb.win.row_start]
  ELSE [fb EXCEPT !.cmd = Begun(c)]

\* Mutant: the cursor turns at the window's last column instead of behind it.
AdvanceEarly(fb) ==
  LET col == Wrap(fb.cursor_col + 1)
      row == Wrap(fb.cursor_row + 1)
  IN  IF col < fb.win.col_end THEN [fb EXCEPT !.cursor_col = col]
      ELSE [fb EXCEPT !.cursor_col = fb.win.col_start,
                      !.cursor_row = IF row > fb.win.row_end THEN fb.win.row_start ELSE row]

\* Column, then row, then back to the first row, in 16 bits.
Advance(fb) ==
  LET col == Wrap(fb.cursor_col + 1)
      row == Wrap(fb.cursor_row + 1)
  IN  IF col <= fb.win.col_end THEN [fb EXCEPT !.cursor_col = col]
      ELSE [fb EXCEPT !.cursor_col = fb.win.col_start,
                      !.cursor_row = IF row > fb.win.row_end THEN fb.win.row_start ELSE row]

\* Pixels beyond the panel move the cursor and are not stored.
WritePixel(fb, px) ==
  LET place == <<fb.cursor_col, fb.cursor_row>>
  IN  Advance(IF place \in Places THEN [fb EXCEPT !.pixels[place] = px] ELSE fb)

FbData(fb, data) ==
  IF TakesAddress(fb) THEN Address(fb, data)
  ELSE IF TakesPixels(fb) THEN WritePixel(fb, data)
  ELSE fb
=============================================================================
