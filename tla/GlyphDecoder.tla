---------------------------- MODULE GlyphDecoder ----------------------------
(***************************************************************************)
(* decoder/src/lib.rs: glyph windows matched against templates and placed in *)
(* the panel's rows.                                                        *)
(*                                                                         *)
(* The hash of a window is the sequence of run lengths it is computed from:  *)
(* hashes are taken to collide for no two shapes of a size.                 *)
(***************************************************************************)
EXTENDS PanelBus, FiniteSets, SequencesExt

CONSTANTS
  TEMPLATES,           \* [w, h, shape, label]
  ROWS,                \* the rows, [x_min, x_max, y_min, y_max]
  MAX_DIGITS_PER_ROW,
  Blank                \* the label of erasing glyphs

ASSUME DecoderConstants ==
  /\ \A s, t \in TEMPLATES : s.w = t.w /\ s.h = t.h /\ s.shape = t.shape => s = t
  /\ ROWS \subseteq [x_min : Nat, x_max : Nat, y_min : Nat, y_max : Nat]
  /\ \A r, s \in ROWS : r # s => \/ r.x_max <= s.x_min \/ s.x_max <= r.x_min
                                 \/ r.y_max <= s.y_min \/ s.y_max <= r.y_min
  \* The registers are 0 before the first address: a template one
  \* pixel wide or high would match what the panel paints in its default window.
  /\ \A t \in TEMPLATES : t.w > 1 /\ t.h > 1
  /\ MAX_DIGITS_PER_ROW \in Nat \ {0}

NoWindow == [open |-> FALSE]
EmptyRow == [digits |-> <<>>, dirty |-> FALSE]

NewDecoder ==
  [win |-> Window(0, 0, 0, 0), cmd |-> NoCmd, pending |-> NoWindow,
   rows |-> [r \in ROWS |-> EmptyRow]]

Saturating(a, b) == IF a > b THEN a - b ELSE 0
DispX(x, w) == Saturating(WIDTH, Wrap(x + w))
DispY(y, h) == Saturating(HEIGHT, Wrap(y + h))

RowsFor(x, y) ==
  {r \in ROWS : x >= r.x_min /\ x < r.x_max /\ y >= r.y_min /\ y < r.y_max}

-----------------------------------------------------------------------------
(* A window's pixels. *)

\* Opened for a known size in a known row.
OpenWindow(win) ==
  LET w == Wrap(win.col_end - win.col_start + 1)
      h == Wrap(win.row_end - win.row_start + 1)
  IN  IF /\ win.col_start <= win.col_end /\ win.row_start <= win.row_end
         /\ \E t \in TEMPLATES : t.w = w /\ t.h = h
         /\ RowsFor(DispX(win.col_start, w), DispY(win.row_start, h)) # {}
      THEN [open |-> TRUE, x |-> win.col_start, y |-> win.row_start, w |-> w, h |-> h,
            bg |-> 0, shape |-> <<>>, run_len |-> 0, run_is_fg |-> FALSE, pixel_count |-> 0]
      ELSE NoWindow

PushPixel(p, pixel) ==
  LET first == p.pixel_count = 0
      is_fg == ~first /\ pixel # p.bg
      counted == [p EXCEPT !.pixel_count = @ + 1, !.bg = IF first THEN pixel ELSE @]
  IN  IF is_fg = p.run_is_fg
      THEN [counted EXCEPT !.run_len = @ + 1]
      ELSE [counted EXCEPT !.shape = Append(@, p.run_len), !.run_len = 1, !.run_is_fg = is_fg]

\* Mutant: a window is full one pixel late.
FullLate(p) == p.pixel_count > p.w * p.h

Full(p) == p.pixel_count = p.w * p.h
Hash(p) == Append(p.shape, p.run_len)

-----------------------------------------------------------------------------
(* The rows. *)

Slot(x, w, label) == [x |-> x, w |-> w, label |-> label]
\* Mutant: glyphs that meet at a column do not overlap.
OverlapsInside(s, t) == s.x + 1 < t.x + t.w /\ t.x + 1 < s.x + s.w

Overlaps(s, t) == s.x < t.x + t.w /\ t.x < s.x + s.w

\* The slots the glyph does not overlap.
Kept(digits, new) ==
  LET kept[n \in 0..Len(digits)] ==
        IF n = 0 THEN <<>>
        ELSE IF Overlaps(digits[n], new) THEN kept[n - 1] ELSE Append(kept[n - 1], digits[n])
  IN  kept[Len(digits)]

\* Before the first slot that is not left of it.
Position(digits, new) ==
  Min({n \in 1..(Len(digits) + 1) : n = Len(digits) + 1 \/ digits[n].x >= new.x})

\* Mutant: a glyph in the place of another is no change.
InsertInPlaceClean(row, new) ==
  LET kept == Kept(row.digits, new)
  IN  [digits |-> InsertAt(kept, Position(kept, new), new),
       dirty |-> row.dirty \/ Len(kept) = Len(row.digits)]

\* The slots the glyph overlaps go; it comes in the order of x if there is room.
Insert(row, new) ==
  LET kept == Kept(row.digits, new)
  IN  [digits |-> IF Len(kept) < MAX_DIGITS_PER_ROW
                  THEN InsertAt(kept, Position(kept, new), new) ELSE kept,
       dirty |-> TRUE]

\* The glyph a full window matches, and its row: none if no template does.
Match(p) ==
  {[row |-> r, slot |-> Slot(DispX(p.x, p.w), p.w, t.label)] :
     t \in {u \in TEMPLATES : u.w = p.w /\ u.h = p.h /\ u.shape = Hash(p)},
     r \in RowsFor(DispX(p.x, p.w), DispY(p.y, p.h))}

\* Slots left of the last blank are stale.
Value(row) ==
  LET last == {i \in DOMAIN row.digits : row.digits[i].label = Blank}
      start == IF last = {} THEN 1 ELSE 1 + CHOOSE i \in last : \A j \in last : j <= i
  IN  [i \in 1..(Len(row.digits) - start + 1) |-> row.digits[start + i - 1].label]

-----------------------------------------------------------------------------
(* feed and flush_each. *)

\* A command cuts the window of a MEMORY_WRITE short.
FinaliseCmd(gd) == IF TakesPixels(gd) THEN [gd EXCEPT !.pending = NoWindow] ELSE gd

GlyphCommand(gd, c) ==
  [FinaliseCmd(gd) EXCEPT !.cmd = Begun(c),
                          !.pending = IF c = "2C" THEN OpenWindow(gd.win) ELSE @]

Completes(gd, data) ==
  TakesPixels(gd) /\ gd.pending.open /\ Full(PushPixel(gd.pending, data))

GlyphPixel(gd, data) ==
  IF ~gd.pending.open THEN gd
  ELSE IF ~Completes(gd, data) THEN [gd EXCEPT !.pending = PushPixel(gd.pending, data)]
  ELSE LET found == Match(PushPixel(gd.pending, data))
       IN  [gd EXCEPT !.pending = NoWindow,
                      !.rows = [r \in ROWS |->
                        IF \E m \in found : m.row = r
                        THEN Insert(@[r], (CHOOSE m \in found : m.row = r).slot)
                        ELSE @[r]]]

GlyphData(gd, data) ==
  IF TakesAddress(gd) THEN Address(gd, data)
  ELSE IF TakesPixels(gd) THEN GlyphPixel(gd, data)
  ELSE gd

Flushed(gd) == [gd EXCEPT !.rows = [r \in ROWS |-> [@[r] EXCEPT !.dirty = FALSE]]]
=============================================================================
