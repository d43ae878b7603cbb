------------------------------ MODULE Display ------------------------------
(***************************************************************************)
(* The end of a reader: every bus word goes to the glyph decoder and to the  *)
(* framebuffer, and a settled row is flushed, as in the ESP32's              *)
(* Pipeline::feed.                                                          *)
(*                                                                         *)
(* The words are those of a panel driver that may stop in the middle of      *)
(* anything, or whose words got lost: a command can come at any time, and an *)
(* address or a window may stay incomplete or overrun.                       *)
(***************************************************************************)
EXTENDS Framebuffer, GlyphDecoder

CONSTANTS
  ColParams, RowParams,   \* environment: the addresses, as four parameter words
  Inks                    \* environment: per line, the colours painted there

ASSUME DisplayConstants ==
  /\ ColParams \cup RowParams \subseteq [1..4 -> 0..(BYTE - 1)]
  /\ Inks \in [0..(HEIGHT - 1) -> SUBSET (0..(U16 - 1)) \ {{}}]
  \* Windows end on the panel.
  /\ \A p \in ColParams : Pair(p[3], p[4]) < WIDTH

VARIABLES
  fb, gd,
  hashed,    \* history: the window the last word completed
  screen,    \* history: per row and column, the matched glyph last painted there
  crowded    \* history: the rows in which a glyph found no room

vars == <<fb, gd, hashed, screen, crowded>>

NothingHashed == [done |-> FALSE]
Columns == 0..(WIDTH - 1)

Init ==
  /\ \E c \in Inks[0] : fb = NewFramebuffer(c)
  /\ gd = NewDecoder
  /\ hashed = NothingHashed
  /\ screen = [r \in ROWS |-> [x \in Columns |-> NothingHashed]]
  /\ crowded = {}

Command(c) ==
  /\ fb' = FbCommand(fb, c)
  /\ gd' = GlyphCommand(gd, c)
  /\ hashed' = NothingHashed
  /\ UNCHANGED <<screen, crowded>>

\* What the driver may send next as data.
Words ==
  LET n == Len(fb.cmd.buf)
      Next4(params) ==
        {p[n + 1] : p \in {q \in params : \A i \in 1..n : q[i] = fb.cmd.buf[i]}}
  IN  CASE TakesPixels(fb) -> Inks[fb.cursor_row % HEIGHT]
        [] TakesAddress(fb) -> Next4(IF fb.cmd.kind = "2A" THEN ColParams ELSE RowParams)
        [] OTHER -> {0}

Painted(r, data) ==
  LET found == IF Completes(gd, data) THEN Match(PushPixel(gd.pending, data)) ELSE {}
  IN  {m.slot : m \in {k \in found : k.row = r}}

Data(data) ==
  /\ fb' = FbData(fb, data)
  /\ gd' = GlyphData(gd, data)
  /\ hashed' = IF Completes(gd, data)
               THEN [done |-> TRUE, win |-> PushPixel(gd.pending, data)]
               ELSE NothingHashed
  /\ screen' = [r \in ROWS |-> [x \in Columns |->
       LET on == {s \in Painted(r, data) : s.x <= x /\ x < s.x + s.w}
       IN  IF on = {} THEN screen[r][x] ELSE CHOOSE s \in on : TRUE]]
  /\ crowded' = crowded \cup
       {r \in ROWS : \E s \in Painted(r, data) :
          /\ Len(gd'.rows[r].digits) = MAX_DIGITS_PER_ROW
          /\ \A i \in DOMAIN gd'.rows[r].digits : gd'.rows[r].digits[i] # s}

\* A LOG frame of the firmware.
FlushEach ==
  /\ \E r \in ROWS : gd.rows[r].dirty
  /\ gd' = Flushed(gd)
  /\ hashed' = NothingHashed
  /\ UNCHANGED <<fb, screen, crowded>>

Next ==
  \/ \E c \in Commands : Command(c)
  \/ \E w \in Words : Data(w)
  \/ FlushEach

Spec == Init /\ [][Next]_vars

-----------------------------------------------------------------------------
(* Properties. *)

TypeOK ==
  /\ fb.pixels \in [Places -> 0..(U16 - 1)]
  /\ fb.cursor_col \in 0..(U16 - 1) /\ fb.cursor_row \in 0..(U16 - 1)
  /\ {fb.cmd.kind, gd.cmd.kind} \subseteq Commands
  /\ Len(fb.cmd.buf) < 4 /\ gd.cmd = fb.cmd
  /\ gd.pending.open => gd.pending.pixel_count < gd.pending.w * gd.pending.h
  /\ \A r \in ROWS : Len(gd.rows[r].digits) <= MAX_DIGITS_PER_ROW

\* Where each run ends.
Ends(runs) ==
  LET end[n \in 0..Len(runs)] == IF n = 0 THEN 0 ELSE end[n - 1] + runs[n]
  IN  end

\* Pixel k of a shape differs from its first: the runs take turns.
Foreground(runs, k) ==
  \E i \in DOMAIN runs : i % 2 = 0 /\ Ends(runs)[i - 1] <= k /\ k < Ends(runs)[i]

\* What the decoder hashed is what the framebuffer shows: a completed window's
\* shape is that of the panel's pixels in it, whatever addresses, cut windows
\* and continuations came before (decoder lib.rs 88-117, 224-279, 362-370;
\* framebuffer lib.rs 174-220).
HashedIsShown ==
  hashed.done =>
    LET p == hashed.win
        Shown(k) == fb.pixels[<<p.x + (k % p.w), p.y + (k \div p.w)>>]
    IN  /\ Ends(Hash(p))[Len(Hash(p))] = p.w * p.h
        /\ p.x + p.w <= WIDTH /\ p.y + p.h <= HEIGHT =>
             \A k \in 0..(p.w * p.h - 1) :
               (Shown(k) # Shown(0)) <=> Foreground(Hash(p), k)

\* A row's slots, left to right, are matched glyphs of which no column was painted
\* over since, and all of them unless one found no room (decoder lib.rs 129-173).
Visible(r) ==
  {s \in {screen[r][x] : x \in Columns} \ {NothingHashed} :
     \A x \in s.x..(s.x + s.w - 1) : screen[r][x] = s}
SlotsAreVisible ==
  \A r \in ROWS :
    LET digits == gd.rows[r].digits
        slots == {digits[i] : i \in DOMAIN digits}
    IN  /\ slots \subseteq Visible(r)
        /\ r \notin crowded => Visible(r) \subseteq slots
        /\ \A i, j \in DOMAIN digits : i < j => digits[i].x + digits[i].w <= digits[j].x

\* A row whose value changes is dirty after the step, so a clean row's value is
\* the one last flushed (decoder lib.rs 171-172, 288-319).
ChangeIsDirty ==
  [][\A r \in ROWS :
       Value(gd'.rows[r]) # Value(gd.rows[r]) => gd'.rows[r].dirty]_vars
=============================================================================
