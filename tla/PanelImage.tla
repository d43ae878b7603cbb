----------------------------- MODULE PanelImage -----------------------------
(***************************************************************************)
(* framebuffer/src/palette.rs and the exports of framebuffer/src/lib.rs: the *)
(* gateway's store of palette indices, two to a byte, and the pictures made  *)
(* of a framebuffer.  The panel is mounted upside down, so pictures are      *)
(* turned by 180 degrees.  Headers and the expansion to 8 bits a channel     *)
(* are left out: a picture is its pixels' colours in the order of display.   *)
(***************************************************************************)
EXTENDS Framebuffer, SequencesExt

CONSTANTS
  GREEN, BLUE,       \* 64 and 32: values of a colour's components
  PALETTE,           \* the colours of the indices 0, 1, ...
  MISC_INDEX,
  MATCH_THRESHOLD,
  CHUNK_PX           \* pixels of one write of the BMP response

ASSUME ImageConstants ==
  /\ MISC_INDEX \in Nat \ {0} /\ MATCH_THRESHOLD \in Nat
  /\ GREEN \in Nat \ {0} /\ BLUE \in Nat \ {0}
  /\ PALETTE \in [0..MISC_INDEX -> 0..(U16 - 1)] /\ PALETTE[0] = 0  \* black first
  /\ (WIDTH * HEIGHT) % 2 = 0
  /\ CHUNK_PX \in Nat \ {0} /\ CHUNK_PX % 2 = 0

PIXELS == WIDTH * HEIGHT
PlaceOf(idx) == <<idx % WIDTH, idx \div WIDTH>>

-----------------------------------------------------------------------------
(* Palette. *)

Unpack(px) == <<px \div (GREEN * BLUE), (px \div BLUE) % GREEN, px % BLUE>>
Square(n) == n * n
Distance(a, b) ==
  LET p == Unpack(a)
      q == Unpack(b)
  IN  Square(p[1] - q[1]) + Square(p[2] - q[2]) + Square(p[3] - q[3])

\* The first of the nearest entries, the misc slot aside, if it is near enough.
Nearest(px) ==
  LET d(i) == Distance(px, PALETTE[i])
      best == CHOOSE i \in 0..(MISC_INDEX - 1) :
                \A j \in 0..(MISC_INDEX - 1) : d(i) < d(j) \/ (d(i) = d(j) /\ i <= j)
  IN  IF d(best) <= MATCH_THRESHOLD THEN best ELSE MISC_INDEX

-----------------------------------------------------------------------------
(* Palette4Store: the low nibble is the even pixel. *)

NewStore == [i \in 0..(PIXELS \div 2 - 1) |-> [lo |-> 0, hi |-> 0]]

IndexAt(bytes, idx) ==
  IF idx % 2 = 0 THEN bytes[idx \div 2].lo ELSE bytes[idx \div 2].hi

SetPixel(bytes, idx, px) ==
  IF idx % 2 = 0 THEN [bytes EXCEPT ![idx \div 2].lo = Nearest(px)]
  ELSE [bytes EXCEPT ![idx \div 2].hi = Nearest(px)]

-----------------------------------------------------------------------------
(* Exports. *)

\* Mutant: the left pixel goes to the low nibble, as in the store.
Bmp4PixelsLow(bytes, start, count) ==
  [o \in 1..(count \div 2) |->
     LET i == start + 2 * (o - 1)
     IN  [lo |-> IndexAt(bytes, PIXELS - 1 - i), hi |-> IndexAt(bytes, PIXELS - 2 - i)]]

\* bmp4_pixels: in a BMP the high nibble is the left pixel.
Bmp4Pixels(bytes, start, count) ==
  [o \in 1..(count \div 2) |->
     LET i == start + 2 * (o - 1)
     IN  [hi |-> IndexAt(bytes, PIXELS - 1 - i), lo |-> IndexAt(bytes, PIXELS - 2 - i)]]

\* BmpResponse::write_content: the body, written in chunks.
BmpBody(bytes) ==
  LET n == (PIXELS + CHUNK_PX - 1) \div CHUNK_PX
      start(k) == (k - 1) * CHUNK_PX
      count(k) == IF PIXELS - start(k) < CHUNK_PX THEN PIXELS - start(k) ELSE CHUNK_PX
  IN  FlattenSeq([k \in 1..n |-> Bmp4Pixels(bytes, start(k), count(k))])

\* What a browser makes of the body.
BmpPicture(bytes) ==
  LET body == BmpBody(bytes)
  IN  [k \in 0..(PIXELS - 1) |->
         PALETTE[IF k % 2 = 0 THEN body[k \div 2 + 1].hi ELSE body[k \div 2 + 1].lo]]

\* write_rgba8: the viewer's picture.
RgbaPicture(f) == [k \in 0..(PIXELS - 1) |-> f.pixels[PlaceOf(PIXELS - 1 - k)]]
=============================================================================
