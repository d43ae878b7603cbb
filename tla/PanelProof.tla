----------------------------- MODULE PanelProof -----------------------------
(***************************************************************************)
(* Proofs about what reads the panel's bus, for every panel, palette,        *)
(* template set and row layout.                                             *)
(*                                                                         *)
(* Display: the types, that the rows show what the screen does               *)
(* (SlotsAreVisible), that a changed row is dirty (ChangeIsDirty), and that  *)
(* what is hashed is what the panel shows (HashedIsShown).  Viewer: that it  *)
(* catches up with each command (CatchesUp), that a dumped window is what    *)
(* the panel shows there (DumpIsShown), and that the browser's picture is    *)
(* the viewer's (PicturesAgree).                                            *)
(*                                                                         *)
(* The rows.  A row's slots are in order and do not overlap.  Taking the     *)
(* overlapped ones out keeps that (KeptIs, by induction over the slots), the  *)
(* new glyph's position parts the rest (PositionParts), so the insertion is   *)
(* in order again and holds exactly the glyphs it should (InsertIs).          *)
(* Painting a glyph hides exactly what it overlaps (PaintShows).  A window    *)
(* matches one glyph in one row at most, on the panel (MatchIs), so a word    *)
(* changes a row and its line of the screen alike (GdDataOK, InsertShows).    *)
(*                                                                         *)
(* The hashes.  An open window is the one the framebuffer paints: the        *)
(* registers agree (RegsOK), and the cursor is at the window's next pixel     *)
(* (PaintedInTurn).  Each pixel gets a place of its own (PlacesDiffer) and    *)
(* joins a run of its kind (PushRuns), so the runs say what the panel shows   *)
(* (PixelShown).                                                            *)
(*                                                                         *)
(* The viewer.  The panel is the viewer's framebuffer with the transaction    *)
(* in flight fed to it, one word more with each word (FedOneMore).  What the  *)
(* framebuffer is in the middle of is told by that transaction (FramedIs),    *)
(* the registers heard agree (RegistersHeard), and a write has its pixels at  *)
(* their places until the window is full (SpotWritten, Written).  The store   *)
(* holds each pixel's index (SetPixelIs), and the chunks of the response are  *)
(* the whole of it in order (BodyIs).                                        *)
(***************************************************************************)
EXTENDS Display, Viewer, SequenceTheorems, WellFoundedInduction, TLAPS

-----------------------------------------------------------------------------
\* A number below the base is its own remainder.
LEMMA ModSmall ==
  ASSUME NEW b \in Nat \ {0}, NEW n \in 0..(b - 1)
  PROVE  n % b = n
OBVIOUS

(* Induction over the positions of a sequence, from the least number.       *)

\* A set of numbers that is not empty has a least one.
LEMMA LeastNumber ==
  ASSUME NEW T \in SUBSET Nat, T # {}
  PROVE  \E m \in T : \A k \in T : m <= k
<1>1. PICK m \in T : \A k \in T : ~(<<k, m>> \in OpToRel(<, Nat))
  BY NatLessThanWellFounded, WFMin
<1>2. ASSUME NEW k \in T PROVE m <= k
  <2>1. m \in Nat /\ k \in Nat
    OBVIOUS
  <2>2. ~(k < m)
    <3>1. k < m => <<k, m>> \in OpToRel(<, Nat)
      BY <2>1, Zenon DEF OpToRel
    <3>. QED BY <1>1, <3>1
  <2>. QED BY <2>1, <2>2
<1>. QED BY <1>2

\* What holds at 0 and is handed on from each number to the next holds up to n.
LEMMA UpTo ==
  ASSUME NEW n \in Nat, NEW P, 0 \in P,
         \A i \in 0..(n - 1) : i \in P => i + 1 \in P
  PROVE  \A i \in 0..n : i \in P
<1> DEFINE Bad == {i \in 0..n : i \notin P}
<1> SUFFICES ASSUME Bad # {} PROVE FALSE
  OBVIOUS
<1>1. Bad \in SUBSET Nat
  OBVIOUS
<1>2. PICK b \in Bad : \A y \in Bad : b <= y
  BY <1>1, LeastNumber
<1>3. b \in 0..n /\ b \notin P /\ b # 0
  BY <1>2
<1>4. b - 1 \in 0..(n - 1) /\ b - 1 \in 0..n
  BY <1>3
<1>5. b - 1 \in P
  BY <1>2, <1>4
<1>6. (b - 1) + 1 = b
  BY <1>3
<1>. QED BY <1>3, <1>4, <1>5, <1>6

-----------------------------------------------------------------------------
(* The slots of a row. *)

Labels == {t.label : t \in TEMPLATES}
Slots ==
  {s \in [x : 0..WIDTH, w : 1..WIDTH, label : Labels] : s.x + s.w <= WIDTH}

LeftOf(s, t) == s.x + s.w <= t.x
InOrder(digits) == \A i, j \in 1..Len(digits) : i < j => LeftOf(digits[i], digits[j])
Among(digits, s) == \E i \in 1..Len(digits) : digits[i] = s

LEMMA SlotType ==
  ASSUME NEW s \in Slots
  PROVE  s.x \in 0..WIDTH /\ s.w \in 1..WIDTH /\ s.x + s.w <= WIDTH /\ WIDTH \in Nat
BY PanelConstants DEF Slots

LEMMA SlotIsNat ==
  ASSUME NEW s \in Slots
  PROVE  s.x \in Nat /\ s.w \in Nat \ {0}
<1>1. PICK x \in 0..WIDTH, w \in 1..WIDTH : s.x = x /\ s.w = w
  BY SlotType, Zenon
<1>2. x \in Nat /\ w \in Nat \ {0}
  OBVIOUS
<1>. QED BY <1>1, <1>2, Zenon

\* One turn of the removal.
Keep(digits, new, kept, n) ==
  IF Overlaps(digits[n], new) THEN kept ELSE Append(kept, digits[n])

\* What is kept of the first n slots.
KeptOf(digits, new, kept, n) ==
  /\ kept \in Seq(Slots) /\ Len(kept) <= n
  /\ \A s : Among(kept, s) <=>
       \E i \in 1..n : digits[i] = s /\ ~Overlaps(digits[i], new)
  /\ InOrder(kept)

LEMMA KeepKeeps ==
  ASSUME NEW digits \in Seq(Slots), InOrder(digits), NEW new \in Slots,
         NEW n \in 0..(Len(digits) - 1), NEW kept, KeptOf(digits, new, kept, n)
  PROVE  KeptOf(digits, new, Keep(digits, new, kept, n + 1), n + 1)
<1>1. n + 1 \in 1..Len(digits) /\ digits[n + 1] \in Slots /\ n \in Nat
  OBVIOUS
<1>2. kept \in Seq(Slots) /\ Len(kept) \in Nat /\ Len(kept) <= n
  BY DEF KeptOf
<1>3. \A s : Among(kept, s) <=> \E i \in 1..n : digits[i] = s /\ ~Overlaps(digits[i], new)
  BY DEF KeptOf
<1>4. CASE Overlaps(digits[n + 1], new)
  <2>1. Keep(digits, new, kept, n + 1) = kept
    BY <1>4 DEF Keep
  <2>2. ASSUME NEW s
        PROVE  (\E i \in 1..n : digits[i] = s /\ ~Overlaps(digits[i], new))
                 <=> (\E i \in 1..(n + 1) : digits[i] = s /\ ~Overlaps(digits[i], new))
    <3>1. \A i \in 1..(n + 1) : i \in 1..n \/ i = n + 1
      BY <1>1
    <3>2. \A i \in 1..n : i \in 1..(n + 1)
      BY <1>1
    <3>. QED BY <1>4, <3>1, <3>2
  <2>3. \A s : Among(kept, s) <=>
          \E i \in 1..(n + 1) : digits[i] = s /\ ~Overlaps(digits[i], new)
    BY <1>3, <2>2
  <2>. QED BY <1>1, <1>2, <2>1, <2>3 DEF KeptOf
<1>5. CASE ~Overlaps(digits[n + 1], new)
  <2> DEFINE t == digits[n + 1]
             k == Append(kept, t)
  <2>1. Keep(digits, new, kept, n + 1) = k
    BY <1>5 DEF Keep
  <2>2. /\ k \in Seq(Slots) /\ Len(k) = Len(kept) + 1 /\ k[Len(kept) + 1] = t
        /\ \A i \in 1..Len(kept) : k[i] = kept[i]
    BY <1>1, <1>2
  <2> HIDE DEF k
  <2>3. ASSUME NEW s
        PROVE  Among(k, s) <=>
                 \E i \in 1..(n + 1) : digits[i] = s /\ ~Overlaps(digits[i], new)
    <3>1. Among(k, s) <=> Among(kept, s) \/ s = t
      <4>1. \A i \in 1..Len(k) : i \in 1..Len(kept) \/ i = Len(kept) + 1
        BY <1>2, <2>2
      <4>2. Len(kept) + 1 \in 1..Len(k) /\ \A i \in 1..Len(kept) : i \in 1..Len(k)
        BY <1>2, <2>2
      <4>. QED BY <2>2, <4>1, <4>2 DEF Among
    <3>2. \A i \in 1..(n + 1) : i \in 1..n \/ i = n + 1
      BY <1>1
    <3>3. n + 1 \in 1..(n + 1) /\ \A i \in 1..n : i \in 1..(n + 1)
      BY <1>1
    <3>. QED BY <1>3, <1>5, <3>1, <3>2, <3>3
  <2>4. InOrder(k)
    <3>1. ASSUME NEW i \in 1..Len(kept) PROVE LeftOf(kept[i], t)
      <4>1. Among(kept, kept[i])
        BY DEF Among
      <4>2. PICK j \in 1..n : digits[j] = kept[i]
        BY <1>3, <4>1
      <4>3. j \in 1..Len(digits) /\ j < n + 1
        BY <1>1
      <4>. QED BY <1>1, <4>2, <4>3 DEF InOrder
    <3>2. \A i, j \in 1..Len(kept) : i < j => LeftOf(kept[i], kept[j])
      BY DEF KeptOf, InOrder
    <3>3. ASSUME NEW i \in 1..Len(k), NEW j \in 1..Len(k), i < j PROVE LeftOf(k[i], k[j])
      <4>1. i \in 1..Len(kept) /\ (j \in 1..Len(kept) \/ j = Len(kept) + 1)
        BY <1>2, <2>2, <3>3
      <4>. QED BY <2>2, <3>1, <3>2, <3>3, <4>1
    <3>. QED BY <3>3 DEF InOrder
  <2>5. Len(k) <= n + 1
    BY <1>1, <1>2, <2>2
  <2>. QED BY <2>1, <2>2, <2>3, <2>4, <2>5 DEF KeptOf
<1>. QED BY <1>4, <1>5

\* The slots that stay are those the glyph does not overlap, in their order
\* (decoder lib.rs 147-163).
LEMMA KeptIs ==
  ASSUME NEW digits \in Seq(Slots), InOrder(digits), NEW new \in Slots
  PROVE  KeptOf(digits, new, Kept(digits, new), Len(digits))
<1> DEFINE L == Len(digits)
           Def(f) == f = [n \in 0..L |-> IF n = 0 THEN <<>>
                            ELSE IF Overlaps(digits[n], new) THEN f[n - 1]
                            ELSE Append(f[n - 1], digits[n])]
           OK(f, m) == /\ f \in [0..m -> Seq(Slots)] /\ f[0] = <<>>
                       /\ \A n \in 1..m : f[n] = Keep(digits, new, f[n - 1], n)
           kept == CHOOSE f : Def(f)
           P == {m \in Nat : \E f : OK(f, m)}
<1>1. L \in Nat /\ \A n \in 1..L : digits[n] \in Slots
  OBVIOUS
<1>2. 0 \in P
  <2> DEFINE f == [n \in 0..0 |-> <<>>]
  <2>1. OK(f, 0)
    OBVIOUS
  <2>. QED BY <2>1
<1>3. ASSUME NEW m \in 0..(L - 1), m \in P PROVE m + 1 \in P
  <2>1. PICK f : OK(f, m)
    BY <1>3
  <2> DEFINE last == Keep(digits, new, f[m], m + 1)
             h == [n \in 0..(m + 1) |-> IF n <= m THEN f[n] ELSE last]
  <2>2. m \in Nat /\ m \in 0..m /\ 0 \in 0..m /\ m + 1 \in 1..L
    BY <1>1
  <2>3. f[m] \in Seq(Slots) /\ last \in Seq(Slots)
    <3>1. f[m] \in Seq(Slots) /\ digits[m + 1] \in Slots
      BY <1>1, <2>1, <2>2
    <3>. QED BY <3>1 DEF Keep
  <2> HIDE DEF last
  <2>4. h \in [0..(m + 1) -> Seq(Slots)] /\ h[0] = <<>>
    BY <2>1, <2>2, <2>3
  <2>5. ASSUME NEW n \in 1..(m + 1) PROVE h[n] = Keep(digits, new, h[n - 1], n)
    <3>1. CASE n <= m
      <4>1. n \in 1..m /\ n - 1 <= m /\ n \in 0..(m + 1) /\ n - 1 \in 0..(m + 1)
        BY <2>2, <3>1
      <4>2. h[n] = f[n] /\ h[n - 1] = f[n - 1]
        BY <3>1, <4>1
      <4>3. f[n] = Keep(digits, new, f[n - 1], n)
        BY <2>1, <4>1
      <4>. QED BY <4>2, <4>3
    <3>2. CASE ~(n <= m)
      <4>1. n = m + 1 /\ n - 1 = m /\ n \in 0..(m + 1) /\ m \in 0..(m + 1)
        BY <2>2, <3>2
      <4>2. h[n] = last /\ h[n - 1] = f[m]
        BY <2>2, <3>2, <4>1
      <4>. QED BY <4>1, <4>2 DEF last
    <3>. QED BY <3>1, <3>2
  <2> HIDE DEF h
  <2>6. OK(h, m + 1)
    BY <2>4, <2>5
  <2>7. \E g : OK(g, m + 1)
    BY <2>6
  <2> HIDE DEF OK
  <2>. QED BY <2>2, <2>7
<1>4. \E f : Def(f)
  <2>1. L \in P
    <3> HIDE DEF P
    <3>1. \A m \in 0..L : m \in P
      BY <1>1, <1>2, <1>3, UpTo
    <3>. QED BY <1>1, <3>1
  <2>2. PICK f : OK(f, L)
    BY <2>1
  <2>3. ASSUME NEW n \in 0..L
        PROVE  f[n] = IF n = 0 THEN <<>>
                      ELSE IF Overlaps(digits[n], new) THEN f[n - 1]
                      ELSE Append(f[n - 1], digits[n])
    <3>1. CASE n = 0
      BY <2>2, <3>1
    <3>2. CASE n # 0
      <4>1. n \in 1..L
        BY <1>1, <3>2
      <4>2. f[n] = Keep(digits, new, f[n - 1], n)
        BY <2>2, <4>1
      <4>. QED BY <3>2, <4>2 DEF Keep
    <3>. QED BY <3>1, <3>2
  <2>4. f \in [0..L -> Seq(Slots)]
    BY <2>2
  <2>5. Def(f)
    BY <2>3, <2>4
  <2>. QED BY <2>5
<1>5. Def(kept)
  BY <1>4
<1>6. Kept(digits, new) = kept[L]
  BY DEF Kept
<1> HIDE DEF kept
<1>7. kept[0] = <<>> /\ \A n \in 1..L : kept[n] = Keep(digits, new, kept[n - 1], n)
  <2>1. ASSUME NEW n \in 0..L
        PROVE  kept[n] = IF n = 0 THEN <<>>
                         ELSE IF Overlaps(digits[n], new) THEN kept[n - 1]
                         ELSE Append(kept[n - 1], digits[n])
    BY <1>5
  <2>2. 0 \in 0..L /\ \A n \in 1..L : n \in 0..L /\ n # 0
    BY <1>1
  <2>. QED BY <2>1, <2>2 DEF Keep
<1> DEFINE Q == {n \in Nat : KeptOf(digits, new, kept[n], n)}
<1>8. 0 \in Q
  <2>1. KeptOf(digits, new, <<>>, 0)
    BY DEF KeptOf, Among, InOrder
  <2>. QED BY <1>7, <2>1
<1>9. ASSUME NEW n \in 0..(L - 1), n \in Q PROVE n + 1 \in Q
  <2>1. n + 1 \in 1..L /\ (n + 1) - 1 = n /\ n + 1 \in Nat
    BY <1>1
  <2>2. kept[n + 1] = Keep(digits, new, kept[n], n + 1)
    BY <1>7, <2>1
  <2>3. KeptOf(digits, new, kept[n + 1], n + 1)
    BY <1>9, <2>2, KeepKeeps
  <2>. QED BY <2>1, <2>3
<1>10. L \in Q
  <2> HIDE DEF Q
  <2>1. \A n \in 0..L : n \in Q
    BY <1>1, <1>8, <1>9, UpTo
  <2>. QED BY <1>1, <2>1
<1>. QED BY <1>6, <1>10

\* A glyph with its slots left and right of it.
Parts(kept, new, p) ==
  /\ p \in 1..(Len(kept) + 1)
  /\ \A i \in 1..Len(kept) : i < p => LeftOf(kept[i], new)
  /\ \A i \in 1..Len(kept) : i >= p => LeftOf(new, kept[i])

\* The glyph's place parts the slots that stay.
LEMMA PositionParts ==
  ASSUME NEW kept \in Seq(Slots), InOrder(kept), NEW new \in Slots,
         \A i \in 1..Len(kept) : ~Overlaps(kept[i], new)
  PROVE  Parts(kept, new, Position(kept, new))
<1> DEFINE L == Len(kept)
           T == {n \in 1..(L + 1) : n = L + 1 \/ kept[n].x >= new.x}
           p == Position(kept, new)
<1>1. L \in Nat /\ \A i \in 1..L : kept[i] \in Slots
  OBVIOUS
<1>2. L + 1 \in T /\ T \in SUBSET Nat
  BY <1>1
<1>3. PICK m \in T : \A k \in T : m <= k
  BY <1>2, LeastNumber
<1>4. p \in T /\ \A k \in T : p <= k
  BY <1>3 DEF Position, Min
<1>5. p \in 1..(L + 1)
  BY <1>4
<1> HIDE DEF p
<1>6. ASSUME NEW i \in 1..L
      PROVE  /\ kept[i].x \in Nat /\ kept[i].w \in Nat \ {0}
             /\ new.x \in Nat /\ new.w \in Nat \ {0}
  <2>1. kept[i] \in Slots
    BY <1>1
  <2>. QED BY <2>1, SlotIsNat, Zenon
<1>7. ASSUME NEW i \in 1..L, i < p PROVE LeftOf(kept[i], new)
  <2>1. i \notin T /\ i \in 1..(L + 1)
    BY <1>1, <1>4, <1>5, <1>7
  <2>2. kept[i].x < new.x
    BY <1>6, <2>1
  <2>3. ~Overlaps(kept[i], new)
    OBVIOUS
  <2>. QED BY <1>6, <2>2, <2>3 DEF Overlaps, LeftOf
<1>8. ASSUME NEW i \in 1..L, i >= p PROVE LeftOf(new, kept[i])
  <2>1. p \in 1..L /\ kept[p].x >= new.x
    BY <1>1, <1>4, <1>5, <1>8
  <2>2. kept[p].x <= kept[i].x
    <3>1. CASE i = p
      BY <1>6, <3>1
    <3>2. CASE i # p
      <4>1. p < i
        BY <1>5, <1>8, <3>2
      <4>2. LeftOf(kept[p], kept[i])
        BY <2>1, <4>1 DEF InOrder
      <4>. QED BY <1>6, <2>1, <4>2 DEF LeftOf
    <3>. QED BY <3>1, <3>2
  <2>3. PICK a \in Nat, b \in Nat, v \in Nat \ {0}, w \in Nat \ {0} :
             a = kept[i].x /\ v = kept[i].w /\ b = new.x /\ w = new.w
    BY <1>6
  <2>4. b <= a
    <3>1. PICK c \in Nat : c = kept[p].x
      BY <1>6, <2>1
    <3>2. c >= b /\ c <= a
      BY <2>1, <2>2, <2>3, <3>1, Zenon
    <3>. QED BY <3>1, <3>2
  <2>5. ~(a < b + w /\ b < a + v)
    BY <2>3, Zenon DEF Overlaps
  <2>6. b + w <= a
    BY <2>4, <2>5
  <2>. QED BY <2>3, <2>6, Zenon DEF LeftOf
<1>. QED BY <1>5, <1>7, <1>8 DEF Parts, p

\* Put in there, it is in order.
LEMMA InsertAtOrder ==
  ASSUME NEW kept \in Seq(Slots), InOrder(kept), NEW new \in Slots, NEW p, Parts(kept, new, p),
         NEW d, d = InsertAt(kept, p, new)
  PROVE  /\ d \in Seq(Slots) /\ Len(d) = Len(kept) + 1 /\ InOrder(d)
         /\ \A s : Among(d, s) <=> Among(kept, s) \/ s = new
<1> DEFINE L == Len(kept)
           a == SubSeq(kept, 1, p - 1)
           b == SubSeq(kept, p, L)
<1>1. L \in Nat /\ p \in 1..(L + 1)
  BY DEF Parts
<1>2. a \in Seq(Slots) /\ Len(a) = p - 1 /\ \A i \in 1..(p - 1) : a[i] = kept[i]
  BY <1>1
<1>3. b \in Seq(Slots) /\ Len(b) = L - p + 1 /\ \A i \in 1..(L - p + 1) : b[i] = kept[p + i - 1]
  BY <1>1
<1>4. d = (a \o <<new>>) \o b
  BY DEF InsertAt
<1> HIDE DEF a, b
<1> DEFINE c == a \o <<new>>
<1>5. c \in Seq(Slots) /\ Len(c) = p /\ c[p] = new /\ \A i \in 1..(p - 1) : c[i] = kept[i]
  <2>1. c \in Seq(Slots) /\ Len(c) = p
    BY <1>1, <1>2
  <2>2. c[p] = new
    BY <1>1, <1>2
  <2>3. \A i \in 1..(p - 1) : c[i] = a[i]
    <3>1. \A i \in 1..(Len(a) + Len(<<new>>)) :
            c[i] = IF i <= Len(a) THEN a[i] ELSE <<new>>[i - Len(a)]
      <4>1. a \in Seq(Slots) /\ <<new>> \in Seq(Slots)
        BY <1>2
      <4>. QED BY <4>1, ConcatProperties, Zenon
    <3>2. Len(a) = p - 1 /\ Len(<<new>>) = 1
      BY <1>2
    <3> HIDE DEF c
    <3>. QED BY <1>1, <3>1, <3>2
  <2>. HIDE DEF c
  <2>. QED BY <1>2, <2>1, <2>2, <2>3
<1> HIDE DEF c
<1>6. d \in Seq(Slots) /\ Len(d) = L + 1
  <2>1. d = c \o b
    BY <1>4 DEF c
  <2>2. c \in Seq(Slots) /\ b \in Seq(Slots) /\ Len(c) = p /\ Len(b) = L - p + 1
    BY <1>3, <1>5
  <2>3. c \o b \in Seq(Slots) /\ Len(c \o b) = Len(c) + Len(b)
    BY <2>2, ConcatProperties, Zenon
  <2>4. Len(d) = p + (L - p + 1)
    BY <2>1, <2>2, <2>3
  <2>5. p + (L - p + 1) = L + 1
    BY <1>1
  <2>. QED BY <2>1, <2>3, <2>4, <2>5
<1>7. /\ d[p] = new /\ \A i \in 1..(p - 1) : d[i] = kept[i]
      /\ \A i \in (p + 1)..(L + 1) : d[i] = kept[i - 1]
  <2>1. d = c \o b
    BY <1>4 DEF c
  <2>2. \A i \in 1..p : d[i] = c[i]
    BY <1>1, <1>3, <1>5, <2>1
  <2>3. ASSUME NEW i \in (p + 1)..(L + 1) PROVE d[i] = kept[i - 1]
    <3>1. i - p \in 1..(L - p + 1) /\ p + (i - p) - 1 = i - 1 /\ i > p
      BY <1>1
    <3>2. d[i] = b[i - p]
      BY <1>1, <1>3, <1>5, <2>1, <3>1
    <3>. QED BY <1>3, <3>1, <3>2
  <2>4. p \in 1..p /\ \A i \in 1..(p - 1) : i \in 1..p
    BY <1>1
  <2>. QED BY <1>5, <2>2, <2>3, <2>4
<1>8. \A s : Among(d, s) <=> Among(kept, s) \/ s = new
  <2>1. ASSUME NEW s, Among(d, s) PROVE Among(kept, s) \/ s = new
    <3>1. PICK i \in 1..(L + 1) : d[i] = s
      BY <1>6, <2>1 DEF Among
    <3>2. CASE i < p
      BY <1>1, <1>7, <3>1, <3>2 DEF Among
    <3>3. CASE i = p
      BY <1>7, <3>1, <3>3
    <3>4. CASE i > p
      <4>1. i - 1 \in 1..L /\ i \in (p + 1)..(L + 1)
        BY <1>1, <3>4
      <4>. QED BY <1>7, <3>1, <4>1 DEF Among
    <3>. QED BY <1>1, <3>2, <3>3, <3>4
  <2>2. ASSUME NEW s, Among(kept, s) PROVE Among(d, s)
    <3>1. PICK i \in 1..L : kept[i] = s
      BY <2>2 DEF Among
    <3>2. CASE i < p
      <4>1. i \in 1..(p - 1) /\ i \in 1..Len(d)
        BY <1>1, <1>6, <3>2
      <4>. QED BY <1>7, <3>1, <4>1 DEF Among
    <3>3. CASE ~(i < p)
      <4>1. i + 1 \in (p + 1)..(L + 1) /\ i + 1 \in 1..Len(d) /\ (i + 1) - 1 = i
        BY <1>1, <1>6, <3>3
      <4>. QED BY <1>7, <3>1, <4>1 DEF Among
    <3>. QED BY <3>2, <3>3
  <2>3. Among(d, new)
    <3>1. p \in 1..Len(d)
      BY <1>1, <1>6
    <3>. QED BY <1>7, <3>1 DEF Among
  <2>. QED BY <2>1, <2>2, <2>3
<1>9. InOrder(d)
  <2> SUFFICES ASSUME NEW i \in 1..(L + 1), NEW j \in 1..(L + 1), i < j
               PROVE  LeftOf(d[i], d[j])
    BY <1>6 DEF InOrder
  <2>0. \A k, l \in 1..L : k < l => LeftOf(kept[k], kept[l])
    BY DEF InOrder
  <2>1. CASE j < p
    <3>1. i \in 1..(p - 1) /\ j \in 1..(p - 1) /\ i \in 1..L /\ j \in 1..L
      BY <1>1, <2>1
    <3>. QED BY <1>7, <2>0, <3>1
  <2>2. CASE j = p
    <3>1. i \in 1..(p - 1) /\ i \in 1..L /\ i < p
      BY <1>1, <2>2
    <3>. QED BY <1>7, <2>2, <3>1 DEF Parts
  <2>3. CASE j > p
    <3>1. j \in (p + 1)..(L + 1) /\ j - 1 \in 1..L /\ j - 1 >= p
      BY <1>1, <2>3
    <3>2. d[j] = kept[j - 1]
      BY <1>7, <3>1
    <3>3. CASE i < p
      <4>1. i \in 1..(p - 1) /\ i \in 1..L /\ i < j - 1
        BY <1>1, <3>1, <3>3
      <4>. QED BY <1>7, <2>0, <3>1, <3>2, <4>1
    <3>4. CASE i = p
      BY <1>7, <3>1, <3>2, <3>4 DEF Parts
    <3>5. CASE i > p
      <4>1. i \in (p + 1)..(L + 1) /\ i - 1 \in 1..L /\ i - 1 < j - 1
        BY <1>1, <3>5
      <4>. QED BY <1>7, <2>0, <3>1, <3>2, <4>1
    <3>. QED BY <1>1, <3>3, <3>4, <3>5
  <2>. QED BY <1>1, <2>1, <2>2, <2>3
<1>. QED BY <1>6, <1>8, <1>9

Rows == [digits : Seq(Slots), dirty : BOOLEAN]
RowOK(row) ==
  /\ row \in Rows /\ InOrder(row.digits)
  /\ Len(row.digits) <= MAX_DIGITS_PER_ROW

\* After an insertion the glyph is there, unless the row is full of others, with
\* the slots it does not overlap (decoder lib.rs 144-173).
Inserted(row, new, after) ==
  /\ RowOK(after) /\ after.dirty = TRUE
  /\ \A s : s # new => (Among(after.digits, s) <=> Among(row.digits, s) /\ ~Overlaps(s, new))
  /\ Among(after.digits, new) \/ Len(after.digits) = MAX_DIGITS_PER_ROW

LEMMA InsertIs ==
  ASSUME NEW row, RowOK(row), NEW new \in Slots
  PROVE  Inserted(row, new, Insert(row, new))
<1> DEFINE k == Kept(row.digits, new)
           d == IF Len(k) < MAX_DIGITS_PER_ROW THEN InsertAt(k, Position(k, new), new) ELSE k
<1>1. /\ row.digits \in Seq(Slots) /\ InOrder(row.digits)
      /\ Len(row.digits) <= MAX_DIGITS_PER_ROW /\ Len(row.digits) \in Nat
      /\ MAX_DIGITS_PER_ROW \in Nat
  BY DecoderConstants DEF RowOK, Rows
<1>2. KeptOf(row.digits, new, k, Len(row.digits))
  BY <1>1, KeptIs
<1>3. Insert(row, new) = [digits |-> d, dirty |-> TRUE]
  BY DEF Insert
<1> HIDE DEF k
<1>4. k \in Seq(Slots) /\ Len(k) <= MAX_DIGITS_PER_ROW /\ Len(k) \in Nat /\ InOrder(k)
  BY <1>1, <1>2 DEF KeptOf
<1>5. \A s : Among(k, s) <=> Among(row.digits, s) /\ ~Overlaps(s, new)
  <2>1. \A s : Among(k, s) <=>
          \E i \in 1..Len(row.digits) : row.digits[i] = s /\ ~Overlaps(row.digits[i], new)
    BY <1>2 DEF KeptOf
  <2>. QED BY <2>1 DEF Among
<1>6. CASE Len(k) < MAX_DIGITS_PER_ROW
  <2>1. \A i \in 1..Len(k) : ~Overlaps(k[i], new)
    <3>1. \A i \in 1..Len(k) : Among(k, k[i])
      BY DEF Among
    <3>. QED BY <1>5, <3>1
  <2>2. Parts(k, new, Position(k, new))
    BY <1>4, <2>1, PositionParts
  <2>3. d = InsertAt(k, Position(k, new), new)
    BY <1>6
  <2> HIDE DEF d
  <2>4. /\ d \in Seq(Slots) /\ Len(d) = Len(k) + 1 /\ InOrder(d)
        /\ \A s : Among(d, s) <=> Among(k, s) \/ s = new
    BY <1>4, <2>2, <2>3, InsertAtOrder
  <2>5. Len(d) <= MAX_DIGITS_PER_ROW
    BY <1>1, <1>4, <1>6, <2>4
  <2>. QED BY <1>3, <1>5, <2>4, <2>5 DEF Inserted, RowOK, Rows
<1>7. CASE ~(Len(k) < MAX_DIGITS_PER_ROW)
  <2>1. d = k /\ Len(k) = MAX_DIGITS_PER_ROW
    BY <1>1, <1>4, <1>7
  <2> HIDE DEF d
  <2>. QED BY <1>3, <1>4, <1>5, <2>1 DEF Inserted, RowOK, Rows
<1>. QED BY <1>6, <1>7

-----------------------------------------------------------------------------
(* What of a painted row is visible. *)

Line == [Columns -> Slots \cup {NothingHashed}]

VisibleIn(line) ==
  {s \in {line[x] : x \in Columns} \ {NothingHashed} :
     \A x \in s.x..(s.x + s.w - 1) : line[x] = s}

\* Painting a glyph hides what it overlaps, and shows it.
Paint(line, new) ==
  [x \in Columns |-> IF new.x <= x /\ x < new.x + new.w THEN new ELSE line[x]]

LEMMA PaintShows ==
  ASSUME NEW line \in Line, NEW new \in Slots
  PROVE  /\ Paint(line, new) \in Line
         /\ \A s : s \in VisibleIn(Paint(line, new)) <=>
              s = new \/ (s \in VisibleIn(line) /\ ~Overlaps(s, new))
<1> DEFINE p == Paint(line, new)
<1>1. WIDTH \in Nat /\ Columns = 0..(WIDTH - 1)
  BY PanelConstants DEF Columns
<1>2. p \in Line
  BY DEF Paint, Line
<1>3. \A s \in Slots : s # NothingHashed /\ s.x \in Nat /\ s.w \in Nat \ {0}
                       /\ s.x + s.w <= WIDTH
  <2>1. ASSUME NEW s \in Slots PROVE s # NothingHashed
    <3>1. DOMAIN s = {"x", "w", "label"} /\ DOMAIN NothingHashed = {"done"}
      BY DEF Slots, NothingHashed
    <3>. QED BY <3>1
  <2>. QED BY <1>1, <2>1, SlotType
<1>4. \A s \in Slots : s.x..(s.x + s.w - 1) \subseteq Columns /\ s.x \in s.x..(s.x + s.w - 1)
  BY <1>1, <1>3
<1>5. \A x \in Columns :
        /\ new.x <= x /\ x < new.x + new.w => p[x] = new
        /\ ~(new.x <= x /\ x < new.x + new.w) => p[x] = line[x]
  BY DEF Paint
<1>6. \A l \in Line : \A x \in Columns : l[x] \in Slots \cup {NothingHashed}
  BY DEF Line
<1>7. ASSUME NEW l \in Line, NEW s
      PROVE  s \in VisibleIn(l) <=> s \in Slots /\ \A x \in s.x..(s.x + s.w - 1) : l[x] = s
  <2>1. ASSUME s \in VisibleIn(l)
        PROVE  s \in Slots /\ \A x \in s.x..(s.x + s.w - 1) : l[x] = s
    BY <1>6, <2>1 DEF VisibleIn
  <2>2. ASSUME s \in Slots, \A x \in s.x..(s.x + s.w - 1) : l[x] = s
        PROVE  s \in VisibleIn(l)
    <3>1. s.x \in Columns /\ l[s.x] = s /\ s # NothingHashed
      BY <1>3, <1>4, <2>2
    <3>. QED BY <2>2, <3>1 DEF VisibleIn
  <2>. QED BY <2>1, <2>2
<1> HIDE DEF p
<1>8. ASSUME NEW s, s \in VisibleIn(p), s # new
      PROVE  s \in VisibleIn(line) /\ ~Overlaps(s, new)
  <2>1. s \in Slots /\ \A x \in s.x..(s.x + s.w - 1) : p[x] = s
    BY <1>2, <1>7, <1>8
  <2>2. ASSUME NEW x \in s.x..(s.x + s.w - 1)
        PROVE  ~(new.x <= x /\ x < new.x + new.w) /\ line[x] = s
    <3>1. x \in Columns
      BY <1>4, <2>1
    <3>. QED BY <1>5, <1>8, <2>1, <3>1
  <2>3. s \in VisibleIn(line)
    BY <1>7, <2>1, <2>2
  <2>4. ~Overlaps(s, new)
    <3> SUFFICES ASSUME Overlaps(s, new) PROVE FALSE
      OBVIOUS
    <3>1. s.x < new.x + new.w /\ new.x < s.x + s.w
      BY DEF Overlaps
    <3>2. /\ s.x \in Nat /\ s.w \in Nat \ {0} /\ new.x \in Nat /\ new.w \in Nat \ {0}
      BY <1>3, <2>1
    <3>3. CASE s.x <= new.x
      <4>1. new.x \in s.x..(s.x + s.w - 1) /\ new.x <= new.x /\ new.x < new.x + new.w
        BY <3>1, <3>2, <3>3
      <4>. QED BY <2>2, <4>1
    <3>4. CASE ~(s.x <= new.x)
      <4>1. s.x \in s.x..(s.x + s.w - 1) /\ new.x <= s.x /\ s.x < new.x + new.w
        BY <3>1, <3>2, <3>4
      <4>. QED BY <2>2, <4>1
    <3>. QED BY <3>3, <3>4
  <2>. QED BY <2>3, <2>4
<1>9. new \in VisibleIn(p)
  <2>1. ASSUME NEW x \in new.x..(new.x + new.w - 1) PROVE p[x] = new
    <3>1. new.x <= x /\ x < new.x + new.w /\ x \in Columns
      BY <1>3, <1>4
    <3>. QED BY <1>5, <3>1
  <2>. QED BY <1>2, <1>7, <2>1
<1>10. ASSUME NEW s, s \in VisibleIn(line), ~Overlaps(s, new) PROVE s \in VisibleIn(p)
  <2>1. s \in Slots /\ \A x \in s.x..(s.x + s.w - 1) : line[x] = s
    BY <1>7, <1>10
  <2>2. /\ s.x \in Nat /\ s.w \in Nat \ {0} /\ new.x \in Nat /\ new.w \in Nat \ {0}
    BY <1>3, <2>1
  <2>3. ASSUME NEW x \in s.x..(s.x + s.w - 1) PROVE p[x] = s
    <3>1. x \in Columns
      BY <1>4, <2>1
    <3>2. ~(new.x <= x /\ x < new.x + new.w)
      BY <1>10, <2>2 DEF Overlaps
    <3>. QED BY <1>5, <2>1, <3>1, <3>2
  <2>. QED BY <1>2, <1>7, <2>1, <2>3
<1>. QED BY <1>2, <1>8, <1>9, <1>10 DEF p

-----------------------------------------------------------------------------
(* The invariant. *)

\* 16-bit numbers.
U == 0..(U16 - 1)

\* 16 bits, as two bytes.
LEMMA Widths ==
  /\ U16 \in Nat \ {0, 1} /\ BYTE \in Nat \ {0, 1}
  /\ WIDTH \in 1..(U16 - 1) /\ HEIGHT \in 1..(U16 - 1)
  /\ \A n \in Int : Wrap(n) \in U
  /\ \A n \in U : Wrap(n) = n
  /\ \A a, b \in 0..(BYTE - 1) : Pair(a, b) \in U
<1>1. BYTE \in Nat \ {0, 1}
  BY PanelConstants
<1>2. BYTE * BYTE \in Nat /\ BYTE * BYTE > 1
  BY <1>1
<1>3. U16 \in Nat \ {0, 1}
  BY <1>2 DEF U16
<1>4. WIDTH \in 1..(U16 - 1) /\ HEIGHT \in 1..(U16 - 1)
  BY PanelConstants DEF U16
<1>5. \A n \in Int : Wrap(n) \in U
  BY <1>3 DEF Wrap, U
<1>6. \A n \in U : Wrap(n) = n
  BY <1>3 DEF Wrap, U
<1>7. ASSUME NEW a \in 0..(BYTE - 1), NEW b \in 0..(BYTE - 1) PROVE Pair(a, b) \in U
  <2>1. a * BYTE \in Nat /\ a * BYTE <= (BYTE - 1) * BYTE
    BY <1>1
  <2>2. (BYTE - 1) * BYTE = BYTE * BYTE - BYTE
    BY <1>1
  <2>. QED BY <1>1, <1>2, <2>1, <2>2 DEF Pair, U, U16
<1>. QED BY <1>1, <1>3, <1>4, <1>5, <1>6, <1>7

Windows == [col_start : U, col_end : U, row_start : U, row_end : U]
Cmds == [kind : Commands, buf : Seq(0..(BYTE - 1))]

\* Column addresses are the driver's.
CmdOK(cmd) ==
  /\ cmd \in Cmds /\ Len(cmd.buf) < 4
  /\ cmd.kind = "2A" /\ cmd.buf # <<>> =>
       \E p \in ColParams : \A i \in 1..Len(cmd.buf) : cmd.buf[i] = p[i]

FbOK(f) ==
  /\ f \in [pixels : [Places -> U], win : Windows, cursor_col : U, cursor_row : U, cmd : Cmds]

Opened ==
  [open : {TRUE}, x : U, y : U, w : U, h : U, bg : U, shape : Seq(Nat),
   run_len : Nat, run_is_fg : BOOLEAN, pixel_count : Nat]

PendingOK(p) ==
  \/ p = NoWindow
  \/ p \in Opened /\ p.w > 1 /\ p.h > 1 /\ p.x + p.w <= WIDTH /\ p.pixel_count < p.w * p.h

GdOK(g) ==
  /\ g \in [win : Windows, cmd : Cmds, pending : Opened \cup {NoWindow}, rows : [ROWS -> Rows]]
  /\ g.win.col_end < WIDTH
  /\ PendingOK(g.pending)
  /\ \A r \in ROWS : RowOK(g.rows[r])

Types ==
  /\ FbOK(fb) /\ GdOK(gd) /\ gd.cmd = fb.cmd /\ CmdOK(fb.cmd)
  /\ screen \in [ROWS -> Line]

Shows(digits, line, full) ==
  /\ \A s : Among(digits, s) => s \in VisibleIn(line)
  /\ ~full => \A s \in VisibleIn(line) : Among(digits, s)

IInv == Types /\ \A r \in ROWS : Shows(gd.rows[r].digits, screen[r], r \in crowded)

-----------------------------------------------------------------------------
(* The decoder's functions. *)

\* A window is opened on the panel, in the size of a glyph (decoder lib.rs 323-339).
LEMMA OpenWindowOK ==
  ASSUME NEW win \in Windows, win.col_end < WIDTH
  PROVE  /\ PendingOK(OpenWindow(win))
         /\ OpenWindow(win) \in Opened \cup {NoWindow}
<1> DEFINE w == Wrap(win.col_end - win.col_start + 1)
           h == Wrap(win.row_end - win.row_start + 1)
           p == OpenWindow(win)
           new == [open |-> TRUE, x |-> win.col_start, y |-> win.row_start, w |-> w, h |-> h,
                   bg |-> 0, shape |-> <<>>, run_len |-> 0, run_is_fg |-> FALSE,
                   pixel_count |-> 0]
<1>1. /\ win.col_start \in U /\ win.col_end \in U /\ win.row_start \in U /\ win.row_end \in U
      /\ U16 \in Nat \ {0, 1} /\ WIDTH \in 1..(U16 - 1)
  BY Widths DEF Windows
<1>2. w \in U /\ h \in U
  BY <1>1, Widths DEF U
<1>3. p = new \/ p = NoWindow
  BY DEF OpenWindow
<1>4. ASSUME p # NoWindow
      PROVE  p = new /\ w > 1 /\ h > 1 /\ win.col_start <= win.col_end
  <2>1. /\ win.col_start <= win.col_end /\ \E t \in TEMPLATES : t.w = w /\ t.h = h
        /\ p = new
    BY <1>4 DEF OpenWindow
  <2>. QED BY <2>1, DecoderConstants
<1>5. CASE p = NoWindow
  BY <1>5 DEF PendingOK
<1>6. CASE p # NoWindow
  <2>1. p = new /\ w > 1 /\ h > 1 /\ win.col_start <= win.col_end
    BY <1>4, <1>6
  <2>2. win.col_end - win.col_start + 1 \in U
    BY <1>1, <2>1 DEF U
  <2>3. w = win.col_end - win.col_start + 1
    BY <2>2, Widths
  <2>4. win.col_start + w <= WIDTH
    BY <1>1, <2>3 DEF U
  <2> HIDE DEF w, h, p
  <2>5. 0 < w * h
    <3>1. w \in Nat \ {0} /\ h \in Nat \ {0}
      BY <1>2, <2>1 DEF U
    <3>. QED BY <3>1
  <2>6. 0 \in U /\ <<>> \in Seq(Nat)
    BY <1>1 DEF U
  <2>7. p \in Opened
    BY <1>1, <1>2, <2>1, <2>6 DEF Opened
  <2>. QED BY <2>1, <2>4, <2>5, <2>7 DEF PendingOK, p
<1>. QED BY <1>5, <1>6

\* A run ends.
RunEnded(p, shape, n, fg) == [p EXCEPT !.shape = shape, !.run_len = n, !.run_is_fg = fg]

SameWindow(q, p) ==
  q.x = p.x /\ q.y = p.y /\ q.w = p.w /\ q.h = p.h /\ q.pixel_count = p.pixel_count

LEMMA RunEnds ==
  ASSUME NEW p \in Opened, NEW shape \in Seq(Nat), NEW n \in Nat, NEW fg \in BOOLEAN
  PROVE  RunEnded(p, shape, n, fg) \in Opened /\ SameWindow(RunEnded(p, shape, n, fg), p)
<1> DEFINE S == Seq(Nat)
<1>1. shape \in S
  OBVIOUS
<1>2. Opened = [open : {TRUE}, x : U, y : U, w : U, h : U, bg : U, shape : S,
                run_len : Nat, run_is_fg : BOOLEAN, pixel_count : Nat]
  BY Zenon DEF Opened
<1> HIDE DEF S
<1>. QED BY <1>1, <1>2 DEF RunEnded, SameWindow

\* A pixel is counted (decoder lib.rs 88-109).
LEMMA PushPixelOK ==
  ASSUME NEW p \in Opened, NEW px \in U, NEW q, q = PushPixel(p, px)
  PROVE  /\ q \in Opened /\ q.x = p.x /\ q.y = p.y /\ q.w = p.w /\ q.h = p.h
         /\ q.pixel_count = p.pixel_count + 1
<1> DEFINE first == p.pixel_count = 0
           is_fg == ~first /\ px # p.bg
           counted == [p EXCEPT !.pixel_count = @ + 1, !.bg = IF first THEN px ELSE @]
<1>1. /\ p.open = TRUE /\ p.x \in U /\ p.y \in U /\ p.w \in U /\ p.h \in U /\ p.bg \in U
      /\ p.shape \in Seq(Nat) /\ p.run_len \in Nat /\ p.run_is_fg \in BOOLEAN
      /\ p.pixel_count \in Nat
  BY DEF Opened
<1>2. PICK bg \in U : bg = IF first THEN px ELSE p.bg
  BY <1>1
<1>3. PICK fg \in BOOLEAN : fg = is_fg
  OBVIOUS
<1> HIDE DEF is_fg, first
<1>4. counted = [p EXCEPT !.pixel_count = p.pixel_count + 1, !.bg = bg]
  BY <1>2
<1> HIDE DEF counted
<1>5. /\ counted \in Opened /\ counted.x = p.x /\ counted.y = p.y /\ counted.w = p.w
      /\ counted.h = p.h /\ counted.pixel_count = p.pixel_count + 1
      /\ counted.shape = p.shape /\ counted.run_len = p.run_len
  <2>1. PICK n \in Nat : n = p.pixel_count + 1
    BY <1>1
  <2>2. counted = [p EXCEPT !.pixel_count = n, !.bg = bg]
    BY <1>4, <2>1
  <2>3. counted \in Opened
    BY <2>2 DEF Opened
  <2>4. /\ counted.x = p.x /\ counted.y = p.y /\ counted.w = p.w /\ counted.h = p.h
        /\ counted.shape = p.shape /\ counted.run_len = p.run_len
    BY <2>2 DEF Opened
  <2>5. counted.pixel_count = n
    BY <2>2 DEF Opened
  <2>. QED BY <2>1, <2>3, <2>4, <2>5
<1>6. CASE is_fg = p.run_is_fg
  <2>1. q = [counted EXCEPT !.run_len = p.run_len + 1]
    BY <1>5, <1>6 DEF PushPixel, counted, is_fg, first
  <2>2. p.run_len + 1 \in Nat
    BY <1>1
  <2>. QED BY <1>5, <2>1, <2>2 DEF Opened
<1>7. CASE is_fg # p.run_is_fg
  <2>1. q = [counted EXCEPT !.shape = Append(p.shape, p.run_len), !.run_len = 1, !.run_is_fg = fg]
    BY <1>3, <1>5, <1>7 DEF PushPixel, counted, is_fg, first
  <2>2. PICK shape \in Seq(Nat), one \in Nat : shape = Append(p.shape, p.run_len) /\ one = 1
    <3>1. PICK old \in Seq(Nat), n \in Nat : old = p.shape /\ n = p.run_len
      BY <1>1, Zenon
    <3>2. Append(old, n) \in Seq(Nat) /\ 1 \in Nat
      OBVIOUS
    <3>3. Append(p.shape, p.run_len) \in Seq(Nat)
      BY <3>1, <3>2, Zenon
    <3>. QED BY <3>2, <3>3, Zenon
  <2>3. q = RunEnded(counted, shape, one, fg)
    BY <2>1, <2>2, Zenon DEF RunEnded
  <2>4. RunEnded(counted, shape, one, fg) \in Opened
        /\ SameWindow(RunEnded(counted, shape, one, fg), counted)
    BY <1>5, RunEnds
  <2>5. q \in Opened /\ SameWindow(q, counted)
    BY <2>3, <2>4, Zenon
  <2>. QED BY <1>5, <2>5, Zenon DEF SameWindow
<1>. QED BY <1>6, <1>7

\* A window matches one template at most, in one row, on the panel
\* (decoder lib.rs 343-360).
LEMMA MatchIs ==
  ASSUME NEW p \in Opened, p.w > 1, p.x + p.w <= WIDTH
  PROVE  /\ \A m \in Match(p) : m.row \in ROWS /\ m.slot \in Slots
         /\ \A m, n \in Match(p) : m = n
<1> DEFINE x == DispX(p.x, p.w)
           y == DispY(p.y, p.h)
           T == {u \in TEMPLATES : u.w = p.w /\ u.h = p.h /\ u.shape = Hash(p)}
<1>1. p.x \in U /\ p.w \in U /\ p.y \in U /\ p.h \in U /\ WIDTH \in 1..(U16 - 1)
      /\ HEIGHT \in Nat /\ U16 \in Nat
  BY Widths DEF Opened
<1>2. x \in 0..WIDTH /\ x + p.w <= WIDTH
  <2>1. p.x + p.w \in U
    BY <1>1 DEF U
  <2>2. Wrap(p.x + p.w) = p.x + p.w
    BY <2>1, Widths
  <2>. QED BY <1>1, <2>2 DEF DispX, Saturating, U
<1>3. y \in Nat
  <2>1. Wrap(p.y + p.h) \in U
    BY <1>1, Widths DEF U
  <2>. QED BY <1>1, <2>1 DEF DispY, Saturating, U
<1>4. \A r \in RowsFor(x, y) :
        r \in ROWS /\ x >= r.x_min /\ x < r.x_max /\ y >= r.y_min /\ y < r.y_max
  BY DEF RowsFor
<1> HIDE DEF x, y
<1>5. \A r, s \in RowsFor(x, y) : r = s
  <2> SUFFICES ASSUME NEW r \in RowsFor(x, y), NEW s \in RowsFor(x, y), r # s PROVE FALSE
    OBVIOUS
  <2>1. /\ r \in ROWS /\ x >= r.x_min /\ x < r.x_max /\ y >= r.y_min /\ y < r.y_max
        /\ s \in ROWS /\ x >= s.x_min /\ x < s.x_max /\ y >= s.y_min /\ y < s.y_max
    BY <1>4
  <2>2. /\ r.x_min \in Nat /\ r.x_max \in Nat /\ r.y_min \in Nat /\ r.y_max \in Nat
        /\ s.x_min \in Nat /\ s.x_max \in Nat /\ s.y_min \in Nat /\ s.y_max \in Nat
    BY <2>1, DecoderConstants
  <2>3. \/ r.x_max <= s.x_min \/ s.x_max <= r.x_min
        \/ r.y_max <= s.y_min \/ s.y_max <= r.y_min
    BY <2>1, DecoderConstants
  <2>. QED BY <1>2, <1>3, <2>1, <2>2, <2>3
<1>6. \A t, u \in T : t = u
  BY DecoderConstants
<1>7. \A m \in Match(p) : \E t \in T, r \in RowsFor(x, y) :
        m = [row |-> r, slot |-> Slot(x, p.w, t.label)]
  BY DEF Match, x, y
<1>8. \A t \in T : Slot(x, p.w, t.label) \in Slots
  <2>1. p.w \in 1..WIDTH
    BY <1>1, <1>2 DEF U
  <2>2. \A t \in T : t.label \in Labels
    BY DEF Labels
  <2> HIDE DEF T
  <2>. QED BY <1>2, <2>1, <2>2 DEF Slot, Slots
<1> HIDE DEF T
<1>. QED BY <1>4, <1>5, <1>6, <1>7, <1>8

-----------------------------------------------------------------------------
(* The words of the bus. *)

\* A word that may come after the command's.
Follows(cmd, w) ==
  /\ w \in U
  /\ cmd.kind \in {"2A", "2B"} => w \in 0..(BYTE - 1)
  /\ cmd.kind = "2A" =>
       \E p \in ColParams : \A i \in 1..(Len(cmd.buf) + 1) : Append(cmd.buf, w)[i] = p[i]

LEMMA WordFollows ==
  ASSUME FbOK(fb), CmdOK(fb.cmd), NEW w \in Words
  PROVE  Follows(fb.cmd, w)
<1> DEFINE n == Len(fb.cmd.buf)
           Next4(params) ==
             {p[n + 1] : p \in {q \in params : \A i \in 1..n : q[i] = fb.cmd.buf[i]}}
<1>1. /\ n \in Nat /\ n < 4 /\ n + 1 \in 1..4 /\ fb.cmd.buf \in Seq(0..(BYTE - 1))
      /\ fb.cursor_row \in U /\ fb.cmd.kind \in Commands
  BY DEF CmdOK, Cmds, FbOK
<1>2. BYTE - 1 <= U16 - 1 /\ BYTE \in Nat \ {0, 1} /\ U16 \in Nat \ {0, 1}
  <2>1. BYTE \in Nat \ {0, 1}
    BY PanelConstants
  <2>2. BYTE <= BYTE * BYTE
    BY <2>1
  <2>. QED BY <2>1, <2>2, Widths DEF U16
<1>3. CASE TakesPixels(fb)
  <2>0. ~TakesAddress(fb)
    BY <1>3 DEF TakesPixels, TakesAddress
  <2>1. fb.cmd.kind = "2C" /\ w \in Inks[fb.cursor_row % HEIGHT]
    BY <1>3, <2>0 DEF Words, TakesPixels
  <2>2. fb.cursor_row % HEIGHT \in 0..(HEIGHT - 1)
    <3>1. fb.cursor_row \in Nat /\ HEIGHT \in Nat \ {0}
      BY <1>1, <1>2, Widths DEF U
    <3>. QED BY <3>1
  <2>3. Inks[fb.cursor_row % HEIGHT] \subseteq U
    BY <2>2, DisplayConstants DEF U
  <2>. QED BY <2>1, <2>3 DEF Follows
<1>4. CASE TakesAddress(fb)
  <2>1. fb.cmd.kind \in {"2A", "2B"} /\ ~TakesPixels(fb)
    BY <1>4 DEF TakesAddress, TakesPixels
  <2>2. w \in Next4(IF fb.cmd.kind = "2A" THEN ColParams ELSE RowParams)
    BY <1>4, <2>1 DEF Words
  <2>3. PICK params : /\ params = IF fb.cmd.kind = "2A" THEN ColParams ELSE RowParams
                      /\ w \in Next4(params)
    BY <2>2
  <2>4. PICK p \in params : (\A i \in 1..n : p[i] = fb.cmd.buf[i]) /\ w = p[n + 1]
    BY <2>3
  <2>5. p \in [1..4 -> 0..(BYTE - 1)]
    BY <2>3, <2>4, DisplayConstants
  <2>6. w \in 0..(BYTE - 1) /\ w \in U
    <3>1. n + 1 \in 1..4
      BY <1>1, <1>2
    <3>2. w \in 0..(BYTE - 1)
      BY <2>4, <2>5, <3>1
    <3>3. BYTE <= U16
      <4>1. \A b \in Nat \ {0} : b <= b * b
        <5>1. ASSUME NEW b \in Nat \ {0} PROVE b <= b * b
          <6>1. b * b = b * (b - 1) + b /\ b * (b - 1) \in Nat
            OBVIOUS
          <6>. QED BY <6>1
        <5>. QED BY <5>1
      <4>. QED BY <4>1, Widths DEF U16
    <3>. QED BY <3>2, <3>3, Widths DEF U
  <2>7. \A i \in 1..(n + 1) : Append(fb.cmd.buf, w)[i] = p[i]
    <3>1. \A i \in 1..(n + 1) : i \in 1..n \/ i = n + 1
      BY <1>1
    <3>2. Append(fb.cmd.buf, w)[n + 1] = w
      BY <1>1
    <3>3. \A i \in 1..n : Append(fb.cmd.buf, w)[i] = fb.cmd.buf[i]
      BY <1>1
    <3>. QED BY <2>4, <3>1, <3>2, <3>3
  <2>. QED BY <2>3, <2>4, <2>6, <2>7 DEF Follows
<1>5. CASE ~TakesPixels(fb) /\ ~TakesAddress(fb)
  <2>1. w = 0 /\ fb.cmd.kind \notin {"2A", "2B"}
    BY <1>5 DEF Words, TakesAddress
  <2>2. 0 \in U
    BY <1>2 DEF U
  <2>. QED BY <2>1, <2>2 DEF Follows
<1>. QED BY <1>3, <1>4, <1>5

\* The command after an address's word.
NextCmd(cmd, w) ==
  IF Len(cmd.buf) < 3 THEN [kind |-> cmd.kind, buf |-> Append(cmd.buf, w)] ELSE NoCmd

LEMMA NextCmdType ==
  ASSUME NEW cmd \in Cmds, NEW w \in 0..(BYTE - 1)
  PROVE  NextCmd(cmd, w) \in Cmds
<1>1. Append(cmd.buf, w) \in Seq(0..(BYTE - 1)) /\ cmd.kind \in Commands
  BY DEF Cmds
<1>. QED BY <1>1 DEF NextCmd, Cmds, NoCmd, Commands

LEMMA NextCmdOK ==
  ASSUME NEW cmd, CmdOK(cmd), NEW w, Follows(cmd, w), cmd.kind \in {"2A", "2B"}
  PROVE  CmdOK(NextCmd(cmd, w)) /\ NextCmd(cmd, w) \in Cmds
<1>1. /\ cmd.kind \in Commands /\ cmd.buf \in Seq(0..(BYTE - 1)) /\ Len(cmd.buf) \in Nat
      /\ w \in 0..(BYTE - 1)
  BY DEF CmdOK, Cmds, Follows
<1>2. CASE Len(cmd.buf) < 3
  <2> DEFINE b == Append(cmd.buf, w)
  <2>1. b \in Seq(0..(BYTE - 1)) /\ Len(b) = Len(cmd.buf) + 1
    BY <1>1
  <2>2. cmd.kind = "2A" =>
          \E p \in ColParams : \A i \in 1..(Len(cmd.buf) + 1) : b[i] = p[i]
    BY DEF Follows
  <2> HIDE DEF b
  <2>3. NextCmd(cmd, w) = [kind |-> cmd.kind, buf |-> b]
    BY <1>2 DEF NextCmd, b
  <2>4. Len(b) < 4
    BY <1>1, <1>2, <2>1
  <2>5. NextCmd(cmd, w) \in Cmds
    BY <1>1, <2>1, <2>3 DEF Cmds
  <2>6. NextCmd(cmd, w).kind = cmd.kind /\ NextCmd(cmd, w).buf = b
    BY <2>3
  <2>7. cmd.kind = "2A" => \E p \in ColParams : \A i \in 1..Len(b) : b[i] = p[i]
    BY <2>1, <2>2, Zenon
  <2>. QED BY <2>4, <2>5, <2>6, <2>7, Zenon DEF CmdOK
<1>3. CASE ~(Len(cmd.buf) < 3)
  <2>1. NextCmd(cmd, w) = NoCmd
    BY <1>3 DEF NextCmd
  <2>. QED BY <2>1 DEF NoCmd, CmdOK, Cmds, Commands
<1>. QED BY <1>2, <1>3

\* With its fourth word an address is four bytes.
LEMMA FourBytes ==
  ASSUME NEW B, NEW buf \in Seq(B), Len(buf) < 4, ~(Len(buf) < 3), NEW w \in B,
         NEW b, b = Append(buf, w)
  PROVE  Len(b) = 4 /\ b[1] \in B /\ b[2] \in B /\ b[3] \in B /\ b[4] \in B
<1>1. PICK n \in Nat : n = Len(buf)
  OBVIOUS
<1>2. n = 3
  BY <1>1
<1>3. b \in Seq(B) /\ Len(b) = n + 1
  BY <1>1
<1>4. Len(b) = 4
  BY <1>2, <1>3
<1>. QED BY <1>3, <1>4

\* The registers after an address's word: the fourth sets two of them.
NextWin(s, w) ==
  LET b == Append(s.cmd.buf, w)
      from == Pair(b[1], b[2])
      to == Pair(b[3], b[4])
  IN  IF Len(s.cmd.buf) < 3 THEN s.win
      ELSE IF s.cmd.kind = "2A"
      THEN [s.win EXCEPT !.col_start = from, !.col_end = to]
      ELSE [s.win EXCEPT !.row_start = from, !.row_end = to]

LEMMA NextWinType ==
  ASSUME NEW s, s.cmd \in Cmds, Len(s.cmd.buf) < 4, s.win \in Windows, NEW w \in 0..(BYTE - 1)
  PROVE  NextWin(s, w) \in Windows
<1>1. s.cmd.buf \in Seq(0..(BYTE - 1)) /\ Len(s.cmd.buf) \in Nat
  BY DEF Cmds
<1>2. CASE Len(s.cmd.buf) < 3
  BY <1>2 DEF NextWin
<1>3. CASE ~(Len(s.cmd.buf) < 3)
  <2> DEFINE b == Append(s.cmd.buf, w)
             from == Pair(b[1], b[2])
             to == Pair(b[3], b[4])
  <2>1. /\ Len(b) = 4
        /\ b[1] \in 0..(BYTE - 1) /\ b[2] \in 0..(BYTE - 1)
        /\ b[3] \in 0..(BYTE - 1) /\ b[4] \in 0..(BYTE - 1)
    <3>1. PICK B : B = 0..(BYTE - 1)
      OBVIOUS
    <3>2. PICK d : d = b
      OBVIOUS
    <3>3. s.cmd.buf \in Seq(B) /\ w \in B
      BY <1>1, <3>1
    <3>4. d = Append(s.cmd.buf, w)
      BY <3>2
    <3> HIDE DEF b, from, to
    <3>5. Len(d) = 4 /\ d[1] \in B /\ d[2] \in B /\ d[3] \in B /\ d[4] \in B
      BY <1>1, <1>3, <3>3, <3>4, FourBytes
    <3>. QED BY <3>1, <3>2, <3>5
  <2>2. from \in U /\ to \in U
    BY <2>1, Widths
  <2>4. NextWin(s, w) = IF s.cmd.kind = "2A"
                        THEN [s.win EXCEPT !.col_start = from, !.col_end = to]
                        ELSE [s.win EXCEPT !.row_start = from, !.row_end = to]
    BY <1>3 DEF NextWin
  <2> HIDE DEF b, from, to
  <2>5. CASE s.cmd.kind = "2A"
    BY <2>2, <2>4, <2>5 DEF Windows
  <2>6. CASE s.cmd.kind # "2A"
    BY <2>2, <2>4, <2>6 DEF Windows
  <2>. QED BY <2>5, <2>6
<1>. QED BY <1>2, <1>3

LEMMA NextWinOK ==
  ASSUME NEW s, CmdOK(s.cmd), s.win \in Windows, NEW w, Follows(s.cmd, w),
         s.cmd.kind \in {"2A", "2B"}
  PROVE  /\ NextWin(s, w) \in Windows
         /\ s.win.col_end < WIDTH => NextWin(s, w).col_end < WIDTH
<1>1. /\ s.cmd.buf \in Seq(0..(BYTE - 1)) /\ Len(s.cmd.buf) \in Nat /\ Len(s.cmd.buf) < 4
      /\ s.cmd \in Cmds /\ w \in 0..(BYTE - 1)
  BY DEF CmdOK, Cmds, Follows
<1>2. NextWin(s, w) \in Windows
  BY <1>1, NextWinType
<1>3. CASE Len(s.cmd.buf) < 3 \/ s.cmd.kind # "2A"
  <2> DEFINE b == Append(s.cmd.buf, w)
             from == Pair(b[1], b[2])
             to == Pair(b[3], b[4])
  <2>1. \/ NextWin(s, w) = s.win
        \/ NextWin(s, w) = [s.win EXCEPT !.row_start = from, !.row_end = to]
    BY <1>3 DEF NextWin
  <2> HIDE DEF from, to
  <2>2. NextWin(s, w).col_end = s.win.col_end
    BY <2>1 DEF Windows
  <2>. QED BY <1>2, <2>2
<1>4. CASE ~(Len(s.cmd.buf) < 3) /\ s.cmd.kind = "2A"
  <2> DEFINE b == Append(s.cmd.buf, w)
             from == Pair(b[1], b[2])
             to == Pair(b[3], b[4])
  <2>1. PICK p \in ColParams : \A i \in 1..(Len(s.cmd.buf) + 1) : b[i] = p[i]
    BY <1>4 DEF Follows
  <2>2. b[3] = p[3] /\ b[4] = p[4]
    BY <1>1, <1>4, <2>1
  <2>3. to < WIDTH
    BY <2>2, DisplayConstants
  <2>4. NextWin(s, w) = [s.win EXCEPT !.col_start = from, !.col_end = to]
    BY <1>4 DEF NextWin
  <2> HIDE DEF b, from, to
  <2>5. NextWin(s, w).col_end = to
    BY <2>4 DEF Windows
  <2>. QED BY <1>2, <2>3, <2>5
<1>. QED BY <1>3, <1>4

\* The framebuffer after an address's word (framebuffer lib.rs 174-189).
LEMMA FbAddressIs ==
  ASSUME NEW f, FbOK(f), Len(f.cmd.buf) < 4, NEW w \in 0..(BYTE - 1), TakesAddress(f)
  PROVE  /\ FbOK(Address(f, w)) /\ Address(f, w).cmd = NextCmd(f.cmd, w)
         /\ Address(f, w).win = NextWin(f, w) /\ Address(f, w).pixels = f.pixels
<1> DEFINE b == Append(f.cmd.buf, w)
           c == NextCmd(f.cmd, w)
           v == NextWin(f, w)
<1>1. /\ f.cmd.kind \in {"2A", "2B"} /\ w \in 0..(BYTE - 1) /\ f.win \in Windows
      /\ f.cmd \in Cmds /\ f.cmd.buf \in Seq(0..(BYTE - 1)) /\ Len(f.cmd.buf) \in Nat
  BY DEF TakesAddress, FbOK, Cmds
<1>2. w % BYTE = w
  <2>1. BYTE \in Nat \ {0}
    BY PanelConstants
  <2>2. w \in 0..(BYTE - 1)
    BY <1>1
  <2>. QED BY <2>1, <2>2, ModSmall
<1>3. c \in Cmds
  BY <1>1, NextCmdType
<1>4. v \in Windows
  BY <1>1, NextWinType
<1>5. Len(b) = Len(f.cmd.buf) + 1
  BY <1>1
<1>6. CASE Len(f.cmd.buf) < 3
  <2>1. Address(f, w) = [f EXCEPT !.cmd.buf = b]
    <3>1. Len(b) < 4
      BY <1>1, <1>5, <1>6
    <3>. QED BY <1>2, <3>1, Zenon DEF Address
  <2>2. c = [kind |-> f.cmd.kind, buf |-> b]
    BY <1>6 DEF NextCmd
  <2> HIDE DEF b, c
  <2>3. Address(f, w) = [f EXCEPT !.cmd = [f.cmd EXCEPT !.buf = b]]
    BY <2>1
  <2>4. [f.cmd EXCEPT !.buf = b] = c
    BY <2>2 DEF FbOK, Cmds
  <2>5. Address(f, w) = [f EXCEPT !.cmd = c]
    BY <2>3, <2>4
  <2>6. v = f.win
    BY <1>6 DEF NextWin
  <2> HIDE DEF v
  <2>. QED BY <1>3, <2>5, <2>6 DEF FbOK, c, v
<1>7. CASE ~(Len(f.cmd.buf) < 3)
  <2>1. c = NoCmd /\ NoCmd \in Cmds
    BY <1>3, <1>7 DEF NextCmd
  <2>2. CASE f.cmd.kind = "2A"
    <3>0. ~(Len(b) < 4)
      BY <1>1, <1>5, <1>7
    <3>1. Address(f, w) = [f EXCEPT !.cmd = NoCmd, !.win.col_start = Pair(b[1], b[2]),
                                    !.win.col_end = Pair(b[3], b[4])]
      BY <1>2, <2>2, <3>0, Zenon DEF Address
    <3>2. v = [f.win EXCEPT !.col_start = Pair(b[1], b[2]), !.col_end = Pair(b[3], b[4])]
      BY <1>7, <2>2 DEF NextWin
    <3> HIDE DEF b, c, v
    <3>3. Address(f, w) = [f EXCEPT !.cmd = NoCmd, !.win = v]
      BY <3>1, <3>2 DEF FbOK, Windows
    <3>. QED BY <1>4, <2>1, <3>3 DEF FbOK, c, v
  <2>3. CASE f.cmd.kind # "2A"
    <3>0. ~(Len(b) < 4)
      BY <1>1, <1>5, <1>7
    <3>1. Address(f, w) = [f EXCEPT !.cmd = NoCmd, !.win.row_start = Pair(b[1], b[2]),
                                    !.win.row_end = Pair(b[3], b[4])]
      BY <1>2, <2>3, <3>0, Zenon DEF Address
    <3>2. v = [f.win EXCEPT !.row_start = Pair(b[1], b[2]), !.row_end = Pair(b[3], b[4])]
      BY <1>7, <2>3 DEF NextWin
    <3> HIDE DEF b, c, v
    <3>3. Address(f, w) = [f EXCEPT !.cmd = NoCmd, !.win = v]
      BY <3>1, <3>2 DEF FbOK, Windows
    <3>. QED BY <1>4, <2>1, <3>3 DEF FbOK, c, v
  <2>. QED BY <2>2, <2>3
<1>. QED BY <1>6, <1>7

LEMMA FbAddress ==
  ASSUME NEW f, FbOK(f), CmdOK(f.cmd), NEW w, Follows(f.cmd, w), TakesAddress(f)
  PROVE  /\ FbOK(Address(f, w)) /\ Address(f, w).cmd = NextCmd(f.cmd, w)
         /\ Address(f, w).win = NextWin(f, w)
<1>1. Len(f.cmd.buf) < 4 /\ w \in 0..(BYTE - 1)
  BY DEF CmdOK, Follows, TakesAddress
<1>. QED BY <1>1, FbAddressIs

\* The decoder after an address's word (decoder lib.rs 236-258).
LEMMA GdAddress ==
  ASSUME NEW g, GdOK(g), CmdOK(g.cmd), NEW w, Follows(g.cmd, w), TakesAddress(g)
  PROVE  /\ GdOK(Address(g, w)) /\ Address(g, w).cmd = NextCmd(g.cmd, w)
         /\ Address(g, w).rows = g.rows /\ Address(g, w).pending = g.pending
         /\ Address(g, w).win = NextWin(g, w)
<1> DEFINE b == Append(g.cmd.buf, w)
           c == NextCmd(g.cmd, w)
           v == NextWin(g, w)
           G == [win : Windows, cmd : Cmds, pending : Opened \cup {NoWindow},
                 rows : [ROWS -> Rows]]
<1>1. /\ g.cmd.kind \in {"2A", "2B"} /\ w \in 0..(BYTE - 1) /\ g.win \in Windows
      /\ g.cmd.buf \in Seq(0..(BYTE - 1)) /\ Len(g.cmd.buf) \in Nat
  BY DEF TakesAddress, Follows, GdOK, CmdOK, Cmds
<1>2. w % BYTE = w
  <2>1. BYTE \in Nat \ {0}
    BY PanelConstants
  <2>2. w \in 0..(BYTE - 1)
    BY <1>1
  <2>. QED BY <2>1, <2>2, ModSmall
<1>3. c \in Cmds
  BY <1>1, NextCmdOK
<1>4. v \in Windows /\ v.col_end < WIDTH
  BY <1>1, NextWinOK DEF GdOK
<1>5. Len(b) = Len(g.cmd.buf) + 1
  BY <1>1
<1>6. g \in G
  BY DEF GdOK
<1>7. Address(g, w) = [g EXCEPT !.cmd = c, !.win = v]
  <2>1. CASE Len(g.cmd.buf) < 3
    <3>1. Address(g, w) = [g EXCEPT !.cmd.buf = b]
      <4>1. Len(b) < 4
        BY <1>1, <1>5, <2>1
      <4>. QED BY <1>2, <4>1, Zenon DEF Address
    <3>2. c = [kind |-> g.cmd.kind, buf |-> b] /\ v = g.win
      BY <2>1 DEF NextCmd, NextWin
    <3> HIDE DEF b, c, v
    <3>3. Address(g, w) = [g EXCEPT !.cmd = [g.cmd EXCEPT !.buf = b]]
      BY <3>1
    <3>4. [g.cmd EXCEPT !.buf = b] = c
      BY <1>6, <3>2 DEF Cmds
    <3>. QED BY <1>6, <3>2, <3>3, <3>4
  <2>2. CASE ~(Len(g.cmd.buf) < 3)
    <3>0. ~(Len(b) < 4)
      BY <1>1, <1>5, <2>2
    <3>1. c = NoCmd
      BY <2>2 DEF NextCmd
    <3>2. CASE g.cmd.kind = "2A"
      <4>1. Address(g, w) = [g EXCEPT !.cmd = NoCmd, !.win.col_start = Pair(b[1], b[2]),
                                      !.win.col_end = Pair(b[3], b[4])]
        BY <1>2, <3>0, <3>2, Zenon DEF Address
      <4>2. v = [g.win EXCEPT !.col_start = Pair(b[1], b[2]), !.col_end = Pair(b[3], b[4])]
        BY <2>2, <3>2 DEF NextWin
      <4> HIDE DEF b, c, v
      <4>. QED BY <1>6, <3>1, <4>1, <4>2 DEF Windows
    <3>3. CASE g.cmd.kind # "2A"
      <4>1. Address(g, w) = [g EXCEPT !.cmd = NoCmd, !.win.row_start = Pair(b[1], b[2]),
                                      !.win.row_end = Pair(b[3], b[4])]
        BY <1>2, <3>0, <3>3, Zenon DEF Address
      <4>2. v = [g.win EXCEPT !.row_start = Pair(b[1], b[2]), !.row_end = Pair(b[3], b[4])]
        BY <2>2, <3>3 DEF NextWin
      <4> HIDE DEF b, c, v
      <4>. QED BY <1>6, <3>1, <4>1, <4>2 DEF Windows
    <3>. QED BY <3>2, <3>3
  <2>. QED BY <2>1, <2>2
<1> HIDE DEF c, v
<1>8. /\ Address(g, w).cmd = c /\ Address(g, w).win = v /\ Address(g, w) \in G
      /\ Address(g, w).rows = g.rows /\ Address(g, w).pending = g.pending
  BY <1>3, <1>4, <1>6, <1>7
<1>. QED BY <1>4, <1>8 DEF GdOK, c, v

\* The framebuffer after a pixel (framebuffer lib.rs 191-220).
LEMMA WritePixelOK ==
  ASSUME NEW f, FbOK(f), NEW px \in U
  PROVE  /\ FbOK(WritePixel(f, px)) /\ WritePixel(f, px).cmd = f.cmd
         /\ WritePixel(f, px).win = f.win
         /\ WritePixel(f, px).pixels =
              IF <<f.cursor_col, f.cursor_row>> \in Places
              THEN [f.pixels EXCEPT ![<<f.cursor_col, f.cursor_row>>] = px] ELSE f.pixels
<1> DEFINE place == <<f.cursor_col, f.cursor_row>>
           g == IF place \in Places THEN [f EXCEPT !.pixels[place] = px] ELSE f
           col == Wrap(g.cursor_col + 1)
           row == Wrap(g.cursor_row + 1)
<1>1. g = [f EXCEPT !.pixels = IF place \in Places THEN [f.pixels EXCEPT ![place] = px]
                               ELSE f.pixels]
  BY DEF FbOK
<1>2. /\ FbOK(g) /\ g.cmd = f.cmd /\ g.win = f.win
      /\ g.pixels = IF place \in Places THEN [f.pixels EXCEPT ![place] = px] ELSE f.pixels
  <2>1. PICK new \in [Places -> U] :
          new = IF place \in Places THEN [f.pixels EXCEPT ![place] = px] ELSE f.pixels
    BY DEF FbOK
  <2>2. g = [f EXCEPT !.pixels = new]
    BY <1>1, <2>1
  <2> HIDE DEF g
  <2>3. FbOK(g) /\ g.cmd = f.cmd /\ g.win = f.win /\ g.pixels = new
    BY <2>2 DEF FbOK
  <2>. QED BY <2>1, <2>3
<1>3. WritePixel(f, px) = Advance(g)
  BY DEF WritePixel
<1> HIDE DEF g
<1>4. /\ col \in U /\ row \in U /\ g.win \in Windows
  <2>1. g.cursor_col \in Nat /\ g.cursor_row \in Nat /\ g.win \in Windows
    BY <1>2, Widths DEF FbOK, U
  <2>. QED BY <2>1, Widths
<1> HIDE DEF col, row
<1>5. \E c, r \in U : Advance(g) = [g EXCEPT !.cursor_col = c, !.cursor_row = r]
  <2>1. g.cursor_row \in U /\ g.win.col_start \in U /\ g.win.row_start \in U
    BY <1>2 DEF FbOK, Windows
  <2>2. CASE col <= g.win.col_end
    <3>1. Advance(g) = [g EXCEPT !.cursor_col = col]
      BY <2>2 DEF Advance, col, row
    <3>2. Advance(g) = [g EXCEPT !.cursor_col = col, !.cursor_row = g.cursor_row]
      BY <1>2, <3>1 DEF FbOK
    <3>. QED BY <1>4, <2>1, <3>2
  <2>3. CASE ~(col <= g.win.col_end)
    <3>1. PICK r \in U : r = IF row > g.win.row_end THEN g.win.row_start ELSE row
      BY <1>4, <2>1
    <3>2. Advance(g) = [g EXCEPT !.cursor_col = g.win.col_start, !.cursor_row = r]
      BY <2>3, <3>1 DEF Advance, col, row
    <3>. QED BY <2>1, <3>2
  <2>. QED BY <2>2, <2>3
<1>6. PICK c \in U, r \in U : Advance(g) = [g EXCEPT !.cursor_col = c, !.cursor_row = r]
  BY <1>5
<1>7. PICK new : new = Advance(g)
  OBVIOUS
<1>8. FbOK(new) /\ new.cmd = g.cmd /\ new.win = g.win /\ new.pixels = g.pixels
  BY <1>2, <1>6, <1>7 DEF FbOK
<1>. QED BY <1>2, <1>3, <1>7, <1>8

\* The command after a word.
DataCmd(cmd, w) == IF cmd.kind \in {"2A", "2B"} THEN NextCmd(cmd, w) ELSE cmd

LEMMA FbDataOK ==
  ASSUME NEW f, FbOK(f), CmdOK(f.cmd), NEW w, Follows(f.cmd, w)
  PROVE  FbOK(FbData(f, w)) /\ FbData(f, w).cmd = DataCmd(f.cmd, w)
<1>1. CASE TakesAddress(f)
  BY <1>1, FbAddress DEF FbData, DataCmd, TakesAddress
<1>2. CASE ~TakesAddress(f)
  <2>1. FbData(f, w) = IF TakesPixels(f) THEN WritePixel(f, w) ELSE f
    BY <1>2 DEF FbData
  <2>2. DataCmd(f.cmd, w) = f.cmd
    BY <1>2 DEF DataCmd, TakesAddress
  <2>. QED BY <2>1, <2>2, WritePixelOK DEF Follows
<1>. QED BY <1>1, <1>2

\* A word paints one glyph at most in a row: the row takes it in.
RowStep(r, w) ==
  \/ Painted(r, w) = {} /\ GlyphData(gd, w).rows[r] = gd.rows[r]
  \/ \E new \in Slots : /\ Painted(r, w) = {new}
                        /\ GlyphData(gd, w).rows[r] = Insert(gd.rows[r], new)

LEMMA GdPixel ==
  ASSUME GdOK(gd), NEW w \in U, TakesPixels(gd)
  PROVE  /\ GdOK(GlyphPixel(gd, w)) /\ GlyphPixel(gd, w).cmd = gd.cmd
         /\ \A r \in ROWS :
              \/ Painted(r, w) = {} /\ GlyphPixel(gd, w).rows[r] = gd.rows[r]
              \/ \E new \in Slots : /\ Painted(r, w) = {new}
                                    /\ GlyphPixel(gd, w).rows[r] = Insert(gd.rows[r], new)
<1> DEFINE p == gd.pending
           q == PushPixel(p, w)
           g == GlyphPixel(gd, w)
           G == [win : Windows, cmd : Cmds, pending : Opened \cup {NoWindow},
                 rows : [ROWS -> Rows]]
<1>1. /\ gd \in G /\ gd.win.col_end < WIDTH /\ PendingOK(p)
      /\ \A r \in ROWS : RowOK(gd.rows[r])
  BY DEF GdOK
<1>2. CASE ~p.open
  <2>1. g = gd
    BY <1>2 DEF GlyphPixel
  <2>2. \A r \in ROWS : Painted(r, w) = {}
    BY <1>2 DEF Painted, Completes
  <2>. QED BY <1>1, <2>1, <2>2 DEF GdOK
<1>3. CASE p.open
  <2>0. p # NoWindow
    BY <1>3 DEF NoWindow
  <2>1. p \in Opened /\ p.w > 1 /\ p.h > 1 /\ p.x + p.w <= WIDTH /\ p.pixel_count < p.w * p.h
    BY <1>1, <2>0 DEF PendingOK
  <2>2. /\ q \in Opened /\ q.x = p.x /\ q.y = p.y /\ q.w = p.w /\ q.h = p.h
        /\ q.pixel_count = p.pixel_count + 1
    BY <2>1, PushPixelOK
  <2> HIDE DEF q
  <2>3. CASE ~Completes(gd, w)
    <3>1. g = [gd EXCEPT !.pending = q]
      BY <1>3, <2>3 DEF GlyphPixel, q
    <3>2. q.pixel_count # q.w * q.h
      BY <1>3, <2>3 DEF Completes, Full, q
    <3>3. q.pixel_count < q.w * q.h
      <4>0. p.w \in Nat /\ p.h \in Nat
        <5>1. p.w \in U /\ p.h \in U
          BY <2>1 DEF Opened
        <5>2. U \subseteq Nat
          BY DEF U
        <5>. QED BY <5>1, <5>2
      <4>1. PICK a \in Nat : a = p.w * p.h
        BY <4>0
      <4>2. p.pixel_count \in Nat
        BY <2>1 DEF Opened
      <4>. QED BY <2>1, <2>2, <3>2, <4>1, <4>2
    <3>4. PendingOK(q)
      BY <2>1, <2>2, <3>3 DEF PendingOK
    <3>5. g \in G /\ g.win = gd.win /\ g.pending = q /\ g.rows = gd.rows /\ g.cmd = gd.cmd
      BY <1>1, <2>2, <3>1
    <3>6. \A r \in ROWS : Painted(r, w) = {}
      BY <2>3 DEF Painted
    <3> HIDE DEF g
    <3>. QED BY <1>1, <3>4, <3>5, <3>6 DEF GdOK, g
  <2>4. CASE Completes(gd, w)
    <3> DEFINE found == Match(q)
               rows == [r \in ROWS |-> IF \E m \in found : m.row = r
                          THEN Insert(gd.rows[r], (CHOOSE m \in found : m.row = r).slot)
                          ELSE gd.rows[r]]
    <3>1. g = [gd EXCEPT !.pending = NoWindow, !.rows = rows]
      BY <1>3, <2>4 DEF GlyphPixel, q
    <3>2. /\ \A m \in found : m.row \in ROWS /\ m.slot \in Slots
          /\ \A m, n \in found : m = n
      BY <2>1, <2>2, MatchIs
    <3>3. \A r \in ROWS : Painted(r, w) = {m.slot : m \in {k \in found : k.row = r}}
      BY <2>4 DEF Painted, q
    <3> HIDE DEF found
    <3>4. ASSUME NEW r \in ROWS
          PROVE  \/ Painted(r, w) = {} /\ rows[r] = gd.rows[r]
                 \/ \E new \in Slots : Painted(r, w) = {new} /\ rows[r] = Insert(gd.rows[r], new)
      <4>1. CASE ~\E m \in found : m.row = r
        BY <3>3, <4>1
      <4>2. CASE \E m \in found : m.row = r
        <5>1. PICK m : m \in found /\ m.row = r /\ m = CHOOSE k \in found : k.row = r
          BY <4>2
        <5>2. {k \in found : k.row = r} = {m}
          BY <3>2, <5>1
        <5>3. Painted(r, w) = {m.slot}
          BY <3>3, <5>2
        <5>4. rows[r] = Insert(gd.rows[r], m.slot)
          BY <4>2, <5>1
        <5>. QED BY <3>2, <5>1, <5>3, <5>4
      <4>. QED BY <4>1, <4>2
    <3> HIDE DEF rows
    <3>5. \A r \in ROWS : RowOK(rows[r]) /\ rows[r] \in Rows
      <4>1. ASSUME NEW r \in ROWS, NEW new \in Slots PROVE RowOK(Insert(gd.rows[r], new))
        BY <1>1, InsertIs DEF Inserted
      <4>2. \A r \in ROWS : RowOK(rows[r])
        BY <1>1, <3>4, <4>1
      <4>. QED BY <4>2 DEF RowOK
    <3>6. rows \in [ROWS -> Rows]
      <4>1. rows = [r \in ROWS |-> rows[r]]
        BY DEF rows
      <4>. QED BY <3>5, <4>1
    <3>7. g \in G /\ g.win = gd.win /\ g.pending = NoWindow /\ g.rows = rows /\ g.cmd = gd.cmd
      BY <1>1, <3>1, <3>6
    <3> HIDE DEF g
    <3>. QED BY <1>1, <3>4, <3>5, <3>7 DEF GdOK, PendingOK, g
  <2>. QED BY <2>3, <2>4
<1>. QED BY <1>2, <1>3

LEMMA GdDataOK ==
  ASSUME GdOK(gd), CmdOK(gd.cmd), NEW w, Follows(gd.cmd, w)
  PROVE  /\ GdOK(GlyphData(gd, w)) /\ GlyphData(gd, w).cmd = DataCmd(gd.cmd, w)
         /\ \A r \in ROWS : RowStep(r, w)
<1>1. CASE TakesPixels(gd)
  <2>1. GlyphData(gd, w) = GlyphPixel(gd, w) /\ DataCmd(gd.cmd, w) = gd.cmd
    BY <1>1 DEF GlyphData, TakesPixels, TakesAddress, DataCmd
  <2>2. w \in U
    BY DEF Follows
  <2>. QED BY <1>1, <2>1, <2>2, GdPixel DEF RowStep
<1>2. CASE ~TakesPixels(gd)
  <2>1. \A r \in ROWS : Painted(r, w) = {}
    BY <1>2 DEF Painted, Completes
  <2>2. CASE TakesAddress(gd)
    <3>1. GlyphData(gd, w) = Address(gd, w) /\ DataCmd(gd.cmd, w) = NextCmd(gd.cmd, w)
      BY <2>2 DEF GlyphData, TakesAddress, DataCmd
    <3>. QED BY <2>1, <2>2, <3>1, GdAddress DEF RowStep
  <2>3. CASE ~TakesAddress(gd)
    <3>1. GlyphData(gd, w) = gd /\ DataCmd(gd.cmd, w) = gd.cmd
      BY <1>2, <2>3 DEF GlyphData, TakesAddress, DataCmd
    <3>. QED BY <2>1, <3>1 DEF RowStep
  <2>. QED BY <2>2, <2>3
<1>. QED BY <1>1, <1>2

-----------------------------------------------------------------------------
(* The steps. *)

LEMMA InitIInv == Init => IInv
<1> SUFFICES ASSUME Init PROVE IInv
  OBVIOUS
<1>1. PICK c \in Inks[0] : fb = NewFramebuffer(c)
  BY DEF Init
<1>2. /\ U16 \in Nat \ {0, 1} /\ WIDTH \in 1..(U16 - 1) /\ HEIGHT \in 1..(U16 - 1)
  BY Widths
<1>3. c \in U /\ 0 \in U /\ WIDTH - 1 \in U /\ HEIGHT - 1 \in U /\ WIDTH - 1 < WIDTH
  <2>1. 0 \in 0..(HEIGHT - 1)
    BY <1>2
  <2>2. Inks[0] \subseteq U
    BY <2>1, DisplayConstants DEF U
  <2>. QED BY <1>2, <2>2 DEF U
<1>4. NoCmd \in Cmds /\ CmdOK(NoCmd)
  BY DEF NoCmd, CmdOK, Cmds, Commands
<1>5. FbOK(fb) /\ fb.cmd = NoCmd
  <2>1. Window(0, WIDTH - 1, 0, HEIGHT - 1) \in Windows
    BY <1>3 DEF Window, Windows
  <2>2. [p \in Places |-> c] \in [Places -> U]
    BY <1>3
  <2>. QED BY <1>1, <1>3, <1>4, <2>1, <2>2 DEF NewFramebuffer, FbOK
<1>6. RowOK(EmptyRow) /\ EmptyRow \in Rows
  BY DecoderConstants DEF RowOK, EmptyRow, Rows, InOrder
<1>7. GdOK(gd) /\ gd.cmd = NoCmd /\ \A r \in ROWS : gd.rows[r] = EmptyRow
  <2>1. Window(0, 0, 0, 0) \in Windows /\ Window(0, 0, 0, 0).col_end < WIDTH
    BY <1>2, <1>3 DEF Window, Windows
  <2>2. [r \in ROWS |-> EmptyRow] \in [ROWS -> Rows]
    BY <1>6
  <2>. QED BY <1>4, <1>6, <2>1, <2>2 DEF Init, NewDecoder, GdOK, PendingOK
<1>8. screen \in [ROWS -> Line] /\ \A r \in ROWS : \A x \in Columns : screen[r][x] = NothingHashed
  BY DEF Init, Line
<1>9. \A r \in ROWS : Shows(gd.rows[r].digits, screen[r], r \in crowded)
  <2> SUFFICES ASSUME NEW r \in ROWS
               PROVE  Shows(gd.rows[r].digits, screen[r], r \in crowded)
    OBVIOUS
  <2>1. \A s : ~Among(gd.rows[r].digits, s)
    BY <1>7 DEF EmptyRow, Among
  <2>2. VisibleIn(screen[r]) = {}
    BY <1>8 DEF VisibleIn
  <2>. QED BY <2>1, <2>2 DEF Shows
<1>. QED BY <1>4, <1>5, <1>7, <1>8, <1>9 DEF IInv, Types

LEMMA CommandIInv ==
  ASSUME IInv, NEW c \in Commands, Command(c)
  PROVE  IInv'
<1>1. FbOK(fb) /\ GdOK(gd) /\ gd.cmd = fb.cmd
  BY DEF IInv, Types
<1> DEFINE new == Begun(c)
<1>2. new \in Cmds /\ CmdOK(new)
  BY DEF Begun, CmdOK, Cmds, Commands
<1> HIDE DEF new
<1>3. FbOK(fb') /\ fb'.cmd = new
  <2>1. fb.cursor_col \in U /\ fb.cursor_row \in U /\ fb.win.col_start \in U
        /\ fb.win.row_start \in U
    BY <1>1 DEF FbOK, Windows
  <2>2. \/ fb' = [fb EXCEPT !.cmd = new, !.cursor_col = fb.win.col_start,
                            !.cursor_row = fb.win.row_start]
        \/ fb' = [fb EXCEPT !.cmd = new]
    BY DEF Command, FbCommand, new
  <2>. QED BY <1>1, <1>2, <2>1, <2>2 DEF FbOK
<1>4. GdOK(gd') /\ gd'.cmd = new /\ gd'.rows = gd.rows
  <2>1. PICK q : q = IF c = "2C" THEN OpenWindow(gd.win) ELSE FinaliseCmd(gd).pending
    OBVIOUS
  <2>2. FinaliseCmd(gd) = gd \/ FinaliseCmd(gd) = [gd EXCEPT !.pending = NoWindow]
    BY DEF FinaliseCmd
  <2>3. gd' = [gd EXCEPT !.cmd = new, !.pending = q]
    <3>1. gd' = [FinaliseCmd(gd) EXCEPT !.cmd = new, !.pending = q]
      BY <2>1 DEF Command, GlyphCommand, new
    <3>. QED BY <1>1, <2>2, <3>1 DEF GdOK
  <2>4. q \in Opened \cup {NoWindow} /\ PendingOK(q)
    <3>1. CASE c = "2C"
      BY <1>1, <2>1, <3>1, OpenWindowOK DEF GdOK
    <3>2. CASE c # "2C"
      <4>1. q = gd.pending \/ q = NoWindow
        BY <1>1, <2>1, <2>2, <3>2 DEF GdOK
      <4>. QED BY <1>1, <4>1 DEF GdOK, PendingOK
    <3>. QED BY <3>1, <3>2
  <2>5. gd' \in [win : Windows, cmd : Cmds, pending : Opened \cup {NoWindow},
                 rows : [ROWS -> Rows]]
    BY <1>1, <1>2, <2>3, <2>4 DEF GdOK
  <2>6. gd'.win = gd.win /\ gd'.cmd = new /\ gd'.pending = q /\ gd'.rows = gd.rows
    BY <1>1, <2>3 DEF GdOK
  <2>. QED BY <1>1, <2>4, <2>5, <2>6 DEF GdOK
<1>5. screen' = screen /\ crowded' = crowded
  BY DEF Command
<1>. QED BY <1>2, <1>3, <1>4, <1>5 DEF IInv, Types

LEMMA FlushIInv ==
  ASSUME IInv, FlushEach
  PROVE  IInv'
<1>1. FbOK(fb) /\ GdOK(gd) /\ gd.cmd = fb.cmd /\ CmdOK(fb.cmd)
  BY DEF IInv, Types
<1> DEFINE rows == [r \in ROWS |-> [gd.rows[r] EXCEPT !.dirty = FALSE]]
<1>2. gd' = [gd EXCEPT !.rows = rows]
  BY DEF FlushEach, Flushed
<1>3. \A r \in ROWS : rows[r].digits = gd.rows[r].digits /\ rows[r] \in Rows
  <2>1. \A r \in ROWS : gd.rows[r] \in Rows
    BY <1>1 DEF GdOK
  <2>. QED BY <2>1 DEF Rows
<1>4. rows \in [ROWS -> Rows]
  BY <1>3
<1> HIDE DEF rows
<1>5. /\ gd'.win = gd.win /\ gd'.cmd = gd.cmd /\ gd'.pending = gd.pending /\ gd'.rows = rows
      /\ gd' \in [win : Windows, cmd : Cmds, pending : Opened \cup {NoWindow},
                  rows : [ROWS -> Rows]]
  BY <1>1, <1>2, <1>4 DEF GdOK
<1>6. \A r \in ROWS : RowOK(rows[r])
  BY <1>1, <1>3 DEF GdOK, RowOK
<1>7. GdOK(gd')
  BY <1>1, <1>5, <1>6 DEF GdOK
<1>8. fb' = fb /\ screen' = screen /\ crowded' = crowded
  BY DEF FlushEach
<1>. QED BY <1>1, <1>3, <1>5, <1>7, <1>8 DEF IInv, Types

\* A row that takes a glyph in shows what the screen does.
LEMMA InsertShows ==
  ASSUME NEW row, RowOK(row), NEW line \in Line, NEW full,
         Shows(row.digits, line, full), NEW new \in Slots,
         NEW after, Inserted(row, new, after), NEW full2,
         full => full2,
         Len(after.digits) = MAX_DIGITS_PER_ROW /\ ~Among(after.digits, new) => full2
  PROVE  Shows(after.digits, Paint(line, new), full2)
<1>1. \A s : s \in VisibleIn(Paint(line, new)) <=>
               s = new \/ (s \in VisibleIn(line) /\ ~Overlaps(s, new))
  BY PaintShows
<1>2. \A s : s # new => (Among(after.digits, s) <=> Among(row.digits, s) /\ ~Overlaps(s, new))
  BY DEF Inserted
<1>3. Among(after.digits, new) \/ Len(after.digits) = MAX_DIGITS_PER_ROW
  BY DEF Inserted
<1>4. /\ \A s : Among(row.digits, s) => s \in VisibleIn(line)
      /\ ~full => \A s \in VisibleIn(line) : Among(row.digits, s)
  BY DEF Shows
<1>5. ASSUME NEW s, Among(after.digits, s) PROVE s \in VisibleIn(Paint(line, new))
  BY <1>1, <1>2, <1>4, <1>5
<1>6. ASSUME ~full2, NEW s \in VisibleIn(Paint(line, new)) PROVE Among(after.digits, s)
  <2>1. CASE s = new
    BY <1>3, <1>6, <2>1
  <2>2. CASE s # new
    BY <1>1, <1>2, <1>4, <1>6, <2>2
  <2>. QED BY <2>1, <2>2
<1>. QED BY <1>5, <1>6 DEF Shows

LEMMA DataIInv ==
  ASSUME IInv, NEW w \in Words, Data(w)
  PROVE  IInv'
<1>1. /\ FbOK(fb) /\ GdOK(gd) /\ gd.cmd = fb.cmd /\ CmdOK(fb.cmd) /\ screen \in [ROWS -> Line]
      /\ \A r \in ROWS : Shows(gd.rows[r].digits, screen[r], r \in crowded)
  BY DEF IInv, Types
<1>2. Follows(fb.cmd, w)
  BY <1>1, WordFollows
<1>3. FbOK(fb') /\ fb'.cmd = DataCmd(fb.cmd, w)
  BY <1>1, <1>2, FbDataOK DEF Data
<1>4. GdOK(gd') /\ gd'.cmd = DataCmd(fb.cmd, w) /\ \A r \in ROWS : RowStep(r, w)
  BY <1>1, <1>2, GdDataOK DEF Data
<1>5. CmdOK(DataCmd(fb.cmd, w))
  BY <1>1, <1>2, NextCmdOK DEF DataCmd
<1>6. gd' = GlyphData(gd, w)
  BY DEF Data
<1>7. ASSUME NEW r \in ROWS
      PROVE  screen'[r] \in Line /\ Shows(gd'.rows[r].digits, screen'[r], r \in crowded')
  <2>1. screen'[r] = [x \in Columns |->
          LET on == {s \in Painted(r, w) : s.x <= x /\ x < s.x + s.w}
          IN  IF on = {} THEN screen[r][x] ELSE CHOOSE s \in on : TRUE]
    BY DEF Data
  <2>2. screen[r] \in Line /\ RowOK(gd.rows[r])
    BY <1>1 DEF GdOK
  <2>3. (r \in crowded) => (r \in crowded')
    BY DEF Data
  <2>4. CASE Painted(r, w) = {} /\ gd'.rows[r] = gd.rows[r]
    <3>1. screen'[r] = [x \in Columns |-> screen[r][x]]
      BY <2>1, <2>4
    <3>2. screen'[r] = screen[r]
      BY <2>2, <3>1 DEF Line
    <3>3. Shows(gd.rows[r].digits, screen[r], r \in crowded)
      BY <1>1
    <3>. QED BY <2>2, <2>3, <2>4, <3>2, <3>3 DEF Shows
  <2>5. CASE \E new \in Slots : Painted(r, w) = {new} /\ gd'.rows[r] = Insert(gd.rows[r], new)
    <3>1. PICK new \in Slots : Painted(r, w) = {new} /\ gd'.rows[r] = Insert(gd.rows[r], new)
      BY <2>5
    <3>2. screen'[r] = Paint(screen[r], new)
      <4>1. ASSUME NEW x \in Columns
            PROVE  (LET on == {s \in Painted(r, w) : s.x <= x /\ x < s.x + s.w}
                    IN  IF on = {} THEN screen[r][x] ELSE CHOOSE s \in on : TRUE)
                   = IF new.x <= x /\ x < new.x + new.w THEN new ELSE screen[r][x]
        <5>1. CASE new.x <= x /\ x < new.x + new.w
          <6>1. {s \in Painted(r, w) : s.x <= x /\ x < s.x + s.w} = {new}
            BY <3>1, <5>1
          <6>. QED BY <5>1, <6>1
        <5>2. CASE ~(new.x <= x /\ x < new.x + new.w)
          <6>1. {s \in Painted(r, w) : s.x <= x /\ x < s.x + s.w} = {}
            BY <3>1, <5>2
          <6>. QED BY <5>2, <6>1
        <5>. QED BY <5>1, <5>2
      <4>. QED BY <2>1, <4>1 DEF Paint
    <3>3. Inserted(gd.rows[r], new, gd'.rows[r])
      BY <2>2, <3>1, InsertIs
    <3>4. Len(gd'.rows[r].digits) = MAX_DIGITS_PER_ROW /\ ~Among(gd'.rows[r].digits, new)
            => r \in crowded'
      <4> SUFFICES ASSUME Len(gd'.rows[r].digits) = MAX_DIGITS_PER_ROW,
                          ~Among(gd'.rows[r].digits, new)
                   PROVE  r \in crowded'
        OBVIOUS
      <4>1. gd'.rows[r].digits \in Seq(Slots)
        BY <3>3 DEF Inserted, RowOK, Rows
      <4>2. \A i \in DOMAIN gd'.rows[r].digits : gd'.rows[r].digits[i] # new
        BY <4>1 DEF Among
      <4>3. new \in Painted(r, w)
        BY <3>1
      <4>. QED BY <4>2, <4>3 DEF Data
    <3>5. PICK f1 : f1 = (r \in crowded)
      OBVIOUS
    <3>6. PICK f2 : f2 = (r \in crowded')
      OBVIOUS
    <3>7. Shows(gd.rows[r].digits, screen[r], f1)
      BY <1>1, <3>5
    <3>8. Shows(gd'.rows[r].digits, Paint(screen[r], new), f2)
      <4>1. f1 => f2
        BY <2>3, <3>5, <3>6
      <4>2. PICK after : after = gd'.rows[r]
        OBVIOUS
      <4>3. Len(after.digits) = MAX_DIGITS_PER_ROW /\ ~Among(after.digits, new) => f2
        BY <3>4, <3>6, <4>2
      <4>4. Inserted(gd.rows[r], new, after)
        BY <3>3, <4>2
      <4>5. Shows(after.digits, Paint(screen[r], new), f2)
        BY <2>2, <3>7, <4>1, <4>3, <4>4, InsertShows
      <4>. QED BY <4>2, <4>5
    <3>9. Paint(screen[r], new) \in Line
      BY <2>2, PaintShows
    <3>. QED BY <3>2, <3>6, <3>8, <3>9
  <2>. QED BY <1>4, <1>6, <2>4, <2>5 DEF RowStep
<1>8. screen' \in [ROWS -> Line]
  <2>1. screen' = [r \in ROWS |-> screen'[r]]
    BY DEF Data
  <2>. QED BY <1>7, <2>1
<1>. QED BY <1>3, <1>4, <1>5, <1>7, <1>8 DEF IInv, Types

\* The invariant holds initially and every step keeps it.
THEOREM Invariant == Spec => []IInv
<1>1. Init => IInv
  BY InitIInv
<1>2. IInv /\ [Next]_vars => IInv'
  <2> SUFFICES ASSUME IInv, [Next]_vars PROVE IInv'
    OBVIOUS
  <2>1. ASSUME NEW c \in Commands, Command(c) PROVE IInv'
    BY <2>1, CommandIInv
  <2>2. ASSUME NEW w \in Words, Data(w) PROVE IInv'
    BY <2>2, DataIInv
  <2>3. ASSUME FlushEach PROVE IInv'
    BY <2>3, FlushIInv
  <2>4. CASE UNCHANGED vars
    BY <2>4 DEF vars, IInv, Types
  <2>. QED BY <2>1, <2>2, <2>3, <2>4 DEF Next
<1>. QED BY <1>1, <1>2, PTL DEF Spec

\* The registers, the cursor and the open window stay in their ranges, the two
\* readers take the same commands apart, and no row holds more slots than it can.
THEOREM TypeCorrect == Spec => []TypeOK
<1>1. IInv => TypeOK
  <2> SUFFICES ASSUME IInv PROVE TypeOK
    OBVIOUS
  <2>1. FbOK(fb) /\ GdOK(gd) /\ gd.cmd = fb.cmd /\ CmdOK(fb.cmd)
    BY DEF IInv, Types
  <2>2. /\ fb.pixels \in [Places -> U] /\ fb.cursor_col \in U /\ fb.cursor_row \in U
        /\ fb.cmd.kind \in Commands /\ Len(fb.cmd.buf) < 4
    BY <2>1 DEF FbOK, CmdOK, Cmds
  <2>3. gd.pending.open => gd.pending.pixel_count < gd.pending.w * gd.pending.h
    <3>1. CASE gd.pending = NoWindow
      BY <3>1 DEF NoWindow
    <3>2. CASE gd.pending # NoWindow
      BY <2>1, <3>2 DEF GdOK, PendingOK
    <3>. QED BY <3>1, <3>2
  <2>4. \A r \in ROWS : Len(gd.rows[r].digits) <= MAX_DIGITS_PER_ROW
    BY <2>1 DEF GdOK, RowOK
  <2>. QED BY <2>1, <2>2, <2>3, <2>4 DEF TypeOK, U
<1>. QED BY <1>1, Invariant, PTL

\* Whatever windows, cut windows and overlaps came: a row holds, left to right, only
\* glyphs nothing was painted over since, and all of them unless one found no room.
THEOREM SlotsAreVisibleAlways == Spec => []SlotsAreVisible
<1>1. IInv => SlotsAreVisible
  <2> SUFFICES ASSUME IInv, NEW r \in ROWS
               PROVE  LET digits == gd.rows[r].digits
                          slots == {digits[i] : i \in DOMAIN digits}
                      IN  /\ slots \subseteq Visible(r)
                          /\ r \notin crowded => Visible(r) \subseteq slots
                          /\ \A i, j \in DOMAIN digits :
                               i < j => digits[i].x + digits[i].w <= digits[j].x
    BY DEF SlotsAreVisible
  <2> DEFINE digits == gd.rows[r].digits
             slots == {digits[i] : i \in DOMAIN digits}
  <2>1. GdOK(gd) /\ Shows(digits, screen[r], r \in crowded)
    BY DEF IInv, Types
  <2>2. digits \in Seq(Slots) /\ InOrder(digits)
    BY <2>1 DEF GdOK, RowOK, Rows
  <2>3. Visible(r) = VisibleIn(screen[r])
    BY DEF Visible, VisibleIn
  <2> HIDE DEF digits
  <2>4. \A s : s \in slots <=> Among(digits, s)
    BY <2>2 DEF Among
  <2>5. \A i, j \in DOMAIN digits : i < j => digits[i].x + digits[i].w <= digits[j].x
    BY <2>2 DEF InOrder, LeftOf
  <2>. QED BY <2>1, <2>3, <2>4, <2>5 DEF Shows, digits
<1>. QED BY <1>1, Invariant, PTL

\* Only an insertion changes a row's value, and it marks the row: the reader that
\* flushes the dirty rows misses no change.
THEOREM ChangeIsDirtyAlways == Spec => ChangeIsDirty
<1> DEFINE Marks == \A r \in ROWS : Value(gd'.rows[r]) # Value(gd.rows[r]) => gd'.rows[r].dirty
<1>1. IInv /\ [Next]_vars => [Marks]_vars
  <2> SUFFICES ASSUME IInv, Next PROVE Marks
    OBVIOUS
  <2>1. GdOK(gd) /\ FbOK(fb) /\ gd.cmd = fb.cmd /\ CmdOK(fb.cmd)
    BY DEF IInv, Types
  <2>2. ASSUME NEW c \in Commands, Command(c) PROVE Marks
    <3>1. gd'.rows = gd.rows
      <4>1. gd' = GlyphCommand(gd, c)
        BY <2>2 DEF Command
      <4>2. FinaliseCmd(gd).rows = gd.rows
        BY <2>1 DEF FinaliseCmd, GdOK
      <4>3. GlyphCommand(gd, c).rows = FinaliseCmd(gd).rows
        BY <2>1 DEF GlyphCommand, FinaliseCmd, GdOK
      <4>. QED BY <4>1, <4>2, <4>3
    <3>. QED BY <3>1
  <2>3. ASSUME NEW w \in Words, Data(w) PROVE Marks
    <3>1. gd' = GlyphData(gd, w) /\ \A r \in ROWS : RowStep(r, w)
      BY <2>1, <2>3, WordFollows, GdDataOK DEF Data
    <3>2. ASSUME NEW r \in ROWS
          PROVE  gd'.rows[r] = gd.rows[r] \/ gd'.rows[r].dirty
      <4>1. \A new : Insert(gd.rows[r], new).dirty
        BY DEF Insert
      <4>. QED BY <3>1, <4>1 DEF RowStep
    <3>. QED BY <3>2
  <2>4. ASSUME FlushEach PROVE Marks
    <3>1. ASSUME NEW r \in ROWS PROVE gd'.rows[r].digits = gd.rows[r].digits
      <4>1. gd.rows[r] \in Rows /\ gd' = Flushed(gd)
        BY <2>1, <2>4 DEF GdOK, FlushEach
      <4>2. gd'.rows[r] = [gd.rows[r] EXCEPT !.dirty = FALSE]
        BY <2>1, <4>1 DEF Flushed, GdOK
      <4>. QED BY <4>1, <4>2 DEF Rows
    <3>2. \A a, b : a.digits = b.digits => Value(a) = Value(b)
      BY DEF Value
    <3>. QED BY <3>1, <3>2
  <2>. QED BY <2>2, <2>3, <2>4 DEF Next
<1>. QED BY <1>1, Invariant, PTL DEF Spec, ChangeIsDirty

-----------------------------------------------------------------------------
(* The runs of a shape. *)

\* The ends add the runs up.
LEMMA EndsIs ==
  ASSUME NEW runs \in Seq(Nat)
  PROVE  /\ Ends(runs) \in [0..Len(runs) -> Nat] /\ Ends(runs)[0] = 0
         /\ \A n \in 1..Len(runs) : Ends(runs)[n] = Ends(runs)[n - 1] + runs[n]
<1> DEFINE L == Len(runs)
           Def(f) == f = [n \in 0..L |-> IF n = 0 THEN 0 ELSE f[n - 1] + runs[n]]
           OK(f, m) == /\ f \in [0..m -> Nat] /\ f[0] = 0
                       /\ \A n \in 1..m : f[n] = f[n - 1] + runs[n]
           end == CHOOSE f : Def(f)
           P == {m \in Nat : \E f : OK(f, m)}
<1>1. L \in Nat /\ \A n \in 1..L : runs[n] \in Nat
  OBVIOUS
<1>2. 0 \in P
  <2> DEFINE f == [n \in 0..0 |-> 0]
  <2>1. OK(f, 0)
    OBVIOUS
  <2>. QED BY <2>1
<1>3. ASSUME NEW m \in 0..(L - 1), m \in P PROVE m + 1 \in P
  <2>1. PICK f : OK(f, m)
    BY <1>3
  <2> DEFINE last == f[m] + runs[m + 1]
             h == [n \in 0..(m + 1) |-> IF n <= m THEN f[n] ELSE last]
  <2>2. m \in Nat /\ m \in 0..m /\ 0 \in 0..m /\ m + 1 \in 1..L
    BY <1>1
  <2>3. f[m] \in Nat /\ last \in Nat
    BY <1>1, <2>1, <2>2
  <2>4. h \in [0..(m + 1) -> Nat] /\ h[0] = 0
    BY <2>1, <2>2, <2>3
  <2>5. ASSUME NEW n \in 1..(m + 1) PROVE h[n] = h[n - 1] + runs[n]
    <3>1. CASE n <= m
      <4>1. n \in 1..m /\ n - 1 <= m /\ n \in 0..(m + 1) /\ n - 1 \in 0..(m + 1)
        BY <2>2, <3>1
      <4>2. h[n] = f[n] /\ h[n - 1] = f[n - 1]
        BY <3>1, <4>1
      <4>3. f[n] = f[n - 1] + runs[n]
        BY <2>1, <4>1
      <4>. QED BY <4>2, <4>3
    <3>2. CASE ~(n <= m)
      <4>1. n = m + 1 /\ n - 1 = m /\ n \in 0..(m + 1) /\ m \in 0..(m + 1)
        BY <2>2, <3>2
      <4>2. h[n] = last /\ h[n - 1] = f[m]
        BY <2>2, <3>2, <4>1
      <4>. QED BY <4>1, <4>2
    <3>. QED BY <3>1, <3>2
  <2> HIDE DEF h
  <2>6. OK(h, m + 1)
    BY <2>4, <2>5
  <2>7. \E g : OK(g, m + 1)
    BY <2>6
  <2> HIDE DEF OK
  <2>. QED BY <2>2, <2>7
<1>4. \E f : Def(f)
  <2>1. L \in P
    <3> HIDE DEF P
    <3>1. \A m \in 0..L : m \in P
      BY <1>1, <1>2, <1>3, UpTo
    <3>. QED BY <1>1, <3>1
  <2>2. PICK f : OK(f, L)
    BY <2>1
  <2>3. ASSUME NEW n \in 0..L PROVE f[n] = IF n = 0 THEN 0 ELSE f[n - 1] + runs[n]
    <3>1. CASE n = 0
      BY <2>2, <3>1
    <3>2. CASE n # 0
      <4>1. n \in 1..L
        BY <1>1, <3>2
      <4>. QED BY <2>2, <3>2, <4>1
    <3>. QED BY <3>1, <3>2
  <2>4. f \in [0..L -> Nat]
    BY <2>2
  <2>5. Def(f)
    BY <2>3, <2>4
  <2>. QED BY <2>5
<1>5. Def(end)
  BY <1>4
<1>6. Ends(runs) = end
  BY DEF Ends
<1> HIDE DEF end
<1>7. /\ end[0] = 0
      /\ \A n \in 1..L : end[n] = end[n - 1] + runs[n]
      /\ end = [n \in 0..L |-> end[n]]
  <2>1. ASSUME NEW n \in 0..L PROVE end[n] = IF n = 0 THEN 0 ELSE end[n - 1] + runs[n]
    BY <1>5
  <2>2. 0 \in 0..L /\ \A n \in 1..L : n \in 0..L /\ n # 0
    BY <1>1
  <2>3. end = [n \in 0..L |-> end[n]]
    BY <1>5
  <2>. QED BY <2>1, <2>2, <2>3
<1> DEFINE Q == {n \in Nat : end[n] \in Nat}
<1>8. 0 \in Q
  BY <1>7
<1>9. ASSUME NEW n \in 0..(L - 1), n \in Q PROVE n + 1 \in Q
  <2>1. n + 1 \in 1..L /\ (n + 1) - 1 = n /\ n + 1 \in Nat
    BY <1>1
  <2>2. end[n + 1] = end[n] + runs[n + 1]
    BY <1>7, <2>1
  <2>. QED BY <1>1, <1>9, <2>1, <2>2
<1>10. \A n \in 0..L : end[n] \in Nat
  <2> HIDE DEF Q
  <2>1. \A n \in 0..L : n \in Q
    BY <1>1, <1>8, <1>9, UpTo
  <2>. QED BY <2>1 DEF Q
<1>. QED BY <1>6, <1>7, <1>10

\* Shapes that begin alike end their first runs alike.
LEMMA EndsSame ==
  ASSUME NEW a \in Seq(Nat), NEW b \in Seq(Nat), NEW m \in Nat, m <= Len(a), m <= Len(b),
         \A i \in 1..m : a[i] = b[i]
  PROVE  \A n \in 0..m : Ends(a)[n] = Ends(b)[n]
<1> DEFINE Q == {n \in Nat : Ends(a)[n] = Ends(b)[n]}
<1>1. 0 \in Q
  BY EndsIs
<1>2. ASSUME NEW n \in 0..(m - 1), n \in Q PROVE n + 1 \in Q
  <2>1. n + 1 \in 1..m /\ n + 1 \in 1..Len(a) /\ n + 1 \in 1..Len(b) /\ (n + 1) - 1 = n
        /\ n + 1 \in Nat
    OBVIOUS
  <2>2. Ends(a)[n + 1] = Ends(a)[n] + a[n + 1]
    BY <2>1, EndsIs
  <2>3. Ends(b)[n + 1] = Ends(b)[n] + b[n + 1]
    BY <2>1, EndsIs
  <2>. QED BY <1>2, <2>1, <2>2, <2>3
<1> HIDE DEF Q
<1>3. \A n \in 0..m : n \in Q
  BY <1>1, <1>2, UpTo
<1>. QED BY <1>3 DEF Q

LEMMA ForegroundIs ==
  ASSUME NEW runs \in Seq(Nat), NEW k
  PROVE  Foreground(runs, k) <=>
           \E i \in 1..Len(runs) : i % 2 = 0 /\ Ends(runs)[i - 1] <= k /\ k < Ends(runs)[i]
<1>1. DOMAIN runs = 1..Len(runs)
  OBVIOUS
<1>. QED BY <1>1, Zenon DEF Foreground

\* Runs that make up `count` pixels.
RunsSay(runs, count) ==
  /\ runs \in Seq(Nat) /\ Len(runs) >= 1
  /\ Ends(runs)[Len(runs)] = count
  /\ \A i \in 0..Len(runs) : Ends(runs)[i] <= count

\* One more pixel's runs.
Extends(runs, more, count) ==
  \A k \in 0..(count - 1) : Foreground(more, k) <=> Foreground(runs, k)

\* The last run takes one pixel more.
Ended(runs, last) == Append(runs, last)
EndedLater(runs, last) == Append(runs, last + 1)

LEMMA LongerRun ==
  ASSUME NEW s \in Seq(Nat), NEW l \in Nat, NEW count \in Nat,
         NEW a, a = Ended(s, l), NEW b, b = EndedLater(s, l), RunsSay(a, count)
  PROVE  /\ RunsSay(b, count + 1) /\ Extends(a, b, count) /\ Len(b) = Len(a)
         /\ Foreground(b, count) <=> Len(b) % 2 = 0
<1> DEFINE L == Len(s) + 1
<1>1. /\ L \in Nat \ {0} /\ a \in Seq(Nat) /\ b \in Seq(Nat) /\ Len(a) = L /\ Len(b) = L
      /\ a[L] = l /\ b[L] = l + 1 /\ L - 1 = Len(s) /\ L \in 1..L
      /\ \A i \in 1..(L - 1) : a[i] = b[i]
  BY DEF Ended, EndedLater
<1> HIDE DEF L
<1>2. \A n \in 0..(L - 1) : Ends(a)[n] = Ends(b)[n]
  <2>1. L - 1 \in Nat /\ L - 1 <= Len(a) /\ L - 1 <= Len(b)
    BY <1>1
  <2>2. PICK m \in Nat : m = L - 1
    BY <2>1
  <2>3. /\ a \in Seq(Nat) /\ b \in Seq(Nat) /\ m <= Len(a) /\ m <= Len(b)
        /\ \A i \in 1..m : a[i] = b[i]
    BY <1>1, <2>1, <2>2, Zenon
  <2>4. \A n \in 0..m : Ends(a)[n] = Ends(b)[n]
    BY <2>3, EndsSame, Zenon
  <2>. QED BY <2>2, <2>4, Zenon
<1>3. /\ Ends(a)[L] = Ends(a)[L - 1] + l /\ Ends(b)[L] = Ends(b)[L - 1] + l + 1
      /\ Ends(a)[L] = count /\ L - 1 \in 0..(L - 1)
      /\ \A n \in 0..L : Ends(a)[n] \in Nat /\ Ends(b)[n] \in Nat
  <2>1. Ends(a)[L] = Ends(a)[L - 1] + a[L] /\ \A n \in 0..L : Ends(a)[n] \in Nat
    BY <1>1, EndsIs
  <2>2. Ends(b)[L] = Ends(b)[L - 1] + b[L] /\ \A n \in 0..L : Ends(b)[n] \in Nat
    BY <1>1, EndsIs
  <2>3. Ends(b)[L - 1] \in Nat
    BY <1>1, <2>2
  <2>4. Ends(a)[L] = count
    BY <1>1 DEF RunsSay
  <2>5. Ends(b)[L] = Ends(b)[L - 1] + l + 1
    <3>1. PICK e \in Nat : e = Ends(b)[L - 1]
      BY <2>3
    <3>2. Ends(b)[L] = e + (l + 1)
      BY <1>1, <2>2, <3>1
    <3>3. e + (l + 1) = e + l + 1
      OBVIOUS
    <3>. QED BY <3>1, <3>2, <3>3
  <2>. QED BY <1>1, <2>1, <2>2, <2>4, <2>5
<1>4. Ends(b)[L] = count + 1
  BY <1>1, <1>2, <1>3
<1>5. \A n \in 0..(L - 1) : Ends(b)[n] <= count
  <2>1. \A n \in 0..L : Ends(a)[n] <= count
    BY <1>1 DEF RunsSay
  <2>2. \A n \in 0..(L - 1) : n \in 0..L
    BY <1>1
  <2>. QED BY <1>2, <2>1, <2>2
<1>6. \A i \in 1..L : i \in 1..(L - 1) \/ i = L
  BY <1>1
<1>7. \A i \in 0..L : i \in 0..(L - 1) \/ i = L
  BY <1>1
<1>8. RunsSay(b, count + 1)
  <2>1. \A n \in 0..L : Ends(b)[n] <= count + 1
    <3>1. \A n \in 0..(L - 1) : n \in 0..L
      BY <1>1
    <3>. QED BY <1>3, <1>4, <1>5, <1>7, <3>1
  <2>. QED BY <1>1, <1>4, <2>1 DEF RunsSay
<1>9. ASSUME NEW k \in 0..(count - 1), NEW i \in 1..L
      PROVE  Ends(a)[i - 1] <= k /\ k < Ends(a)[i] <=> Ends(b)[i - 1] <= k /\ k < Ends(b)[i]
  <2>1. i - 1 \in 0..(L - 1)
    BY <1>1
  <2>2. CASE i \in 1..(L - 1)
    <3>1. i \in 0..(L - 1)
      BY <2>2
    <3>. QED BY <1>2, <2>1, <3>1
  <2>3. CASE i = L
    <3>1. Ends(a)[i - 1] = Ends(b)[i - 1]
      BY <1>2, <2>1
    <3>2. k < Ends(a)[i] /\ k < Ends(b)[i]
      BY <1>3, <1>4, <2>3
    <3>. QED BY <3>1, <3>2
  <2>. QED BY <1>6, <2>2, <2>3
<1>10. Extends(a, b, count)
  <2>1. ASSUME NEW k \in 0..(count - 1) PROVE Foreground(b, k) <=> Foreground(a, k)
    <3>1. Foreground(a, k) <=>
            \E i \in 1..L : i % 2 = 0 /\ Ends(a)[i - 1] <= k /\ k < Ends(a)[i]
      BY <1>1, ForegroundIs
    <3>2. Foreground(b, k) <=>
            \E i \in 1..L : i % 2 = 0 /\ Ends(b)[i - 1] <= k /\ k < Ends(b)[i]
      BY <1>1, ForegroundIs
    <3>. QED BY <1>9, <3>1, <3>2
  <2>. QED BY <2>1 DEF Extends
<1>11. Foreground(b, count) <=> L % 2 = 0
  <2>1. \A i \in 1..L : count < Ends(b)[i] => i = L
    <3>1. \A i \in 1..(L - 1) : ~(count < Ends(b)[i])
      <4>1. \A i \in 1..(L - 1) : i \in 0..(L - 1) /\ i \in 0..L
        BY <1>1
      <4>. QED BY <1>3, <1>5, <4>1
    <3>. QED BY <1>6, <3>1
  <2>2. Ends(b)[L - 1] <= count /\ count < Ends(b)[L]
    BY <1>3, <1>4, <1>5
  <2>3. Foreground(b, count) <=>
          \E i \in 1..L : i % 2 = 0 /\ Ends(b)[i - 1] <= count /\ count < Ends(b)[i]
    BY <1>1, ForegroundIs
  <2>. QED BY <1>1, <2>1, <2>2, <2>3
<1>. QED BY <1>1, <1>8, <1>10, <1>11 DEF RunsSay

LEMMA AnotherRun ==
  ASSUME NEW a, NEW count \in Nat, RunsSay(a, count), NEW b, b = Append(a, 1)
  PROVE  /\ RunsSay(b, count + 1) /\ Extends(a, b, count) /\ Len(b) = Len(a) + 1
         /\ Foreground(b, count) <=> Len(b) % 2 = 0
<1> DEFINE L == Len(a)
<1>1. /\ a \in Seq(Nat) /\ L \in Nat \ {0} /\ b \in Seq(Nat) /\ Len(b) = L + 1
      /\ b[L + 1] = 1 /\ \A i \in 1..L : a[i] = b[i]
  BY DEF RunsSay
<1>2. Ends(a)[L] = count /\ \A n \in 0..L : Ends(a)[n] <= count
  BY DEF RunsSay
<1> HIDE DEF L
<1>3. \A n \in 0..L : Ends(a)[n] = Ends(b)[n]
  <2>1. L <= Len(a) /\ L <= Len(b)
    BY <1>1 DEF L
  <2>. QED BY <1>1, <2>1, EndsSame
<1>4. Ends(b)[L + 1] = count + 1 /\ \A n \in 0..(L + 1) : Ends(b)[n] \in Nat
  <2>1. L + 1 \in 1..Len(b) /\ (L + 1) - 1 = L /\ L \in 0..L
    BY <1>1
  <2>2. Ends(b)[L + 1] = Ends(b)[L] + b[L + 1] /\ Ends(b) \in [0..Len(b) -> Nat]
    BY <1>1, <2>1, EndsIs
  <2>3. Ends(b)[L] = count
    BY <1>2, <1>3, <2>1
  <2>. QED BY <1>1, <2>2, <2>3
<1>5. \A n \in 0..L : Ends(b)[n] <= count
  BY <1>2, <1>3
<1>6. \A i \in 1..(L + 1) : i \in 1..L \/ i = L + 1
  BY <1>1
<1>7. \A i \in 0..(L + 1) : i \in 0..L \/ i = L + 1
  BY <1>1
<1>9. RunsSay(b, count + 1)
  <2>1. \A n \in 0..(L + 1) : Ends(b)[n] <= count + 1
    <3>1. \A n \in 0..L : n \in 0..(L + 1)
      BY <1>1
    <3>. QED BY <1>4, <1>5, <1>7, <3>1
  <2>. QED BY <1>1, <1>4, <2>1 DEF RunsSay
<1>10. ASSUME NEW k \in 0..(count - 1) PROVE Foreground(b, k) <=> Foreground(a, k)
  <2>1. ASSUME NEW i \in 1..L
        PROVE  Ends(a)[i - 1] <= k /\ k < Ends(a)[i] <=> Ends(b)[i - 1] <= k /\ k < Ends(b)[i]
    <3>1. i - 1 \in 0..L /\ i \in 0..L
      BY <1>1
    <3>. QED BY <1>3, <3>1
  <2>2. ~(Ends(b)[(L + 1) - 1] <= k)
    <3>1. (L + 1) - 1 = L /\ L \in 0..L
      BY <1>1
    <3>. QED BY <1>2, <1>3, <3>1
  <2>3. \A i \in 1..L : i \in 1..(L + 1)
    BY <1>1
  <2>4. Foreground(a, k) <=>
          \E i \in 1..L : i % 2 = 0 /\ Ends(a)[i - 1] <= k /\ k < Ends(a)[i]
    BY <1>1, ForegroundIs DEF L
  <2>5. Foreground(b, k) <=>
          \E i \in 1..(L + 1) : i % 2 = 0 /\ Ends(b)[i - 1] <= k /\ k < Ends(b)[i]
    BY <1>1, ForegroundIs
  <2>. QED BY <1>6, <2>1, <2>2, <2>3, <2>4, <2>5
<1>11. Foreground(b, count) <=> (L + 1) % 2 = 0
  <2>1. \A i \in 1..(L + 1) : count < Ends(b)[i] => i = L + 1
    <3>1. \A i \in 1..L : ~(count < Ends(b)[i])
      <4>1. \A i \in 1..L : i \in 0..L /\ i \in 0..(L + 1)
        BY <1>1
      <4>. QED BY <1>4, <1>5, <4>1
    <3>. QED BY <1>6, <3>1
  <2>2. Ends(b)[(L + 1) - 1] <= count /\ count < Ends(b)[L + 1] /\ L + 1 \in 1..(L + 1)
    <3>1. (L + 1) - 1 = L /\ L \in 0..L
      BY <1>1
    <3>. QED BY <1>1, <1>2, <1>3, <1>4, <3>1
  <2>3. Foreground(b, count) <=>
          \E i \in 1..(L + 1) : i % 2 = 0 /\ Ends(b)[i - 1] <= count /\ count < Ends(b)[i]
    BY <1>1, ForegroundIs
  <2>. QED BY <2>1, <2>2, <2>3
<1>. QED BY <1>1, <1>9, <1>10, <1>11 DEF Extends, L

\* The runs a window has counted are its pixels'.
RunsOK(p) ==
  IF p.pixel_count = 0 THEN p.shape = <<>> /\ p.run_len = 0 /\ p.run_is_fg = FALSE
  ELSE RunsSay(Hash(p), p.pixel_count) /\ (p.run_is_fg = TRUE <=> Len(Hash(p)) % 2 = 0)

\* A pixel is counted in the runs as what it is (decoder lib.rs 88-109).
LEMMA PushRuns ==
  ASSUME NEW p \in Opened, NEW px \in U, NEW q, q = PushPixel(p, px), RunsOK(p)
  PROVE  /\ RunsOK(q) /\ q.bg = IF p.pixel_count = 0 THEN px ELSE p.bg
         /\ Extends(Hash(p), Hash(q), p.pixel_count)
         /\ Foreground(Hash(q), p.pixel_count) <=> p.pixel_count # 0 /\ px # p.bg
<1> DEFINE first == p.pixel_count = 0
           is_fg == ~first /\ px # p.bg
           counted == [p EXCEPT !.pixel_count = @ + 1, !.bg = IF first THEN px ELSE @]
<1>1. /\ p.bg \in U /\ p.shape \in Seq(Nat) /\ p.run_len \in Nat /\ p.run_is_fg \in BOOLEAN
      /\ p.pixel_count \in Nat /\ q \in Opened /\ q.pixel_count = p.pixel_count + 1
      /\ q.pixel_count # 0
  <2>1. q \in Opened /\ q.pixel_count = p.pixel_count + 1
    BY PushPixelOK
  <2>2. p.pixel_count \in Nat
    BY DEF Opened
  <2>3. q.pixel_count # 0
    BY <2>1, <2>2
  <2>. QED BY <2>1, <2>3 DEF Opened
<1>2. /\ counted.bg = IF first THEN px ELSE p.bg
      /\ counted.shape = p.shape /\ counted.run_len = p.run_len
      /\ \A k : [counted EXCEPT !.run_len = k].bg = counted.bg
      /\ \A k, s, f : [counted EXCEPT !.shape = s, !.run_len = k, !.run_is_fg = f].bg = counted.bg
  BY DEF Opened
<1>3. PICK fg \in BOOLEAN : fg = is_fg
  OBVIOUS
<1> HIDE DEF is_fg
<1>4. q = IF fg = p.run_is_fg
          THEN [counted EXCEPT !.run_len = p.run_len + 1]
          ELSE [counted EXCEPT !.shape = Append(p.shape, p.run_len), !.run_len = 1,
                               !.run_is_fg = fg]
  BY <1>2, <1>3 DEF PushPixel, is_fg
<1>5. q.bg = IF first THEN px ELSE p.bg
  BY <1>2, <1>4
<1>6. CASE fg = p.run_is_fg
  <2>1. q.shape = p.shape /\ q.run_len = p.run_len + 1 /\ q.run_is_fg = p.run_is_fg
    BY <1>4, <1>6 DEF Opened
  <2>2. Hash(q) = Append(p.shape, p.run_len + 1) /\ Hash(p) = Append(p.shape, p.run_len)
    BY <2>1 DEF Hash
  <2>3. CASE first
    <3>1. fg = FALSE /\ p.shape = <<>> /\ p.run_len = 0
      BY <1>3, <2>3 DEF RunsOK, is_fg
    <3>2. Hash(q) = <<1>>
      BY <2>2, <3>1
    <3>3. /\ <<1>> \in Seq(Nat) /\ Len(<<1>>) = 1 /\ <<1>>[1] = 1 /\ 1 \in 1..1 /\ 1 - 1 = 0
      OBVIOUS
    <3>4. Ends(<<1>>)[0] = 0 /\ Ends(<<1>>)[1] = 1
      <4>1. Ends(<<1>>)[0] = 0 /\ Ends(<<1>>)[1] = Ends(<<1>>)[1 - 1] + <<1>>[1]
        BY <3>3, EndsIs
      <4>. QED BY <3>3, <4>1
    <3>5. RunsSay(<<1>>, 1)
      <4>1. \A i \in 0..1 : i = 0 \/ i = 1
        OBVIOUS
      <4>2. \A i \in 0..1 : Ends(<<1>>)[i] <= 1
        BY <3>4, <4>1
      <4>. QED BY <3>3, <3>4, <4>2 DEF RunsSay
    <3>6. ~Foreground(<<1>>, 0)
      <4>1. \A i \in 1..Len(<<1>>) : i % 2 # 0
        BY <3>3
      <4>. QED BY <3>3, <4>1, ForegroundIs
    <3>7. q.pixel_count = 1 /\ q.run_is_fg = FALSE
      BY <1>1, <1>6, <2>1, <2>3, <3>1
    <3>8. RunsOK(q)
      <4>1. RunsSay(Hash(q), q.pixel_count)
        BY <3>2, <3>5, <3>7, Zenon
      <4>2. Len(Hash(q)) % 2 = 1
        BY <3>2, <3>3
      <4>. QED BY <1>1, <3>7, <4>1, <4>2 DEF RunsOK
    <3>9. Extends(Hash(p), Hash(q), 0)
      BY DEF Extends
    <3>. QED BY <1>5, <2>3, <3>2, <3>6, <3>8, <3>9
  <2>4. CASE ~first
    <3>1. RunsSay(Hash(p), p.pixel_count) /\ (p.run_is_fg = TRUE <=> Len(Hash(p)) % 2 = 0)
      BY <2>4 DEF RunsOK
    <3>2. /\ RunsSay(Hash(q), p.pixel_count + 1) /\ Extends(Hash(p), Hash(q), p.pixel_count)
          /\ Len(Hash(q)) = Len(Hash(p))
          /\ Foreground(Hash(q), p.pixel_count) <=> Len(Hash(q)) % 2 = 0
      <4>1. PICK a, b : a = Append(p.shape, p.run_len) /\ b = Append(p.shape, p.run_len + 1)
        OBVIOUS
      <4>2. RunsSay(a, p.pixel_count)
        BY <2>2, <3>1, <4>1
      <4>3. /\ RunsSay(b, p.pixel_count + 1) /\ Extends(a, b, p.pixel_count) /\ Len(b) = Len(a)
            /\ Foreground(b, p.pixel_count) <=> Len(b) % 2 = 0
        <5>1. PICK s \in Seq(Nat), l \in Nat, count \in Nat :
                s = p.shape /\ l = p.run_len /\ count = p.pixel_count
          BY <1>1
        <5>2. /\ a = Ended(s, l) /\ b = EndedLater(s, l) /\ RunsSay(a, count)
              /\ s \in Seq(Nat) /\ l \in Nat /\ count \in Nat
          BY <4>1, <4>2, <5>1 DEF Ended, EndedLater
        <5>3. /\ RunsSay(b, count + 1) /\ Extends(a, b, count) /\ Len(b) = Len(a)
              /\ Foreground(b, count) <=> Len(b) % 2 = 0
          BY <5>2, LongerRun
        <5>. QED BY <5>1, <5>3
      <4>4. a = Hash(p) /\ b = Hash(q)
        BY <2>2, <4>1
      <4>. QED BY <4>3, <4>4, Zenon
    <3>3. p.run_is_fg = TRUE <=> ~first /\ px # p.bg
      BY <1>3, <1>6 DEF is_fg
    <3>4. RunsOK(q)
      BY <1>1, <2>1, <3>1, <3>2 DEF RunsOK
    <3>. QED BY <1>5, <3>1, <3>2, <3>3, <3>4
  <2>. QED BY <2>3, <2>4
<1>7. CASE fg # p.run_is_fg
  <2>1. q.shape = Append(p.shape, p.run_len) /\ q.run_len = 1 /\ q.run_is_fg = fg
    BY <1>4, <1>7 DEF Opened
  <2>2. Hash(q) = Append(Hash(p), 1)
    BY <2>1 DEF Hash
  <2>3. ~first
    BY <1>3, <1>7 DEF RunsOK, is_fg
  <2>4. RunsSay(Hash(p), p.pixel_count) /\ (p.run_is_fg = TRUE <=> Len(Hash(p)) % 2 = 0)
    BY <2>3 DEF RunsOK
  <2>5. /\ RunsSay(Hash(q), p.pixel_count + 1) /\ Extends(Hash(p), Hash(q), p.pixel_count)
        /\ Len(Hash(q)) = Len(Hash(p)) + 1
        /\ Foreground(Hash(q), p.pixel_count) <=> Len(Hash(q)) % 2 = 0
    BY <1>1, <2>2, <2>4, AnotherRun
  <2>6. fg = TRUE <=> ~first /\ px # p.bg
    BY <1>3 DEF is_fg
  <2>7. fg = TRUE <=> Len(Hash(q)) % 2 = 0
    <3>1. Len(Hash(p)) \in Nat
      BY <2>4 DEF RunsSay
    <3>2. Len(Hash(q)) % 2 = 0 <=> ~(Len(Hash(p)) % 2 = 0)
      BY <2>5, <3>1
    <3>. QED BY <1>1, <1>7, <2>4, <3>2
  <2>8. RunsOK(q)
    BY <1>1, <2>1, <2>5, <2>7 DEF RunsOK
  <2>. QED BY <1>5, <2>3, <2>5, <2>6, <2>7, <2>8
<1>. QED BY <1>6, <1>7

-----------------------------------------------------------------------------
(* The places of a window's pixels. *)

\* Division with remainder.
LEMMA Division ==
  ASSUME NEW w \in Nat \ {0}, NEW n \in Nat
  PROVE  n = w * (n \div w) + (n % w) /\ n % w \in 0..(w - 1) /\ n \div w \in Nat
OBVIOUS

LEMMA DivisionIs ==
  ASSUME NEW w \in Nat \ {0}, NEW d \in Nat, NEW r \in 0..(w - 1)
  PROVE  (w * d + r) % w = r /\ (w * d + r) \div w = d
OBVIOUS

\* The cursor's turn at the end of a line.
LEMMA NextPlace ==
  ASSUME NEW w \in Nat \ {0}, NEW n \in Nat
  PROVE  /\ (n % w) + 1 < w => (n + 1) % w = (n % w) + 1 /\ (n + 1) \div w = n \div w
         /\ ~((n % w) + 1 < w) => (n + 1) % w = 0 /\ (n + 1) \div w = (n \div w) + 1
<1>1. PICK d \in Nat, r \in 0..(w - 1) : n = w * d + r /\ d = n \div w /\ r = n % w
  BY Division
<1>2. CASE r + 1 < w
  <2>1. r + 1 \in 0..(w - 1)
    BY <1>2
  <2>2. n + 1 = w * d + (r + 1)
    BY <1>1
  <2>3. (w * d + (r + 1)) % w = r + 1 /\ (w * d + (r + 1)) \div w = d
    BY <2>1, DivisionIs
  <2>. QED BY <1>1, <1>2, <2>2, <2>3
<1>3. CASE ~(r + 1 < w)
  <2>1. 0 \in 0..(w - 1) /\ d + 1 \in Nat /\ r + 1 = w
    BY <1>3
  <2>2. n + 1 = w * (d + 1) + 0
    BY <1>1, <2>1
  <2>3. (w * (d + 1) + 0) % w = 0 /\ (w * (d + 1) + 0) \div w = d + 1
    BY <2>1, DivisionIs
  <2>. QED BY <1>1, <1>3, <2>2, <2>3
<1>. QED BY <1>1, <1>2, <1>3

\* A window's pixels are in its lines.
LEMMA LineOf ==
  ASSUME NEW w \in Nat \ {0}, NEW h \in Nat, NEW n \in Nat, n < w * h
  PROVE  n \div w < h
<1>1. PICK d \in Nat, r \in 0..(w - 1) : n = w * d + r /\ d = n \div w
  BY Division
<1>2. ASSUME d >= h PROVE FALSE
  <2>1. w * d >= w * h
    BY <1>2
  <2>. QED BY <1>1, <2>1
<1>. QED BY <1>1, <1>2

\* Where a window's pixels are.
Place(p, k) == <<p.x + (k % p.w), p.y + (k \div p.w)>>
OnPanel(p) == p.x + p.w <= WIDTH /\ p.y + p.h <= HEIGHT

LEMMA WindowType ==
  ASSUME NEW p \in Opened, p.w > 1
  PROVE  p.x \in Nat /\ p.y \in Nat /\ p.w \in Nat \ {0} /\ p.h \in Nat /\ p.pixel_count \in Nat
<1>1. p.x \in U /\ p.y \in U /\ p.w \in U /\ p.h \in U /\ p.pixel_count \in Nat
  BY DEF Opened
<1>. QED BY <1>1 DEF U

\* Two pixels of a window are at two places.
LEMMA PlacesDiffer ==
  ASSUME NEW p \in Opened, p.w > 1, NEW k \in Nat, NEW n \in Nat, k # n
  PROVE  Place(p, k) # Place(p, n)
<1>1. p.x \in Nat /\ p.y \in Nat /\ p.w \in Nat \ {0}
  BY WindowType
<1>2. PICK d \in Nat, r \in 0..(p.w - 1) : n = p.w * d + r /\ d = n \div p.w /\ r = n % p.w
  BY <1>1, Division
<1>3. PICK e \in Nat, t \in 0..(p.w - 1) : k = p.w * e + t /\ e = k \div p.w /\ t = k % p.w
  BY <1>1, Division
<1>4. ~(d = e /\ r = t)
  BY <1>2, <1>3
<1>5. Place(p, n) = <<p.x + r, p.y + d>> /\ Place(p, k) = <<p.x + t, p.y + e>>
  BY <1>2, <1>3 DEF Place
<1>6. p.x + r # p.x + t \/ p.y + d # p.y + e
  BY <1>1, <1>4
<1>. QED BY <1>5, <1>6

\* A window on the panel has its pixels there.
LEMMA PlaceOnPanel ==
  ASSUME NEW p \in Opened, p.w > 1, OnPanel(p), NEW n \in Nat, n < p.w * p.h
  PROVE  Place(p, n) \in Places
<1>1. p.x \in Nat /\ p.y \in Nat /\ p.w \in Nat \ {0} /\ p.h \in Nat
      /\ WIDTH \in Nat /\ HEIGHT \in Nat
  BY WindowType, PanelConstants
<1>2. PICK d \in Nat, r \in 0..(p.w - 1) : d = n \div p.w /\ r = n % p.w
  BY <1>1, Division
<1>3. d < p.h
  BY <1>1, <1>2, LineOf
<1>4. p.x + r \in 0..(WIDTH - 1) /\ p.y + d \in 0..(HEIGHT - 1)
  BY <1>1, <1>2, <1>3 DEF OnPanel
<1>. QED BY <1>2, <1>4 DEF Place, Places

\* The framebuffer paints an open window's pixels in turn.
CursorOK(f, p) ==
  /\ f.win.col_start = p.x /\ f.win.col_end = p.x + p.w - 1
  /\ f.win.row_start = p.y /\ f.win.row_end = p.y + p.h - 1
  /\ f.cursor_col = p.x + (p.pixel_count % p.w)
  /\ f.cursor_row = p.y + (p.pixel_count \div p.w)

\* The panel shows the pixels counted so far.
PixelsOK(pixels, p) ==
  /\ p.pixel_count # 0 => pixels[Place(p, 0)] = p.bg
  /\ \A k \in 0..(p.pixel_count - 1) :
       pixels[Place(p, k)] # p.bg <=> Foreground(Hash(p), k)

\* The pixel is painted, and the cursor goes on to the next one's place
\* (framebuffer lib.rs 191-220).
LEMMA PaintedInTurn ==
  ASSUME NEW f, FbOK(f), NEW px \in U, NEW p \in Opened, p.w > 1, OnPanel(p),
         p.pixel_count < p.w * p.h, CursorOK(f, p),
         NEW q, q \in Opened, q.x = p.x, q.y = p.y, q.w = p.w, q.h = p.h,
         q.pixel_count = p.pixel_count + 1
  PROVE  /\ WritePixel(f, px).pixels = [f.pixels EXCEPT ![Place(p, p.pixel_count)] = px]
         /\ WritePixel(f, px).win = f.win
         /\ q.pixel_count < p.w * p.h => CursorOK(WritePixel(f, px), q)
<1> DEFINE n == p.pixel_count
           place == <<f.cursor_col, f.cursor_row>>
           g == [f EXCEPT !.pixels[place] = px]
           col == Wrap(g.cursor_col + 1)
           row == Wrap(g.cursor_row + 1)
<1>1. /\ p.x \in Nat /\ p.y \in Nat /\ p.w \in Nat \ {0} /\ p.h \in Nat /\ n \in Nat
      /\ WIDTH \in 1..(U16 - 1) /\ HEIGHT \in 1..(U16 - 1) /\ U16 \in Nat
  BY WindowType, Widths
<1>2. place = Place(p, n) /\ place \in Places
  <2>1. place = Place(p, n)
    BY DEF CursorOK, Place
  <2>. QED BY <1>1, <2>1, PlaceOnPanel
<1>3. WritePixel(f, px) = Advance(g)
  BY <1>2 DEF WritePixel
<1>4. /\ g.pixels = [f.pixels EXCEPT ![place] = px] /\ g.win = f.win
      /\ g.cursor_col = f.cursor_col /\ g.cursor_row = f.cursor_row
      /\ g \in [pixels : {g.pixels}, win : Windows, cursor_col : U, cursor_row : U, cmd : Cmds]
  BY DEF FbOK
<1> HIDE DEF g
<1>5. PICK d \in Nat, r \in 0..(p.w - 1) : d = n \div p.w /\ r = n % p.w
  BY <1>1, Division
<1>6. d < p.h
  BY <1>1, <1>5, LineOf
<1>7. g.cursor_col = p.x + r /\ g.cursor_row = p.y + d
  BY <1>4, <1>5 DEF CursorOK
<1>8. col = p.x + r + 1 /\ row = p.y + d + 1
  <2>1. p.x + r + 1 \in U /\ p.y + d + 1 \in U
    BY <1>1, <1>5, <1>6 DEF OnPanel, U
  <2>. QED BY <1>7, <2>1, Widths
<1> HIDE DEF col, row, n, place
<1>9. /\ g.win.col_start = p.x /\ g.win.col_end = p.x + p.w - 1
      /\ g.win.row_start = p.y /\ g.win.row_end = p.y + p.h - 1
  BY <1>4 DEF CursorOK
<1>10. q.pixel_count \in Nat /\ q.pixel_count = n + 1
  BY <1>1 DEF n
<1>11. CASE r + 1 < p.w
  <2>1. col <= g.win.col_end
    BY <1>1, <1>5, <1>8, <1>9, <1>11
  <2>2. Advance(g) = [g EXCEPT !.cursor_col = col]
    BY <2>1 DEF Advance, col
  <2>3. /\ Advance(g).pixels = g.pixels /\ Advance(g).win = g.win
        /\ Advance(g).cursor_col = col /\ Advance(g).cursor_row = g.cursor_row
    BY <1>4, <2>2
  <2>4. (n + 1) % p.w = r + 1 /\ (n + 1) \div p.w = d
    BY <1>1, <1>5, <1>11, NextPlace DEF n
  <2>5. CursorOK(Advance(g), q)
    BY <1>1, <1>5, <1>7, <1>8, <1>9, <1>10, <2>3, <2>4 DEF CursorOK
  <2>. QED BY <1>2, <1>3, <1>4, <2>3, <2>5 DEF n
<1>12. CASE ~(r + 1 < p.w)
  <2>1. ~(col <= g.win.col_end)
    BY <1>1, <1>5, <1>8, <1>9, <1>12
  <2>2. Advance(g) = [g EXCEPT !.cursor_col = g.win.col_start,
                        !.cursor_row = IF row > g.win.row_end THEN g.win.row_start ELSE row]
    BY <2>1 DEF Advance, col, row
  <2>3. PICK turned : turned = IF row > g.win.row_end THEN g.win.row_start ELSE row
    OBVIOUS
  <2>4. /\ Advance(g).pixels = g.pixels /\ Advance(g).win = g.win
        /\ Advance(g).cursor_col = g.win.col_start /\ Advance(g).cursor_row = turned
    BY <1>4, <2>2, <2>3
  <2>5. (n + 1) % p.w = 0 /\ (n + 1) \div p.w = d + 1
    BY <1>1, <1>5, <1>12, NextPlace DEF n
  <2>6. q.pixel_count < p.w * p.h => turned = p.y + (d + 1)
    <3> SUFFICES ASSUME q.pixel_count < p.w * p.h PROVE turned = p.y + (d + 1)
      OBVIOUS
    <3>1. d + 1 < p.h
      BY <1>1, <1>10, <2>5, LineOf
    <3>2. row <= g.win.row_end
      BY <1>1, <1>5, <1>8, <1>9, <3>1
    <3>3. g.win.row_end \in Int /\ row \in Int
      BY <1>1, <1>5, <1>8, <1>9
    <3>. QED BY <1>1, <1>5, <1>8, <2>3, <3>2, <3>3
  <2>7. q.pixel_count < p.w * p.h => CursorOK(Advance(g), q)
    BY <1>1, <1>5, <1>9, <1>10, <2>4, <2>5, <2>6 DEF CursorOK
  <2>. QED BY <1>2, <1>3, <1>4, <2>4, <2>7 DEF n
<1>. QED BY <1>11, <1>12

\* The pixel joins the others in the runs and on the panel.
LEMMA PixelShown ==
  ASSUME NEW p \in Opened, p.w > 1, OnPanel(p), p.pixel_count < p.w * p.h, NEW px \in U,
         NEW pixels \in [Places -> U], PixelsOK(pixels, p), RunsOK(p),
         NEW q, q = PushPixel(p, px)
  PROVE  PixelsOK([pixels EXCEPT ![Place(p, p.pixel_count)] = px], q)
<1> DEFINE n == p.pixel_count
           painted == [pixels EXCEPT ![Place(p, n)] = px]
<1>1. /\ q.x = p.x /\ q.y = p.y /\ q.w = p.w /\ q.h = p.h /\ q.pixel_count = n + 1
  BY PushPixelOK
<1>2. /\ q.bg = IF n = 0 THEN px ELSE p.bg
      /\ \A k \in 0..(n - 1) : Foreground(Hash(q), k) <=> Foreground(Hash(p), k)
      /\ Foreground(Hash(q), n) <=> n # 0 /\ px # p.bg
  BY PushRuns DEF Extends
<1>3. n \in Nat /\ p.w \in Nat /\ p.h \in Nat
  BY WindowType
<1>4. \A k : Place(q, k) = Place(p, k)
  BY <1>1 DEF Place
<1>5. painted[Place(p, n)] = px
  BY <1>3, PlaceOnPanel
<1>6. ASSUME NEW k \in 0..(n - 1) PROVE painted[Place(p, k)] = pixels[Place(p, k)]
  <2>1. k \in Nat /\ k # n
    BY <1>3
  <2>2. Place(p, k) # Place(p, n)
    BY <1>3, <2>1, PlacesDiffer
  <2>3. k < p.w * p.h
    <3>1. PICK a \in Nat : a = p.w * p.h
      BY <1>3
    <3>. QED BY <1>3, <3>1
  <2>4. Place(p, k) \in Places
    BY <2>1, <2>3, PlaceOnPanel
  <2>. QED BY <2>2, <2>4
<1> HIDE DEF painted
<1>7. CASE n = 0
  <2>1. q.bg = px /\ painted[Place(q, 0)] = px
    BY <1>2, <1>4, <1>5, <1>7
  <2>2. \A k \in 0..(q.pixel_count - 1) : k = 0
    BY <1>1, <1>7
  <2>3. ~Foreground(Hash(q), 0)
    BY <1>2, <1>7
  <2>4. \A k \in 0..(q.pixel_count - 1) :
          painted[Place(q, k)] # q.bg <=> Foreground(Hash(q), k)
    BY <2>1, <2>2, <2>3
  <2>. QED BY <2>1, <2>4 DEF PixelsOK, painted, n
<1>8. CASE n # 0
  <2>1. q.bg = p.bg /\ 0 \in 0..(n - 1)
    BY <1>2, <1>3, <1>8
  <2>2. painted[Place(q, 0)] = q.bg
    <3>1. painted[Place(p, 0)] = pixels[Place(p, 0)]
      BY <1>6, <2>1
    <3>2. pixels[Place(p, 0)] = p.bg
      BY <1>8 DEF PixelsOK
    <3>. QED BY <1>4, <2>1, <3>1, <3>2
  <2>3. \A k \in 0..(q.pixel_count - 1) : k \in 0..(n - 1) \/ k = n
    BY <1>1, <1>3
  <2>4. \A k \in 0..(n - 1) : painted[Place(q, k)] # q.bg <=> Foreground(Hash(q), k)
    <3> SUFFICES ASSUME NEW k \in 0..(n - 1)
                 PROVE  painted[Place(q, k)] # q.bg <=> Foreground(Hash(q), k)
      OBVIOUS
    <3>1. pixels[Place(p, k)] # p.bg <=> Foreground(Hash(p), k)
      BY DEF PixelsOK
    <3>. QED BY <1>2, <1>4, <1>6, <2>1, <3>1
  <2>5. painted[Place(q, n)] # q.bg <=> Foreground(Hash(q), n)
    BY <1>2, <1>4, <1>5, <1>8, <2>1
  <2>6. \A k \in 0..(q.pixel_count - 1) :
          painted[Place(q, k)] # q.bg <=> Foreground(Hash(q), k)
    BY <2>3, <2>4, <2>5
  <2>. QED BY <2>2, <2>6 DEF PixelsOK, painted, n
<1>. QED BY <1>7, <1>8

-----------------------------------------------------------------------------
(* The decoder's window is the framebuffer's. *)

\* The decoder's registers are the framebuffer's, or were never set.
RegsOK(g, f) ==
  /\ \/ g.win.col_start = f.win.col_start /\ g.win.col_end = f.win.col_end
     \/ g.win.col_start = 0 /\ g.win.col_end = 0
  /\ \/ g.win.row_start = f.win.row_start /\ g.win.row_end = f.win.row_end
     \/ g.win.row_start = 0 /\ g.win.row_end = 0

\* An open window takes the pixels the framebuffer paints.
OpenOK(g, f) ==
  g.pending.open =>
    /\ TakesPixels(g) /\ RunsOK(g.pending)
    /\ OnPanel(g.pending) => CursorOK(f, g.pending) /\ PixelsOK(f.pixels, g.pending)

\* A window is opened for what the framebuffer is about to paint
\* (decoder lib.rs 323-339; framebuffer lib.rs 182-189).
LEMMA OpenedForThis ==
  ASSUME NEW g, g.win \in Windows, NEW f, f.win \in Windows, RegsOK(g, f),
         NEW p, p = OpenWindow(g.win), p.open,
         NEW h, h.win = f.win, h.cursor_col = f.win.col_start, h.cursor_row = f.win.row_start
  PROVE  RunsOK(p) /\ CursorOK(h, p) /\ PixelsOK(h.pixels, p)
<1> DEFINE cs == g.win.col_start
           ce == g.win.col_end
           rs == g.win.row_start
           re == g.win.row_end
           w == Wrap(ce - cs + 1)
           ht == Wrap(re - rs + 1)
<1>1. /\ cs \in Nat /\ ce \in Nat /\ rs \in Nat /\ re \in Nat /\ U16 \in Nat \ {0, 1}
      /\ ce < U16 /\ re < U16
  BY Widths DEF Windows, U
<1>2. p = [open |-> TRUE, x |-> cs, y |-> rs, w |-> w, h |-> ht, bg |-> 0, shape |-> <<>>,
           run_len |-> 0, run_is_fg |-> FALSE, pixel_count |-> 0]
      /\ cs <= ce /\ rs <= re /\ w > 1 /\ ht > 1
  <2>1. ~NoWindow.open
    BY DEF NoWindow
  <2>2. p # NoWindow
    BY <2>1
  <2>3. /\ cs <= ce /\ rs <= re /\ \E t \in TEMPLATES : t.w = w /\ t.h = ht
        /\ p = [open |-> TRUE, x |-> cs, y |-> rs, w |-> w, h |-> ht, bg |-> 0, shape |-> <<>>,
                run_len |-> 0, run_is_fg |-> FALSE, pixel_count |-> 0]
    BY <2>2 DEF OpenWindow
  <2>. QED BY <2>3, DecoderConstants
<1>3. w = ce - cs + 1 /\ ht = re - rs + 1
  <2>1. ASSUME NEW a \in Nat, NEW b \in Nat, a <= b, b < U16, Wrap(b - a + 1) > 1
        PROVE  Wrap(b - a + 1) = b - a + 1
    <3>1. CASE b - a + 1 < U16
      <4>1. b - a + 1 \in U
        BY <1>1, <2>1, <3>1 DEF U
      <4>. QED BY <4>1, Widths
    <3>2. CASE ~(b - a + 1 < U16)
      <4>1. b - a + 1 = U16
        BY <1>1, <2>1, <3>2
      <4>2. Wrap(b - a + 1) = 0
        BY <1>1, <4>1 DEF Wrap
      <4>. QED BY <2>1, <4>2
    <3>. QED BY <3>1, <3>2
  <2>. QED BY <1>1, <1>2, <2>1
<1> HIDE DEF w, ht, cs, ce, rs, re
<1>4. /\ p.x = cs /\ p.y = rs /\ p.w = w /\ p.h = ht /\ p.pixel_count = 0 /\ p.shape = <<>>
      /\ p.run_len = 0 /\ p.run_is_fg = FALSE
  BY <1>2
<1>5. RunsOK(p)
  BY <1>4 DEF RunsOK
<1>6. PixelsOK(h.pixels, p)
  <2>1. \A k \in 0..(p.pixel_count - 1) : FALSE
    BY <1>4
  <2>. QED BY <1>4, <2>1 DEF PixelsOK
<1>7. f.win.col_start = cs /\ f.win.col_end = ce /\ f.win.row_start = rs /\ f.win.row_end = re
  <2>1. ~(cs = 0 /\ ce = 0) /\ ~(rs = 0 /\ re = 0)
    BY <1>1, <1>2, <1>3
  <2>. QED BY <2>1 DEF RegsOK, cs, ce, rs, re
<1>8. 0 % p.w = 0 /\ 0 \div p.w = 0
  <2>1. p.w \in Nat \ {0} /\ 0 \in 0..(p.w - 1)
    BY <1>1, <1>2, <1>3, <1>4
  <2>2. (p.w * 0 + 0) % p.w = 0 /\ (p.w * 0 + 0) \div p.w = 0
    BY <2>1, DivisionIs
  <2>. QED BY <2>1, <2>2
<1>9. p.x + p.w - 1 = ce /\ p.y + p.h - 1 = re /\ p.x + 0 = p.x /\ p.y + 0 = p.y
  BY <1>1, <1>3, <1>4
<1>10. CursorOK(h, p)
  BY <1>4, <1>7, <1>8, <1>9 DEF CursorOK
<1>. QED BY <1>5, <1>6, <1>10

\* What the reader shows and hashes.
SInv == RegsOK(gd, fb) /\ OpenOK(gd, fb) /\ HashedIsShown

LEMMA NoneOpen ==
  ASSUME NEW g, NEW f, ~g.pending.open
  PROVE  OpenOK(g, f)
BY DEF OpenOK

LEMMA NoneHashed ==
  ASSUME hashed' = NothingHashed
  PROVE  HashedIsShown'
BY DEF HashedIsShown, NothingHashed

LEMMA InitSInv == Init => SInv
<1> SUFFICES ASSUME Init PROVE SInv
  OBVIOUS
<1>1. RegsOK(gd, fb)
  BY DEF Init, NewDecoder, Window, RegsOK
<1>2. ~gd.pending.open
  BY DEF Init, NewDecoder, NoWindow
<1>3. HashedIsShown
  BY DEF Init, HashedIsShown, NothingHashed
<1>. QED BY <1>1, <1>2, <1>3, NoneOpen DEF SInv

LEMMA CommandSInv ==
  ASSUME IInv, SInv, NEW c \in Commands, Command(c)
  PROVE  SInv'
<1>1. /\ FbOK(fb) /\ GdOK(gd) /\ RegsOK(gd, fb) /\ OpenOK(gd, fb)
      /\ fb' = FbCommand(fb, c) /\ gd' = GlyphCommand(gd, c)
  BY DEF IInv, Types, SInv, Command
<1> DEFINE q == IF c = "2C" THEN OpenWindow(gd.win) ELSE FinaliseCmd(gd).pending
<1>2. fb'.win = fb.win /\ fb'.pixels = fb.pixels
  BY <1>1 DEF FbCommand, FbOK
<1>3. gd'.win = gd.win /\ gd'.cmd = Begun(c) /\ gd'.pending = q
  <2>1. FinaliseCmd(gd) = gd \/ FinaliseCmd(gd) = [gd EXCEPT !.pending = NoWindow]
    BY DEF FinaliseCmd
  <2>2. PICK p : p = q
    OBVIOUS
  <2>3. gd' = [FinaliseCmd(gd) EXCEPT !.cmd = Begun(c), !.pending = p]
    BY <1>1, <2>2 DEF GlyphCommand
  <2> HIDE DEF q
  <2>4. gd'.win = gd.win /\ gd'.cmd = Begun(c) /\ gd'.pending = p
    BY <1>1, <2>1, <2>3 DEF GdOK
  <2>. QED BY <2>2, <2>4
<1>4. RegsOK(gd', fb')
  BY <1>1, <1>2, <1>3 DEF RegsOK
<1>5. OpenOK(gd', fb')
  <2>1. CASE c = "2C"
    <3> SUFFICES ASSUME gd'.pending.open PROVE OpenOK(gd', fb')
      BY NoneOpen
    <3>1. TakesPixels(gd')
      BY <1>3, <2>1 DEF TakesPixels, Begun
    <3>2. fb'.cursor_col = fb.win.col_start /\ fb'.cursor_row = fb.win.row_start
      BY <1>1, <2>1 DEF FbCommand, FbOK
    <3>3. gd'.pending = OpenWindow(gd.win)
      BY <1>3, <2>1
    <3>4. gd.win \in Windows /\ fb.win \in Windows
      BY <1>1 DEF GdOK, FbOK
    <3>5. RunsOK(gd'.pending) /\ CursorOK(fb', gd'.pending) /\ PixelsOK(fb'.pixels, gd'.pending)
      BY <1>1, <1>2, <3>2, <3>3, <3>4, OpenedForThis
    <3>. QED BY <3>1, <3>5 DEF OpenOK
  <2>2. CASE c # "2C"
    <3>1. ~gd'.pending.open
      <4>1. CASE TakesPixels(gd)
        <5>1. gd'.pending = NoWindow
          BY <1>1, <1>3, <2>2, <4>1 DEF FinaliseCmd, GdOK
        <5>. QED BY <5>1 DEF NoWindow
      <4>2. CASE ~TakesPixels(gd)
        <5>1. gd'.pending = gd.pending
          BY <1>3, <2>2, <4>2 DEF FinaliseCmd
        <5>. QED BY <1>1, <4>2, <5>1 DEF OpenOK
      <4>. QED BY <4>1, <4>2
    <3>. QED BY <3>1, NoneOpen
  <2>. QED BY <2>1, <2>2
<1>6. HashedIsShown'
  BY NoneHashed DEF Command
<1>. QED BY <1>4, <1>5, <1>6 DEF SInv

\* An address sets both readers' registers alike.
LEMMA AddressSInv ==
  ASSUME IInv, SInv, NEW w \in Words, Data(w), TakesAddress(fb)
  PROVE  SInv'
<1>1. /\ FbOK(fb) /\ GdOK(gd) /\ gd.cmd = fb.cmd /\ CmdOK(fb.cmd)
      /\ RegsOK(gd, fb) /\ OpenOK(gd, fb) /\ Follows(fb.cmd, w)
  BY WordFollows DEF IInv, Types, SInv
<1>2. TakesAddress(gd) /\ ~TakesPixels(gd)
  BY <1>1 DEF TakesAddress, TakesPixels
<1>3. /\ fb' = Address(fb, w) /\ gd' = Address(gd, w)
      /\ ~Completes(gd, w)
  BY <1>2 DEF Data, FbData, GlyphData, Completes
<1>4. /\ fb'.win = NextWin(fb, w)
      /\ gd'.win = NextWin(gd, w) /\ gd'.pending = gd.pending
  BY <1>1, <1>2, <1>3, FbAddress, GdAddress
<1>5. RegsOK(gd', fb')
  <2> DEFINE b == Append(fb.cmd.buf, w)
             from == Pair(b[1], b[2])
             to == Pair(b[3], b[4])
  <2>1. CASE Len(fb.cmd.buf) < 3
    <3>1. fb'.win = fb.win /\ gd'.win = gd.win
      BY <1>1, <1>4, <2>1 DEF NextWin
    <3>. QED BY <1>1, <3>1 DEF RegsOK
  <2>2. CASE ~(Len(fb.cmd.buf) < 3) /\ fb.cmd.kind = "2A"
    <3>1. /\ fb'.win = [fb.win EXCEPT !.col_start = from, !.col_end = to]
          /\ gd'.win = [gd.win EXCEPT !.col_start = from, !.col_end = to]
      BY <1>1, <1>4, <2>2 DEF NextWin
    <3>2. fb.win \in Windows /\ gd.win \in Windows
      BY <1>1 DEF FbOK, GdOK
    <3> HIDE DEF from, to
    <3>3. /\ fb'.win.col_start = from /\ fb'.win.col_end = to
          /\ gd'.win.col_start = from /\ gd'.win.col_end = to
          /\ fb'.win.row_start = fb.win.row_start /\ fb'.win.row_end = fb.win.row_end
          /\ gd'.win.row_start = gd.win.row_start /\ gd'.win.row_end = gd.win.row_end
      BY <3>1, <3>2 DEF Windows
    <3>. QED BY <1>1, <3>3 DEF RegsOK
  <2>3. CASE ~(Len(fb.cmd.buf) < 3) /\ fb.cmd.kind # "2A"
    <3>1. /\ fb'.win = [fb.win EXCEPT !.row_start = from, !.row_end = to]
          /\ gd'.win = [gd.win EXCEPT !.row_start = from, !.row_end = to]
      BY <1>1, <1>4, <2>3 DEF NextWin
    <3>2. fb.win \in Windows /\ gd.win \in Windows
      BY <1>1 DEF FbOK, GdOK
    <3> HIDE DEF from, to
    <3>3. /\ fb'.win.row_start = from /\ fb'.win.row_end = to
          /\ gd'.win.row_start = from /\ gd'.win.row_end = to
          /\ fb'.win.col_start = fb.win.col_start /\ fb'.win.col_end = fb.win.col_end
          /\ gd'.win.col_start = gd.win.col_start /\ gd'.win.col_end = gd.win.col_end
      BY <3>1, <3>2 DEF Windows
    <3>. QED BY <1>1, <3>3 DEF RegsOK
  <2>. QED BY <2>1, <2>2, <2>3
<1>6. OpenOK(gd', fb')
  BY <1>1, <1>2, <1>4 DEF OpenOK
<1>7. HashedIsShown'
  BY <1>3, NoneHashed DEF Data
<1>. QED BY <1>5, <1>6, <1>7 DEF SInv

\* The last pixel completes what the panel shows.
LEMMA CompletedShown ==
  ASSUME NEW q \in Opened, q.w > 1, q.pixel_count = q.w * q.h, q.pixel_count # 0, RunsOK(q),
         NEW pixels, OnPanel(q) => PixelsOK(pixels, q)
  PROVE  /\ Ends(Hash(q))[Len(Hash(q))] = q.w * q.h
         /\ q.x + q.w <= WIDTH /\ q.y + q.h <= HEIGHT =>
              \A k \in 0..(q.w * q.h - 1) :
                pixels[<<q.x + (k % q.w), q.y + (k \div q.w)>>]
                  # pixels[<<q.x + (0 % q.w), q.y + (0 \div q.w)>>]
                <=> Foreground(Hash(q), k)
<1>1. Ends(Hash(q))[Len(Hash(q))] = q.w * q.h
  BY DEF RunsOK, RunsSay
<1>2. ASSUME OnPanel(q), NEW k \in 0..(q.w * q.h - 1)
      PROVE  pixels[Place(q, k)] # pixels[Place(q, 0)] <=> Foreground(Hash(q), k)
  <2>1. k \in 0..(q.pixel_count - 1)
    BY <1>2
  <2>. QED BY <1>2, <2>1 DEF PixelsOK
<1>. QED BY <1>1, <1>2 DEF OnPanel, Place

LEMMA PixelSInv ==
  ASSUME IInv, SInv, NEW w \in Words, Data(w), TakesPixels(fb)
  PROVE  SInv'
<1> DEFINE p == gd.pending
           q == PushPixel(p, w)
<1>1. /\ FbOK(fb) /\ GdOK(gd) /\ gd.cmd = fb.cmd /\ w \in U
      /\ RegsOK(gd, fb) /\ OpenOK(gd, fb)
  BY WordFollows DEF IInv, Types, SInv, Follows
<1>2. TakesPixels(gd) /\ fb' = WritePixel(fb, w) /\ gd' = GlyphPixel(gd, w)
  BY <1>1 DEF Data, FbData, GlyphData, TakesPixels, TakesAddress
<1>3. fb'.win = fb.win
  BY <1>1, <1>2, WritePixelOK
<1>4. CASE ~p.open
  <2>1. gd' = gd /\ ~Completes(gd, w)
    BY <1>2, <1>4 DEF GlyphPixel, Completes
  <2>2. RegsOK(gd', fb')
    BY <1>1, <1>3, <2>1 DEF RegsOK
  <2>3. OpenOK(gd', fb')
    BY <1>4, <2>1, NoneOpen
  <2>4. HashedIsShown'
    BY <2>1, NoneHashed DEF Data
  <2>. QED BY <2>2, <2>3, <2>4 DEF SInv
<1>5. CASE p.open
  <2>1. /\ p \in Opened /\ p.w > 1 /\ p.pixel_count < p.w * p.h
        /\ RunsOK(p) /\ (OnPanel(p) => CursorOK(fb, p) /\ PixelsOK(fb.pixels, p))
    <3>1. p # NoWindow
      BY <1>5 DEF NoWindow
    <3>. QED BY <1>1, <1>5, <3>1 DEF GdOK, PendingOK, OpenOK
  <2>2. /\ q \in Opened /\ q.x = p.x /\ q.y = p.y /\ q.w = p.w /\ q.h = p.h
        /\ q.pixel_count = p.pixel_count + 1 /\ RunsOK(q)
    BY <1>1, <2>1, PushPixelOK, PushRuns
  <2>3. OnPanel(q) <=> OnPanel(p)
    BY <2>2 DEF OnPanel
  <2> HIDE DEF p, q
  <2>4. ASSUME OnPanel(p)
        PROVE  /\ PixelsOK(fb'.pixels, q)
               /\ q.pixel_count < q.w * q.h => CursorOK(fb', q)
    <3>1. /\ fb'.pixels = [fb.pixels EXCEPT ![Place(p, p.pixel_count)] = w]
          /\ q.pixel_count < p.w * p.h => CursorOK(fb', q)
      BY <1>1, <1>2, <2>1, <2>2, <2>4, PaintedInTurn
    <3>2. fb.pixels \in [Places -> U]
      BY <1>1 DEF FbOK
    <3>3. PixelsOK([fb.pixels EXCEPT ![Place(p, p.pixel_count)] = w], q)
      BY <1>1, <2>1, <2>4, <3>2, PixelShown DEF q
    <3>. QED BY <2>2, <3>1, <3>3
  <2>5. CASE ~Completes(gd, w)
    <3>1. gd' = [gd EXCEPT !.pending = q]
      BY <1>2, <1>5, <2>5 DEF GlyphPixel, p, q
    <3>2. gd'.pending = q /\ gd'.win = gd.win /\ gd'.cmd = gd.cmd
      BY <1>1, <3>1 DEF GdOK
    <3>3. q.pixel_count < q.w * q.h
      <4>1. q.pixel_count # q.w * q.h
        BY <1>2, <1>5, <2>5 DEF Completes, Full, p, q
      <4>2. p.w \in Nat /\ p.h \in Nat /\ p.pixel_count \in Nat
        BY <2>1, WindowType
      <4>3. PICK a \in Nat : a = p.w * p.h
        BY <4>2
      <4>. QED BY <2>1, <2>2, <4>1, <4>2, <4>3
    <3>4. RegsOK(gd', fb')
      BY <1>1, <1>3, <3>2 DEF RegsOK
    <3>5. TakesPixels(gd')
      BY <1>2, <3>2 DEF TakesPixels
    <3>6. OpenOK(gd', fb')
      BY <2>2, <2>3, <2>4, <3>2, <3>3, <3>5 DEF OpenOK
    <3>7. HashedIsShown'
      BY <2>5, NoneHashed DEF Data
    <3>. QED BY <3>4, <3>6, <3>7 DEF SInv
  <2>6. CASE Completes(gd, w)
    <3>1. gd'.pending = NoWindow /\ gd'.win = gd.win
      <4>1. PICK rows : gd' = [gd EXCEPT !.pending = NoWindow, !.rows = rows]
        BY <1>2, <1>5, <2>6 DEF GlyphPixel, p
      <4>. QED BY <1>1, <4>1 DEF GdOK
    <3>2. RegsOK(gd', fb')
      BY <1>1, <1>3, <3>1 DEF RegsOK
    <3>3. OpenOK(gd', fb')
      BY <3>1, NoneOpen DEF NoWindow
    <3>4. q.pixel_count = q.w * q.h /\ q.pixel_count # 0 /\ q.w > 1
      <4>1. q.pixel_count = q.w * q.h
        BY <2>6 DEF Completes, Full, p, q
      <4>2. q.pixel_count # 0
        BY <2>1, <2>2, WindowType
      <4>. QED BY <2>1, <2>2, <4>1, <4>2
    <3>5. hashed' = [done |-> TRUE, win |-> q]
      BY <2>6 DEF Data, p, q
    <3>6. HashedIsShown'
      <4>1. hashed'.win = q
        BY <3>5
      <4>2. /\ Ends(Hash(q))[Len(Hash(q))] = q.w * q.h
            /\ q.x + q.w <= WIDTH /\ q.y + q.h <= HEIGHT =>
                 \A k \in 0..(q.w * q.h - 1) :
                   fb'.pixels[<<q.x + (k % q.w), q.y + (k \div q.w)>>]
                     # fb'.pixels[<<q.x + (0 % q.w), q.y + (0 \div q.w)>>]
                   <=> Foreground(Hash(q), k)
        BY <2>2, <2>3, <2>4, <3>4, CompletedShown
      <4>. QED BY <4>1, <4>2 DEF HashedIsShown
    <3>. QED BY <3>2, <3>3, <3>6 DEF SInv
  <2>. QED BY <2>5, <2>6
<1>. QED BY <1>4, <1>5

LEMMA FlushSInv ==
  ASSUME IInv, SInv, FlushEach
  PROVE  SInv'
<1>1. GdOK(gd) /\ RegsOK(gd, fb) /\ OpenOK(gd, fb)
  BY DEF IInv, Types, SInv
<1>2. gd'.win = gd.win /\ gd'.pending = gd.pending /\ gd'.cmd = gd.cmd /\ fb' = fb
  BY <1>1 DEF FlushEach, Flushed, GdOK
<1>3. RegsOK(gd', fb')
  BY <1>1, <1>2 DEF RegsOK
<1>4. OpenOK(gd', fb')
  BY <1>1, <1>2 DEF OpenOK, TakesPixels
<1>5. HashedIsShown'
  BY NoneHashed DEF FlushEach
<1>. QED BY <1>3, <1>4, <1>5 DEF SInv

LEMMA OtherSInv ==
  ASSUME IInv, SInv, NEW w \in Words, Data(w), ~TakesPixels(fb), ~TakesAddress(fb)
  PROVE  SInv'
<1>1. gd.cmd = fb.cmd /\ RegsOK(gd, fb) /\ OpenOK(gd, fb)
  BY DEF IInv, Types, SInv
<1>2. ~TakesPixels(gd) /\ ~TakesAddress(gd)
  BY <1>1 DEF TakesPixels, TakesAddress
<1>3. gd' = gd /\ fb' = fb /\ ~Completes(gd, w)
  BY <1>2 DEF Data, FbData, GlyphData, Completes
<1>4. HashedIsShown'
  BY <1>3, NoneHashed DEF Data
<1>. QED BY <1>1, <1>3, <1>4 DEF SInv

\* Whatever addresses, cut windows and continuations came: the shape the decoder
\* hashed is that of the pixels the framebuffer shows in the window.
THEOREM HashedIsShownAlways == Spec => []HashedIsShown
<1>1. Init => SInv
  BY InitSInv
<1>2. IInv /\ SInv /\ [Next]_vars => SInv'
  <2> SUFFICES ASSUME IInv, SInv, [Next]_vars PROVE SInv'
    OBVIOUS
  <2>1. ASSUME NEW c \in Commands, Command(c) PROVE SInv'
    BY <2>1, CommandSInv
  <2>2. ASSUME NEW w \in Words, Data(w) PROVE SInv'
    BY <2>2, AddressSInv, PixelSInv, OtherSInv
  <2>3. ASSUME FlushEach PROVE SInv'
    BY <2>3, FlushSInv
  <2>4. CASE UNCHANGED vars
    BY <2>4 DEF vars, SInv, HashedIsShown
  <2>. QED BY <2>1, <2>2, <2>3, <2>4 DEF Next
<1>3. SInv => HashedIsShown
  BY DEF SInv
<1>. QED BY <1>1, <1>2, <1>3, Invariant, PTL DEF Spec

-----------------------------------------------------------------------------
(* The viewer: a transaction's words, fed one by one. *)

FedUp(f, data) ==
  LET fed[k \in 0..Len(data)] == IF k = 0 THEN f ELSE FbData(fed[k - 1], data[k])
  IN  fed

LEMMA FedUpIs ==
  ASSUME NEW S, NEW data \in Seq(S), NEW f
  PROVE  /\ FedUp(f, data)[0] = f
         /\ \A n \in 1..Len(data) : FedUp(f, data)[n] = FbData(FedUp(f, data)[n - 1], data[n])
<1> DEFINE L == Len(data)
           Def(g) == g = [n \in 0..L |-> IF n = 0 THEN f ELSE FbData(g[n - 1], data[n])]
           OK(g, m) == /\ g[0] = f
                       /\ \A n \in 1..m : g[n] = FbData(g[n - 1], data[n])
           fed == CHOOSE g : Def(g)
           P == {m \in Nat : \E g : OK(g, m)}
<1>1. L \in Nat
  OBVIOUS
<1>2. 0 \in P
  <2> DEFINE g == [n \in 0..0 |-> f]
  <2>1. OK(g, 0)
    OBVIOUS
  <2>. QED BY <2>1
<1>3. ASSUME NEW m \in 0..(L - 1), m \in P PROVE m + 1 \in P
  <2>1. PICK g : OK(g, m)
    BY <1>3
  <2> DEFINE last == FbData(g[m], data[m + 1])
             h == [n \in 0..(m + 1) |-> IF n <= m THEN g[n] ELSE last]
  <2>2. m \in Nat /\ m \in 0..m /\ 0 \in 0..m
    BY <1>1
  <2> HIDE DEF last
  <2>4. h[0] = f
    BY <2>1, <2>2
  <2>5. ASSUME NEW n \in 1..(m + 1) PROVE h[n] = FbData(h[n - 1], data[n])
    <3>1. CASE n <= m
      <4>1. n \in 1..m /\ n - 1 <= m /\ n \in 0..(m + 1) /\ n - 1 \in 0..(m + 1)
        BY <2>2, <3>1
      <4>2. h[n] = g[n] /\ h[n - 1] = g[n - 1]
        BY <3>1, <4>1
      <4>3. g[n] = FbData(g[n - 1], data[n])
        BY <2>1, <4>1
      <4> HIDE DEF h
      <4>. QED BY <4>2, <4>3
    <3>2. CASE ~(n <= m)
      <4>1. n = m + 1 /\ n - 1 = m /\ n \in 0..(m + 1) /\ m \in 0..(m + 1)
        BY <2>2, <3>2
      <4>2. h[n] = last /\ h[n - 1] = g[m]
        BY <2>2, <3>2, <4>1
      <4> HIDE DEF h
      <4>. QED BY <4>1, <4>2 DEF last
    <3>. QED BY <3>1, <3>2
  <2> HIDE DEF h
  <2>6. OK(h, m + 1)
    BY <2>4, <2>5
  <2>7. \E k : OK(k, m + 1)
    BY <2>6
  <2> HIDE DEF OK
  <2>. QED BY <2>2, <2>7
<1>4. \E g : Def(g)
  <2>1. L \in P
    <3> HIDE DEF P
    <3>1. \A m \in 0..L : m \in P
      BY <1>1, <1>2, <1>3, UpTo
    <3>. QED BY <1>1, <3>1
  <2>2. PICK g : OK(g, L)
    BY <2>1
  <2> DEFINE t == [n \in 0..L |-> g[n]]
  <2>3. ASSUME NEW n \in 0..L
        PROVE  t[n] = IF n = 0 THEN f ELSE FbData(t[n - 1], data[n])
    <3>1. CASE n = 0
      BY <2>2, <3>1
    <3>2. CASE n # 0
      <4>1. n \in 1..L /\ n - 1 \in 0..L
        BY <1>1, <3>2
      <4>2. t[n] = g[n] /\ t[n - 1] = g[n - 1]
        BY <4>1
      <4>3. g[n] = FbData(g[n - 1], data[n])
        BY <2>2, <4>1
      <4> HIDE DEF t
      <4>. QED BY <3>2, <4>2, <4>3
    <3>. QED BY <3>1, <3>2
  <2>4. t = [n \in 0..L |-> t[n]]
    OBVIOUS
  <2> HIDE DEF t
  <2>5. Def(t)
    BY <2>3, <2>4
  <2>. QED BY <2>5
<1>5. Def(fed)
  BY <1>4
<1>6. FedUp(f, data) = fed
  BY DEF FedUp
<1> HIDE DEF fed
<1>7. ASSUME NEW n \in 0..L
      PROVE  fed[n] = IF n = 0 THEN f ELSE FbData(fed[n - 1], data[n])
  BY <1>5
<1>8. 0 \in 0..L /\ \A n \in 1..L : n \in 0..L /\ n # 0
  BY <1>1
<1>. QED BY <1>6, <1>7, <1>8

\* Nothing fed, and one word more.
LEMMA FedNothing ==
  ASSUME NEW f
  PROVE  Fed(f, <<>>) = f
<1>1. <<>> \in Seq({}) /\ Len(<<>>) = 0
  OBVIOUS
<1>2. Fed(f, <<>>) = FedUp(f, <<>>)[Len(<<>>)]
  BY Zenon DEF Fed, FedUp
<1>. QED BY <1>1, <1>2, FedUpIs

LEMMA FedOneMore ==
  ASSUME NEW S, NEW data \in Seq(S), NEW w \in S, NEW f
  PROVE  Fed(f, Append(data, w)) = FbData(Fed(f, data), w)
<1> DEFINE L == Len(data)
           more == Append(data, w)
           Q == {n \in Nat : FedUp(f, more)[n] = FedUp(f, data)[n]}
<1>1. /\ L \in Nat /\ more \in Seq(S) /\ Len(more) = L + 1 /\ more[L + 1] = w
      /\ \A n \in 1..L : more[n] = data[n]
  OBVIOUS
<1>2. Fed(f, data) = FedUp(f, data)[L] /\ Fed(f, more) = FedUp(f, more)[L + 1]
  BY <1>1, Zenon DEF Fed, FedUp
<1> HIDE DEF more, L
<1>3. \A k \in 1..Len(more) : FedUp(f, more)[k] = FbData(FedUp(f, more)[k - 1], more[k])
  <2>1. more \in Seq(S)
    BY <1>1
  <2>. QED BY <2>1, FedUpIs
<1>4. 0 \in Q
  BY <1>1, FedUpIs
<1>5. ASSUME NEW n \in 0..(L - 1), n \in Q PROVE n + 1 \in Q
  <2>1. n + 1 \in 1..L /\ n + 1 \in 1..(L + 1) /\ (n + 1) - 1 = n /\ n + 1 \in Nat
    BY <1>1
  <2>2. FedUp(f, more)[n + 1] = FbData(FedUp(f, more)[n], more[n + 1])
    BY <1>1, <1>3, <2>1
  <2>3. FedUp(f, data)[n + 1] = FbData(FedUp(f, data)[n], data[n + 1])
    <3>1. \A k \in 1..L : FedUp(f, data)[k] = FbData(FedUp(f, data)[k - 1], data[k])
      BY FedUpIs DEF L
    <3>. QED BY <2>1, <3>1
  <2>. QED BY <1>1, <1>5, <2>1, <2>2, <2>3
<1>6. L \in Q
  <2> HIDE DEF Q
  <2>1. \A n \in 0..L : n \in Q
    BY <1>1, <1>4, <1>5, UpTo
  <2>. QED BY <1>1, <2>1
<1>7. FedUp(f, more)[L + 1] = FbData(FedUp(f, more)[L], more[L + 1])
  <2>1. L + 1 \in 1..Len(more) /\ (L + 1) - 1 = L
    BY <1>1
  <2>. QED BY <1>3, <2>1
<1>. QED BY <1>1, <1>2, <1>6, <1>7 DEF more

-----------------------------------------------------------------------------
(* The pixels of the framebuffer's window, in the order they are written.    *)

Upright(win) == win.col_start <= win.col_end /\ win.row_start <= win.row_end
Wide(win) == win.col_end - win.col_start + 1
High(win) == win.row_end - win.row_start + 1
Spot(win, k) == <<win.col_start + (k % Wide(win)), win.row_start + (k \div Wide(win))>>

LEMMA WindowSize ==
  ASSUME NEW win \in Windows, Upright(win)
  PROVE  /\ win.col_start \in Nat /\ win.row_start \in Nat
         /\ win.col_end \in Nat /\ win.row_end \in Nat
         /\ win.col_end < U16 /\ win.row_end < U16 /\ U16 \in Nat \ {0}
         /\ Wide(win) \in Nat \ {0} /\ High(win) \in Nat \ {0}
         /\ win.col_end = win.col_start + (Wide(win) - 1)
         /\ win.row_end = win.row_start + (High(win) - 1)
<1>1. /\ win.col_start \in U /\ win.row_start \in U /\ win.col_end \in U /\ win.row_end \in U
      /\ win.col_start <= win.col_end /\ win.row_start <= win.row_end
      /\ U16 \in Nat \ {0, 1}
  BY Widths DEF Windows, Upright
<1>. QED BY <1>1 DEF Wide, High, U

\* Two pixels are at two places.
LEMMA SpotsDiffer ==
  ASSUME NEW win \in Windows, Upright(win), NEW k \in Nat, NEW n \in Nat, k # n
  PROVE  Spot(win, k) # Spot(win, n)
<1> DEFINE w == Wide(win)
<1>1. win.col_start \in Nat /\ win.row_start \in Nat /\ w \in Nat \ {0}
  BY WindowSize
<1>2. Spot(win, n) = <<win.col_start + (n % w), win.row_start + (n \div w)>>
  BY DEF Spot
<1>3. Spot(win, k) = <<win.col_start + (k % w), win.row_start + (k \div w)>>
  BY DEF Spot
<1> HIDE DEF w
<1>4. PICK d \in Nat, r \in 0..(w - 1) : n = w * d + r /\ d = n \div w /\ r = n % w
  BY <1>1, Division
<1>5. PICK e \in Nat, t \in 0..(w - 1) : k = w * e + t /\ e = k \div w /\ t = k % w
  BY <1>1, Division
<1>6. ~(d = e /\ r = t)
  BY <1>4, <1>5
<1>7. win.col_start + r # win.col_start + t \/ win.row_start + d # win.row_start + e
  BY <1>1, <1>6
<1>. QED BY <1>2, <1>3, <1>4, <1>5, <1>7

\* The first is at the window's corner.
LEMMA FirstSpot ==
  ASSUME NEW win \in Windows, Upright(win)
  PROVE  Spot(win, 0) = <<win.col_start, win.row_start>>
<1> DEFINE w == Wide(win)
<1>1. win.col_start \in Nat /\ win.row_start \in Nat /\ w \in Nat \ {0}
  BY WindowSize
<1>2. Spot(win, 0) = <<win.col_start + (0 % w), win.row_start + (0 \div w)>>
  BY DEF Spot
<1> HIDE DEF w
<1>3. 0 % w = 0 /\ 0 \div w = 0
  BY <1>1
<1>. QED BY <1>1, <1>2, <1>3

\* A pixel written there goes to its place, if that is on the panel, and the
\* cursor to the next one's (framebuffer lib.rs 191-220).
LEMMA SpotWritten ==
  ASSUME NEW f, FbOK(f), NEW px \in U, Upright(f.win), f.win.col_end < U16 - 1,
         NEW n \in Nat, n < Wide(f.win) * High(f.win),
         <<f.cursor_col, f.cursor_row>> = Spot(f.win, n)
  PROVE  /\ WritePixel(f, px).pixels =
              IF Spot(f.win, n) \in Places THEN [f.pixels EXCEPT ![Spot(f.win, n)] = px]
              ELSE f.pixels
         /\ n + 1 < Wide(f.win) * High(f.win) =>
              <<WritePixel(f, px).cursor_col, WritePixel(f, px).cursor_row>>
                = Spot(f.win, n + 1)
<1> DEFINE place == <<f.cursor_col, f.cursor_row>>
           g == IF place \in Places THEN [f EXCEPT !.pixels[place] = px] ELSE f
           x == f.win.col_start
           y == f.win.row_start
           w == Wide(f.win)
           h == High(f.win)
           col == Wrap(g.cursor_col + 1)
           row == Wrap(g.cursor_row + 1)
<1>1. /\ x \in Nat /\ y \in Nat /\ w \in Nat \ {0} /\ h \in Nat \ {0}
      /\ f.win.col_end = x + (w - 1) /\ f.win.row_end = y + (h - 1)
      /\ x + (w - 1) < U16 - 1 /\ y + (h - 1) < U16 /\ U16 \in Nat \ {0}
  <2>1. f.win \in Windows
    BY DEF FbOK
  <2>. QED BY <2>1, WindowSize
<1>2. WritePixel(f, px) = Advance(g)
  BY DEF WritePixel
<1>3. /\ g.pixels = IF place \in Places THEN [f.pixels EXCEPT ![place] = px] ELSE f.pixels
      /\ g.win = f.win
      /\ g.cursor_col = f.cursor_col /\ g.cursor_row = f.cursor_row
      /\ g \in [pixels : {g.pixels}, win : Windows, cursor_col : U, cursor_row : U, cmd : Cmds]
  BY DEF FbOK
<1>4. place = Spot(f.win, n)
  OBVIOUS
<1> HIDE DEF g
<1>5. PICK d \in Nat, r \in 0..(w - 1) : d = n \div w /\ r = n % w
  BY <1>1, Division
<1>6. d < h
  <2> HIDE DEF w, h
  <2>. QED BY <1>1, <1>5, LineOf DEF w, h
<1>7. g.cursor_col = x + r /\ g.cursor_row = y + d
  BY <1>3, <1>4, <1>5 DEF Spot
<1>8. \A k : Spot(f.win, k) = <<x + (k % w), y + (k \div w)>>
  BY DEF Spot
<1>9. n + 1 < w * h => n + 1 < Wide(f.win) * High(f.win)
  OBVIOUS
<1>10. g.win.col_start = x /\ g.win.col_end = x + (w - 1) /\ g.win.row_start = y
       /\ g.win.row_end = y + (h - 1)
  BY <1>1, <1>3
<1> HIDE DEF x, y, w, h, place
<1>11. col = x + r + 1
  <2>1. x + r + 1 \in U
    BY <1>1, <1>5 DEF U
  <2>. QED BY <1>7, <2>1, Widths
<1>12. d + 1 < h => row = y + d + 1
  <2>1. d + 1 < h => y + d + 1 \in U
    BY <1>1, <1>5 DEF U
  <2>. QED BY <1>7, <2>1, Widths
<1> HIDE DEF col, row
<1>13. CASE r + 1 < w
  <2>1. col <= g.win.col_end
    BY <1>1, <1>5, <1>10, <1>11, <1>13
  <2>2. Advance(g) = [g EXCEPT !.cursor_col = col]
    BY <2>1 DEF Advance, col
  <2>3. /\ Advance(g).pixels = g.pixels
        /\ Advance(g).cursor_col = col /\ Advance(g).cursor_row = g.cursor_row
    BY <1>3, <2>2
  <2>4. (n + 1) % w = r + 1 /\ (n + 1) \div w = d
    BY <1>1, <1>5, <1>13, NextPlace
  <2>5. col = x + (r + 1)
    BY <1>1, <1>5, <1>11
  <2>6. <<Advance(g).cursor_col, Advance(g).cursor_row>> = Spot(f.win, n + 1)
    BY <1>7, <1>8, <2>3, <2>4, <2>5
  <2>. QED BY <1>2, <1>3, <1>4, <2>3, <2>6
<1>14. CASE ~(r + 1 < w)
  <2>1. ~(col <= g.win.col_end)
    BY <1>1, <1>5, <1>10, <1>11, <1>14
  <2>2. Advance(g) = [g EXCEPT !.cursor_col = g.win.col_start,
                        !.cursor_row = IF row > g.win.row_end THEN g.win.row_start ELSE row]
    BY <2>1 DEF Advance, col, row
  <2>3. PICK turned : turned = IF row > g.win.row_end THEN g.win.row_start ELSE row
    OBVIOUS
  <2>4. /\ Advance(g).pixels = g.pixels
        /\ Advance(g).cursor_col = g.win.col_start /\ Advance(g).cursor_row = turned
    BY <1>3, <2>2, <2>3
  <2>5. (n + 1) % w = 0 /\ (n + 1) \div w = d + 1
    BY <1>1, <1>5, <1>14, NextPlace
  <2>6. ASSUME n + 1 < w * h PROVE turned = y + (d + 1)
    <3>1. d + 1 < h
      <4>1. n + 1 \in Nat
        OBVIOUS
      <4>2. (n + 1) \div w < h
        BY <1>1, <2>6, <4>1, LineOf, Zenon
      <4>. QED BY <2>5, <4>2
    <3>2. row = y + d + 1 /\ ~(row > g.win.row_end)
      BY <1>1, <1>5, <1>10, <1>12, <3>1
    <3>. QED BY <1>1, <1>5, <2>3, <3>2
  <2>7. ASSUME n + 1 < w * h
        PROVE  <<Advance(g).cursor_col, Advance(g).cursor_row>> = Spot(f.win, n + 1)
    <3>1. x + 0 = x
      BY <1>1
    <3>. QED BY <1>8, <1>10, <2>4, <2>5, <2>6, <2>7, <3>1
  <2>. QED BY <1>2, <1>3, <1>4, <2>4, <2>7 DEF w, h
<1>. QED BY <1>13, <1>14

-----------------------------------------------------------------------------
(* The viewer's invariant. *)

\* What the framebuffer makes of a transaction.
Framed(frame) ==
  IF frame.cmd \in {"2A", "2B"}
  THEN IF Len(frame.data) < 4 THEN [kind |-> frame.cmd, buf |-> frame.data] ELSE NoCmd
  ELSE IF frame = NoFrame THEN NoCmd ELSE Begun(frame.cmd)

\* Address words are bytes, those of columns the driver's.
DriverSent(frame) ==
  /\ frame.cmd \in {"2A", "2B"} =>
       \A i \in 1..Len(frame.data) : frame.data[i] \in 0..(BYTE - 1)
  /\ frame.cmd = "2A" /\ Len(frame.data) \in 1..3 =>
       \E p \in ColAddresses : \A i \in 1..Len(frame.data) : frame.data[i] = p[i]

FrameOK ==
  /\ panel.cmd = Framed(current) /\ DriverSent(current)
  /\ panel.win.col_end < U16 - 1

\* The registers the viewer heard are the framebuffer's, the transaction in
\* flight counted.
Heard(frame) == frame.cmd \in {"2A", "2B"} /\ Len(frame.data) >= 4

RegistersHeard ==
  LET t == Observe(win_tracker, current)
      heard == IF Heard(current) THEN addressed \cup {current.cmd} ELSE addressed
  IN  /\ "2A" \in heard =>
           t.col_start = panel.win.col_start /\ t.col_end = panel.win.col_end
      /\ "2B" \in heard =>
           t.row_start = panel.win.row_start /\ t.row_end = panel.win.row_end

\* A write from the window's corner on, until the window is full.
CursorThere(f, n) ==
  n < Wide(f.win) * High(f.win) => <<f.cursor_col, f.cursor_row>> = Spot(f.win, n)
PixelsThere(f, data) ==
  Len(data) <= Wide(f.win) * High(f.win) =>
    \A k \in 1..Len(data) :
      Spot(f.win, k - 1) \in Places => f.pixels[Spot(f.win, k - 1)] = data[k]
Written ==
  current.cmd = "2C" /\ Upright(panel.win) =>
    CursorThere(panel, Len(current.data)) /\ PixelsThere(panel, current.data)

Frames == [cmd : Commands, data : Seq(U)]

VInv ==
  /\ FbOK(panel) /\ FbOK(shown)
  /\ current \in Frames \cup {NoFrame}
  /\ win_tracker \in Windows
  /\ panel = Replay(shown, current)
  /\ FrameOK /\ RegistersHeard /\ Written
  /\ DumpIsShown

\* A transaction is none before the first command.
LEMMA FrameType ==
  ASSUME NEW frame \in Frames \cup {NoFrame}
  PROVE  /\ frame.data \in Seq(U) /\ Len(frame.data) \in Nat
         /\ frame = NoFrame \/ frame.cmd \in Commands
         /\ frame = NoFrame => frame.data = <<>> /\ frame.cmd = "none"
         /\ frame = NoFrame <=> frame.cmd \notin Commands
<1>1. CASE frame = NoFrame
  BY <1>1 DEF NoFrame, Commands
<1>2. CASE frame # NoFrame
  <2>1. frame \in Frames
    BY <1>2
  <2>. QED BY <1>2, <2>1 DEF Frames
<1>. QED BY <1>1, <1>2

\* A command leaves the pixels and the registers (framebuffer lib.rs 143-172).
LEMMA FbCommandIs ==
  ASSUME NEW f, FbOK(f), NEW c \in Commands
  PROVE  /\ FbOK(FbCommand(f, c)) /\ FbCommand(f, c).cmd = Begun(c)
         /\ FbCommand(f, c).win = f.win /\ FbCommand(f, c).pixels = f.pixels
         /\ c = "2C" => /\ FbCommand(f, c).cursor_col = f.win.col_start
                        /\ FbCommand(f, c).cursor_row = f.win.row_start
         /\ FbCommand(FbCommand(f, c), c) = FbCommand(f, c)
<1>1. Begun(c) \in Cmds
  <2>1. <<>> \in Seq(0..(BYTE - 1))
    OBVIOUS
  <2>. QED BY <2>1 DEF Begun, Cmds, Commands
<1>2. PICK b \in Cmds : b = Begun(c)
  BY <1>1
<1>3. f.win.col_start \in U /\ f.win.row_start \in U
  BY DEF FbOK, Windows
<1>4. CASE c = "2C"
  <2>1. \A g : FbCommand(g, c) = [g EXCEPT !.cmd = b, !.cursor_col = g.win.col_start,
                                          !.cursor_row = g.win.row_start]
    BY <1>2, <1>4 DEF FbCommand
  <2>2. PICK one : one = FbCommand(f, c)
    OBVIOUS
  <2>3. one = [f EXCEPT !.cmd = b, !.cursor_col = f.win.col_start,
                        !.cursor_row = f.win.row_start]
    BY <2>1, <2>2
  <2>4. /\ FbOK(one) /\ one.cmd = b /\ one.win = f.win /\ one.pixels = f.pixels
        /\ one.cursor_col = f.win.col_start /\ one.cursor_row = f.win.row_start
    BY <1>3, <2>3 DEF FbOK
  <2>5. FbCommand(one, c) = [one EXCEPT !.cmd = b, !.cursor_col = f.win.col_start,
                                        !.cursor_row = f.win.row_start]
    BY <2>1, <2>4
  <2>6. FbCommand(one, c) = one
    <3>1. one = [pixels |-> one.pixels, win |-> one.win, cursor_col |-> one.cursor_col,
                 cursor_row |-> one.cursor_row, cmd |-> one.cmd]
      BY <2>4 DEF FbOK
    <3>2. PICK p, v, x, y : /\ p = one.pixels /\ v = one.win
                            /\ x = one.cursor_col /\ y = one.cursor_row
      OBVIOUS
    <3>3. one = [pixels |-> p, win |-> v, cursor_col |-> x, cursor_row |-> y, cmd |-> b]
      BY <2>4, <3>1, <3>2
    <3>4. FbCommand(one, c) = [one EXCEPT !.cmd = b, !.cursor_col = x, !.cursor_row = y]
      BY <2>4, <2>5, <3>2
    <3>. QED BY <3>3, <3>4
  <2>. QED BY <1>2, <2>2, <2>4, <2>6
<1>5. CASE c # "2C"
  <2>1. \A g : FbCommand(g, c) = [g EXCEPT !.cmd = b]
    BY <1>2, <1>5 DEF FbCommand
  <2>. QED BY <1>2, <1>5, <2>1 DEF FbOK
<1>. QED BY <1>4, <1>5

LEMMA InitVInv == ViewerInit => VInv
<1> SUFFICES ASSUME ViewerInit PROVE VInv
  OBVIOUS
<1>1. /\ U16 \in Nat \ {0, 1} /\ WIDTH \in 1..(U16 - 1) /\ HEIGHT \in 1..(U16 - 1)
  BY Widths
<1>2. panel = NewFramebuffer(0) /\ shown = panel /\ current = NoFrame
      /\ win_tracker = Window(0, 0, 0, 0) /\ dumped = NothingDumped /\ addressed = {}
  BY DEF ViewerInit
<1>3. NoCmd \in Cmds
  <2>1. <<>> \in Seq(0..(BYTE - 1))
    OBVIOUS
  <2>. QED BY <2>1 DEF NoCmd, Cmds, Commands
<1>4. /\ 0 \in U /\ WIDTH - 1 \in U /\ HEIGHT - 1 \in U
  BY <1>1 DEF U
<1>5. FbOK(panel) /\ FbOK(shown) /\ win_tracker \in Windows
  BY <1>2, <1>3, <1>4 DEF NewFramebuffer, FbOK, Windows, Window
<1>6. panel = Replay(shown, current)
  BY <1>2 DEF Replay
<1>7. FrameOK
  <2>1. panel.win.col_end = WIDTH - 1 /\ panel.cmd = NoCmd
    BY <1>2 DEF NewFramebuffer, Window
  <2>2. current.cmd = "none"
    BY <1>2 DEF NoFrame
  <2>3. panel.cmd = Framed(current) /\ DriverSent(current)
    BY <1>2, <2>1, <2>2 DEF Framed, DriverSent
  <2>. QED BY <1>1, <2>1, <2>3 DEF FrameOK
<1>8. RegistersHeard /\ Written
  <2>1. current.cmd = "none"
    BY <1>2 DEF NoFrame
  <2>. QED BY <1>2, <2>1 DEF RegistersHeard, Heard, Written
<1>9. DumpIsShown
  BY <1>2 DEF DumpIsShown, NothingDumped
<1>. QED BY <1>2, <1>5, <1>6, <1>7, <1>8, <1>9 DEF VInv

\* The viewer's registers, after the transaction in flight (main.rs 165-195).
LEMMA ObserveOK ==
  ASSUME NEW t \in Windows, NEW frame \in Frames \cup {NoFrame}
  PROVE  Observe(t, frame) \in Windows
<1> DEFINE byte(i) == frame.data[i] % BYTE
           from == Pair(byte(1), byte(2))
           to == Pair(byte(3), byte(4))
<1>1. CASE frame.cmd \notin {"2A", "2B"} \/ Len(frame.data) < 4
  BY <1>1 DEF Observe
<1>2. CASE ~(frame.cmd \notin {"2A", "2B"} \/ Len(frame.data) < 4)
  <2>1. frame.data \in Seq(U) /\ Len(frame.data) \in Nat /\ ~(Len(frame.data) < 4)
    BY <1>2, FrameType
  <2>2. \A i \in 1..4 : frame.data[i] \in U
    BY <2>1
  <2>3. \A i \in 1..4 : byte(i) \in 0..(BYTE - 1)
    <3>1. BYTE \in Nat \ {0}
      BY PanelConstants
    <3>2. \A i \in 1..4 : frame.data[i] \in Nat
      BY <2>2, Widths DEF U
    <3>. QED BY <3>1, <3>2
  <2>4. from \in U /\ to \in U
    <3> HIDE DEF byte
    <3>. QED BY <2>3, Widths
  <2>5. Observe(t, frame) = IF frame.cmd = "2A"
                            THEN [t EXCEPT !.col_start = from, !.col_end = to]
                            ELSE [t EXCEPT !.row_start = from, !.row_end = to]
    BY <1>2 DEF Observe
  <2> HIDE DEF from, to
  <2>. QED BY <2>4, <2>5 DEF Windows
<1>. QED BY <1>1, <1>2

\* What a write that fills the window has left on the panel (main.rs 165-208).
LEMMA CommandDumps ==
  ASSUME VInv, NEW d, d = Dump(win_tracker, current), d.done, addressed = {"2A", "2B"}
  PROVE  /\ current.cmd = "2C"
         /\ \A k \in DOMAIN d.pixels :
              LET place == <<d.x + ((k - 1) % d.w), d.y + ((k - 1) \div d.w)>>
              IN  place \in Places => panel.pixels[place] = d.pixels[k]
<1> DEFINE t == win_tracker
           win == panel.win
           w == Wrap(t.col_end - t.col_start + 1)
           h == Wrap(t.row_end - t.row_start + 1)
<1>1. /\ win \in Windows /\ t \in Windows /\ current.data \in Seq(U)
      /\ win.col_end < U16 - 1
  BY FrameType DEF VInv, FbOK, FrameOK
<1>2. /\ current.cmd = "2C" /\ t.col_end >= t.col_start /\ t.row_end >= t.row_start
      /\ Len(current.data) = w * h
      /\ d = [done |-> TRUE, x |-> t.col_start, y |-> t.row_start, w |-> w,
              pixels |-> current.data]
  BY DEF Dump, NothingDumped
<1>3. /\ t.col_start = win.col_start /\ t.col_end = win.col_end
      /\ t.row_start = win.row_start /\ t.row_end = win.row_end
  <2>1. ~Heard(current) /\ Observe(t, current) = t
    BY <1>2 DEF Heard, Observe
  <2>. QED BY <2>1 DEF VInv, RegistersHeard
<1>4. Upright(win)
  <2>1. /\ win.col_start \in U /\ win.col_end \in U /\ win.row_start \in U
        /\ win.row_end \in U
    BY <1>1 DEF Windows
  <2>. QED BY <1>2, <1>3, <2>1 DEF Upright, U
<1>5. /\ Wide(win) \in Nat \ {0} /\ High(win) \in Nat \ {0} /\ U16 \in Nat \ {0}
      /\ Wide(win) < U16 /\ High(win) <= U16
  <2> HIDE DEF win
  <2>1. /\ win.col_start \in Nat /\ win.row_start \in Nat
        /\ win.col_end \in Nat /\ win.row_end \in Nat
        /\ win.row_end < U16 /\ U16 \in Nat \ {0}
        /\ Wide(win) \in Nat \ {0} /\ High(win) \in Nat \ {0}
    BY <1>1, <1>4, WindowSize
  <2>2. Wide(win) < U16
    BY <1>1, <2>1 DEF Wide
  <2>3. High(win) <= U16
    BY <2>1 DEF High
  <2>. QED BY <2>1, <2>2, <2>3
<1>6. w = Wide(win)
  <2>1. Wide(win) \in U
    BY <1>5 DEF U
  <2>2. w = Wrap(Wide(win))
    BY <1>3 DEF Wide
  <2>. QED BY <2>1, <2>2, Widths
<1>7. h \in Nat /\ h <= High(win)
  <2>1. h = Wrap(High(win))
    BY <1>3 DEF High
  <2>. QED BY <1>5, <2>1 DEF Wrap
<1>8. d.x = win.col_start /\ d.y = win.row_start /\ d.w = Wide(win) /\ d.pixels = current.data
  BY <1>2, <1>3, <1>6
<1> HIDE DEF w, h, win, t
<1>9. Len(current.data) <= Wide(win) * High(win)
  <2>1. PICK a \in Nat, b \in Nat, c \in Nat : a = Wide(win) /\ b = h /\ c = High(win)
    BY <1>5, <1>7
  <2>2. a * b <= a * c
    <3>1. b <= c
      BY <1>7, <2>1
    <3>2. a * c = a * b + a * (c - b) /\ a * (c - b) \in Nat
      BY <3>1
    <3>. QED BY <3>2
  <2>. QED BY <1>2, <1>6, <2>1, <2>2
<1>10. \A k \in 1..Len(current.data) :
         Spot(win, k - 1) \in Places => panel.pixels[Spot(win, k - 1)] = current.data[k]
  <2>1. PixelsThere(panel, current.data)
    BY <1>2, <1>4 DEF VInv, Written, win
  <2>. QED BY <1>9, <2>1 DEF PixelsThere, win
<1>11. DOMAIN d.pixels = 1..Len(current.data)
  BY <1>1, <1>8
<1>12. ASSUME NEW k \in DOMAIN d.pixels
       PROVE  Spot(win, k - 1) = <<d.x + ((k - 1) % d.w), d.y + ((k - 1) \div d.w)>>
  <2> DEFINE At(x, y, v) == <<x + ((k - 1) % v), y + ((k - 1) \div v)>>
  <2>1. Spot(win, k - 1) = At(win.col_start, win.row_start, Wide(win))
    BY Zenon DEF Spot
  <2>2. At(d.x, d.y, d.w) = At(win.col_start, win.row_start, Wide(win))
    <3> HIDE DEF At
    <3>. QED BY <1>8, Zenon
  <2>. QED BY <2>1, <2>2, Zenon
<1>. QED BY <1>2, <1>8, <1>10, <1>11, <1>12

\* A command starts a transaction, the one it ends is replayed
\* (bus_decoder.rs 33-70, main.rs 575-604).
LEMMA CommandVInv ==
  ASSUME VInv, NEW c \in Commands, BusCommand(c)
  PROVE  VInv'
<1> DEFINE next == [cmd |-> c, data |-> <<>>]
<1>1. /\ FbOK(panel) /\ FbOK(shown) /\ current \in Frames \cup {NoFrame}
      /\ win_tracker \in Windows /\ panel = Replay(shown, current)
  BY DEF VInv
<1>2. /\ panel' = FbCommand(panel, c) /\ current' = next /\ shown' = panel
      /\ win_tracker' = Observe(win_tracker, current) /\ dumped' = Dump(win_tracker, current)
      /\ addressed' = IF Heard(current) THEN addressed \cup {current.cmd} ELSE addressed
  BY <1>1 DEF BusCommand, HandleFrame, Heard
<1>3. /\ FbOK(panel') /\ panel'.cmd = Begun(c) /\ panel'.win = panel.win
      /\ panel'.pixels = panel.pixels
      /\ c = "2C" => panel'.cursor_col = panel.win.col_start
                     /\ panel'.cursor_row = panel.win.row_start
  BY <1>1, <1>2, FbCommandIs
<1>4. /\ next \in Frames /\ next # NoFrame /\ next.cmd = c /\ next.data = <<>>
      /\ Len(next.data) = 0
  <2>1. <<>> \in Seq(U)
    OBVIOUS
  <2>. QED BY <2>1 DEF Frames, NoFrame, Commands
<1> HIDE DEF next
<1>5. win_tracker' \in Windows
  BY <1>1, <1>2, ObserveOK
<1>6. panel' = Replay(shown', current')
  <2>1. Replay(panel, next) = Fed(FbCommand(panel, c), <<>>)
    BY <1>4 DEF Replay
  <2>. QED BY <1>2, <2>1, FedNothing
<1>7. FrameOK'
  <2>1. Begun(c) = Framed(next) /\ DriverSent(next)
    BY <1>4 DEF Framed, Begun, DriverSent
  <2>. QED BY <1>2, <1>3, <2>1 DEF VInv, FrameOK
<1>8. RegistersHeard'
  <2>1. ~Heard(next) /\ Observe(win_tracker', next) = win_tracker'
    BY <1>4 DEF Heard, Observe
  <2>. QED BY <1>2, <1>3, <2>1 DEF VInv, RegistersHeard
<1>9. Written'
  <2> SUFFICES ASSUME c = "2C", Upright(panel.win)
               PROVE  CursorThere(panel', 0) /\ PixelsThere(panel', <<>>)
    BY <1>2, <1>3, <1>4 DEF Written
  <2>1. CursorThere(panel', 0)
    <3>1. panel.win \in Windows
      BY <1>1 DEF FbOK
    <3>. QED BY <1>3, <3>1, FirstSpot DEF CursorThere
  <2>. QED BY <2>1 DEF PixelsThere
<1>10. DumpIsShown'
  <2> SUFFICES ASSUME dumped'.done, addressed' = {"2A", "2B"}
               PROVE  \A k \in DOMAIN dumped'.pixels :
                        LET place == <<dumped'.x + ((k - 1) % dumped'.w),
                                       dumped'.y + ((k - 1) \div dumped'.w)>>
                        IN  place \in Places => panel.pixels[place] = dumped'.pixels[k]
    BY <1>3 DEF DumpIsShown
  <2>1. current.cmd = "2C"
    BY <1>2 DEF Dump, NothingDumped
  <2>2. addressed = {"2A", "2B"}
    BY <1>2, <2>1 DEF Heard
  <2>3. PICK d : d = Dump(win_tracker, current)
    OBVIOUS
  <2>4. dumped' = d
    BY <1>2, <2>3
  <2>. QED BY <2>2, <2>3, <2>4, CommandDumps
<1>. QED BY <1>1, <1>2, <1>3, <1>4, <1>5, <1>6, <1>7, <1>8, <1>9, <1>10 DEF VInv

\* More copies of the command change nothing.
LEMMA AgainVInv ==
  ASSUME VInv, CommandAgain
  PROVE  VInv'
<1>1. FbOK(shown) /\ current \in Frames \cup {NoFrame} /\ panel = Replay(shown, current)
  BY DEF VInv
<1>2. /\ current # NoFrame /\ current.data = <<>>
      /\ panel' = FbCommand(panel, current.cmd)
      /\ current' = current /\ shown' = shown /\ win_tracker' = win_tracker
      /\ dumped' = dumped /\ addressed' = addressed
  BY DEF CommandAgain, viewer
<1>3. panel = FbCommand(shown, current.cmd)
  BY <1>1, <1>2, FedNothing DEF Replay
<1>4. panel' = panel
  BY <1>1, <1>2, <1>3, FbCommandIs, FrameType
<1>. QED BY <1>2, <1>4 DEF VInv, FrameOK, RegistersHeard, Written, DumpIsShown

\* Which words the framebuffer takes as what.
LEMMA FramedIs ==
  ASSUME VInv
  PROVE  /\ panel.cmd \in Cmds /\ Len(panel.cmd.buf) \in Nat /\ Len(panel.cmd.buf) < 4
         /\ TakesAddress(panel) <=> current.cmd \in {"2A", "2B"} /\ Len(current.data) < 4
         /\ TakesAddress(panel) => panel.cmd = [kind |-> current.cmd, buf |-> current.data]
         /\ TakesPixels(panel) <=> current.cmd \in {"2C", "3C"}
<1>1. /\ panel.cmd \in Cmds /\ panel.cmd = Framed(current)
      /\ current \in Frames \cup {NoFrame}
  BY DEF VInv, FbOK, FrameOK
<1>2. Len(panel.cmd.buf) \in Nat
  BY <1>1 DEF Cmds
<1>3. Len(<<>>) = 0
  OBVIOUS
<1>4. CASE current.cmd \in {"2A", "2B"}
  BY <1>1, <1>2, <1>3, <1>4 DEF Framed, NoCmd, TakesAddress, TakesPixels
<1>5. CASE current = NoFrame
  BY <1>1, <1>2, <1>3, <1>5 DEF Framed, NoFrame, NoCmd, TakesAddress, TakesPixels
<1>6. CASE current.cmd \notin {"2A", "2B"} /\ current # NoFrame
  <2>1. panel.cmd = Begun(current.cmd) /\ current.cmd \in Commands
    BY <1>1, <1>6, FrameType DEF Framed
  <2>2. panel.cmd.buf = <<>>
    BY <2>1 DEF Begun
  <2>3. panel.cmd.kind = IF current.cmd = "3C" THEN "2C" ELSE current.cmd
    BY <2>1 DEF Begun
  <2>4. ~TakesAddress(panel)
    BY <1>6, <2>3 DEF TakesAddress
  <2>5. TakesPixels(panel) <=> current.cmd \in {"2C", "3C"}
    BY <2>3 DEF TakesPixels
  <2>6. Len(panel.cmd.buf) < 4
    BY <1>3, <2>2
  <2>. QED BY <1>1, <1>2, <1>6, <2>4, <2>5, <2>6
<1>. QED BY <1>4, <1>5, <1>6

\* A word that may come after a transaction's.
Sent(frame, w) ==
  /\ w \in U
  /\ frame.cmd \in {"2A", "2B"} => w \in 0..(BYTE - 1)
  /\ frame.cmd = "2A" /\ Len(frame.data) < 4 =>
       \E p \in ColAddresses :
         /\ p \in [1..4 -> 0..(BYTE - 1)] /\ Pair(p[3], p[4]) < U16 - 1
         /\ \A i \in 1..Len(frame.data) : frame.data[i] = p[i]
         /\ w = p[Len(frame.data) + 1]

LEMMA WordSent ==
  ASSUME VInv, NEW w \in BusWords
  PROVE  Sent(current, w)
<1> DEFINE n == Len(panel.cmd.buf)
           Next4(params) ==
             {p[n + 1] : p \in {q \in params : \A i \in 1..n : q[i] = panel.cmd.buf[i]}}
<1>1. BYTE - 1 <= U16 - 1 /\ BYTE \in Nat \ {0, 1} /\ U16 \in Nat \ {0, 1}
  <2>1. BYTE \in Nat \ {0, 1}
    BY PanelConstants
  <2>2. BYTE <= BYTE * BYTE
    <3>1. BYTE * BYTE = BYTE * (BYTE - 1) + BYTE /\ BYTE * (BYTE - 1) \in Nat
      BY <2>1
    <3>. QED BY <2>1, <3>1
  <2>. QED BY <2>1, <2>2, Widths DEF U16
<1>2. n \in Nat /\ n < 4 /\ n + 1 \in 1..4
  BY FramedIs
<1>3. CASE TakesPixels(panel)
  <2>1. current.cmd \in {"2C", "3C"} /\ ~TakesAddress(panel)
    BY <1>3, FramedIs
  <2>2. w \in Colours
    BY <1>3, <2>1 DEF BusWords
  <2>3. w \in U
    BY <2>2, ViewerConstants DEF U
  <2>. QED BY <2>1, <2>3 DEF Sent
<1>4. CASE TakesAddress(panel)
  <2>1. /\ current.cmd \in {"2A", "2B"} /\ Len(current.data) < 4
        /\ panel.cmd.kind = current.cmd /\ panel.cmd.buf = current.data
        /\ ~TakesPixels(panel)
    BY <1>4, FramedIs
  <2>2. w \in Next4(IF panel.cmd.kind = "2A" THEN ColAddresses ELSE RowAddresses)
    BY <1>4, <2>1 DEF BusWords
  <2>3. PICK params : /\ params = IF current.cmd = "2A" THEN ColAddresses ELSE RowAddresses
                      /\ w \in Next4(params)
    BY <2>1, <2>2
  <2>4. PICK p \in params : (\A i \in 1..n : p[i] = panel.cmd.buf[i]) /\ w = p[n + 1]
    BY <2>3
  <2>5. p \in [1..4 -> 0..(BYTE - 1)]
    BY <2>3, <2>4, ViewerConstants
  <2>6. w \in 0..(BYTE - 1)
    BY <1>2, <2>4, <2>5
  <2>7. w \in U
    BY <1>1, <2>6 DEF U
  <2>8. current.cmd = "2A" => p \in ColAddresses /\ Pair(p[3], p[4]) < U16 - 1
    BY <2>3, <2>4, ViewerConstants
  <2>. QED BY <2>1, <2>4, <2>5, <2>6, <2>7, <2>8 DEF Sent
<1>5. CASE ~TakesPixels(panel) /\ ~TakesAddress(panel)
  <2>1. w = 0 /\ ~(current.cmd \in {"2A", "2B"} /\ Len(current.data) < 4)
    BY <1>5, FramedIs DEF BusWords
  <2>2. 0 \in U /\ 0 \in 0..(BYTE - 1)
    BY <1>1 DEF U
  <2>. QED BY <2>1, <2>2 DEF Sent
<1>. QED BY <1>3, <1>4, <1>5

\* What a word does to the transaction and its replay (bus_decoder.rs 33-70,
\* main.rs 586-598).
Longer(frame, w) == [cmd |-> frame.cmd, data |-> Append(frame.data, w)]

LEMMA DataFrame ==
  ASSUME VInv, NEW w \in BusWords, BusData(w)
  PROVE  /\ panel' = FbData(panel, w) /\ FbOK(panel')
         /\ current' \in Frames \cup {NoFrame}
         /\ current = NoFrame => current' = NoFrame
         /\ current # NoFrame => /\ current' = Longer(current, w) /\ current' # NoFrame
                                 /\ current.data \in Seq(U)
         /\ panel' = Replay(shown, current')
         /\ shown' = shown /\ win_tracker' = win_tracker /\ addressed' = addressed
         /\ DumpIsShown'
<1>1. /\ FbOK(panel) /\ current \in Frames \cup {NoFrame} /\ panel = Replay(shown, current)
      /\ Sent(current, w) /\ w \in U
  BY WordSent DEF VInv, Sent
<1>2. /\ panel' = FbData(panel, w) /\ dumped' = NothingDumped
      /\ current' = IF current = NoFrame THEN NoFrame ELSE [current EXCEPT !.data = Append(@, w)]
      /\ shown' = shown /\ win_tracker' = win_tracker /\ addressed' = addressed
  BY DEF BusData
<1>3. FbOK(FbData(panel, w))
  <2>1. CASE TakesAddress(panel)
    <3>1. Len(panel.cmd.buf) < 4 /\ w \in 0..(BYTE - 1)
      BY <1>1, <2>1, FramedIs DEF Sent
    <3>. QED BY <1>1, <2>1, <3>1, FbAddressIs DEF FbData
  <2>2. CASE TakesPixels(panel) /\ ~TakesAddress(panel)
    BY <1>1, <2>2, WritePixelOK DEF FbData
  <2>3. CASE ~TakesPixels(panel) /\ ~TakesAddress(panel)
    BY <1>1, <2>3 DEF FbData
  <2>. QED BY <2>1, <2>2, <2>3
<1>4. DumpIsShown'
  BY <1>2 DEF DumpIsShown, NothingDumped
<1>5. CASE current = NoFrame
  <2>1. ~TakesAddress(panel) /\ ~TakesPixels(panel)
    BY <1>5, FramedIs DEF NoFrame
  <2>2. FbData(panel, w) = panel /\ current' = NoFrame
    BY <1>2, <1>5, <2>1 DEF FbData
  <2>. QED BY <1>1, <1>2, <1>3, <1>4, <1>5, <2>2
<1>6. CASE current # NoFrame
  <2>1. current \in Frames /\ current.data \in Seq(U) /\ current.cmd \in Commands
    BY <1>1, <1>6, FrameType
  <2>2. current' = Longer(current, w)
    BY <1>2, <1>6, <2>1 DEF Frames, Longer
  <2>3. current' \in Frames
    <3>1. Append(current.data, w) \in Seq(U)
      BY <1>1, <2>1
    <3>. QED BY <2>1, <2>2, <3>1 DEF Frames, Longer
  <2>4. current' # NoFrame
    BY <2>3 DEF Frames, NoFrame, Commands
  <2>5. Replay(shown, current') = FbData(Replay(shown, current), w)
    <3>1. Replay(shown, current) = Fed(FbCommand(shown, current.cmd), current.data)
      BY <1>6 DEF Replay
    <3>2. Replay(shown, current') = Fed(FbCommand(shown, current.cmd), Append(current.data, w))
      BY <2>2, <2>4 DEF Replay, Longer
    <3>. QED BY <1>1, <2>1, <3>1, <3>2, FedOneMore
  <2>. QED BY <1>1, <1>2, <1>3, <1>4, <1>6, <2>1, <2>2, <2>3, <2>4, <2>5
<1>. QED BY <1>5, <1>6

\* An address's word (framebuffer lib.rs 174-189, main.rs 165-195).
LEMMA AddressVInv ==
  ASSUME VInv, NEW w \in BusWords, BusData(w), TakesAddress(panel)
  PROVE  FrameOK' /\ RegistersHeard' /\ Written'
<1> DEFINE n == Len(current.data)
           b == Append(current.data, w)
           t == win_tracker
           win == panel.win
           from == Pair(b[1], b[2])
           to == Pair(b[3], b[4])
<1>1. /\ FbOK(panel) /\ win \in Windows /\ t \in Windows /\ win.col_end < U16 - 1
      /\ Len(panel.cmd.buf) < 4 /\ DriverSent(current)
  BY FramedIs DEF VInv, FbOK, FrameOK
<1>2. /\ current.cmd \in {"2A", "2B"} /\ n \in Nat /\ n < 4 /\ current # NoFrame
      /\ panel.cmd = [kind |-> current.cmd, buf |-> current.data]
  <2>1. current.cmd \in {"2A", "2B"}
    BY FramedIs
  <2>. QED BY <2>1, FramedIs DEF NoFrame
<1>3. /\ current' = Longer(current, w) /\ current' # NoFrame /\ current.data \in Seq(U)
      /\ panel' = FbData(panel, w) /\ t' = t /\ addressed' = addressed
  BY <1>2, DataFrame
<1>4. Sent(current, w) /\ w \in 0..(BYTE - 1)
  BY <1>2, WordSent DEF Sent
<1>5. panel'.cmd = NextCmd(panel.cmd, w) /\ panel'.win = NextWin(panel, w)
  BY <1>1, <1>3, <1>4, FbAddressIs DEF FbData
<1>6. /\ current'.cmd = current.cmd /\ current'.data = b
  BY <1>3 DEF Longer
<1>7. /\ Len(b) = n + 1 /\ b[n + 1] = w /\ \A i \in 1..n : b[i] = current.data[i]
      /\ \A i \in 1..(n + 1) : b[i] \in 0..(BYTE - 1)
  <2>1. w \in U
    BY <1>4 DEF Sent
  <2>2. Len(b) = n + 1 /\ b[n + 1] = w /\ \A i \in 1..n : b[i] = current.data[i]
    BY <1>3, <2>1
  <2>3. \A i \in 1..n : current.data[i] \in 0..(BYTE - 1)
    BY <1>1, <1>2 DEF DriverSent
  <2>4. \A i \in 1..(n + 1) : i \in 1..n \/ i = n + 1
    BY <1>2
  <2> HIDE DEF b
  <2>. QED BY <1>4, <2>2, <2>3, <2>4
<1>8. panel'.cmd = IF n < 3 THEN [kind |-> current.cmd, buf |-> b] ELSE NoCmd
  BY <1>2, <1>5 DEF NextCmd
<1>9. panel'.win = IF n < 3 THEN win
                   ELSE IF current.cmd = "2A"
                   THEN [win EXCEPT !.col_start = from, !.col_end = to]
                   ELSE [win EXCEPT !.row_start = from, !.row_end = to]
  <2>1. panel.cmd.buf = current.data /\ panel.cmd.kind = current.cmd
    BY <1>2
  <2>2. NextWin(panel, w) = IF n < 3 THEN win
                            ELSE IF current.cmd = "2A"
                            THEN [win EXCEPT !.col_start = from, !.col_end = to]
                            ELSE [win EXCEPT !.row_start = from, !.row_end = to]
    BY <2>1, Zenon DEF NextWin
  <2>. QED BY <1>5, <2>2
<1> HIDE DEF b
<1>10. panel'.cmd = Framed(current')
  <2>1. Len(current'.data) < 4 <=> n < 3
    BY <1>2, <1>6, <1>7
  <2>. QED BY <1>2, <1>6, <1>8, <2>1 DEF Framed
<1>11. DriverSent(current')
  <2>1. ASSUME current'.cmd = "2A", Len(current'.data) \in 1..3
        PROVE  \E p \in ColAddresses : \A i \in 1..Len(current'.data) : current'.data[i] = p[i]
    <3>1. PICK p \in ColAddresses : /\ \A i \in 1..n : current.data[i] = p[i]
                                    /\ w = p[n + 1]
      BY <1>2, <1>4, <1>6, <2>1 DEF Sent
    <3>2. \A i \in 1..(n + 1) : i \in 1..n \/ i = n + 1
      BY <1>2
    <3>3. \A i \in 1..(n + 1) : b[i] = p[i]
      BY <1>7, <3>1, <3>2
    <3>. QED BY <1>6, <1>7, <3>3
  <2>2. \A i \in 1..Len(current'.data) : current'.data[i] \in 0..(BYTE - 1)
    BY <1>6, <1>7
  <2>. QED BY <2>1, <2>2 DEF DriverSent
<1>12. Written'
  BY <1>2, <1>6 DEF Written
<1>13. ~Heard(current) /\ Observe(t, current) = t
  BY <1>2 DEF Heard, Observe
<1>14. CASE n < 3
  <2>1. panel'.win = win
    BY <1>9, <1>14
  <2>2. Len(current'.data) < 4 /\ ~(Len(current'.data) >= 4)
    BY <1>2, <1>6, <1>7, <1>14
  <2>3. ~Heard(current') /\ Observe(t', current') = t
    BY <1>3, <2>2 DEF Heard, Observe
  <2>4. RegistersHeard'
    BY <1>3, <1>13, <2>1, <2>3 DEF VInv, RegistersHeard
  <2>. QED BY <1>1, <1>10, <1>11, <1>12, <2>1, <2>4 DEF FrameOK
<1>15. CASE ~(n < 3)
  <2>1. n = 3 /\ Len(current'.data) >= 4 /\ ~(Len(current'.data) < 4)
    <3>1. Len(current'.data) = n + 1
      BY <1>6, <1>7
    <3> HIDE DEF n
    <3>2. n = 3
      BY <1>2, <1>15
    <3>. QED BY <3>1, <3>2
  <2>2. Heard(current')
    BY <1>2, <1>6, <2>1 DEF Heard
  <2>3. /\ b[1] % BYTE = b[1] /\ b[2] % BYTE = b[2]
        /\ b[3] % BYTE = b[3] /\ b[4] % BYTE = b[4]
    <3>1. BYTE \in Nat \ {0}
      BY PanelConstants
    <3>2. \A i \in 1..4 : b[i] \in 0..(BYTE - 1)
      BY <1>7, <2>1
    <3>3. \A i \in 1..4 : b[i] % BYTE = b[i]
      BY <3>1, <3>2, ModSmall
    <3>. QED BY <3>3
  <2>4. Observe(t', current') = IF current.cmd = "2A"
                                THEN [t EXCEPT !.col_start = from, !.col_end = to]
                                ELSE [t EXCEPT !.row_start = from, !.row_end = to]
    BY <1>2, <1>3, <1>6, <2>1, <2>3 DEF Observe
  <2>5. current.cmd = "2A" => to < U16 - 1
    <3> SUFFICES ASSUME current.cmd = "2A" PROVE to < U16 - 1
      OBVIOUS
    <3>1. PICK p \in ColAddresses : /\ Pair(p[3], p[4]) < U16 - 1
                                    /\ \A i \in 1..n : current.data[i] = p[i]
                                    /\ w = p[n + 1]
      BY <1>2, <1>4 DEF Sent
    <3>2. b[3] = p[3] /\ b[4] = p[4]
      BY <1>7, <2>1, <3>1
    <3>. QED BY <3>1, <3>2
  <2> HIDE DEF from, to
  <2>6. CASE current.cmd = "2A"
    <3>1. panel'.win = [win EXCEPT !.col_start = from, !.col_end = to]
      BY <1>9, <1>15, <2>6
    <3>2. Observe(t', current') = [t EXCEPT !.col_start = from, !.col_end = to]
      BY <2>4, <2>6
    <3>3. /\ panel'.win.col_start = from /\ panel'.win.col_end = to
          /\ panel'.win.row_start = win.row_start /\ panel'.win.row_end = win.row_end
      BY <1>1, <3>1 DEF Windows
    <3>4. /\ Observe(t', current').col_start = from /\ Observe(t', current').col_end = to
          /\ Observe(t', current').row_start = t.row_start
          /\ Observe(t', current').row_end = t.row_end
      BY <1>1, <3>2 DEF Windows
    <3>5. "2B" \in addressed => t.row_start = win.row_start /\ t.row_end = win.row_end
      BY <1>13 DEF VInv, RegistersHeard
    <3>6. RegistersHeard'
      BY <1>3, <1>6, <2>2, <2>6, <3>3, <3>4, <3>5 DEF RegistersHeard
    <3>. QED BY <1>10, <1>11, <1>12, <2>5, <2>6, <3>3, <3>6 DEF FrameOK
  <2>7. CASE current.cmd # "2A"
    <3>1. panel'.win = [win EXCEPT !.row_start = from, !.row_end = to]
      BY <1>9, <1>15, <2>7
    <3>2. Observe(t', current') = [t EXCEPT !.row_start = from, !.row_end = to]
      BY <2>4, <2>7
    <3>3. /\ panel'.win.row_start = from /\ panel'.win.row_end = to
          /\ panel'.win.col_start = win.col_start /\ panel'.win.col_end = win.col_end
      BY <1>1, <3>1 DEF Windows
    <3>4. /\ Observe(t', current').row_start = from /\ Observe(t', current').row_end = to
          /\ Observe(t', current').col_start = t.col_start
          /\ Observe(t', current').col_end = t.col_end
      BY <1>1, <3>2 DEF Windows
    <3>5. "2A" \in addressed => t.col_start = win.col_start /\ t.col_end = win.col_end
      BY <1>13 DEF VInv, RegistersHeard
    <3>6. RegistersHeard'
      BY <1>2, <1>3, <1>6, <2>2, <2>7, <3>3, <3>4, <3>5 DEF RegistersHeard
    <3>. QED BY <1>1, <1>10, <1>11, <1>12, <3>3, <3>6 DEF FrameOK
  <2>. QED BY <2>6, <2>7
<1>. QED BY <1>14, <1>15

\* A pixel's word (framebuffer lib.rs 191-220).
LEMMA PixelVInv ==
  ASSUME VInv, NEW w \in BusWords, BusData(w), TakesPixels(panel)
  PROVE  FrameOK' /\ RegistersHeard' /\ Written'
<1> DEFINE n == Len(current.data)
           b == Append(current.data, w)
           win == panel.win
           size == Wide(win) * High(win)
<1>1. /\ FbOK(panel) /\ win \in Windows /\ win.col_end < U16 - 1 /\ w \in U
      /\ panel.cmd = Framed(current) /\ panel.pixels \in [Places -> U]
  BY WordSent DEF VInv, FbOK, FrameOK, Sent
<1>2. current.cmd \in {"2C", "3C"} /\ current # NoFrame /\ ~TakesAddress(panel)
  <2>1. current.cmd \in {"2C", "3C"}
    BY FramedIs
  <2>. QED BY <2>1, FramedIs DEF NoFrame
<1>3. /\ current' = Longer(current, w) /\ current' # NoFrame /\ current.data \in Seq(U)
      /\ panel' = FbData(panel, w) /\ win_tracker' = win_tracker /\ addressed' = addressed
  BY <1>2, DataFrame
<1>4. panel' = WritePixel(panel, w)
  BY <1>2, <1>3 DEF FbData
<1>5. panel'.cmd = panel.cmd /\ panel'.win = win
  BY <1>1, <1>4, WritePixelOK
<1>6. current'.cmd = current.cmd /\ current'.data = b
  BY <1>3 DEF Longer
<1>7. n \in Nat /\ Len(b) = n + 1 /\ b[n + 1] = w /\ \A i \in 1..n : b[i] = current.data[i]
  BY <1>1, <1>3
<1> HIDE DEF b
<1>8. FrameOK'
  <2>1. Framed(current') = Framed(current)
    BY <1>2, <1>3, <1>6 DEF Framed
  <2>2. DriverSent(current')
    BY <1>2, <1>6 DEF DriverSent
  <2>. QED BY <1>1, <1>5, <2>1, <2>2 DEF FrameOK
<1>9. RegistersHeard'
  <2>1. ~Heard(current) /\ ~Heard(current')
    BY <1>2, <1>6 DEF Heard
  <2>2. /\ Observe(win_tracker, current) = win_tracker
        /\ Observe(win_tracker', current') = win_tracker
    BY <1>2, <1>3, <1>6 DEF Observe
  <2>. QED BY <1>3, <1>5, <2>1, <2>2 DEF VInv, RegistersHeard
<1>10. Written'
  <2> SUFFICES ASSUME current.cmd = "2C", Upright(win)
               PROVE  CursorThere(panel', n + 1) /\ PixelsThere(panel', b)
    BY <1>5, <1>6, <1>7 DEF Written
  <2>1. CursorThere(panel, n) /\ PixelsThere(panel, current.data)
    BY DEF VInv, Written
  <2>2. size \in Nat
    <3>1. Wide(win) \in Nat /\ High(win) \in Nat
      BY <1>1, WindowSize
    <3>. QED BY <3>1
  <2>3. ASSUME n < size
        PROVE  /\ panel'.pixels = IF Spot(win, n) \in Places
                                  THEN [panel.pixels EXCEPT ![Spot(win, n)] = w]
                                  ELSE panel.pixels
               /\ n + 1 < size =>
                    <<panel'.cursor_col, panel'.cursor_row>> = Spot(win, n + 1)
    <3>1. <<panel.cursor_col, panel.cursor_row>> = Spot(win, n)
      BY <2>1, <2>3 DEF CursorThere
    <3>. QED BY <1>1, <1>4, <1>7, <2>3, <3>1, SpotWritten
  <2>4. \A f : f.win = win => Wide(f.win) * High(f.win) = size
    OBVIOUS
  <2> HIDE DEF size, n
  <2>5. CursorThere(panel', n + 1)
    <3> SUFFICES ASSUME n + 1 < size
                 PROVE  <<panel'.cursor_col, panel'.cursor_row>> = Spot(panel'.win, n + 1)
      BY <1>5, <2>4 DEF CursorThere
    <3>1. n < size
      BY <1>7, <2>2
    <3>. QED BY <1>5, <2>3, <3>1
  <2>6. PixelsThere(panel', b)
    <3> SUFFICES ASSUME n + 1 <= size, NEW k \in 1..(n + 1), Spot(win, k - 1) \in Places
                 PROVE  panel'.pixels[Spot(win, k - 1)] = b[k]
      BY <1>5, <1>7, <2>4 DEF PixelsThere
    <3>1. n < size /\ n <= size
      BY <1>7, <2>2
    <3>2. CASE k = n + 1
      <4>1. k - 1 = n
        BY <1>7, <3>2
      <4>. QED BY <1>1, <1>7, <2>3, <3>1, <3>2, <4>1
    <3>3. CASE k # n + 1
      <4>1. k \in 1..n /\ k - 1 \in Nat /\ k - 1 # n
        BY <1>7, <3>3
      <4>2. Spot(win, k - 1) # Spot(win, n)
        BY <1>1, <1>7, <4>1, SpotsDiffer
      <4>3. panel'.pixels[Spot(win, k - 1)] = panel.pixels[Spot(win, k - 1)]
        <5>1. PICK s, u : s = Spot(win, k - 1) /\ u = Spot(win, n)
          OBVIOUS
        <5>. QED BY <1>1, <2>3, <3>1, <4>2, <5>1
      <4>4. panel.pixels[Spot(win, k - 1)] = current.data[k]
        <5>1. n = Len(current.data)
          BY DEF n
        <5>2. Wide(panel.win) * High(panel.win) = size
          BY DEF size
        <5>. QED BY <2>1, <3>1, <4>1, <5>1, <5>2 DEF PixelsThere
      <4>. QED BY <1>7, <4>1, <4>3, <4>4
    <3>. QED BY <3>2, <3>3
  <2>. QED BY <2>5, <2>6
<1>. QED BY <1>8, <1>9, <1>10

\* A word after a command that takes none, or no more.
LEMMA OtherVInv ==
  ASSUME VInv, NEW w \in BusWords, BusData(w), ~TakesAddress(panel), ~TakesPixels(panel)
  PROVE  FrameOK' /\ RegistersHeard' /\ Written'
<1> DEFINE n == Len(current.data)
           b == Append(current.data, w)
           t == win_tracker
<1>1. /\ panel' = FbData(panel, w) /\ t' = t /\ addressed' = addressed
      /\ current = NoFrame => current' = NoFrame
      /\ current # NoFrame => /\ current' = Longer(current, w) /\ current' # NoFrame
                              /\ current.data \in Seq(U)
  BY DataFrame
<1>2. panel' = panel
  BY <1>1 DEF FbData
<1>3. CASE current = NoFrame
  <2>1. current' = current
    BY <1>1, <1>3
  <2>. QED BY <1>1, <1>2, <2>1 DEF VInv, FrameOK, RegistersHeard, Written
<1>4. CASE current # NoFrame
  <2>1. current'.cmd = current.cmd /\ current'.data = b /\ current' # NoFrame
    BY <1>1, <1>4 DEF Longer
  <2>2. /\ current.cmd \in {"2A", "2B"} => ~(Len(current.data) < 4)
        /\ current.cmd \notin {"2C", "3C"}
    BY FramedIs
  <2>3. w \in U /\ (current.cmd \in {"2A", "2B"} => w \in 0..(BYTE - 1))
    BY WordSent DEF Sent
  <2>4. /\ n \in Nat /\ Len(b) = n + 1 /\ b[n + 1] = w
        /\ \A i \in 1..n : b[i] = current.data[i]
    BY <1>1, <1>4, <2>3
  <2> HIDE DEF b
  <2>5. /\ Len(b) \in 1..3 => n < 4
        /\ Len(b) < 4 => n < 4
        /\ (Len(b) >= 4 /\ Len(current.data) >= 4) \/ n < 4
    <3>1. n = Len(current.data)
      OBVIOUS
    <3> HIDE DEF n
    <3>. QED BY <2>4, <3>1
  <2>6. FrameOK'
    <3>1. Framed(current') = Framed(current)
      BY <1>4, <2>1, <2>2, <2>5 DEF Framed
    <3>2. DriverSent(current')
      <4>1. DriverSent(current)
        BY DEF VInv, FrameOK
      <4>2. \A i \in 1..(n + 1) : i \in 1..n \/ i = n + 1
        BY <2>4
      <4>3. current.cmd \in {"2A", "2B"} => \A i \in 1..(n + 1) : b[i] \in 0..(BYTE - 1)
        BY <2>3, <2>4, <4>1, <4>2 DEF DriverSent
      <4>4. ~(current.cmd = "2A" /\ Len(b) \in 1..3)
        BY <2>2, <2>5
      <4>. QED BY <2>1, <2>4, <4>3, <4>4 DEF DriverSent
    <3>. QED BY <1>2, <3>1, <3>2 DEF VInv, FrameOK
  <2>7. RegistersHeard'
    <3>1. Heard(current') <=> Heard(current)
      BY <2>1, <2>2, <2>5 DEF Heard
    <3>2. Observe(t, current') = Observe(t, current)
      <4>1. CASE current.cmd \in {"2A", "2B"}
        <5>1. ~(Len(b) < 4) /\ ~(Len(current.data) < 4)
          BY <2>2, <2>5, <4>1
        <5>2. /\ b[1] = current.data[1] /\ b[2] = current.data[2]
              /\ b[3] = current.data[3] /\ b[4] = current.data[4]
          BY <2>4, <5>1
        <5>. QED BY <2>1, <5>1, <5>2 DEF Observe
      <4>2. CASE current.cmd \notin {"2A", "2B"}
        BY <2>1, <4>2 DEF Observe
      <4>. QED BY <4>1, <4>2
    <3>. QED BY <1>1, <1>2, <2>1, <3>1, <3>2 DEF VInv, RegistersHeard
  <2>8. Written'
    BY <2>1, <2>2 DEF Written
  <2>. QED BY <2>6, <2>7, <2>8
<1>. QED BY <1>3, <1>4

LEMMA DataVInv ==
  ASSUME VInv, NEW w \in BusWords, BusData(w)
  PROVE  VInv'
<1>1. /\ FbOK(panel') /\ current' \in Frames \cup {NoFrame} /\ panel' = Replay(shown', current')
      /\ FbOK(shown') /\ win_tracker' \in Windows /\ DumpIsShown'
  BY DataFrame DEF VInv
<1>2. FrameOK' /\ RegistersHeard' /\ Written'
  BY AddressVInv, PixelVInv, OtherVInv
<1>. QED BY <1>1, <1>2 DEF VInv

\* The viewer's invariant, for every panel and driver.
THEOREM ViewerInvariant == ViewerSpec => []VInv
<1>1. ViewerInit => VInv
  BY InitVInv
<1>2. VInv /\ [ViewerNext]_viewerVars => VInv'
  <2> SUFFICES ASSUME VInv, [ViewerNext]_viewerVars PROVE VInv'
    OBVIOUS
  <2>1. ASSUME NEW c \in Commands, BusCommand(c) PROVE VInv'
    BY <2>1, CommandVInv
  <2>2. ASSUME CommandAgain PROVE VInv'
    BY <2>2, AgainVInv
  <2>3. ASSUME NEW w \in BusWords, BusData(w) PROVE VInv'
    BY <2>3, DataVInv
  <2>4. CASE UNCHANGED viewerVars
    BY <2>4 DEF viewerVars, viewer, VInv, FrameOK, RegistersHeard, Written, DumpIsShown
  <2>. QED BY <2>1, <2>2, <2>3, <2>4 DEF ViewerNext
<1>. QED BY <1>1, <1>2, PTL DEF ViewerSpec

\* A dumped window is what the panel shows there: the write filled the window
\* whose registers the viewer heard, and each of its pixels has a place of its own.
THEOREM DumpIsShownAlways == ViewerSpec => []DumpIsShown
<1>1. VInv => DumpIsShown
  BY DEF VInv
<1>. QED BY <1>1, ViewerInvariant, PTL

\* When a command ends a transaction, the viewer's framebuffer is the one that
\* was fed word by word.
THEOREM CatchesUpAlways == ViewerSpec => CatchesUp
<1>1. VInv /\ [ViewerNext]_viewerVars
        => [(\E c \in Commands : BusCommand(c)) => shown' = panel]_viewerVars
  <2> SUFFICES ASSUME VInv, NEW c \in Commands, BusCommand(c) PROVE shown' = panel
    OBVIOUS
  <2>. QED BY DEF VInv, BusCommand, HandleFrame
<1>. QED BY <1>1, ViewerInvariant, PTL DEF ViewerSpec, CatchesUp

-----------------------------------------------------------------------------
(* The gateway's store: an index for each pixel. *)

Indices == {Nearest(px) : px \in U}
Stores == [0..(PIXELS \div 2 - 1) -> [lo : Indices, hi : Indices]]

\* The panel's pixels come in pairs.
LEMMA Pairs ==
  /\ PIXELS \in Nat \ {0} /\ PIXELS \div 2 \in Nat \ {0}
  /\ PIXELS = 2 * (PIXELS \div 2)
<1>1. WIDTH \in Nat \ {0} /\ HEIGHT \in Nat \ {0}
  BY Widths
<1>2. PIXELS \in Nat \ {0}
  <2>1. WIDTH * HEIGHT \in Nat /\ WIDTH * HEIGHT # 0
    BY <1>1
  <2>. QED BY <2>1 DEF PIXELS
<1>3. PIXELS % 2 = 0
  BY ImageConstants DEF PIXELS
<1>. QED BY <1>2, <1>3

LEMMA HalfOf ==
  ASSUME NEW i \in 0..(PIXELS - 1)
  PROVE  i \div 2 \in 0..(PIXELS \div 2 - 1)
<1>1. PICK q \in Nat \ {0} : q = PIXELS \div 2 /\ PIXELS = 2 * q
  BY Pairs
<1>2. i \in 0..(2 * q - 1)
  BY <1>1
<1>. QED BY <1>1, <1>2

\* A pixel stored is found, and no other is touched (palette.rs 37-65, lib.rs
\* 87-121).
LEMMA SetPixelIs ==
  ASSUME NEW bytes \in Stores, NEW idx \in 0..(PIXELS - 1), NEW px \in U
  PROVE  /\ SetPixel(bytes, idx, px) \in Stores
         /\ IndexAt(SetPixel(bytes, idx, px), idx) = Nearest(px)
         /\ \A i \in 0..(PIXELS - 1) :
              i # idx => IndexAt(SetPixel(bytes, idx, px), i) = IndexAt(bytes, i)
<1> DEFINE H == 0..(PIXELS \div 2 - 1)
           Cells == [lo : Indices, hi : Indices]
           b == idx \div 2
<1>1. PICK v \in Indices : v = Nearest(px)
  BY DEF Indices
<1>2. b \in H /\ bytes[b] \in Cells /\ bytes \in [H -> Cells]
  BY HalfOf DEF Stores
<1>3. idx \in Int /\ (idx % 2 = 0 \/ idx % 2 = 1)
  BY Pairs
<1>4. ASSUME NEW i \in 0..(PIXELS - 1), i # idx, i \div 2 = b
      PROVE  i % 2 = 0 <=> idx % 2 # 0
  BY <1>4, Pairs
<1>5. \A i \in 0..(PIXELS - 1) : i \div 2 \in H
  BY HalfOf
<1> HIDE DEF b, H
<1>6. CASE idx % 2 = 0
  <2>1. PICK c \in Cells : c = [bytes[b] EXCEPT !.lo = v]
    BY <1>1, <1>2
  <2>2. SetPixel(bytes, idx, px) = [bytes EXCEPT ![b] = c]
    BY <1>1, <1>2, <1>6, <2>1 DEF SetPixel, b
  <2>3. PICK s : s = SetPixel(bytes, idx, px)
    OBVIOUS
  <2>4. s \in [H -> Cells] /\ s[b] = c /\ \A j \in H : j # b => s[j] = bytes[j]
    BY <1>2, <2>1, <2>2, <2>3
  <2>5. c.lo = v /\ c.hi = bytes[b].hi
    BY <1>2, <2>1
  <2>6. IndexAt(s, idx) = v
    BY <1>6, <2>4, <2>5 DEF IndexAt, b
  <2>7. ASSUME NEW i \in 0..(PIXELS - 1), i # idx PROVE IndexAt(s, i) = IndexAt(bytes, i)
    <3>1. CASE i \div 2 = b
      BY <1>4, <1>6, <2>4, <2>5, <2>7, <3>1 DEF IndexAt
    <3>2. CASE i \div 2 # b
      BY <1>5, <2>4, <3>2 DEF IndexAt
    <3>. QED BY <3>1, <3>2
  <2>. QED BY <1>1, <2>3, <2>4, <2>6, <2>7 DEF Stores, H
<1>7. CASE idx % 2 # 0
  <2>1. PICK c \in Cells : c = [bytes[b] EXCEPT !.hi = v]
    BY <1>1, <1>2
  <2>2. SetPixel(bytes, idx, px) = [bytes EXCEPT ![b] = c]
    BY <1>1, <1>2, <1>7, <2>1 DEF SetPixel, b
  <2>3. PICK s : s = SetPixel(bytes, idx, px)
    OBVIOUS
  <2>4. s \in [H -> Cells] /\ s[b] = c /\ \A j \in H : j # b => s[j] = bytes[j]
    BY <1>2, <2>1, <2>2, <2>3
  <2>5. c.hi = v /\ c.lo = bytes[b].lo
    BY <1>2, <2>1
  <2>6. IndexAt(s, idx) = v
    BY <1>7, <2>4, <2>5 DEF IndexAt, b
  <2>7. ASSUME NEW i \in 0..(PIXELS - 1), i # idx PROVE IndexAt(s, i) = IndexAt(bytes, i)
    <3>1. CASE i \div 2 = b
      BY <1>4, <1>7, <2>4, <2>5, <2>7, <3>1 DEF IndexAt
    <3>2. CASE i \div 2 # b
      BY <1>5, <2>4, <3>2 DEF IndexAt
    <3>. QED BY <3>1, <3>2
  <2>. QED BY <1>1, <2>3, <2>4, <2>6, <2>7 DEF Stores, H
<1>. QED BY <1>6, <1>7

\* Black is the palette's first entry (palette.rs 40-65, 77).
LEMMA NearestBlack == Nearest(0) = 0
<1> DEFINE d(i) == Distance(0, PALETTE[i])
           best == CHOOSE i \in 0..(MISC_INDEX - 1) :
                     \A j \in 0..(MISC_INDEX - 1) : d(i) < d(j) \/ (d(i) = d(j) /\ i <= j)
<1>1. /\ MISC_INDEX \in Nat \ {0} /\ MATCH_THRESHOLD \in Nat
      /\ GREEN \in Nat \ {0} /\ BLUE \in Nat \ {0}
      /\ \A i \in 0..MISC_INDEX : PALETTE[i] \in Nat
      /\ PALETTE[0] = 0
  BY ImageConstants, Widths
<1>2. GREEN * BLUE \in Nat \ {0}
  BY <1>1
<1>3. \A n \in Nat : \A i \in 1..3 : Unpack(n)[i] \in Nat
  <2> SUFFICES ASSUME NEW n \in Nat PROVE \A i \in 1..3 : Unpack(n)[i] \in Nat
    OBVIOUS
  <2>1. PICK m \in Nat \ {0} : m = GREEN * BLUE
    BY <1>2
  <2>2. n \div m \in Nat /\ (n \div BLUE) % GREEN \in Nat /\ n % BLUE \in Nat
    <3>1. n \div BLUE \in Nat
      BY <1>1
    <3>. QED BY <1>1, <2>1, <3>1
  <2>. QED BY <2>1, <2>2 DEF Unpack
<1>4. \A n \in Int : Square(n) \in Nat
  BY DEF Square
<1>5. \A a, b \in Nat : Distance(a, b) \in Nat
  <2> SUFFICES ASSUME NEW a \in Nat, NEW b \in Nat PROVE Distance(a, b) \in Nat
    OBVIOUS
  <2>1. PICK p, q : p = Unpack(a) /\ q = Unpack(b)
    OBVIOUS
  <2>2. p[1] - q[1] \in Int /\ p[2] - q[2] \in Int /\ p[3] - q[3] \in Int
    BY <1>3, <2>1
  <2>3. /\ Square(p[1] - q[1]) \in Nat /\ Square(p[2] - q[2]) \in Nat
        /\ Square(p[3] - q[3]) \in Nat
    BY <1>4, <2>2
  <2>4. Distance(a, b) = Square(p[1] - q[1]) + Square(p[2] - q[2]) + Square(p[3] - q[3])
    BY <2>1, Zenon DEF Distance
  <2>. QED BY <2>3, <2>4
<1>6. d(0) = 0
  <2>1. PICK p : p = Unpack(0)
    OBVIOUS
  <2>2. p[1] \in Nat /\ p[2] \in Nat /\ p[3] \in Nat
    BY <1>3, <2>1
  <2>3. \A n \in Nat : Square(n - n) = 0
    BY DEF Square
  <2>4. Distance(0, 0) = Square(p[1] - p[1]) + Square(p[2] - p[2]) + Square(p[3] - p[3])
    BY <2>1, Zenon DEF Distance
  <2>5. Distance(0, 0) = 0
    BY <2>2, <2>3, <2>4
  <2>. QED BY <1>1, <2>5
<1>7. ASSUME NEW i \in 0..(MISC_INDEX - 1) PROVE d(i) \in Nat
  <2>1. PICK p \in Nat : p = PALETTE[i]
    BY <1>1
  <2>2. 0 \in Nat /\ Distance(0, p) \in Nat
    BY <1>5
  <2>. QED BY <2>1, <2>2
<1> HIDE DEF d
<1>8. 0 \in 0..(MISC_INDEX - 1)
  BY <1>1
<1>9. \A j \in 0..(MISC_INDEX - 1) : d(0) < d(j) \/ (d(0) = d(j) /\ 0 <= j)
  BY <1>6, <1>7
<1>10. /\ best \in 0..(MISC_INDEX - 1)
       /\ \A j \in 0..(MISC_INDEX - 1) : d(best) < d(j) \/ (d(best) = d(j) /\ best <= j)
  BY <1>8, <1>9
<1>11. Nearest(0) = IF d(best) <= MATCH_THRESHOLD THEN best ELSE MISC_INDEX
  BY Zenon DEF Nearest, d
<1> HIDE DEF best
<1>12. best = 0
  BY <1>6, <1>7, <1>8, <1>10
<1>. QED BY <1>1, <1>6, <1>11, <1>12

-----------------------------------------------------------------------------
(* The store holds the panel's pixels. *)

StoreOK ==
  /\ packed \in Stores
  /\ \A i \in 0..(PIXELS - 1) : IndexAt(packed, i) = Nearest(panel.pixels[PlaceOf(i)])

\* A pixel's place and its number in the store.
LEMMA PlaceOfIs ==
  /\ \A i \in 0..(PIXELS - 1) : PlaceOf(i) \in Places
  /\ \A p \in Places : /\ p[2] * WIDTH + p[1] \in 0..(PIXELS - 1)
                       /\ PlaceOf(p[2] * WIDTH + p[1]) = p
  /\ \A i \in 0..(PIXELS - 1) : i = PlaceOf(i)[2] * WIDTH + PlaceOf(i)[1]
<1>1. WIDTH \in Nat \ {0} /\ HEIGHT \in Nat \ {0}
  BY Widths
<1>2. ASSUME NEW i \in 0..(PIXELS - 1)
      PROVE  PlaceOf(i) \in Places /\ i = PlaceOf(i)[2] * WIDTH + PlaceOf(i)[1]
  <2>1. i \in Nat /\ i < WIDTH * HEIGHT
    BY Pairs DEF PIXELS
  <2>2. i \div WIDTH < HEIGHT
    BY <1>1, <2>1, LineOf
  <2>3. i = WIDTH * (i \div WIDTH) + (i % WIDTH) /\ i % WIDTH \in 0..(WIDTH - 1)
        /\ i \div WIDTH \in Nat
    BY <1>1, <2>1, Division
  <2>4. PICK d \in Nat, r \in 0..(WIDTH - 1) : d = i \div WIDTH /\ r = i % WIDTH
    BY <2>3
  <2>5. PlaceOf(i) = <<r, d>>
    BY <2>4 DEF PlaceOf
  <2>6. WIDTH * d = d * WIDTH
    BY <1>1
  <2>. QED BY <1>1, <2>2, <2>3, <2>4, <2>5, <2>6 DEF Places
<1>3. ASSUME NEW x \in 0..(WIDTH - 1), NEW y \in 0..(HEIGHT - 1)
      PROVE  /\ y * WIDTH + x \in 0..(PIXELS - 1)
             /\ PlaceOf(y * WIDTH + x) = <<x, y>>
  <2>1. y * WIDTH + x = WIDTH * y + x
    BY <1>1
  <2>2. (WIDTH * y + x) % WIDTH = x /\ (WIDTH * y + x) \div WIDTH = y
    BY <1>1, DivisionIs
  <2>3. WIDTH * y + x < WIDTH * HEIGHT /\ WIDTH * y + x \in Nat
    <3>1. WIDTH * HEIGHT = WIDTH * y + WIDTH * (HEIGHT - y)
      BY <1>1
    <3>2. WIDTH * (HEIGHT - y) >= WIDTH
      BY <1>1
    <3>3. WIDTH * y \in Nat
      BY <1>1
    <3>. QED BY <1>1, <3>1, <3>2, <3>3
  <2>4. WIDTH * y + x \in 0..(PIXELS - 1)
    BY <2>3, Pairs DEF PIXELS
  <2>. QED BY <2>1, <2>2, <2>4 DEF PlaceOf
<1>4. \A p \in Places : p[1] \in 0..(WIDTH - 1) /\ p[2] \in 0..(HEIGHT - 1) /\ p = <<p[1], p[2]>>
  BY DEF Places
<1>. QED BY <1>2, <1>3, <1>4

LEMMA InitStore == ViewerInit => StoreOK
<1> SUFFICES ASSUME ViewerInit PROVE StoreOK
  OBVIOUS
<1>1. packed = NewStore /\ panel = NewFramebuffer(0)
  BY DEF ViewerInit
<1>2. 0 \in Indices
  <2>1. 0 \in U
    BY Widths DEF U
  <2>. QED BY <2>1, NearestBlack DEF Indices
<1>3. packed \in Stores
  BY <1>1, <1>2 DEF NewStore, Stores
<1>4. ASSUME NEW i \in 0..(PIXELS - 1)
      PROVE  IndexAt(packed, i) = Nearest(panel.pixels[PlaceOf(i)])
  <2>1. panel.pixels[PlaceOf(i)] = 0
    BY <1>1, PlaceOfIs DEF NewFramebuffer
  <2>2. i \div 2 \in 0..(PIXELS \div 2 - 1)
    BY HalfOf
  <2>3. IndexAt(packed, i) = 0
    BY <1>1, <2>2 DEF NewStore, IndexAt
  <2>. QED BY <2>1, <2>3, NearestBlack
<1>. QED BY <1>3, <1>4 DEF StoreOK

LEMMA DataStore ==
  ASSUME VInv, StoreOK, NEW w \in BusWords, BusData(w)
  PROVE  StoreOK'
<1> DEFINE place == <<panel.cursor_col, panel.cursor_row>>
           idx == place[2] * WIDTH + place[1]
<1>1. /\ FbOK(panel) /\ panel' = FbData(panel, w) /\ w \in U /\ packed \in Stores
      /\ packed' = IF TakesPixels(panel) /\ place \in Places THEN SetPixel(packed, idx, w)
                   ELSE packed
      /\ panel.pixels \in [Places -> U]
  BY WordSent DEF VInv, StoreOK, BusData, Sent, FbOK
<1>2. CASE ~TakesPixels(panel)
  <2>1. panel'.pixels = panel.pixels
    <3>1. CASE TakesAddress(panel)
      <4>1. Len(panel.cmd.buf) < 4 /\ w \in 0..(BYTE - 1)
        BY <3>1, FramedIs, WordSent DEF Sent
      <4>. QED BY <1>1, <3>1, <4>1, FbAddressIs DEF FbData
    <3>2. CASE ~TakesAddress(panel)
      BY <1>1, <1>2, <3>2 DEF FbData
    <3>. QED BY <3>1, <3>2
  <2>2. packed' = packed
    BY <1>1, <1>2
  <2>. QED BY <2>1, <2>2 DEF StoreOK
<1>3. CASE TakesPixels(panel)
  <2>1. panel' = WritePixel(panel, w)
    BY <1>1, <1>3 DEF FbData, TakesPixels, TakesAddress
  <2>2. panel'.pixels = IF place \in Places THEN [panel.pixels EXCEPT ![place] = w]
                        ELSE panel.pixels
    BY <1>1, <2>1, WritePixelOK
  <2>3. CASE place \notin Places
    BY <1>1, <2>2, <2>3 DEF StoreOK
  <2>4. CASE place \in Places
    <3>1. idx \in 0..(PIXELS - 1) /\ PlaceOf(idx) = place
      BY <2>4, PlaceOfIs
    <3>2. packed' = SetPixel(packed, idx, w)
      BY <1>1, <1>3, <2>4
    <3>3. \A i \in 0..(PIXELS - 1) : PlaceOf(i) = place => i = idx
      BY PlaceOfIs
    <3>4. \A i \in 0..(PIXELS - 1) : PlaceOf(i) \in Places
      BY PlaceOfIs
    <3> HIDE DEF idx, place
    <3>5. /\ packed' \in Stores /\ IndexAt(packed', idx) = Nearest(w)
          /\ \A i \in 0..(PIXELS - 1) : i # idx => IndexAt(packed', i) = IndexAt(packed, i)
      BY <1>1, <3>1, <3>2, SetPixelIs
    <3>6. ASSUME NEW i \in 0..(PIXELS - 1)
          PROVE  IndexAt(packed', i) = Nearest(panel'.pixels[PlaceOf(i)])
      <4>1. CASE i = idx
        <5>1. panel'.pixels[PlaceOf(i)] = w
          BY <1>1, <2>2, <2>4, <3>1, <4>1
        <5>. QED BY <3>5, <4>1, <5>1
      <4>2. CASE i # idx
        <5>1. PICK p \in Places : p = PlaceOf(i)
          BY <3>4
        <5>2. p # place
          BY <3>3, <4>2, <5>1
        <5>3. panel'.pixels[p] = panel.pixels[p]
          BY <1>1, <2>2, <2>4, <5>2
        <5>. QED BY <3>5, <4>2, <5>1, <5>3 DEF StoreOK
      <4>. QED BY <4>1, <4>2
    <3>. QED BY <3>5, <3>6 DEF StoreOK
  <2>. QED BY <2>3, <2>4
<1>. QED BY <1>2, <1>3

\* The store agrees with the framebuffer, word by word (pipeline.rs 72-87).
LEMMA StoreAlways == ViewerSpec => []StoreOK
<1>1. ViewerInit => StoreOK
  BY InitStore
<1>2. VInv /\ StoreOK /\ [ViewerNext]_viewerVars => StoreOK'
  <2> SUFFICES ASSUME VInv, StoreOK, [ViewerNext]_viewerVars PROVE StoreOK'
    OBVIOUS
  <2>1. ASSUME NEW c \in Commands, BusCommand(c) PROVE StoreOK'
    <3>1. panel'.pixels = panel.pixels /\ packed' = packed
      BY <2>1, FbCommandIs DEF BusCommand, VInv
    <3>. QED BY <3>1 DEF StoreOK
  <2>2. ASSUME CommandAgain PROVE StoreOK'
    <3>1. current.cmd \in Commands /\ packed' = packed
      BY <2>2, FrameType DEF CommandAgain, VInv
    <3>2. panel'.pixels = panel.pixels
      BY <2>2, <3>1, FbCommandIs DEF CommandAgain, VInv
    <3>. QED BY <3>1, <3>2 DEF StoreOK
  <2>3. ASSUME NEW w \in BusWords, BusData(w) PROVE StoreOK'
    BY <2>3, DataStore
  <2>4. CASE UNCHANGED viewerVars
    BY <2>4 DEF viewerVars, StoreOK
  <2>. QED BY <2>1, <2>2, <2>3, <2>4 DEF ViewerNext
<1>. QED BY <1>1, <1>2, ViewerInvariant, PTL DEF ViewerSpec

-----------------------------------------------------------------------------
(* The body of the BMP, written in chunks. *)

\* A sequence of sequences made one, from the front.
LEMMA FlattenIs ==
  ASSUME NEW S, NEW seqs \in Seq(S), Len(seqs) # 0
  PROVE  \E f : /\ FlattenSeq(seqs) = f[Len(seqs)]
                /\ \A n \in 1..Len(seqs) : f[n] = IF n = 1 THEN seqs[n] ELSE f[n - 1] \o seqs[n]
<1> DEFINE L == Len(seqs)
           Def(f) == f = [n \in 1..L |-> IF n = 1 THEN seqs[n] ELSE f[n - 1] \o seqs[n]]
           OK(f, m) == \A n \in 1..m : f[n] = IF n = 1 THEN seqs[n] ELSE f[n - 1] \o seqs[n]
           flatten == CHOOSE f : Def(f)
           P == {m \in Nat : \E f : OK(f, m)}
<1>1. L \in Nat
  OBVIOUS
<1>2. 0 \in P
  <2>1. OK(<<>>, 0)
    OBVIOUS
  <2>2. \E f : OK(f, 0)
    BY <2>1
  <2> HIDE DEF OK
  <2>. QED BY <2>2
<1>3. ASSUME NEW m \in 0..(L - 1), m \in P PROVE m + 1 \in P
  <2>1. PICK g : OK(g, m)
    BY <1>3
  <2> DEFINE last == IF m + 1 = 1 THEN seqs[m + 1] ELSE g[m] \o seqs[m + 1]
             h == [n \in 1..(m + 1) |-> IF n <= m THEN g[n] ELSE last]
  <2>2. m \in Nat
    BY <1>1
  <2> HIDE DEF last
  <2>3. ASSUME NEW n \in 1..(m + 1)
        PROVE  h[n] = IF n = 1 THEN seqs[n] ELSE h[n - 1] \o seqs[n]
    <3>1. n - 1 \in Nat /\ (n # 1 => n - 1 \in 1..m)
      BY <2>2
    <3>2. n # 1 => h[n - 1] = g[n - 1]
      BY <2>2, <3>1
    <3>3. CASE n <= m
      <4>1. n \in 1..m
        BY <2>2, <3>3
      <4>2. h[n] = g[n]
        BY <3>3
      <4>3. g[n] = IF n = 1 THEN seqs[n] ELSE g[n - 1] \o seqs[n]
        BY <2>1, <4>1
      <4> HIDE DEF h
      <4>. QED BY <3>2, <4>2, <4>3
    <3>4. CASE ~(n <= m)
      <4>1. n = m + 1 /\ n - 1 = m
        BY <2>2, <3>4
      <4>2. h[n] = last
        BY <3>4
      <4> HIDE DEF h
      <4>. QED BY <3>2, <4>1, <4>2 DEF last
    <3>. QED BY <3>3, <3>4
  <2> HIDE DEF h
  <2>4. OK(h, m + 1)
    BY <2>3
  <2>5. \E k : OK(k, m + 1)
    BY <2>4
  <2> HIDE DEF OK
  <2>. QED BY <2>2, <2>5
<1>4. \E f : Def(f)
  <2>1. L \in P
    <3> HIDE DEF P
    <3>1. \A m \in 0..L : m \in P
      BY <1>1, <1>2, <1>3, UpTo
    <3>. QED BY <1>1, <3>1
  <2>2. PICK g : OK(g, L)
    BY <2>1
  <2> DEFINE t == [n \in 1..L |-> g[n]]
  <2>3. ASSUME NEW n \in 1..L
        PROVE  t[n] = IF n = 1 THEN seqs[n] ELSE t[n - 1] \o seqs[n]
    <3>1. n # 1 => n - 1 \in 1..L
      BY <1>1
    <3>2. t[n] = g[n] /\ (n # 1 => t[n - 1] = g[n - 1])
      BY <3>1
    <3>3. g[n] = IF n = 1 THEN seqs[n] ELSE g[n - 1] \o seqs[n]
      BY <2>2
    <3> HIDE DEF t
    <3>. QED BY <3>2, <3>3
  <2>4. t = [n \in 1..L |-> t[n]]
    OBVIOUS
  <2> HIDE DEF t
  <2>5. Def(t)
    BY <2>3, <2>4
  <2>. QED BY <2>5
<1>5. Def(flatten)
  BY <1>4
<1>6. FlattenSeq(seqs) = flatten[L]
  BY <1>1 DEF FlattenSeq
<1> HIDE DEF flatten
<1>7. ASSUME NEW n \in 1..L
      PROVE  flatten[n] = IF n = 1 THEN seqs[n] ELSE flatten[n - 1] \o seqs[n]
  BY <1>5
<1>. QED BY <1>6, <1>7

\* A byte of the body: two pixels, the panel's last first.
Cell(bytes, o) ==
  [hi |-> IndexAt(bytes, PIXELS - 1 - 2 * (o - 1)),
   lo |-> IndexAt(bytes, PIXELS - 2 - 2 * (o - 1))]

\* Bytes of the body from the one behind `from` on.
Cells(bytes, from, more) == [o \in 1..more |-> Cell(bytes, from + o)]

LEMMA CellsJoin ==
  ASSUME NEW bytes, NEW S, \A o \in Nat \ {0} : Cell(bytes, o) \in S,
         NEW a \in Nat, NEW b \in Nat
  PROVE  /\ Cells(bytes, 0, a) \in Seq(S)
         /\ Cells(bytes, 0, a) \o Cells(bytes, a, b) = Cells(bytes, 0, a + b)
<1> DEFINE s == Cells(bytes, 0, a)
           t == Cells(bytes, a, b)
           u == Cells(bytes, 0, a + b)
<1>1. /\ s \in [1..a -> S] /\ \A o \in 1..a : s[o] = Cell(bytes, o)
      /\ t \in [1..b -> S] /\ \A o \in 1..b : t[o] = Cell(bytes, a + o)
      /\ u \in [1..(a + b) -> S] /\ \A o \in 1..(a + b) : u[o] = Cell(bytes, o)
  <2>1. /\ \A o \in 1..a : 0 + o = o /\ o \in Nat \ {0}
        /\ \A o \in 1..b : a + o \in Nat \ {0}
        /\ \A o \in 1..(a + b) : 0 + o = o /\ o \in Nat \ {0}
    OBVIOUS
  <2> HIDE DEF Cell
  <2>. QED BY <2>1 DEF Cells
<1> HIDE DEF s, t, u
<1>2. /\ s \in Seq(S) /\ Len(s) = a /\ t \in Seq(S) /\ Len(t) = b
      /\ u \in Seq(S) /\ Len(u) = a + b
  BY <1>1
<1>3. /\ s \o t \in Seq(S) /\ Len(s \o t) = a + b
      /\ \A i \in 1..(a + b) : (s \o t)[i] = IF i <= a THEN s[i] ELSE t[i - a]
  <2>1. /\ s \o t \in Seq(S) /\ Len(s \o t) = Len(s) + Len(t)
        /\ \A i \in 1..(Len(s) + Len(t)) :
             (s \o t)[i] = IF i <= Len(s) THEN s[i] ELSE t[i - Len(s)]
    BY <1>2, ConcatProperties, Zenon
  <2>. QED BY <1>2, <2>1
<1>4. ASSUME NEW i \in 1..(a + b) PROVE (s \o t)[i] = u[i]
  <2>1. CASE i <= a
    BY <1>1, <1>3, <2>1
  <2>2. CASE ~(i <= a)
    <3>1. i - a \in 1..b /\ a + (i - a) = i
      BY <2>2
    <3>. QED BY <1>1, <1>3, <2>2, <3>1
  <2>. QED BY <2>1, <2>2
<1>5. s \o t = u
  <2>1. PICK st : st = s \o t
    OBVIOUS
  <2>2. st \in Seq(S) /\ Len(st) = Len(u) /\ \A i \in 1..Len(st) : st[i] = u[i]
    BY <1>2, <1>3, <1>4, <2>1
  <2>3. st = u
    BY <1>2, <2>2, SeqEqual
  <2>. QED BY <2>1, <2>3
<1>. QED BY <1>2, <1>5 DEF s, t, u

\* One of a window's or a chunk's lines after the other: the order is kept.
LEMMA Scaled ==
  ASSUME NEW c \in Nat, NEW a \in Nat, NEW b \in Nat, a <= b
  PROVE  a * c <= b * c
<1>1. b * c = a * c + (b - a) * c /\ (b - a) * c \in Nat
  OBVIOUS
<1>2. a * c \in Nat
  OBVIOUS
<1>. QED BY <1>1, <1>2

\* What is left for a chunk.
LEMMA ChunkLeft ==
  ASSUME NEW c \in Nat, NEW q \in Nat, NEW a \in Nat, a < q
  PROVE  \E z \in Nat : z = IF q - a < c THEN q - a ELSE c
<1>1. q - a \in Nat
  OBVIOUS
<1>. QED BY <1>1

\* The chunks cover the pixels, and none is empty (http.rs 176-195).
LEMMA Chunks ==
  ASSUME NEW n, n = (PIXELS + CHUNK_PX - 1) \div CHUNK_PX,
         NEW c \in Nat \ {0}, CHUNK_PX = 2 * c, NEW q \in Nat \ {0}, PIXELS = 2 * q
  PROVE  n \in Nat \ {0} /\ q <= n * c /\ \A m \in 0..(n - 1) : m * c \in Nat /\ m * c < q
<1>1. PICK N \in Nat : N = PIXELS + CHUNK_PX - 1 /\ N = 2 * q + 2 * c - 1
  OBVIOUS
<1>2. PICK w \in Nat \ {0} : w = CHUNK_PX /\ w = 2 * c
  OBVIOUS
<1>3. PICK r \in 0..(w - 1) : n \in Nat /\ N = w * n + r
  <2>1. n = N \div w
    BY <1>1, <1>2
  <2>2. N = w * (N \div w) + (N % w) /\ N % w \in 0..(w - 1) /\ N \div w \in Nat
    BY Division
  <2>. QED BY <2>1, <2>2
<1>4. PICK x \in Nat : x = n * c
  BY <1>3
<1>5. w * n = 2 * x
  BY <1>2, <1>3, <1>4
<1>6. q <= x /\ x - c < q
  BY <1>1, <1>2, <1>3, <1>4, <1>5
<1>7. n # 0
  BY <1>3, <1>4, <1>6
<1>8. (n - 1) * c = x - c
  BY <1>3, <1>4
<1>9. ASSUME NEW m \in 0..(n - 1) PROVE m * c \in Nat /\ m * c < q
  <2>1. m * c <= (n - 1) * c
    BY <1>3, <1>7, Scaled
  <2>2. m * c \in Nat
    BY <1>3
  <2>. QED BY <1>4, <1>6, <1>8, <2>1, <2>2
<1>. QED BY <1>3, <1>4, <1>6, <1>7, <1>9

\* The body is its bytes in order, whatever the chunks (lib.rs 363-402).
LEMMA BodyIs ==
  ASSUME NEW bytes
  PROVE  BmpBody(bytes) = Cells(bytes, 0, PIXELS \div 2)
<1> DEFINE n == (PIXELS + CHUNK_PX - 1) \div CHUNK_PX
           start(k) == (k - 1) * CHUNK_PX
           count(k) == IF PIXELS - start(k) < CHUNK_PX THEN PIXELS - start(k) ELSE CHUNK_PX
           seqs == [k \in 1..n |-> Bmp4Pixels(bytes, start(k), count(k))]
<1>1. PICK c \in Nat \ {0} : CHUNK_PX = 2 * c
  <2>1. CHUNK_PX \in Nat \ {0} /\ CHUNK_PX % 2 = 0
    BY ImageConstants
  <2>2. CHUNK_PX = 2 * (CHUNK_PX \div 2) /\ CHUNK_PX \div 2 \in Nat \ {0}
    BY <2>1
  <2>. QED BY <2>2
<1>2. PICK q \in Nat \ {0} : PIXELS = 2 * q /\ q = PIXELS \div 2
  BY Pairs
<1>3. n \in Nat \ {0} /\ q <= n * c /\ \A m \in 0..(n - 1) : m * c \in Nat /\ m * c < q
  BY <1>1, <1>2, Chunks
<1>4. BmpBody(bytes) = FlattenSeq(seqs)
  BY DEF BmpBody
<1> DEFINE Size(m) == IF q - m * c < c THEN q - m * c ELSE c
<1>5. ASSUME NEW m \in 0..(n - 1)
      PROVE  Size(m) \in Nat /\ seqs[m + 1] = Cells(bytes, m * c, Size(m))
  <2>1. PICK a \in Nat : a = m * c /\ a < q
    BY <1>3
  <2>2. m + 1 \in 1..n
    BY <1>3
  <2>3. start(m + 1) = 2 * a
    BY <1>1, <1>3, <2>1
  <2>4. PICK z \in Nat : z = Size(m) /\ z = IF q - a < c THEN q - a ELSE c
    <3>1. PICK z \in Nat : z = IF q - a < c THEN q - a ELSE c
      BY <2>1, ChunkLeft
    <3>2. Size(m) = IF q - a < c THEN q - a ELSE c
      BY <2>1, Zenon
    <3>. QED BY <3>1, <3>2, Zenon
  <2>5. count(m + 1) \div 2 = z
    <3>1. count(m + 1) = IF 2 * q - 2 * a < 2 * c THEN 2 * q - 2 * a ELSE 2 * c
      BY <1>1, <1>2, <2>3
    <3>2. count(m + 1) = 2 * z
      BY <2>1, <2>4, <3>1
    <3> HIDE DEF count
    <3>. QED BY <2>4, <3>2
  <2>6. seqs[m + 1] = Bmp4Pixels(bytes, start(m + 1), count(m + 1))
    BY <2>2
  <2> HIDE DEF start, count, seqs, Size, n
  <2>7. Bmp4Pixels(bytes, start(m + 1), count(m + 1))
          = [o \in 1..z |-> [hi |-> IndexAt(bytes, PIXELS - 1 - (2 * a + 2 * (o - 1))),
                             lo |-> IndexAt(bytes, PIXELS - 2 - (2 * a + 2 * (o - 1)))]]
    BY <2>3, <2>5, Zenon DEF Bmp4Pixels
  <2>8. ASSUME NEW o \in 1..z
        PROVE  /\ PIXELS - 1 - (2 * a + 2 * (o - 1)) = PIXELS - 1 - 2 * (a + o - 1)
               /\ PIXELS - 2 - (2 * a + 2 * (o - 1)) = PIXELS - 2 - 2 * (a + o - 1)
    BY <1>2, <2>1
  <2>9. Cells(bytes, a, z)
          = [o \in 1..z |-> [hi |-> IndexAt(bytes, PIXELS - 1 - (2 * a + 2 * (o - 1))),
                             lo |-> IndexAt(bytes, PIXELS - 2 - (2 * a + 2 * (o - 1)))]]
    BY <2>8 DEF Cells, Cell
  <2>. QED BY <2>1, <2>4, <2>6, <2>7, <2>9
<1>6. PICK f : /\ FlattenSeq(seqs) = f[n]
               /\ \A k \in 1..n : f[k] = IF k = 1 THEN seqs[k] ELSE f[k - 1] \o seqs[k]
  <2>1. seqs \in [1..n -> {seqs[k] : k \in 1..n}] /\ DOMAIN seqs = 1..n
    OBVIOUS
  <2>2. n \in Nat /\ n # 0
    BY <1>3
  <2> HIDE DEF seqs, n
  <2>3. seqs \in Seq({seqs[k] : k \in 1..n}) /\ Len(seqs) = n
    BY <2>1, <2>2
  <2>4. PICK S : seqs \in Seq(S)
    BY <2>3
  <2>5. \E f : /\ FlattenSeq(seqs) = f[Len(seqs)]
               /\ \A k \in 1..Len(seqs) : f[k] = IF k = 1 THEN seqs[k] ELSE f[k - 1] \o seqs[k]
    BY <2>2, <2>3, <2>4, FlattenIs
  <2>. QED BY <2>3, <2>5
<1> DEFINE Filled(m) == IF m * c <= q THEN m * c ELSE q
           Q == {m \in Nat : m # 0 => f[m] = Cells(bytes, 0, Filled(m))}
<1> HIDE DEF n, seqs
<1>7. 0 \in Q
  OBVIOUS
<1>8. ASSUME NEW m \in 0..(n - 1), m \in Q PROVE m + 1 \in Q
  <2>1. PICK a \in Nat : a = m * c /\ a < q
    BY <1>3
  <2>2. (m + 1) * c = a + c
    BY <1>3, <2>1
  <2>3. PICK z \in Nat : z = Size(m) /\ z = IF q - a < c THEN q - a ELSE c
    <3>1. PICK z \in Nat : z = IF q - a < c THEN q - a ELSE c
      BY <2>1, ChunkLeft
    <3>2. Size(m) = IF q - a < c THEN q - a ELSE c
      BY <2>1, Zenon
    <3>. QED BY <3>1, <3>2, Zenon
  <2>4. Filled(m) = a /\ Filled(m + 1) = a + z
    BY <2>1, <2>2, <2>3
  <2>5. seqs[m + 1] = Cells(bytes, a, z)
    BY <1>5, <2>1, <2>3
  <2>6. m + 1 \in 1..n /\ (m + 1) - 1 = m /\ m + 1 \in Nat
    BY <1>3
  <2> HIDE DEF Filled, Size
  <2>7. CASE m = 0
    <3>1. a = 0 /\ f[m + 1] = seqs[m + 1]
      BY <1>6, <2>1, <2>6, <2>7
    <3>. QED BY <2>4, <2>5, <2>6, <3>1
  <2>8. CASE m # 0
    <3>1. f[m + 1] = f[m] \o seqs[m + 1]
      <4>1. m + 1 # 1
        BY <1>3, <2>8
      <4>. QED BY <1>6, <2>6, <4>1
    <3>2. f[m] = Cells(bytes, 0, a)
      BY <1>8, <2>4, <2>8
    <3>3. Cells(bytes, 0, a) \o Cells(bytes, a, z) = Cells(bytes, 0, a + z)
      <4>1. PICK S : S = {Cell(bytes, o) : o \in Nat \ {0}}
        OBVIOUS
      <4>2. \A o \in Nat \ {0} : Cell(bytes, o) \in S
        BY <4>1
      <4>. QED BY <4>2, CellsJoin
    <3>. QED BY <2>4, <2>5, <2>6, <3>1, <3>2, <3>3
  <2>. QED BY <2>7, <2>8
<1>9. n \in Q
  <2> HIDE DEF Q
  <2>1. \A m \in 0..n : m \in Q
    BY <1>3, <1>7, <1>8, UpTo
  <2>. QED BY <1>3, <2>1
<1>10. Filled(n) = q
  <2>1. PICK x \in Nat : x = n * c /\ q <= x
    BY <1>3
  <2>. QED BY <2>1
<1>. QED BY <1>2, <1>3, <1>4, <1>6, <1>9, <1>10

\* The browser's picture is the store's indices, turned (palette.rs 37-65).
LEMMA PictureIs ==
  ASSUME NEW bytes
  PROVE  BmpPicture(bytes) =
           [k \in 0..(PIXELS - 1) |-> PALETTE[IndexAt(bytes, PIXELS - 1 - k)]]
<1>1. PICK q \in Nat \ {0} : PIXELS = 2 * q /\ q = PIXELS \div 2
  BY Pairs
<1>2. PICK body : body = BmpBody(bytes) /\ \A o \in 1..q : body[o] = Cell(bytes, o)
  <2>1. BmpBody(bytes) = Cells(bytes, 0, q)
    BY <1>1, BodyIs
  <2>2. \A o \in 1..q : Cells(bytes, 0, q)[o] = Cell(bytes, o)
    <3>1. \A o \in 1..q : 0 + o = o
      OBVIOUS
    <3>. QED BY <3>1 DEF Cells
  <2>. QED BY <2>1, <2>2
<1>3. ASSUME NEW k \in 0..(PIXELS - 1)
      PROVE  (IF k % 2 = 0 THEN body[k \div 2 + 1].hi ELSE body[k \div 2 + 1].lo)
                = IndexAt(bytes, PIXELS - 1 - k)
  <2>1. PICK o \in 1..q : o = k \div 2 + 1
    BY <1>1
  <2>2. body[o].hi = IndexAt(bytes, PIXELS - 1 - 2 * (o - 1))
        /\ body[o].lo = IndexAt(bytes, PIXELS - 2 - 2 * (o - 1))
    <3>1. body[o] = Cell(bytes, o)
      BY <1>2
    <3>2. /\ Cell(bytes, o).hi = IndexAt(bytes, PIXELS - 1 - 2 * (o - 1))
          /\ Cell(bytes, o).lo = IndexAt(bytes, PIXELS - 2 - 2 * (o - 1))
      BY DEF Cell
    <3>. QED BY <3>1, <3>2, Zenon
  <2>3. CASE k % 2 = 0
    <3>1. PIXELS - 1 - 2 * (o - 1) = PIXELS - 1 - k
      BY <1>1, <2>1, <2>3
    <3>. QED BY <2>1, <2>2, <2>3, <3>1
  <2>4. CASE k % 2 # 0
    <3>1. PIXELS - 2 - 2 * (o - 1) = PIXELS - 1 - k
      BY <1>1, <2>1, <2>4
    <3>. QED BY <2>1, <2>2, <2>4, <3>1
  <2>. QED BY <2>3, <2>4
<1>4. BmpPicture(bytes) =
        [k \in 0..(PIXELS - 1) |->
           PALETTE[IF k % 2 = 0 THEN body[k \div 2 + 1].hi ELSE body[k \div 2 + 1].lo]]
  BY <1>2, Zenon DEF BmpPicture
<1>. QED BY <1>3, <1>4

\* Between transactions the browser's picture is the viewer's in the palette's
\* colours, for every palette that begins with black and every size of chunk.
THEOREM PicturesAgreeAlways == ViewerSpec => []PicturesAgree
<1>1. VInv /\ StoreOK => PicturesAgree
  <2> SUFFICES ASSUME VInv, StoreOK, current.data = <<>>
               PROVE  BmpPicture(packed) = [k \in DOMAIN RgbaPicture(shown) |->
                                              PALETTE[Nearest(RgbaPicture(shown)[k])]]
    BY Zenon DEF PicturesAgree
  <2>1. panel.pixels = shown.pixels
    <3>1. CASE current = NoFrame
      BY <3>1 DEF VInv, Replay
    <3>2. CASE current # NoFrame
      <4>1. panel = FbCommand(shown, current.cmd) /\ current.cmd \in Commands
        BY <3>2, FedNothing, FrameType DEF VInv, Replay
      <4>. QED BY <4>1, FbCommandIs DEF VInv
    <3>. QED BY <3>1, <3>2
  <2>2. PICK seen : seen = RgbaPicture(shown)
    OBVIOUS
  <2>3. /\ DOMAIN seen = 0..(PIXELS - 1)
        /\ \A k \in 0..(PIXELS - 1) : seen[k] = panel.pixels[PlaceOf(PIXELS - 1 - k)]
    BY <2>1, <2>2 DEF RgbaPicture
  <2>4. ASSUME NEW k \in 0..(PIXELS - 1)
        PROVE  IndexAt(packed, PIXELS - 1 - k) = Nearest(seen[k])
    <3>1. PIXELS - 1 - k \in 0..(PIXELS - 1)
      BY Pairs
    <3>. QED BY <2>3, <3>1 DEF StoreOK
  <2>5. BmpPicture(packed)
          = [k \in 0..(PIXELS - 1) |-> PALETTE[IndexAt(packed, PIXELS - 1 - k)]]
    BY PictureIs
  <2>. QED BY <2>2, <2>3, <2>4, <2>5
<1>. QED BY <1>1, ViewerInvariant, StoreAlways, PTL
=============================================================================
