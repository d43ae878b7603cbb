----------------------------- MODULE UartTxProof -----------------------------
(***************************************************************************)
(* The UART ring sends every byte once and in order, for every ring size   *)
(* and every number of pushes.                                             *)
(*                                                                         *)
(* The argument names ring slots by absolute positions: position k is the  *)
(* k-th byte pushed, counted from 0, and lives in slot k % TX_RING.  The   *)
(* DMA stands at position Len(sent), the tail at position pushed, and the  *)
(* two are less than a lap apart, so the slots between them are distinct   *)
(* and hold exactly the bytes still to be sent.                            *)
(***************************************************************************)
EXTENDS UartTx, TLAPS

R == TX_RING

\* What the transfer in flight has left to move, and has moved.
Remaining == IF inflight > 0 THEN dma.ndtr ELSE 0
Drained == inflight - Remaining

\* The channel and the driver's view of it.
ChannelOK ==
  /\ inflight = 0 => ~dma.en /\ ~dma.tcif
  /\ inflight > 0 =>
       /\ dma.en /\ dma.ndtr <= inflight
       /\ dma.tcif <=> dma.ndtr = 0
       /\ dma.mar = head + (inflight - dma.ndtr)
       /\ head + inflight <= R

\* Where head, tail and the transfer stand among the absolute positions.
PositionsOK ==
  /\ Drained <= Len(sent)
  /\ head = (Len(sent) - Drained) % R
  /\ tail = pushed % R
  /\ Len(sent) + Remaining <= pushed
  /\ pushed - Len(sent) <= R - 1

\* The slots between the DMA and the tail hold the bytes to be sent.
UnsentOK == \A k \in Nat : Len(sent) <= k /\ k < pushed => buf[k % R] = k + 1

IInv == TypeOK /\ ChannelOK /\ PositionsOK /\ UnsentOK /\ InOrder

-----------------------------------------------------------------------------
(* The ring of R slots: `% R` takes a position to its slot. *)

LEMMA RingSize == R \in Nat \ {0, 1}
BY UartConstants DEF R

\* Division with remainder is unique.
LEMMA RemainderIs ==
  ASSUME NEW q \in Nat, NEW r \in 0..(R - 1)
  PROVE  (R * q + r) % R = r
BY RingSize

\* Quotient and remainder.
LEMMA DivMod ==
  ASSUME NEW a \in Nat
  PROVE  a = R * (a \div R) + (a % R) /\ a % R \in 0..(R - 1) /\ a \div R \in Nat
BY RingSize

\* The slot of a position, and of one at most a lap further.
LEMMA SlotAhead ==
  ASSUME NEW a \in Nat, NEW j \in 0..R
  PROVE  /\ a % R \in 0..(R - 1)
         /\ (a + j) % R = IF (a % R) + j < R THEN (a % R) + j ELSE (a % R) + j - R
<1>1. PICK q \in Nat, r \in 0..(R - 1) : a = R * q + r /\ r = a % R
  BY DivMod
<1>2. CASE r + j < R
  <2>1. r + j \in 0..(R - 1)
    BY <1>2, RingSize
  <2>2. a + j = R * q + (r + j)
    BY <1>1, RingSize
  <2>. QED BY <1>1, <1>2, <2>1, <2>2, RemainderIs
<1>3. CASE ~(r + j < R)
  <2>1. a + j = R * (q + 1) + (r + j - R) /\ r + j - R \in 0..(R - 1) /\ q + 1 \in Nat
    BY <1>1, <1>3, RingSize
  <2>. QED BY <1>1, <1>3, <2>1, RemainderIs
<1>. QED BY <1>2, <1>3

\* An index inside the ring is itself; one lap further comes back to it.
LEMMA SmallSlot ==
  ASSUME NEW a \in Nat
  PROVE  (a < R => a % R = a) /\ (a >= R /\ a < 2 * R => a % R = a - R)
BY RingSize

\* Adding to a slot is adding to the position.
LEMMA SlotPlus ==
  ASSUME NEW a \in Nat, NEW j \in 0..R
  PROVE  ((a % R) + j) % R = (a + j) % R
<1>1. PICK r \in 0..(R - 1) : r = a % R
  BY DivMod
<1>2. PICK i \in Nat : i = r + j
  BY RingSize
<1>3. (a + j) % R = IF i < R THEN i ELSE i - R
  <2>1. (a + j) % R = IF r + j < R THEN r + j ELSE r + j - R
    BY <1>1, SlotAhead
  <2>. QED BY <1>2, <2>1, RingSize
<1>4. i % R = IF i < R THEN i ELSE i - R
  <2>1. i < 2 * R
    BY <1>2, RingSize
  <2>2. i < R => i % R = i
    BY SmallSlot
  <2>3. ~(i < R) => i % R = i - R
    BY <2>1, SmallSlot, RingSize
  <2>. QED BY <2>2, <2>3
<1>5. (a % R) + j = i
  BY <1>1, <1>2
<1>. QED BY <1>3, <1>4, <1>5, Zenon

\* Positions less than a lap apart share a slot only if they are equal.
LEMMA SameSlot ==
  ASSUME NEW a \in Nat, NEW b \in Nat, a <= b, b < a + R, a % R = b % R
  PROVE  a = b
<1>1. PICK j \in 0..R : b = a + j /\ j < R
  BY RingSize
<1>2. PICK r \in 0..(R - 1) : r = a % R
  BY DivMod
<1>3. r = IF r + j < R THEN r + j ELSE r + j - R
  BY <1>1, <1>2, SlotAhead
<1>4. j = 0
  BY <1>1, <1>3, RingSize
<1>. QED BY <1>1, <1>4

-----------------------------------------------------------------------------
\* The numbers of a state that satisfies the invariant.
LEMMA Numbers ==
  ASSUME IInv
  PROVE  /\ R \in Nat \ {0, 1} /\ pushed \in Nat /\ Len(sent) \in Nat
         /\ inflight \in Nat /\ inflight <= R /\ dma.ndtr \in Nat
         /\ Remaining \in Nat /\ Drained \in Nat /\ Drained <= R
         /\ head \in Nat /\ tail \in Nat /\ head < R /\ tail < R
<1>1. R \in Nat \ {0, 1} /\ R = TX_RING
  BY UartConstants DEF R
<1>2. pushed \in Nat /\ Len(sent) \in Nat
  BY DEF IInv, TypeOK
<1>3. /\ inflight \in Nat /\ inflight <= R /\ dma.ndtr \in Nat
      /\ head \in Nat /\ tail \in Nat /\ head < R /\ tail < R
  BY <1>1 DEF IInv, TypeOK, Slots
<1>4. inflight > 0 => dma.ndtr <= inflight
  BY DEF IInv, ChannelOK
<1>5. Remaining \in Nat /\ Drained \in Nat /\ Drained <= R
  BY <1>1, <1>3, <1>4 DEF Remaining, Drained
<1>6. QED
  BY <1>1, <1>2, <1>3, <1>5

\* The DMA stands at the slot of position Len(sent).
LEMMA LiveHead ==
  ASSUME IInv
  PROVE  (head + Drained) % R = Len(sent) % R
<1> DEFINE a == Len(sent) - Drained
           d == Drained
<1>1. a \in Nat /\ d \in Nat /\ d <= R /\ a + d = Len(sent) /\ R \in Nat \ {0, 1}
  <2>1. Len(sent) \in Nat /\ Drained \in Nat /\ Drained <= R /\ R \in Nat \ {0, 1}
    BY Numbers
  <2>2. Drained <= Len(sent)
    BY DEF IInv, PositionsOK
  <2> QED
    BY <2>1, <2>2
<1>2. head = a % R
  BY DEF IInv, PositionsOK
<1> HIDE DEF a, d
<1>3. ((a % R) + d) % R = (a + d) % R
  <2>1. d \in 0..R
    BY <1>1
  <2> QED
    BY <1>1, <2>1, SlotPlus
<1>4. QED
  BY <1>1, <1>2, <1>3 DEF d

\* The tail's slot, seen from the DMA's.
LEMMA TailSlot ==
  ASSUME IInv
  PROVE  LET h == Len(sent) % R
             n == pushed - Len(sent)
         IN  /\ h \in Nat /\ h < R /\ n \in Nat /\ n <= R - 1
             /\ tail = IF h + n < R THEN h + n ELSE h + n - R
<1> DEFINE a == Len(sent)
           n == pushed - Len(sent)
<1>1. a \in Nat /\ n \in Nat /\ n < R /\ n <= R - 1 /\ a + n = pushed /\ R \in Nat \ {0, 1}
  BY SMTT(60), Numbers DEF IInv, PositionsOK
<1>2. tail = pushed % R
  BY DEF IInv, PositionsOK
<1> HIDE DEF a, n
<1>3. (a + n) % R = IF (a % R) + n < R THEN (a % R) + n ELSE (a % R) + n - R
  <2>1. n \in 0..R
    BY <1>1
  <2> QED
    BY <1>1, <2>1, SlotAhead
<1>4. a % R \in 0..(R - 1)
  BY <1>1, DivMod
<1>5. QED
  BY <1>1, <1>2, <1>3, <1>4 DEF a, n

\* The free count is what the ring can take on top of the bytes unsent.
LEMMA FreeIs ==
  ASSUME IInv
  PROVE  Free = R - 1 - (pushed - Len(sent))
<1> DEFINE h == Len(sent) % R
           n == pushed - Len(sent)
           m == h + R - tail - 1
<1>1. Free = m % R
  <2>1. (head + (inflight - Remaining)) % R = h
    BY LiveHead DEF Drained
  <2> QED
    BY <2>1 DEF Free, Remaining, R
<1>2. /\ h \in Nat /\ h < R /\ n \in Nat /\ n <= R - 1 /\ R \in Nat \ {0, 1}
      /\ tail = IF h + n < R THEN h + n ELSE h + n - R
  BY TailSlot, Numbers
<1> HIDE DEF h, n
<1>3. CASE h + n < R
  <2>1. m = R - 1 - n /\ m \in Nat /\ m < R
    BY <1>2, <1>3
  <2> HIDE DEF m
  <2>2. m % R = m
    BY <1>2, <2>1, SmallSlot
  <2> QED
    BY <1>1, <2>1, <2>2 DEF n
<1>4. CASE ~(h + n < R)
  <2>1. m - R = R - 1 - n /\ m \in Nat /\ m >= R /\ m < 2 * R
    BY <1>2, <1>4
  <2> HIDE DEF m
  <2>2. m % R = m - R
    BY <1>2, <2>1, SmallSlot
  <2> QED
    BY <1>1, <2>1, <2>2 DEF n
<1>5. QED
  BY <1>3, <1>4

-----------------------------------------------------------------------------
(* The steps. *)

\* A kick leaves the bytes, the DMA's position and the tail alone, and a fresh
\* transfer covers a contiguous stretch of unsent bytes.
LEMMA KickKeeps ==
  ASSUME IInv, KickDma, UNCHANGED <<buf, tail, pushed, sent>>, pc' \in {"idle", "push", "spin", "kick"}
  PROVE  IInv'
<1>1. CASE InflightBusy
  <2>1. UNCHANGED <<head, inflight, dma>>
    BY <1>1 DEF KickDma
  <2> QED
    BY <2>1 DEF IInv, TypeOK, ChannelOK, PositionsOK, UnsentOK, InOrder, Remaining, Drained
<1>2. CASE ~InflightBusy
  <2> DEFINE h == Len(sent) % R
             n == pushed - Len(sent)
             g == (head + inflight) % R
             off == [dma EXCEPT !.en = IF inflight > 0 THEN FALSE ELSE @,
                                !.tcif = IF inflight > 0 THEN FALSE ELSE @]
  <2>1. /\ R \in Nat \ {0, 1} /\ pushed \in Nat /\ Len(sent) \in Nat
        /\ inflight \in Nat /\ dma.ndtr \in Nat
    BY Numbers
  <2>2. Remaining = 0 /\ Drained = inflight
    BY <1>2, <2>1 DEF InflightBusy, IInv, ChannelOK, Remaining, Drained
  <2>3. g = h
    BY <2>2, LiveHead
  <2>4. /\ h \in Nat /\ h < R /\ n \in Nat /\ n <= R - 1
        /\ tail = IF h + n < R THEN h + n ELSE h + n - R
    BY TailSlot
  <2>5. /\ head' = g
        /\ IF g = tail
           THEN inflight' = 0 /\ dma' = off
           ELSE /\ inflight' = Span(g, tail)
                /\ dma' = [off EXCEPT !.en = TRUE, !.mar = g, !.ndtr = Span(g, tail)]
    BY <1>2 DEF KickDma, R
  <2>6. dma \in [en : BOOLEAN, mar : 0..TX_RING, ndtr : 0..TX_RING, tcif : BOOLEAN]
    BY DEF IInv, TypeOK
  <2>7. /\ off \in [en : BOOLEAN, mar : 0..TX_RING, ndtr : 0..TX_RING, tcif : BOOLEAN]
        /\ off.tcif = IF inflight > 0 THEN FALSE ELSE dma.tcif
        /\ off.en = FALSE
    <3>1. CASE inflight > 0
      BY <2>6, <3>1
    <3>2. CASE ~(inflight > 0)
      <4>1. off.en = dma.en /\ off.tcif = dma.tcif /\ off.mar = dma.mar /\ off.ndtr = dma.ndtr
        BY <2>6, <3>2
      <4>2. off \in [en : BOOLEAN, mar : 0..TX_RING, ndtr : 0..TX_RING, tcif : BOOLEAN]
        BY <2>6, <3>2
      <4>3. inflight = 0
        BY <2>1, <3>2
      <4>4. dma.en = FALSE
        BY <2>6, <4>3 DEF IInv, ChannelOK
      <4> HIDE DEF off
      <4> QED
        BY <3>2, <4>1, <4>2, <4>4
    <3> QED
      BY <3>1, <3>2
  <2> HIDE DEF g, off
  <2>8. CASE h = tail
    <3>1. head' = h /\ inflight' = 0 /\ dma' = off
      BY <2>3, <2>5, <2>8
    <3>2. Remaining' = 0 /\ Drained' = 0
      BY <3>1 DEF Remaining, Drained
    <3>3. TypeOK'
      <4>1. h \in Slots /\ 0 \in 0..TX_RING
        BY <2>1, <2>4 DEF Slots, R
      <4> HIDE DEF h
      <4> QED
        BY <2>7, <3>1, <4>1 DEF IInv, TypeOK
    <3>4. ChannelOK'
      <4>1. off.tcif = FALSE
        BY <2>1, <2>7 DEF IInv, ChannelOK
      <4>2. inflight' = 0 /\ dma'.en = FALSE /\ dma'.tcif = FALSE
        BY <2>7, <3>1, <4>1
      <4>3. ~(inflight' > 0)
        BY <4>2
      <4> QED
        BY <4>2, <4>3 DEF ChannelOK
    <3>5. PositionsOK'
      BY <2>1, <2>4, <3>1, <3>2 DEF IInv, PositionsOK
    <3> QED
      BY <3>3, <3>4, <3>5 DEF IInv, UnsentOK, InOrder
  <2>9. CASE h # tail
    <3> DEFINE s == Span(h, tail)
    <3>1. /\ head' = h /\ inflight' = s
          /\ dma' = [off EXCEPT !.en = TRUE, !.mar = h, !.ndtr = s]
      BY <2>3, <2>5, <2>9
    <3>2. s \in Nat /\ s > 0 /\ h + s <= R /\ s <= n
      BY <2>1, <2>4, <2>9 DEF Span, R
    <3> HIDE DEF s
    <3>3. /\ dma' \in [en : BOOLEAN, mar : 0..TX_RING, ndtr : 0..TX_RING, tcif : BOOLEAN]
          /\ dma'.en = TRUE /\ dma'.mar = h /\ dma'.ndtr = s /\ dma'.tcif = off.tcif
      <4>1. h \in 0..TX_RING /\ s \in 0..TX_RING
        BY <2>1, <2>4, <3>2 DEF R
      <4> HIDE DEF h
      <4> QED
        BY <2>7, <3>1, <4>1
    <3>4. Remaining' = s /\ Drained' = 0
      BY <3>1, <3>2, <3>3 DEF Remaining, Drained
    <3>5. off.tcif = FALSE
      <4>1. CASE inflight > 0
        BY <2>7, <4>1
      <4>2. CASE ~(inflight > 0)
        <5>1. dma.tcif = FALSE
          BY <4>2, <2>1 DEF IInv, ChannelOK
        <5> QED
          BY <2>7, <4>2, <5>1
      <4> QED
        BY <4>1, <4>2
    <3>6. TypeOK'
      <4>1. h \in Slots /\ s \in 0..TX_RING
        BY <2>1, <2>4, <3>2 DEF Slots, R
      <4> HIDE DEF h
      <4> QED
        BY <3>1, <3>3, <4>1 DEF IInv, TypeOK
    <3>7. ChannelOK'
      BY SMTT(60), <2>1, <2>4, <3>1, <3>2, <3>3, <3>5 DEF ChannelOK, R
    <3>8. PositionsOK'
      BY <2>1, <2>4, <3>1, <3>2, <3>4 DEF IInv, PositionsOK
    <3> QED
      BY <3>6, <3>7, <3>8 DEF IInv, UnsentOK, InOrder
  <2> QED
    BY <2>8, <2>9
<1>3. QED
  BY <1>1, <1>2

\* A store fills the tail's slot, which no unsent byte occupies.
LEMMA StoreKeeps ==
  ASSUME IInv, PushStore
  PROVE  IInv'
<1>1. /\ R \in Nat \ {0, 1} /\ pushed \in Nat /\ Len(sent) \in Nat
      /\ tail \in Nat /\ tail < R
  BY Numbers
<1>2. /\ buf' = [buf EXCEPT ![tail] = pushed + 1] /\ tail' = (tail + 1) % R
      /\ pushed' = pushed + 1 /\ pc' = "kick"
      /\ UNCHANGED <<head, inflight, dma, sent>>
  BY DEF PushStore, R
<1>3. pushed - Len(sent) < R - 1
  BY <1>1, FreeIs DEF PushStore, IInv, PositionsOK
<1>4. tail = pushed % R
  BY DEF IInv, PositionsOK
<1>5. tail' = (pushed + 1) % R
  <2>1. 1 \in Nat /\ 1 <= R
    BY <1>1
  <2>2. ((pushed % R) + 1) % R = (pushed + 1) % R
    BY <1>1, <2>1, SlotPlus
  <2> QED
    BY <1>2, <1>4, <2>2
<1>6. tail' \in 0..(R - 1)
  BY <1>1, <1>5, DivMod
<1>7. Remaining' = Remaining /\ Drained' = Drained
  BY <1>2 DEF Remaining, Drained
<1>8. TypeOK'
  BY <1>1, <1>2, <1>6 DEF IInv, TypeOK, Slots, R
<1>9. ChannelOK'
  BY <1>2 DEF IInv, ChannelOK
<1>10. PositionsOK'
  <2>1. Remaining \in Nat
    BY Numbers
  <2> QED
    BY SMTT(60), <1>1, <1>2, <1>3, <1>5, <1>7, <2>1 DEF IInv, PositionsOK
<1>11. UnsentOK'
  <2> SUFFICES ASSUME NEW k \in Nat, Len(sent) <= k, k < pushed + 1
               PROVE  buf'[k % R] = k + 1
    BY <1>2 DEF UnsentOK
  <2>1. buf \in [Slots -> Nat] /\ tail \in Slots
    BY DEF IInv, TypeOK
  <2>2. CASE k = pushed
    BY <1>2, <1>4, <2>1, <2>2
  <2>3. CASE k # pushed
    <3>1. k < pushed /\ pushed < k + R
      BY <1>1, <1>3, <2>3
    <3>2. k % R # pushed % R
      <4>1. k <= pushed /\ k # pushed
        BY <1>1, <3>1
      <4> QED
        BY <1>1, <3>1, <4>1, SameSlot
    <3>3. k % R \in Slots
      BY <1>1, DivMod DEF Slots, R
    <3>4. buf[k % R] = k + 1
      BY <3>1 DEF IInv, UnsentOK
    <3> QED
      BY <1>2, <1>4, <2>1, <3>2, <3>3, <3>4
  <2> QED
    BY <2>2, <2>3
<1>12. InOrder'
  BY <1>1, <1>2 DEF IInv, InOrder, TypeOK
<1>13. QED
  BY <1>8, <1>9, <1>10, <1>11, <1>12 DEF IInv

\* The DMA moves the byte at its position.
LEMMA DmaKeeps ==
  ASSUME IInv, DmaByte
  PROVE  IInv' /\ sent' = Append(sent, Len(sent) + 1) /\ Len(sent) < pushed
<1>1. /\ R \in Nat \ {0, 1} /\ pushed \in Nat /\ Len(sent) \in Nat
      /\ inflight \in Nat /\ inflight <= R /\ dma.ndtr \in Nat
      /\ head \in Nat /\ Drained \in Nat
  BY Numbers
<1>2. /\ dma.en /\ dma.ndtr > 0
      /\ sent' = Append(sent, buf[dma.mar])
      /\ dma' = [dma EXCEPT !.mar = @ + 1, !.ndtr = @ - 1, !.tcif = (dma.ndtr = 1)]
      /\ UNCHANGED <<buf, head, tail, inflight, pc, pushed>>
  BY DEF DmaByte
<1>3. /\ inflight > 0 /\ dma.ndtr <= inflight /\ dma.mar = head + Drained
      /\ head + inflight <= R /\ Remaining = dma.ndtr /\ Drained = inflight - dma.ndtr
  BY <1>1, <1>2 DEF IInv, ChannelOK, Remaining, Drained
<1>4. dma.mar \in Nat /\ dma.mar < R
  BY <1>1, <1>2, <1>3
<1>5. dma.mar = Len(sent) % R
  <2> DEFINE m == dma.mar
  <2>1. m \in Nat /\ m < R /\ m = head + Drained
    BY <1>3, <1>4
  <2> HIDE DEF m
  <2>2. m % R = m
    BY <1>1, <2>1, SmallSlot
  <2> QED
    BY <2>1, <2>2, LiveHead DEF m
<1>6. Len(sent) < pushed
  BY SMTT(60), <1>1, <1>2, <1>3 DEF IInv, PositionsOK
<1>7. sent' = Append(sent, Len(sent) + 1)
  BY <1>1, <1>2, <1>5, <1>6 DEF IInv, UnsentOK
<1>8. sent \in Seq(Nat) /\ sent' \in Seq(Nat) /\ Len(sent') = Len(sent) + 1
  BY <1>1, <1>7 DEF IInv, TypeOK
<1>9. /\ dma' \in [en : BOOLEAN, mar : 0..TX_RING, ndtr : 0..TX_RING, tcif : BOOLEAN]
      /\ dma'.en = dma.en /\ dma'.mar = dma.mar + 1 /\ dma'.ndtr = dma.ndtr - 1
  <2>1. dma \in [en : BOOLEAN, mar : 0..TX_RING, ndtr : 0..TX_RING, tcif : BOOLEAN]
    BY DEF IInv, TypeOK
  <2>2. dma.mar + 1 \in 0..TX_RING
    BY <1>1, <1>4 DEF R
  <2>3. dma.ndtr - 1 \in 0..TX_RING
    BY SMTT(60), <1>1, <1>2, <1>3 DEF R
  <2> QED
    BY <1>2, <2>1, <2>2, <2>3
<1>10. dma'.tcif <=> dma'.ndtr = 0
  <2>1. dma \in [en : BOOLEAN, mar : 0..TX_RING, ndtr : 0..TX_RING, tcif : BOOLEAN]
    BY DEF IInv, TypeOK
  <2>2. dma'.tcif = (dma.ndtr = 1)
    BY <1>2, <2>1
  <2>3. dma.ndtr - 1 = 0 <=> dma.ndtr = 1
    BY <1>1
  <2> QED
    BY <1>9, <2>2, <2>3
<1>11. Remaining' = Remaining - 1 /\ Drained' = Drained + 1
  BY <1>1, <1>2, <1>3, <1>9 DEF Remaining, Drained
<1>12. TypeOK'
  BY <1>2, <1>8, <1>9 DEF IInv, TypeOK
<1>13. ChannelOK'
  <2>1. inflight' > 0 /\ dma'.en /\ dma'.ndtr <= inflight'
    BY <1>1, <1>2, <1>3, <1>9
  <2>2. dma'.mar = head' + (inflight' - dma'.ndtr) /\ head' + inflight' <= R
    BY <1>1, <1>2, <1>3, <1>9
  <2> QED
    BY <1>1, <1>2, <1>10, <2>1, <2>2 DEF ChannelOK, R
<1>14. PositionsOK'
  <2>1. Len(sent') - Drained' = Len(sent) - Drained
    BY <1>1, <1>8, <1>11
  <2>2. Remaining \in Nat
    BY Numbers
  <2> QED
    BY SMTT(60), <1>1, <1>2, <1>6, <1>8, <1>11, <2>1, <2>2 DEF IInv, PositionsOK, R
<1>15. UnsentOK'
  BY SMTT(60), <1>1, <1>2, <1>8 DEF IInv, UnsentOK, R
<1>16. InOrder'
  BY <1>1, <1>2, <1>6, <1>7, <1>8 DEF IInv, InOrder
<1>17. QED
  BY <1>6, <1>7, <1>12, <1>13, <1>14, <1>15, <1>16 DEF IInv

LEMMA InitIInv == Init => IInv
<1> SUFFICES ASSUME Init
             PROVE  IInv
  OBVIOUS
<1>1. R \in Nat \ {0, 1} /\ 0 \in Slots
  BY UartConstants DEF R, Slots
<1>2. 0 % R = 0
  BY <1>1, SmallSlot
<1>3. TypeOK
  BY <1>1 DEF Init, TypeOK, R
<1>4. sent = <<>> /\ Len(sent) = 0 /\ pushed = 0 /\ inflight = 0 /\ head = 0 /\ tail = 0
  BY DEF Init
<1>5. Remaining = 0 /\ Drained = 0
  BY <1>4 DEF Remaining, Drained
<1>6. ChannelOK /\ InOrder
  BY <1>4 DEF Init, ChannelOK, InOrder
<1>7. PositionsOK
  BY <1>1, <1>2, <1>4, <1>5 DEF PositionsOK
<1>8. UnsentOK
  BY <1>4 DEF UnsentOK
<1>9. QED
  BY <1>3, <1>6, <1>7, <1>8 DEF IInv

LEMMA NextIInv == IInv /\ [Next]_vars => IInv'
<1> SUFFICES ASSUME IInv, [Next]_vars
             PROVE  IInv'
  OBVIOUS
<1>1. CASE PushCall \/ PushFull
  BY <1>1 DEF PushCall, PushFull, IInv, TypeOK, ChannelOK, PositionsOK, UnsentOK, InOrder, Remaining, Drained
<1>2. CASE PushSpin
  BY <1>2, KickKeeps DEF PushSpin
<1>3. CASE PushStore
  BY <1>3, StoreKeeps
<1>4. CASE PushKick
  BY <1>4, KickKeeps DEF PushKick
<1>5. CASE Kick
  BY <1>5, KickKeeps DEF Kick, IInv, TypeOK
<1>6. CASE DmaByte
  BY <1>6, DmaKeeps
<1>7. CASE UNCHANGED vars
  BY <1>7 DEF vars, IInv, TypeOK, ChannelOK, PositionsOK, UnsentOK, InOrder, Remaining, Drained
<1>8. QED
  BY <1>1, <1>2, <1>3, <1>4, <1>5, <1>6, <1>7 DEF Next, Push

\* The inductive invariant holds in every reachable state.
THEOREM Inductive == Spec => []IInv
<1>1. QED
  BY InitIInv, NextIInv, PTL DEF Spec

\* Indices, counts and the channel's registers keep their ranges.
THEOREM TypeCorrect == Spec => []TypeOK
<1>1. IInv => TypeOK
  BY DEF IInv
<1>2. QED
  BY <1>1, Inductive, PTL

\* The wire carries the pushed bytes in order, each once (uart.rs 137-198).
THEOREM InOrderAlways == Spec => []InOrder
<1>1. IInv => InOrder
  BY DEF IInv
<1>2. QED
  BY <1>1, Inductive, PTL

\* The free count is exact: full and empty are never confused (uart.rs 174-184).
THEOREM RingHoldsUnsentAlways == Spec => []RingHoldsUnsent
<1>1. IInv => RingHoldsUnsent
  <2> SUFFICES ASSUME IInv
               PROVE  RingHoldsUnsent
    OBVIOUS
  <2>1. Free = R - 1 - (pushed - Len(sent))
    BY FreeIs
  <2> QED
    BY <2>1, Numbers DEF RingHoldsUnsent, R
<1>2. QED
  BY <1>1, Inductive, PTL
=============================================================================
