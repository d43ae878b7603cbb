-------------------------- MODULE PicoCaptureProof --------------------------
(***************************************************************************)
(* The Pico's ring is drained exactly until its high-water mark is first    *)
(* met, for any ring size, drain size and number of edges.                  *)
(*                                                                         *)
(* The argument gives every slot an absolute position.  The reader's is the   *)
(* number of samples returned, the writer's the number of edges; they are   *)
(* less than a ring apart, so the masked difference the code computes is     *)
(* their distance, and each slot between them still holds the sample of its  *)
(* position while the copy goes on.                                          *)
(***************************************************************************)
EXTENDS PicoCapture, TLAPS

Edges == 0..MaxEdges

Types ==
  /\ TypeOK
  /\ chunk \in Seq(Edges) /\ popped \in Seq(Edges)
  /\ dropped \in Nat /\ total \in Nat /\ resyncs \in Nat
  /\ pc = "available" => chunk = <<>>
  /\ pc = "copy" => Len(chunk) <= n

\* While nothing has been given up.
Exact ==
  LET next == Len(popped)
  IN  /\ read_pos = next % LEN
      /\ next <= written /\ written - next <= MaxLag
      /\ \A i \in 1..next : popped[i] = i
      /\ \A k \in next..(written - 1) : ring[k % LEN] = k + 1
      /\ pc = "copy" => /\ n <= written - next
                        /\ \A i \in 1..Len(chunk) : chunk[i] = next + i

IInv == Types /\ (resyncs = 0 => Exact)

-----------------------------------------------------------------------------
(* Arithmetic. *)

LEMMA Sizes == /\ LEN \in Nat \ {0, 1} /\ LEN >= 8
               /\ MaxLag \in Nat /\ MaxLag < LEN
               /\ DRAIN_CHUNK \in Nat \ {0}
               /\ MaxEdges \in Nat
BY CaptureConstants

\* Division with remainder is unique.
LEMMA RemainderIs ==
  ASSUME NEW q \in Nat, NEW r \in 0..(LEN - 1)
  PROVE  (LEN * q + r) % LEN = r
BY Sizes

\* Quotient and remainder.
LEMMA DivMod ==
  ASSUME NEW a \in Nat
  PROVE  a = LEN * (a \div LEN) + (a % LEN) /\ a % LEN \in 0..(LEN - 1) /\ a \div LEN \in Nat
BY Sizes

\* The slot of a position, and of one at most a lap further.
LEMMA SlotAhead ==
  ASSUME NEW a \in Nat, NEW j \in 0..LEN
  PROVE  /\ a % LEN \in 0..(LEN - 1)
         /\ (a + j) % LEN = IF (a % LEN) + j < LEN THEN (a % LEN) + j ELSE (a % LEN) + j - LEN
<1>1. PICK q \in Nat, r \in 0..(LEN - 1) : a = LEN * q + r /\ r = a % LEN
  BY DivMod
<1>2. CASE r + j < LEN
  <2>1. r + j \in 0..(LEN - 1)
    BY <1>2, Sizes
  <2>2. a + j = LEN * q + (r + j)
    BY <1>1, Sizes
  <2>. QED BY <1>1, <1>2, <2>1, <2>2, RemainderIs
<1>3. CASE ~(r + j < LEN)
  <2>1. a + j = LEN * (q + 1) + (r + j - LEN) /\ r + j - LEN \in 0..(LEN - 1) /\ q + 1 \in Nat
    BY <1>1, <1>3, Sizes
  <2>. QED BY <1>1, <1>3, <2>1, RemainderIs
<1>. QED BY <1>2, <1>3

\* An index inside the ring is itself; one lap further comes back to it.
LEMMA SmallSlot ==
  ASSUME NEW a \in Nat
  PROVE  (a < LEN => a % LEN = a) /\ (a >= LEN /\ a < 2 * LEN => a % LEN = a - LEN)
BY Sizes

\* Adding to a slot is adding to the position.
LEMMA SlotPlus ==
  ASSUME NEW a \in Nat, NEW j \in 0..LEN
  PROVE  ((a % LEN) + j) % LEN = (a + j) % LEN
<1>1. PICK r \in 0..(LEN - 1) : r = a % LEN
  BY DivMod
<1>2. PICK i \in Nat : i = r + j
  BY Sizes
<1>3. (a + j) % LEN = IF i < LEN THEN i ELSE i - LEN
  <2>1. (a + j) % LEN = IF r + j < LEN THEN r + j ELSE r + j - LEN
    BY <1>1, SlotAhead
  <2>. QED BY <1>2, <2>1, Sizes
<1>4. i % LEN = IF i < LEN THEN i ELSE i - LEN
  <2>1. i < 2 * LEN
    BY <1>2, Sizes
  <2>2. i < LEN => i % LEN = i
    BY SmallSlot
  <2>3. ~(i < LEN) => i % LEN = i - LEN
    BY <2>1, SmallSlot, Sizes
  <2>. QED BY <2>2, <2>3
<1>5. (a % LEN) + j = i
  BY <1>1, <1>2
<1>. QED BY <1>3, <1>4, <1>5, Zenon

\* Positions less than a lap apart share a slot only if they are equal.
LEMMA SameSlot ==
  ASSUME NEW a \in Nat, NEW b \in Nat, a <= b, b < a + LEN, a % LEN = b % LEN
  PROVE  a = b
<1>1. PICK j \in 0..LEN : b = a + j /\ j < LEN
  BY Sizes
<1>2. PICK r \in 0..(LEN - 1) : r = a % LEN
  BY DivMod
<1>3. r = IF r + j < LEN THEN r + j ELSE r + j - LEN
  BY <1>1, <1>2, SlotAhead
<1>4. j = 0
  BY <1>1, <1>3, Sizes
<1>. QED BY <1>1, <1>4

\* Two positions less than a lap apart are as far apart as their slots are.
LEMMA SlotDistance ==
  ASSUME NEW a \in Nat, NEW j \in 0..(LEN - 1)
  PROVE  (((a + j) % LEN) - (a % LEN)) % LEN = j
<1>1. PICK r \in 0..(LEN - 1) : r = a % LEN
  BY DivMod
<1>2. j \in 0..LEN
  BY Sizes
<1>3. (a + j) % LEN = IF r + j < LEN THEN r + j ELSE r + j - LEN
  BY <1>1, <1>2, SlotAhead
<1>4. j % LEN = j
  BY Sizes
<1>5. (j - LEN) % LEN = j
  BY Sizes
<1>. QED BY <1>1, <1>3, <1>4, <1>5, Sizes

LEMMA SlotOf == ASSUME NEW k \in Nat PROVE k % LEN \in Slots
BY Sizes, DivMod DEF Slots

LEMMA AvailableRange == Types => Available \in Slots
<1> SUFFICES ASSUME Types PROVE Available \in Slots
  OBVIOUS
<1>1. (written % LEN) - read_pos \in Int
  BY Sizes, SlotOf DEF Types, TypeOK, Slots
<1>. QED BY <1>1, Sizes DEF Available, Slots

\* It is how far the reader is behind.
LEMMA AvailableIs ==
  ASSUME Types, Exact
  PROVE  Available = written - Len(popped)
<1> DEFINE next == Len(popped)
           j == written - next
<1>1. next \in Nat /\ j \in Nat /\ j < LEN /\ written = next + j
  BY Sizes DEF Types, TypeOK, Exact
<1>2. Available = (((next + j) % LEN) - (next % LEN)) % LEN
  BY <1>1 DEF Available, Exact
<1> HIDE DEF j, next
<1>3. Available = j
  <2>1. j \in 0..(LEN - 1)
    BY <1>1, Sizes
  <2>. QED BY <1>1, <1>2, <2>1, SlotDistance
<1>. QED BY <1>3 DEF j, next

-----------------------------------------------------------------------------
(* One lemma for each step. *)

LEMMA InitHolds == Init => IInv
<1> SUFFICES ASSUME Init PROVE IInv
  OBVIOUS
<1>1. Types
  <2>1. /\ ring \in [Slots -> 0..MaxEdges] /\ 0 \in Slots /\ 0 \in 0..MaxEdges
        /\ 0 \in 0..DRAIN_CHUNK
    BY Sizes DEF Init, Slots
  <2>. QED BY <2>1 DEF Init, Types, TypeOK
<1>2. Exact
  <2>1. 0 % LEN = 0
    BY Sizes, SmallSlot
  <2>. QED BY <2>1, Sizes DEF Init, Exact
<1>. QED BY <1>1, <1>2 DEF IInv

\* The DMA never reaches an unread slot.
LEMMA EdgeKeeps ==
  ASSUME IInv, Edge
  PROVE  IInv'
<1>1. /\ ring' = [ring EXCEPT ![written % LEN] = written + 1]
      /\ written' = written + 1
      /\ UNCHANGED <<read_pos, n, chunk, dropped, streaming, pc, popped, total, resyncs>>
  BY DEF Edge, reader, histories
<1>2. written \in Nat /\ written < MaxEdges /\ written % LEN \in Slots
  BY SlotOf DEF Edge, IInv, Types, TypeOK
<1>3. Types'
  <2>1. written + 1 \in 0..MaxEdges
    BY <1>2, Sizes
  <2>2. ring' \in [Slots -> 0..MaxEdges]
    BY <1>1, <1>2, <2>1 DEF IInv, Types, TypeOK
  <2>. QED BY <1>1, <2>1, <2>2 DEF IInv, Types, TypeOK
<1>4. ASSUME resyncs = 0 PROVE Exact'
  <2> DEFINE next == Len(popped)
  <2>1. Exact /\ written - next < MaxLag /\ next \in Nat /\ next <= written
    BY <1>4 DEF IInv, Edge, Exact, Types
  <2>2. ASSUME NEW k \in next..written PROVE ring'[k % LEN] = k + 1
    <3>1. k \in Nat /\ k <= written /\ k % LEN \in Slots
      BY <1>2, <2>1, SlotOf
    <3>2. CASE k = written
      BY <1>1, <1>2, <3>1, <3>2 DEF IInv, Types, TypeOK
    <3>3. CASE k # written
      <4>1. k < written /\ written < k + LEN
        BY <1>2, <2>1, <3>1, <3>3, Sizes
      <4>2. k % LEN # written % LEN
        <5> SUFFICES ASSUME k % LEN = written % LEN PROVE k = written
          BY <3>3
        <5>. QED BY <1>2, <3>1, <4>1, Sizes, SameSlot
      <4>3. ring[k % LEN] = k + 1
        BY <1>2, <2>1, <3>1, <4>1 DEF Exact
      <4>. QED BY <1>1, <1>2, <3>1, <4>2, <4>3 DEF IInv, Types, TypeOK
    <3>. QED BY <3>2, <3>3
  <2>3. next' = next /\ written' - 1 = written
    BY <1>1, <1>2
  <2>4. \A k \in next'..(written' - 1) : ring'[k % LEN] = k + 1
    BY <2>2, <2>3
  <2>5. written' - next <= MaxLag /\ next <= written'
    BY <1>1, <1>2, <2>1, Sizes
  <2>6. pc' = "copy" => n' <= written' - next
    BY <1>1, <1>2, <2>1 DEF Exact, IInv, Types, TypeOK
  <2>. QED BY <1>1, <2>1, <2>3, <2>4, <2>5, <2>6 DEF Exact
<1>. QED BY <1>1, <1>3, <1>4 DEF IInv

LEMMA ReadFillKeeps ==
  ASSUME IInv, ReadFill
  PROVE  IInv'
<1>1. /\ chunk' = <<>> /\ pc = "fill" /\ pc' = "available"
      /\ UNCHANGED <<ring, written, n, streaming, popped>>
  BY DEF ReadFill, ringVars
<1>2. CASE HighWater(Available)
  <2>1. /\ dropped' = dropped + Available /\ total' = total + Available
        /\ read_pos' = (written + 1) % LEN /\ resyncs' = resyncs + 1
    BY <1>2 DEF ReadFill, Restart
  <2>2. Available \in Nat /\ read_pos' \in Slots
    <3>1. written + 1 \in Nat /\ Available \in Slots
      BY AvailableRange DEF IInv, Types, TypeOK
    <3>2. (written + 1) % LEN \in Slots
      BY <3>1, SlotOf
    <3>. QED BY <2>1, <3>1, <3>2 DEF Slots
  <2>3. dropped' \in 0..total' /\ dropped' \in Nat /\ total' \in Nat
    BY <2>1, <2>2 DEF IInv, Types, TypeOK
  <2>. QED BY <1>1, <2>1, <2>2, <2>3 DEF IInv, Types, TypeOK
<1>3. CASE ~HighWater(Available)
  <2>1. UNCHANGED <<dropped, total, read_pos, resyncs>>
    BY <1>3 DEF ReadFill
  <2>2. Types'
    BY <1>1, <2>1 DEF IInv, Types, TypeOK
  <2>. QED BY <1>1, <2>1, <2>2 DEF IInv, Exact
<1>. QED BY <1>2, <1>3

LEMMA ReadAvailableKeeps ==
  ASSUME IInv, ReadAvailable
  PROVE  IInv'
<1>1. /\ n' = Smaller(Available, DRAIN_CHUNK) /\ pc = "available" /\ pc' = "copy"
      /\ chunk = <<>>
      /\ UNCHANGED <<ring, written, read_pos, chunk, dropped, streaming, popped, total, resyncs>>
  BY DEF ReadAvailable, ringVars, histories, IInv, Types
<1>2. n' \in 0..DRAIN_CHUNK /\ n' <= Available /\ Len(chunk) = 0
  BY <1>1, AvailableRange, Sizes DEF Smaller, Slots, IInv
<1>3. Types'
  BY <1>1, <1>2 DEF IInv, Types, TypeOK
<1>4. resyncs = 0 => Exact'
  BY <1>1, <1>2, AvailableIs DEF IInv, Exact
<1>. QED BY <1>1, <1>3, <1>4 DEF IInv

\* The copy reads the slots between the reader and the writer.
LEMMA CopySampleKeeps ==
  ASSUME IInv, CopySample
  PROVE  IInv'
<1> DEFINE next == Len(popped)
           i == Len(chunk)
           x == ring[(read_pos + i) % LEN]
<1>1. /\ chunk' = Append(chunk, x) /\ pc = "copy" /\ i < n
      /\ UNCHANGED <<ring, written, read_pos, n, dropped, streaming, pc, popped, total, resyncs>>
  BY DEF CopySample, ringVars, histories
<1>2. chunk \in Seq(Edges) /\ i \in Nat /\ next \in Nat /\ read_pos \in Nat /\ n \in Nat
  BY DEF IInv, Types, TypeOK, Slots
<1>3. x \in Edges
  <2>1. (read_pos + i) % LEN \in Slots
    BY <1>2, SlotOf
  <2>. QED BY <2>1 DEF IInv, Types, TypeOK, Edges
<1>4. /\ chunk' \in Seq(Edges) /\ Len(chunk') = i + 1 /\ chunk'[i + 1] = x
      /\ \A k \in 1..i : chunk'[k] = chunk[k]
  <2> HIDE DEF x
  <2>. QED BY <1>1, <1>2, <1>3
<1>5. Types'
  BY <1>1, <1>2, <1>4 DEF IInv, Types, TypeOK
<1>6. ASSUME resyncs = 0 PROVE Exact'
  <2>1. Exact
    BY <1>6 DEF IInv
  <2>2. i < LEN /\ next + i \in next..(written - 1)
    <3>1. n <= written - next /\ written - next <= MaxLag /\ written \in Nat
      BY <1>1, <2>1 DEF Exact, IInv, Types, TypeOK
    <3>. QED BY <1>1, <1>2, <3>1, Sizes
  <2>3. (read_pos + i) % LEN = (next + i) % LEN
    <3> HIDE DEF next, i
    <3>1. ((next % LEN) + i) % LEN = (next + i) % LEN
      <4>1. next \in Nat /\ i \in 0..LEN
        BY <1>2, <2>2, Sizes
      <4>. QED BY <4>1, SlotPlus
    <3>. QED BY <2>1, <3>1 DEF Exact, next
  <2>4. x = next + i + 1
    BY <2>1, <2>2, <2>3 DEF Exact
  <2>5. ASSUME NEW k \in 1..Len(chunk') PROVE chunk'[k] = next + k
    <3>1. k \in 1..i \/ k = i + 1
      BY <1>2, <1>4
    <3>2. CASE k \in 1..i
      BY <1>1, <1>4, <2>1, <3>2 DEF Exact
    <3>3. CASE k = i + 1
      BY <1>2, <1>4, <2>4, <3>3
    <3>. QED BY <3>1, <3>2, <3>3
  <2>. QED BY <1>1, <2>1, <2>5 DEF Exact
<1>. QED BY <1>1, <1>5, <1>6 DEF IInv

\* What was copied goes behind what had been returned.
LEMMA DrainDoneKeeps ==
  ASSUME IInv, DrainDone
  PROVE  IInv'
<1> DEFINE next == Len(popped)
<1>1. /\ read_pos' = (read_pos + n) % LEN /\ popped' = popped \o chunk
      /\ pc' \in {"report", "fill"} /\ pc = "copy" /\ Len(chunk) = n
      /\ UNCHANGED <<ring, written, n, chunk, dropped, streaming, total, resyncs>>
  BY DEF DrainDone, ringVars
<1>2. /\ chunk \in Seq(Edges) /\ popped \in Seq(Edges) /\ next \in Nat /\ read_pos \in Nat
      /\ n \in 0..DRAIN_CHUNK /\ n \in Nat
  BY Sizes DEF IInv, Types, TypeOK, Slots
<1>3. /\ popped' \in Seq(Edges) /\ Len(popped') = next + n
      /\ \A k \in 1..next : popped'[k] = popped[k]
      /\ \A k \in (next + 1)..(next + n) : popped'[k] = chunk[k - next]
  <2>1. popped' \in Seq(Edges) /\ Len(popped') = next + n
    <3>1. (popped \o chunk) \in Seq(Edges) /\ Len(popped \o chunk) = Len(popped) + Len(chunk)
      BY <1>2
    <3>. QED BY <1>1, <3>1
  <2>2. ASSUME NEW k \in 1..(next + n)
        PROVE  popped'[k] = IF k <= next THEN popped[k] ELSE chunk[k - next]
    BY <1>1, <1>2
  <2>. QED BY <1>2, <2>1, <2>2
<1>4. read_pos' \in Slots
  BY <1>1, <1>2, SlotOf
<1>5. Types'
  BY <1>1, <1>3, <1>4 DEF IInv, Types, TypeOK
<1>6. ASSUME resyncs = 0 PROVE Exact'
  <2>1. Exact
    BY <1>6 DEF IInv
  <2>2. n <= LEN /\ next + n <= written /\ written \in Nat
    BY <1>1, <1>2, <2>1, Sizes DEF Exact, IInv, Types, TypeOK
  <2>3. read_pos' = (next + n) % LEN
    <3>1. n \in 0..LEN
      BY <1>2, <2>2, Sizes
    <3> HIDE DEF next
    <3>2. ((next % LEN) + n) % LEN = (next + n) % LEN
      BY <1>2, <3>1, SlotPlus
    <3>. QED BY <1>1, <2>1, <3>2 DEF Exact, next
  <2>4. ASSUME NEW k \in 1..(next + n) PROVE popped'[k] = k
    <3>1. CASE k \in 1..next
      BY <1>3, <2>1, <3>1 DEF Exact
    <3>2. CASE k \in (next + 1)..(next + n)
      <4>1. k - next \in 1..n
        BY <1>2, <3>2
      <4>2. chunk[k - next] = next + (k - next)
        BY <1>1, <2>1, <4>1 DEF Exact
      <4>. QED BY <1>2, <1>3, <3>2, <4>2
    <3>. QED BY <1>2, <3>1, <3>2
  <2>5. ASSUME NEW k \in (next + n)..(written - 1) PROVE ring[k % LEN] = k + 1
    BY <1>2, <2>1, <2>2 DEF Exact
  <2>6. written - (next + n) <= MaxLag
    BY <1>2, <2>1, <2>2, Sizes DEF Exact
  <2>. QED BY <1>1, <1>3, <2>2, <2>3, <2>4, <2>5, <2>6 DEF Exact
<1>. QED BY <1>1, <1>5, <1>6 DEF IInv

\* Steps that touch neither the ring nor its reader.
LEMMA Untouched ==
  ASSUME IInv, UNCHANGED <<ring, written, read_pos, n, chunk, popped, total, resyncs>>,
         dropped' \in {0, dropped}, streaming' \in BOOLEAN,
         \/ pc' = pc
         \/ pc' \in {"commands", "fill"} /\ pc \in {"commands", "report"}
  PROVE  IInv'
<1>1. Types'
  BY DEF IInv, Types, TypeOK
<1>2. resyncs = 0 => Exact'
  BY DEF IInv, Exact
<1>. QED BY <1>1, <1>2 DEF IInv

-----------------------------------------------------------------------------
LEMMA Inductive == IInv /\ [Next]_vars => IInv'
<1> SUFFICES ASSUME IInv, [Next]_vars PROVE IInv'
  OBVIOUS
<1>1. CASE Edge
  BY <1>1, EdgeKeeps
<1>2. CASE Command
  BY <1>2, Untouched DEF Command, ringVars, reader, histories
<1>3. CASE BeginDrains
  BY <1>3, Untouched DEF BeginDrains, ringVars, reader, histories, IInv, Types, TypeOK
<1>4. CASE ReadFill \/ ReadAvailable
  BY <1>4, ReadFillKeeps, ReadAvailableKeeps
<1>5. CASE CopySample \/ DrainDone
  BY <1>5, CopySampleKeeps, DrainDoneKeeps
<1>6. CASE Report
  BY <1>6, Untouched DEF Report, ringVars, reader, histories, IInv, Types, TypeOK
<1>7. CASE UNCHANGED vars
  BY <1>7 DEF vars, ringVars, reader, histories, IInv, Types, TypeOK, Exact
<1>. QED BY <1>1, <1>2, <1>3, <1>4, <1>5, <1>6, <1>7 DEF Next, Drain

LEMMA Invariant == Spec => []IInv
BY InitHolds, Inductive, PTL DEF Spec

\* Positions stay inside the ring, a chunk inside its size, and what is still
\* to be reported never exceeds what was counted (pio_capture.rs 201-255).
THEOREM TypeCorrect == Spec => []TypeOK
<1>1. IInv => TypeOK
  BY DEF IInv, Types
<1>. QED BY <1>1, Invariant, PTL

\* Until the high-water mark is first met, drain returns every edge, in order
\* and once (pio_capture.rs 232-255).
THEOREM ExactUntilOverrunAlways == Spec => []ExactUntilOverrun
<1>1. ASSUME IInv PROVE ExactUntilOverrun
  <2>1. DOMAIN popped = 1..Len(popped)
    BY <1>1 DEF IInv, Types
  <2>. QED BY <1>1, <2>1 DEF IInv, Exact, ExactUntilOverrun
<1>2. IInv => ExactUntilOverrun
  BY <1>1
<1>. QED BY <1>2, Invariant, PTL
=============================================================================
