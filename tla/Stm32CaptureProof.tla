-------------------------- MODULE Stm32CaptureProof --------------------------
(***************************************************************************)
(* The two halves of every sample are of one edge, edges come in order, and *)
(* one that is missing is marked, for any ring size, drain size, number of  *)
(* edges and of sessions.                                                   *)
(*                                                                         *)
(* The argument looks at what is unread of each ring, and counts a request    *)
(* that is raised and not yet served as the sample it will become.  So seen,  *)
(* both rings hold the same edges at the same distance from their read        *)
(* indices, whatever the channels' order; a resync, with the timer stopped,    *)
(* leaves both with none.                                                    *)
(*                                                                         *)
(* Of losses (Holes): the rings hold the last edges without a hole, so one  *)
(* opens only between what left the rings and what a resync dropped, and    *)
(* from then on it is owed a Gap (Owing) or has one behind it (Marked).     *)
(***************************************************************************)
EXTENDS Stm32Capture, TLAPS

SampleItems == [kind : {"sample"}, pa : 0..MaxEdges, pb : 0..MaxEdges]
Items == {Gap, Begin} \cup SampleItems

\* What is unread of a ring, and what will be when its request is served.
Unread(p) == written[p] - read[p]
Raised(p) == Unread(p) + IF p \in pend THEN 1 ELSE 0
EdgeAt(p, k) ==
  IF k < Unread(p) THEN ring[p][(read[p] + k) % RING_CAP] ELSE edges

Types ==
  /\ TypeOK
  /\ samples \in Seq(SampleItems) /\ fed \in Seq(Items)
  /\ \A p \in Ports : Unread(p) \in Nat /\ Raised(p) <= MaxLag
  /\ ~cen => pc = "resync"

\* The rings side by side.
Level ==
  cen =>
    /\ Raised("pa") = Raised("pb")
    /\ \A k \in 0..(Raised("pa") - 1) :
         EdgeAt("pa", k) = EdgeAt("pb", k) /\ EdgeAt("pa", k) <= edges
    /\ \A j, k \in 0..(Raised("pa") - 1) : j < k => EdgeAt("pa", j) < EdgeAt("pa", k)

\* A sample that has left the rings.
Past(s) ==
  /\ s.pa = s.pb /\ s.pa <= edges
  /\ cen => \A k \in 0..(Raised("pa") - 1) : s.pa < EdgeAt("pa", k)

FedOK ==
  /\ \A i \in 1..Len(fed) : IsSample(i) => Past(fed[i])
  /\ \A i, j \in 1..Len(fed) : i < j /\ IsSample(i) /\ IsSample(j) => fed[i].pa < fed[j].pa

\* fast_drain's locals.
CountOK ==
  /\ pc = "readpb" => want <= Unread("pa")
  /\ pc \in {"readpb", "resync"} => samples = <<>>
  /\ pc = "copy" => /\ want <= DRAIN_CHUNK
                    /\ \A p \in Ports : want <= Unread(p)
CopyOK ==
  pc = "copy" =>
    /\ Len(samples) <= want
    /\ \A i \in 1..Len(samples) :
         samples[i].pa = EdgeAt("pa", i - 1) /\ samples[i].pb = EdgeAt("pb", i - 1)

\* A chunk that was copied and is not yet fed.
UseOK ==
  pc = "use" =>
    /\ \A i \in 1..Len(samples) : Past(samples[i])
    /\ \A i, j \in 1..Len(samples) : i < j => samples[i].pa < samples[j].pa
    /\ \A i \in 1..Len(fed), j \in 1..Len(samples) :
         IsSample(i) => fed[i].pa < samples[j].pa

IInv == Types /\ Level /\ FedOK /\ CountOK /\ CopyOK /\ UseOK

-----------------------------------------------------------------------------
(* Operators. *)

LEMMA Sizes ==
  /\ RING_CAP \in Nat \ {0, 1} /\ MaxLag \in Nat /\ MaxLag < RING_CAP
  /\ DRAIN_CHUNK \in Nat \ {0} /\ DRAIN_CHUNK < RING_CAP
  /\ MaxEdges \in Nat /\ MaxSessions \in Nat
BY CaptureConstants

\* Division with remainder is unique.
LEMMA RemainderIs ==
  ASSUME NEW q \in Nat, NEW r \in 0..(RING_CAP - 1)
  PROVE  (RING_CAP * q + r) % RING_CAP = r
BY Sizes

\* Quotient and remainder.
LEMMA DivMod ==
  ASSUME NEW a \in Nat
  PROVE  /\ a = RING_CAP * (a \div RING_CAP) + (a % RING_CAP)
         /\ a % RING_CAP \in 0..(RING_CAP - 1) /\ a \div RING_CAP \in Nat
BY Sizes

\* The slot of a position, and of one at most a lap further.
LEMMA SlotAhead ==
  ASSUME NEW a \in Nat, NEW j \in 0..RING_CAP
  PROVE  /\ a % RING_CAP \in 0..(RING_CAP - 1)
         /\ (a + j) % RING_CAP =
              IF (a % RING_CAP) + j < RING_CAP THEN (a % RING_CAP) + j
              ELSE (a % RING_CAP) + j - RING_CAP
<1>1. PICK q \in Nat, r \in 0..(RING_CAP - 1) : a = RING_CAP * q + r /\ r = a % RING_CAP
  BY DivMod
<1>2. CASE r + j < RING_CAP
  <2>1. r + j \in 0..(RING_CAP - 1)
    BY <1>2, Sizes
  <2>2. a + j = RING_CAP * q + (r + j)
    BY <1>1, Sizes
  <2>. QED BY <1>1, <1>2, <2>1, <2>2, RemainderIs
<1>3. CASE ~(r + j < RING_CAP)
  <2>1. /\ a + j = RING_CAP * (q + 1) + (r + j - RING_CAP)
        /\ r + j - RING_CAP \in 0..(RING_CAP - 1) /\ q + 1 \in Nat
    BY <1>1, <1>3, Sizes
  <2>. QED BY <1>1, <1>3, <2>1, RemainderIs
<1>. QED BY <1>2, <1>3

\* Positions less than a lap apart share a slot only if they are equal.
LEMMA SameSlot ==
  ASSUME NEW a \in Nat, NEW b \in Nat, a <= b, b < a + RING_CAP, a % RING_CAP = b % RING_CAP
  PROVE  a = b
<1>1. PICK j \in 0..RING_CAP : b = a + j /\ j < RING_CAP
  BY Sizes
<1>2. PICK r \in 0..(RING_CAP - 1) : r = a % RING_CAP
  BY DivMod
<1>3. r = IF r + j < RING_CAP THEN r + j ELSE r + j - RING_CAP
  BY <1>1, <1>2, SlotAhead
<1>4. j = 0
  BY <1>1, <1>3, Sizes
<1>. QED BY <1>1, <1>4

\* Two positions less than a lap apart are as far apart as their slots are.
LEMMA SlotDistance ==
  ASSUME NEW a \in Nat, NEW j \in 0..(RING_CAP - 1)
  PROVE  (((a + j) % RING_CAP) - (a % RING_CAP)) % RING_CAP = j
<1>1. PICK r \in 0..(RING_CAP - 1) : r = a % RING_CAP
  BY DivMod
<1>2. j \in 0..RING_CAP
  BY Sizes
<1>3. (a + j) % RING_CAP = IF r + j < RING_CAP THEN r + j ELSE r + j - RING_CAP
  BY <1>1, <1>2, SlotAhead
<1>4. j % RING_CAP = j
  BY Sizes
<1>5. (j - RING_CAP) % RING_CAP = j
  BY Sizes
<1>. QED BY <1>1, <1>3, <1>4, <1>5, Sizes

LEMMA SlotOf == ASSUME NEW k \in Nat PROVE k % RING_CAP \in Slots
BY Sizes, DivMod DEF Slots

LEMMA LeastOf ==
  ASSUME NEW a \in Nat, NEW b \in Nat, NEW c \in Nat
  PROVE  /\ Least({a, b, c}) \in Nat
         /\ Least({a, b, c}) <= a /\ Least({a, b, c}) <= b /\ Least({a, b, c}) <= c
<1>1. \E m \in {a, b, c} : \A k \in {a, b, c} : m <= k
  <2>1. CASE a <= b /\ a <= c
    BY <2>1
  <2>2. CASE b <= a /\ b <= c
    BY <2>2
  <2>3. CASE c <= a /\ c <= b
    BY <2>3
  <2>. QED BY <2>1, <2>2, <2>3
<1>. QED BY <1>1 DEF Least

LEMMA PortFacts ==
  ASSUME Types, NEW p \in Ports
  PROVE  /\ written[p] \in Nat /\ read[p] \in Nat /\ edges \in Nat /\ edges <= MaxEdges
         /\ Unread(p) \in Nat /\ Unread(p) < RING_CAP /\ Unread(p) = written[p] - read[p]
         /\ Raised(p) \in Nat
         /\ Raised(p) = IF p \in pend THEN Unread(p) + 1 ELSE Unread(p)
<1>1. Raised(p) = IF p \in pend THEN Unread(p) + 1 ELSE Unread(p)
  BY DEF Raised, Types
<1>2. written[p] \in Nat /\ read[p] \in Nat /\ edges \in Nat /\ edges <= MaxEdges
  BY Sizes DEF Types, TypeOK
<1>3. Unread(p) \in Nat /\ Raised(p) <= MaxLag
  BY DEF Types
<1>4. Raised(p) \in Nat /\ Unread(p) < RING_CAP
  BY <1>1, <1>3, Sizes
<1>. QED BY <1>1, <1>2, <1>3, <1>4 DEF Unread

\* NDTR tells the samples unread.
LEMMA AvailIs ==
  ASSUME Types, NEW p \in Ports
  PROVE  Avail(p) = Unread(p)
<1> DEFINE j == Unread(p)
<1>1. /\ read[p] \in Nat /\ j \in Nat /\ j < RING_CAP /\ written[p] = read[p] + j
  BY PortFacts
<1> HIDE DEF j
<1>2. (((read[p] + j) % RING_CAP) - (read[p] % RING_CAP)) % RING_CAP = j
  <2>1. j \in 0..(RING_CAP - 1)
    BY <1>1, Sizes
  <2>. QED BY <1>1, <2>1, SlotDistance
<1>. QED BY <1>1, <1>2 DEF Avail, j

LEMMA EdgeAtRange ==
  ASSUME Types, NEW p \in Ports, NEW k \in Nat
  PROVE  EdgeAt(p, k) \in 0..MaxEdges
<1>1. read[p] + k \in Nat
  BY PortFacts
<1>2. (read[p] + k) % RING_CAP \in Slots
  BY <1>1, SlotOf
<1>3. ring[p][(read[p] + k) % RING_CAP] \in 0..MaxEdges /\ edges \in 0..MaxEdges
  BY <1>2 DEF Types, TypeOK
<1>. QED BY <1>3 DEF EdgeAt

LEMMA SampleTypes ==
  ASSUME Types
  PROVE  /\ \A i \in 1..Len(fed) : IsSample(i) => fed[i] \in SampleItems /\ fed[i].pa \in Nat
         /\ \A i \in 1..Len(samples) : samples[i] \in SampleItems /\ samples[i].pa \in Nat
<1>1. \A i \in 1..Len(fed) : fed[i] \in Items
  BY DEF Types
<1>2. \A i \in 1..Len(samples) : samples[i] \in SampleItems
  BY DEF Types
<1>3. \A x \in SampleItems : x.pa \in Nat
  BY DEF SampleItems
<1>4. \A x \in Items : x.kind = "sample" => x \in SampleItems
  BY DEF Items, Gap, Begin
<1>. QED BY <1>1, <1>2, <1>3, <1>4 DEF IsSample

\* A step after which the rings hold what they held.
LEMMA SameRings ==
  ASSUME Level, edges' = edges, cen' \in BOOLEAN, cen' => cen,
         \A p \in Ports : Raised(p)' = Raised(p),
         \A p \in Ports : \A k \in 0..(Raised(p) - 1) : EdgeAt(p, k)' = EdgeAt(p, k)
  PROVE  Level' /\ \A s : Past(s) => Past(s)'
<1>1. "pa" \in Ports /\ "pb" \in Ports
  BY DEF Ports
<1>2. Level'
  BY <1>1 DEF Level
<1>3. \A s : Past(s) => Past(s)'
  BY <1>1 DEF Past
<1>. QED BY <1>2, <1>3

\* A step of the loop alone.
LEMMA LoopStep ==
  ASSUME Types, UNCHANGED hardware, UNCHANGED read
  PROVE  /\ \A p \in Ports : Unread(p)' = Unread(p) /\ Raised(p)' = Raised(p)
         /\ \A p \in Ports : \A k : EdgeAt(p, k)' = EdgeAt(p, k)
<1>1. UNCHANGED <<edges, cen, pend, ring, written, read>>
  BY DEF hardware
<1>. QED BY <1>1 DEF Unread, Raised, EdgeAt

\* What stays for a step of the loop alone that leaves fed.
LEMMA QuietStep ==
  ASSUME IInv, UNCHANGED hardware, UNCHANGED <<read, fed>>
  PROVE  /\ Level' /\ FedOK'
         /\ \A p \in Ports : Unread(p)' \in Nat /\ Raised(p)' <= MaxLag
         /\ \A s : Past(s) => Past(s)'
<1>1. Level' /\ (\A s : Past(s) => Past(s)')
  BY LoopStep, SameRings DEF IInv, Types, TypeOK, hardware
<1>2. \A p \in Ports : Unread(p)' \in Nat /\ Raised(p)' <= MaxLag
  BY LoopStep DEF IInv, Types
<1>3. \A i \in 1..Len(fed) : IsSample(i)' <=> IsSample(i)
  BY DEF IsSample
<1>4. FedOK'
  BY <1>1, <1>3 DEF IInv, FedOK
<1>. QED BY <1>1, <1>2, <1>4

\* Steps that put the loop where no chunk is in hand.
LEMMA Elsewhere ==
  ASSUME pc' \in {"commands", "drain", "report"}
  PROVE  CountOK' /\ CopyOK' /\ UseOK'
BY DEF CountOK, CopyOK, UseOK

-----------------------------------------------------------------------------
(* The hardware. *)

LEMMA InitHolds == Init => IInv
<1> SUFFICES ASSUME Init PROVE IInv
  OBVIOUS
<1>1. \A p \in Ports : written[p] = 0 /\ read[p] = 0 /\ Unread(p) = 0 /\ Raised(p) = 0
  BY DEF Init, Unread, Raised
<1>2. TypeOK
  <2>1. ring \in [Ports -> [Slots -> 0..MaxEdges]] /\ 0 \in Slots /\ 0 \in 0..MaxEdges
        /\ 0 \in 0..MaxSessions /\ 0 \in 0..RING_CAP
    BY Sizes DEF Init, Slots
  <2>2. written \in [Ports -> Nat] /\ read \in [Ports -> Nat]
    BY DEF Init
  <2>3. \A p \in Ports : written[p] - read[p] \in 0..RING_CAP
    BY <1>1, <2>1
  <2>4. Len(samples) <= DRAIN_CHUNK
    BY Sizes DEF Init
  <2>. QED BY <2>1, <2>2, <2>3, <2>4 DEF Init, TypeOK
<1>3. Types
  BY <1>1, <1>2, Sizes DEF Init, Types
<1>4. Level
  <2>1. "pa" \in Ports /\ "pb" \in Ports
    BY DEF Ports
  <2>. QED BY <1>1, <2>1 DEF Level
<1>5. FedOK /\ CountOK /\ CopyOK /\ UseOK
  BY DEF Init, FedOK, CountOK, CopyOK, UseOK
<1>. QED BY <1>3, <1>4, <1>5 DEF IInv

\* What an edge does to the loop's side, once the rings are seen to.
LEMMA EdgeRest ==
  ASSUME IInv, edges' \in 0..MaxEdges, edges <= edges', pend' \subseteq Ports, Level',
         \A p \in Ports : Unread(p)' = Unread(p) /\ Raised(p)' <= MaxLag,
         \A s : Past(s) /\ s.pa \in Nat => Past(s)',
         UNCHANGED <<cen, ring, written, woken, read, dropped, streaming, pc, phase, want,
                     samples, fed, sessions>>
  PROVE  IInv'
<1>1. Types'
  BY DEF IInv, Types, TypeOK
<1>2. \A i : IsSample(i)' <=> IsSample(i)
  BY DEF IsSample
<1>3. /\ \A i \in 1..Len(fed) : IsSample(i) => fed[i].pa \in Nat
      /\ \A i \in 1..Len(samples) : samples[i].pa \in Nat
  BY SampleTypes DEF IInv
<1>4. FedOK'
  BY <1>2, <1>3 DEF IInv, FedOK
<1>5. CountOK' /\ UseOK'
  <2>1. CountOK'
    <3>1. "pa" \in Ports
      BY DEF Ports
    <3>. QED BY <3>1 DEF IInv, CountOK
  <2>2. UseOK'
    BY <1>2, <1>3 DEF IInv, UseOK
  <2>. QED BY <2>1, <2>2
<1>6. CopyOK'
  <2> SUFFICES ASSUME pc = "copy", NEW i \in 1..Len(samples)
               PROVE  EdgeAt("pa", i - 1)' = EdgeAt("pa", i - 1) /\ EdgeAt("pb", i - 1)' = EdgeAt("pb", i - 1)
    BY DEF IInv, CopyOK
  <2>1. /\ Len(samples) \in Nat /\ Len(samples) <= want /\ want \in Nat
        /\ "pa" \in Ports /\ "pb" \in Ports
        /\ \A p \in Ports : want <= Unread(p) /\ Unread(p) \in Nat
    BY DEF IInv, Types, TypeOK, CountOK, CopyOK, Slots, Ports
  <2>2. i - 1 < Unread("pa") /\ i - 1 < Unread("pb")
    BY <2>1
  <2>. QED BY <2>1, <2>2 DEF EdgeAt
<1>. QED BY <1>1, <1>4, <1>5, <1>6 DEF IInv

\* A counted edge raises the same new sample on both sides.
LEMMA EdgeKeeps ==
  ASSUME IInv, Edge
  PROVE  IInv'
<1>1. /\ edges < MaxEdges /\ edges' = edges + 1
      /\ UNCHANGED <<cen, ring, written, woken, read, dropped, streaming, pc, phase, want,
                     samples, fed, sessions>>
  BY DEF Edge, loop
<1>2. /\ edges \in Nat /\ edges' \in 0..MaxEdges
  BY <1>1, Sizes DEF IInv, Types, TypeOK
<1>3. \A p : Unread(p)' = Unread(p)
  BY <1>1 DEF Unread
<1>4. \A p \in Ports : \A k \in Nat : k < Unread(p) => EdgeAt(p, k)' = EdgeAt(p, k)
  BY <1>1, <1>3 DEF EdgeAt
<1>5. \A i : IsSample(i)' <=> IsSample(i)
  BY <1>1 DEF IsSample
<1>6. CASE cen
  <2>1. /\ pend = {} /\ pend' = Ports
        /\ \A p \in Ports : written[p] - read[p] < MaxLag
    BY <1>6 DEF Edge
  <2>2. ASSUME NEW p \in Ports
        PROVE  /\ Raised(p) = Unread(p) /\ Raised(p)' = Unread(p) + 1 /\ Unread(p) \in Nat
               /\ Raised(p)' <= MaxLag
               /\ EdgeAt(p, Unread(p))' = edges'
    <3>1. Unread(p) \in Nat /\ Unread(p) < MaxLag
      BY <2>1, PortFacts DEF IInv
    <3>2. Raised(p)' = Unread(p)' + 1
      BY <2>1 DEF Raised
    <3>3. EdgeAt(p, Unread(p))' = edges'
      BY <1>3, <3>1 DEF EdgeAt
    <3>4. Raised(p) = Unread(p)
      BY <2>1, PortFacts DEF IInv
    <3>. QED BY <1>3, <3>1, <3>2, <3>3, <3>4, Sizes
  <2>3. "pa" \in Ports /\ "pb" \in Ports
    BY DEF Ports
  <2> PICK u \in Nat : u = Unread("pa")
    BY <2>2, <2>3
  <2>4. /\ Raised("pa") = Raised("pb") /\ Unread("pb") = u
        /\ \A k \in 0..(u - 1) : EdgeAt("pa", k) = EdgeAt("pb", k) /\ EdgeAt("pa", k) <= edges
        /\ \A j, k \in 0..(u - 1) : j < k => EdgeAt("pa", j) < EdgeAt("pa", k)
    BY <1>6, <2>2, <2>3 DEF IInv, Level
  <2>5. \A k \in 0..u : k \in 0..(u - 1) \/ k = u
    OBVIOUS
  <2>6. ASSUME NEW k \in 0..(u - 1)
        PROVE  /\ EdgeAt("pa", k) \in Nat
               /\ EdgeAt("pa", k)' = EdgeAt("pa", k)
               /\ EdgeAt("pb", k)' = EdgeAt("pb", k)
    <3>1. k \in Nat /\ k < Unread("pa") /\ k < Unread("pb")
      BY <2>4
    <3>. QED BY <1>4, <2>3, <3>1, EdgeAtRange DEF IInv
  <2>7. /\ Raised("pa")' - 1 = u /\ Raised("pa")' = Raised("pb")'
        /\ EdgeAt("pa", u)' = edges' /\ EdgeAt("pb", u)' = edges'
    <3>1. Unread("pa")' = u /\ Unread("pb")' = u
      BY <1>3, <2>4
    <3>2. EdgeAt("pa", u)' = edges' /\ EdgeAt("pb", u)' = edges'
      BY <3>1 DEF EdgeAt
    <3>. QED BY <2>2, <2>3, <2>4, <3>2
  <2>8. ASSUME NEW k \in 0..u
        PROVE  EdgeAt("pa", k)' = EdgeAt("pb", k)' /\ EdgeAt("pa", k)' <= edges'
    <3>1. CASE k \in 0..(u - 1)
      BY <1>1, <1>2, <2>4, <2>6, <3>1
    <3>2. CASE k = u
      BY <1>2, <2>7, <3>2
    <3>. QED BY <2>5, <3>1, <3>2
  <2>9. ASSUME NEW j \in 0..u, NEW k \in 0..u, j < k
        PROVE  EdgeAt("pa", j)' < EdgeAt("pa", k)'
    <3>1. j \in 0..(u - 1)
      BY <2>9
    <3>2. CASE k \in 0..(u - 1)
      BY <2>4, <2>6, <2>9, <3>1, <3>2
    <3>3. CASE k = u
      BY <1>1, <1>2, <2>4, <2>6, <2>7, <3>1, <3>3
    <3>. QED BY <2>5, <3>2, <3>3
  <2>10. Level'
    BY <2>7, <2>8, <2>9 DEF Level
  <2>11. ASSUME NEW s, Past(s), s.pa \in Nat PROVE Past(s)'
    <3>1. s.pa = s.pb /\ s.pa <= edges /\ \A k \in 0..(u - 1) : s.pa < EdgeAt("pa", k)
      BY <1>6, <2>2, <2>3, <2>11 DEF Past
    <3>2. ASSUME NEW k \in 0..u PROVE s.pa < EdgeAt("pa", k)'
      <4>1. CASE k \in 0..(u - 1)
        BY <2>6, <3>1, <4>1
      <4>2. CASE k = u
        BY <1>1, <1>2, <2>7, <2>11, <3>1, <4>2
      <4>. QED BY <2>5, <4>1, <4>2
    <3>. QED BY <1>1, <1>2, <2>7, <2>11, <3>1, <3>2 DEF Past
  <2>12. edges' \in 0..MaxEdges /\ edges <= edges' /\ pend' \subseteq Ports
    BY <1>1, <1>2, <2>1
  <2>. QED BY <1>1, <1>3, <2>2, <2>10, <2>11, <2>12, EdgeRest
<1>7. CASE ~cen
  <2>1. pend' = pend
    BY <1>7 DEF Edge
  <2>2. \A p : Raised(p)' = Raised(p)
    BY <1>3, <2>1 DEF Raised
  <2>3. Level' /\ pend' \subseteq Ports /\ \A p \in Ports : Raised(p)' <= MaxLag
    BY <1>1, <1>7, <2>1, <2>2 DEF Level, IInv, Types, TypeOK
  <2>4. ASSUME NEW s, Past(s), s.pa \in Nat PROVE Past(s)'
    BY <1>1, <1>2, <1>7, <2>4 DEF Past
  <2>. QED BY <1>1, <1>2, <1>3, <2>3, <2>4, EdgeRest
<1>. QED BY <1>6, <1>7

\* A request that is served writes the sample it stood for.
LEMMA DmaRings ==
  ASSUME IInv, NEW p \in Ports, Dma(p)
  PROVE  /\ \A q \in Ports : /\ Raised(q)' = Raised(q) /\ Unread(q)' \in Nat
                             /\ Unread(q) <= Unread(q)' /\ Unread(q)' <= Unread(q) + 1
         /\ \A q \in Ports : \A k \in 0..(Raised(q) - 1) : EdgeAt(q, k)' = EdgeAt(q, k)
<1>1. /\ p \in pend /\ pend' = pend \ {p}
      /\ ring' = [ring EXCEPT ![p][written[p] % RING_CAP] = edges]
      /\ written' = [written EXCEPT ![p] = @ + 1]
      /\ UNCHANGED <<edges, cen, read, dropped, streaming, pc, phase, want, samples, fed, sessions>>
  BY DEF Dma, loop
<1>2. /\ ring \in [Ports -> [Slots -> 0..MaxEdges]]
      /\ written \in [Ports -> Nat] /\ read \in [Ports -> Nat] /\ edges \in 0..MaxEdges
  BY DEF IInv, Types, TypeOK
<1>3. /\ Unread(p) \in Nat /\ Raised(p) = Unread(p) + 1 /\ Raised(p) <= MaxLag
      /\ written[p] = read[p] + Unread(p)
  BY <1>1, PortFacts DEF IInv, Types
<1>4. Unread(p)' = Unread(p) + 1 /\ Raised(p)' = Raised(p)
  <2>1. Unread(p)' = Unread(p) + 1
    BY <1>1, <1>2, <1>3 DEF Unread
  <2>2. Raised(p)' = Unread(p)' + 0
    BY <1>1 DEF Raised
  <2>. QED BY <1>3, <2>1, <2>2
<1>5. ASSUME NEW q \in Ports, q # p
      PROVE  /\ Unread(q)' = Unread(q) /\ Raised(q)' = Raised(q)
             /\ \A k : EdgeAt(q, k)' = EdgeAt(q, k)
  <2>1. written'[q] = written[q] /\ read'[q] = read[q] /\ ring'[q] = ring[q]
        /\ (q \in pend' <=> q \in pend)
    BY <1>1, <1>2, <1>5
  <2>. QED BY <1>1, <2>1 DEF Unread, Raised, EdgeAt
<1>6. ASSUME NEW k \in 0..(Raised(p) - 1) PROVE EdgeAt(p, k)' = EdgeAt(p, k)
  <2>1. k \in Nat /\ k <= Unread(p) /\ Unread(p) < RING_CAP /\ Unread(p)' = Unread(p) + 1
    BY <1>3, <1>4, Sizes
  <2>2. EdgeAt(p, k)' = ring'[p][(read[p] + k) % RING_CAP]
    BY <1>1, <1>3, <2>1 DEF EdgeAt
  <2>3. /\ read[p] + k \in Nat /\ (read[p] + k) % RING_CAP \in Slots
        /\ written[p] \in Nat /\ written[p] % RING_CAP \in Slots
    BY <1>2, <2>1, SlotOf
  <2>4. CASE k = Unread(p)
    <3>1. EdgeAt(p, k) = edges
      BY <1>3, <2>4 DEF EdgeAt
    <3>2. (read[p] + k) % RING_CAP = written[p] % RING_CAP
      BY <1>3, <2>4
    <3>. QED BY <1>1, <1>2, <2>2, <2>3, <3>1, <3>2
  <2>5. CASE k < Unread(p)
    <3>1. EdgeAt(p, k) = ring[p][(read[p] + k) % RING_CAP]
      BY <2>5 DEF EdgeAt
    <3>2. (read[p] + k) % RING_CAP # written[p] % RING_CAP
      <4>1. /\ read[p] + k <= written[p] /\ written[p] < (read[p] + k) + RING_CAP
            /\ read[p] + k # written[p]
        BY <1>2, <1>3, <2>1, <2>5, Sizes
      <4>. QED BY <2>3, <4>1, Sizes, SameSlot
    <3>. QED BY <1>1, <1>2, <2>2, <2>3, <3>1, <3>2
  <2>. QED BY <1>3, <2>1, <2>4, <2>5
<1>7. ASSUME NEW q \in Ports
      PROVE  /\ Raised(q)' = Raised(q) /\ Unread(q)' \in Nat
             /\ Unread(q) <= Unread(q)' /\ Unread(q)' <= Unread(q) + 1
             /\ \A k \in 0..(Raised(q) - 1) : EdgeAt(q, k)' = EdgeAt(q, k)
  <2>1. CASE q = p
    BY <1>3, <1>4, <1>6, <2>1
  <2>2. CASE q # p
    <3>1. Unread(q) \in Nat
      BY PortFacts DEF IInv
    <3>. QED BY <1>5, <2>2, <3>1
  <2>. QED BY <2>1, <2>2
<1>. QED BY <1>7

LEMMA DmaKeeps ==
  ASSUME IInv, NEW p \in Ports, Dma(p)
  PROVE  IInv'
<1>1. /\ p \in pend /\ pend' = pend \ {p}
      /\ ring' = [ring EXCEPT ![p][written[p] % RING_CAP] = edges]
      /\ written' = [written EXCEPT ![p] = @ + 1]
      /\ UNCHANGED <<edges, cen, read, dropped, streaming, pc, phase, want, samples, fed, sessions>>
  BY DEF Dma, loop
<1>2. /\ ring \in [Ports -> [Slots -> 0..MaxEdges]]
      /\ written \in [Ports -> Nat] /\ read \in [Ports -> Nat] /\ edges \in 0..MaxEdges
  BY DEF IInv, Types, TypeOK
<1>3. /\ \A q \in Ports : /\ Raised(q)' = Raised(q) /\ Unread(q)' \in Nat
                          /\ Unread(q) <= Unread(q)' /\ Unread(q)' <= Unread(q) + 1
      /\ \A q \in Ports : \A k \in 0..(Raised(q) - 1) : EdgeAt(q, k)' = EdgeAt(q, k)
  BY DmaRings
<1>4. Level' /\ \A s : Past(s) => Past(s)'
  BY <1>1, <1>3, SameRings DEF IInv, Types, TypeOK
<1>5. Types'
  <2>1. ring' \in [Ports -> [Slots -> 0..MaxEdges]]
    <3>1. written[p] % RING_CAP \in Slots
      BY <1>2, SlotOf
    <3>. QED BY <1>1, <1>2, <3>1
  <2>2. written' \in [Ports -> Nat]
    BY <1>1, <1>2
  <2>3. \A q \in Ports : written'[q] - read'[q] \in 0..RING_CAP
    <3> SUFFICES ASSUME NEW q \in Ports PROVE Unread(q)' \in 0..RING_CAP
      BY DEF Unread
    <3>1. Unread(q) \in Nat /\ Unread(q) < RING_CAP
      BY PortFacts DEF IInv
    <3>. QED BY <1>3, <3>1, Sizes
  <2>4. \A q \in Ports : Raised(q)' <= MaxLag
    BY <1>3 DEF IInv, Types
  <2>5. woken' \in BOOLEAN
    BY DEF Dma, IInv, Types, TypeOK
  <2>. QED BY <1>1, <1>3, <2>1, <2>2, <2>3, <2>4, <2>5 DEF IInv, Types, TypeOK
<1>6. \A i : IsSample(i)' <=> IsSample(i)
  BY <1>1 DEF IsSample
<1>7. FedOK' /\ UseOK'
  <2>1. FedOK'
    BY <1>1, <1>4, <1>6 DEF IInv, FedOK
  <2>2. UseOK'
    BY <1>1, <1>4, <1>6 DEF IInv, UseOK
  <2>. QED BY <2>1, <2>2
<1>8. CountOK'
  <2>1. "pa" \in Ports
    BY DEF Ports
  <2>2. want \in Nat
    BY DEF IInv, Types, TypeOK, Slots
  <2>3. \A q \in Ports : want <= Unread(q) => want <= Unread(q)'
    BY <1>3, <2>2, PortFacts DEF IInv
  <2>. QED BY <1>1, <2>1, <2>3 DEF IInv, CountOK
<1>9. CopyOK'
  <2> SUFFICES ASSUME pc = "copy", NEW i \in 1..Len(samples)
               PROVE  EdgeAt("pa", i - 1)' = EdgeAt("pa", i - 1) /\ EdgeAt("pb", i - 1)' = EdgeAt("pb", i - 1)
    BY <1>1 DEF IInv, CopyOK
  <2>1. /\ Len(samples) \in Nat /\ Len(samples) <= want /\ want \in Nat
        /\ "pa" \in Ports /\ "pb" \in Ports
        /\ \A q \in Ports : want <= Unread(q)
    BY DEF IInv, Types, TypeOK, CountOK, CopyOK, Slots, Ports
  <2>2. \A q \in Ports : Raised(q) \in Nat /\ Unread(q) \in Nat /\ Unread(q) <= Raised(q)
    BY PortFacts DEF IInv
  <2>3. i - 1 \in 0..(Raised("pa") - 1) /\ i - 1 \in 0..(Raised("pb") - 1)
    BY <2>1, <2>2
  <2>. QED BY <1>3, <2>1, <2>3
<1>. QED BY <1>4, <1>5, <1>7, <1>8, <1>9 DEF IInv

-----------------------------------------------------------------------------
(* fast_drain and hard_resync. *)

LEMMA ReadPaKeeps ==
  ASSUME IInv, ReadPa
  PROVE  IInv'
<1>1. /\ pc = "drain" /\ want' = Avail("pa") /\ samples' = <<>> /\ pc' = "readpb"
      /\ UNCHANGED hardware /\ UNCHANGED <<read, dropped, streaming, phase, fed, sessions>>
  BY DEF ReadPa
<1>2. "pa" \in Ports
  BY DEF Ports
<1>3. want' = Unread("pa") /\ want' \in Slots /\ Unread("pa")' = Unread("pa")
  <2>1. want' = Unread("pa") /\ Unread("pa") \in Nat /\ Unread("pa") < RING_CAP
    BY <1>1, <1>2, AvailIs, PortFacts DEF IInv
  <2>2. Unread("pa")' = Unread("pa")
    BY <1>1, <1>2, LoopStep DEF IInv
  <2>. QED BY <2>1, <2>2, Sizes DEF Slots
<1>4. /\ Level' /\ FedOK' /\ \A p \in Ports : Unread(p)' \in Nat /\ Raised(p)' <= MaxLag
  BY <1>1, QuietStep
<1>5. Types'
  BY <1>1, <1>3, <1>4, Sizes DEF hardware, IInv, Types, TypeOK
<1>6. CountOK' /\ CopyOK' /\ UseOK'
  <2>1. Unread("pa") \in Nat
    BY <1>2, PortFacts DEF IInv
  <2>. QED BY <1>1, <1>3, <2>1 DEF CountOK, CopyOK, UseOK
<1>. QED BY <1>4, <1>5, <1>6 DEF IInv

\* PA's count is stale and only errs on the safe side.
LEMMA ReadPbKeeps ==
  ASSUME IInv, ReadPb
  PROVE  IInv'
<1>1. /\ pc = "readpb" /\ samples = <<>> /\ samples' = <<>>
      /\ UNCHANGED hardware /\ UNCHANGED <<read, dropped, streaming, phase, fed, sessions>>
  BY DEF ReadPb, IInv, CountOK
<1>2. "pa" \in Ports /\ "pb" \in Ports /\ \A p \in Ports : p = "pa" \/ p = "pb"
  BY DEF Ports
<1>3. /\ Level' /\ FedOK' /\ \A p \in Ports : Unread(p)' \in Nat /\ Raised(p)' <= MaxLag
  BY <1>1, QuietStep
<1>4. CASE pc' = "resync" /\ want' = 0
  <2>1. 0 \in Slots
    BY Sizes DEF Slots
  <2>2. Types'
    BY <1>1, <1>3, <1>4, <2>1, Sizes DEF hardware, IInv, Types, TypeOK
  <2>3. CountOK' /\ CopyOK' /\ UseOK'
    BY <1>1, <1>4 DEF CountOK, CopyOK, UseOK
  <2>. QED BY <1>3, <2>2, <2>3 DEF IInv
<1>5. CASE pc' = "copy" /\ want' = Count(want, Avail("pb"))
  <2>1. /\ want \in Nat /\ want <= Unread("pa") /\ Avail("pb") = Unread("pb")
        /\ Unread("pb") \in Nat /\ Unread("pa") \in Nat /\ Unread("pa") < RING_CAP
    <3>1. want \in Nat /\ want <= Unread("pa")
      BY <1>1 DEF IInv, Types, TypeOK, CountOK, Slots
    <3>2. /\ Avail("pb") = Unread("pb") /\ Unread("pb") \in Nat
          /\ Unread("pa") \in Nat /\ Unread("pa") < RING_CAP
      BY <1>2, AvailIs, PortFacts DEF IInv
    <3>. QED BY <3>1, <3>2
  <2>2. /\ want' \in Nat /\ want' <= want /\ want' <= Unread("pb") /\ want' <= DRAIN_CHUNK
    BY <1>5, <2>1, Sizes, LeastOf DEF Count
  <2>3. want' \in Slots /\ \A p \in Ports : want' <= Unread(p)
    BY <1>2, <2>1, <2>2, Sizes DEF Slots
  <2>4. Types'
    BY <1>1, <1>3, <1>5, <2>3, Sizes DEF hardware, IInv, Types, TypeOK
  <2>5. \A p \in Ports : Unread(p)' = Unread(p)
    BY <1>1, LoopStep DEF IInv
  <2>6. CountOK'
    BY <1>5, <2>2, <2>3, <2>5 DEF CountOK
  <2>7. CopyOK' /\ UseOK'
    BY <1>1, <1>5, <2>2 DEF CopyOK, UseOK
  <2>. QED BY <1>3, <2>4, <2>6, <2>7 DEF IInv
<1>. QED BY <1>4, <1>5 DEF ReadPb

LEMMA CopySampleKeeps ==
  ASSUME IInv, CopySample
  PROVE  IInv'
<1> DEFINE i == Len(samples)
           slot(p) == (read[p] + i) % RING_CAP
           x == Sample(ring["pa"][slot("pa")], ring["pb"][slot("pb")])
<1>1. /\ pc = "copy" /\ pc' = "copy" /\ i < want /\ samples' = Append(samples, x)
      /\ UNCHANGED hardware
      /\ UNCHANGED <<read, dropped, streaming, phase, want, fed, sessions>>
  BY DEF CopySample
<1>2. "pa" \in Ports /\ "pb" \in Ports
  BY DEF Ports
<1>3. /\ i \in Nat /\ want \in Nat /\ samples \in Seq(SampleItems)
      /\ want <= DRAIN_CHUNK /\ \A p \in Ports : want <= Unread(p) /\ Unread(p) \in Nat
  <2>1. samples \in Seq(SampleItems) /\ i \in Nat
    BY DEF IInv, Types
  <2>2. want \in Nat
    BY DEF IInv, Types, TypeOK, Slots
  <2>3. want <= DRAIN_CHUNK /\ \A p \in Ports : want <= Unread(p)
    BY <1>1 DEF IInv, CountOK
  <2>4. \A p \in Ports : Unread(p) \in Nat
    BY DEF IInv, Types
  <2>. QED BY <2>1, <2>2, <2>3, <2>4
<1>4. x.pa = EdgeAt("pa", i) /\ x.pb = EdgeAt("pb", i)
  <2>1. i < Unread("pa") /\ i < Unread("pb")
    BY <1>1, <1>2, <1>3
  <2>. QED BY <2>1 DEF EdgeAt, Sample
<1>5. x \in SampleItems
  <2>1. EdgeAt("pa", i) \in 0..MaxEdges /\ EdgeAt("pb", i) \in 0..MaxEdges
    BY <1>2, <1>3, EdgeAtRange DEF IInv
  <2>2. x = [kind |-> "sample", pa |-> x.pa, pb |-> x.pb]
    BY DEF Sample
  <2>. QED BY <1>4, <2>1, <2>2 DEF SampleItems
<1> HIDE DEF x
<1>6. /\ samples' \in Seq(SampleItems) /\ Len(samples') = i + 1
      /\ samples'[i + 1] = x /\ \A k \in 1..i : samples'[k] = samples[k]
  BY <1>1, <1>3, <1>5
<1>7. /\ Level' /\ FedOK' /\ \A p \in Ports : Unread(p)' \in Nat /\ Raised(p)' <= MaxLag
  BY <1>1, QuietStep
<1>8. Types'
  <2>1. Len(samples') <= DRAIN_CHUNK
    BY <1>1, <1>3, <1>6, Sizes
  <2>. QED BY <1>1, <1>6, <1>7, <2>1 DEF hardware, IInv, Types, TypeOK
<1>9. \A p \in Ports : Unread(p)' = Unread(p) /\ \A k : EdgeAt(p, k)' = EdgeAt(p, k)
  BY <1>1, LoopStep DEF IInv
<1>10. CountOK' /\ UseOK'
  BY <1>1, <1>3, <1>9 DEF CountOK, UseOK
<1>11. CopyOK'
  <2>1. Len(samples') <= want'
    BY <1>1, <1>3, <1>6
  <2>2. ASSUME NEW k \in 1..Len(samples')
        PROVE  samples'[k].pa = EdgeAt("pa", k - 1) /\ samples'[k].pb = EdgeAt("pb", k - 1)
    <3>1. k \in 1..i \/ k = i + 1
      BY <1>3, <1>6
    <3>2. CASE k \in 1..i
      BY <1>1, <1>6, <3>2 DEF IInv, CopyOK
    <3>3. CASE k = i + 1
      <4>1. k - 1 = i
        BY <1>3, <3>3
      <4>. QED BY <1>4, <1>6, <3>3, <4>1
    <3>. QED BY <3>1, <3>2, <3>3
  <2>. QED BY <1>1, <1>2, <1>9, <2>1, <2>2 DEF CopyOK
<1>. QED BY <1>7, <1>8, <1>10, <1>11 DEF IInv

\* What was copied leaves the rings.
LEMMA CopyDoneRings ==
  ASSUME IInv, CopyDone
  PROVE  /\ want \in Nat
         /\ \A p \in Ports :
              /\ want <= Unread(p)
              /\ Unread(p)' = Unread(p) - want /\ Unread(p)' \in Nat
              /\ Raised(p)' = Raised(p) - want /\ Raised(p)' <= MaxLag
              /\ Raised(p) \in Nat /\ read'[p] = read[p] + want
         /\ \A p \in Ports, k \in Nat : EdgeAt(p, k)' = EdgeAt(p, want + k)
<1>1. /\ pc = "copy" /\ pc' = "use" /\ Len(samples) = want
      /\ read' = [p \in Ports |-> read[p] + want]
      /\ UNCHANGED <<edges, cen, pend, ring, written, woken>>
      /\ UNCHANGED <<dropped, streaming, phase, want, samples, fed, sessions>>
  BY DEF CopyDone, hardware
<1>2. "pa" \in Ports /\ "pb" \in Ports
  BY DEF Ports
<1>3. want \in Nat /\ \A p \in Ports : want <= Unread(p)
  BY <1>1 DEF IInv, Types, TypeOK, CountOK, Slots
<1>4. ASSUME NEW p \in Ports
      PROVE  /\ Unread(p)' = Unread(p) - want /\ Unread(p)' \in Nat
             /\ Raised(p)' = Raised(p) - want /\ Raised(p)' <= MaxLag
             /\ Raised(p) \in Nat /\ read'[p] = read[p] + want
  <2>1. read'[p] = read[p] + want /\ read[p] \in Nat /\ written[p] \in Nat /\ Unread(p) \in Nat
        /\ Unread(p) = written[p] - read[p] /\ Raised(p) \in Nat
    BY <1>1, PortFacts DEF IInv
  <2>2. Unread(p)' = Unread(p) - want
    BY <1>1, <1>3, <2>1 DEF Unread
  <2>3. Raised(p) = (IF p \in pend THEN Unread(p) + 1 ELSE Unread(p))
    BY PortFacts DEF IInv
  <2>4. Raised(p)' = Unread(p)' + IF p \in pend THEN 1 ELSE 0
    BY <1>1 DEF Raised
  <2>5. Unread(p)' \in Nat /\ Raised(p)' = Raised(p) - want
    BY <1>3, <2>1, <2>2, <2>3, <2>4
  <2>6. Raised(p) <= MaxLag
    BY DEF IInv, Types
  <2>. QED BY <1>3, <2>1, <2>2, <2>5, <2>6, Sizes
<1>5. ASSUME NEW p \in Ports, NEW k \in Nat PROVE EdgeAt(p, k)' = EdgeAt(p, want + k)
  <2>1. /\ Unread(p) \in Nat /\ read[p] \in Nat
        /\ read'[p] = read[p] + want /\ Unread(p)' = Unread(p) - want
    BY <1>4, PortFacts DEF IInv
  <2>2. (k < Unread(p)') <=> (want + k < Unread(p))
    BY <1>3, <2>1
  <2>3. read'[p] + k = read[p] + (want + k)
    BY <1>3, <2>1
  <2>. QED BY <1>1, <2>2, <2>3 DEF EdgeAt
<1>. QED BY <1>3, <1>4, <1>5

LEMMA CopyDoneKeeps ==
  ASSUME IInv, CopyDone
  PROVE  IInv'
<1>1. /\ pc = "copy" /\ pc' = "use" /\ Len(samples) = want
      /\ read' = [p \in Ports |-> read[p] + want]
      /\ UNCHANGED <<edges, cen, pend, ring, written, woken>>
      /\ UNCHANGED <<dropped, streaming, phase, want, samples, fed, sessions>>
  BY DEF CopyDone, hardware
<1>2. "pa" \in Ports /\ "pb" \in Ports
  BY DEF Ports
<1>3. want \in Nat /\ \A p \in Ports : want <= Unread(p)
  BY CopyDoneRings
<1>4. ASSUME NEW p \in Ports
      PROVE  /\ Unread(p)' = Unread(p) - want /\ Unread(p)' \in Nat
             /\ Raised(p)' = Raised(p) - want /\ Raised(p)' <= MaxLag
             /\ Raised(p) \in Nat /\ read'[p] = read[p] + want
  BY CopyDoneRings
<1>5. \A p \in Ports, k \in Nat : EdgeAt(p, k)' = EdgeAt(p, want + k)
  BY CopyDoneRings
<1>6. cen
  BY <1>1 DEF IInv, Types
<1>7. Types'
  <2>1. read' \in [Ports -> Nat]
    BY <1>1, <1>3 DEF IInv, Types, TypeOK
  <2>2. \A p \in Ports : written'[p] - read'[p] \in 0..RING_CAP
    <3> SUFFICES ASSUME NEW p \in Ports PROVE Unread(p)' \in 0..RING_CAP
      BY DEF Unread
    <3>1. Unread(p)' \in Nat /\ Unread(p)' = Unread(p) - want /\ Unread(p) < RING_CAP /\ Unread(p) \in Nat
      BY <1>4, PortFacts DEF IInv
    <3>. QED BY <1>3, <3>1, Sizes
  <2>. QED BY <1>1, <1>4, <1>6, <2>1, <2>2 DEF IInv, Types, TypeOK
<1>8. \A k \in 0..(Raised("pa")' - 1) :
        /\ k \in Nat /\ want + k \in 0..(Raised("pa") - 1)
        /\ EdgeAt("pa", k)' = EdgeAt("pa", want + k) /\ EdgeAt("pb", k)' = EdgeAt("pb", want + k)
  <2> SUFFICES ASSUME NEW k \in 0..(Raised("pa")' - 1)
               PROVE  k \in Nat /\ want + k \in 0..(Raised("pa") - 1)
    BY <1>2, <1>5
  <2>1. Raised("pa")' = Raised("pa") - want /\ Raised("pa") \in Nat
    BY <1>2, <1>4
  <2>. QED BY <1>3, <2>1
<1>9. Level'
  <2>1. Raised("pa")' = Raised("pb")'
    BY <1>2, <1>4, <1>6 DEF IInv, Level
  <2>2. ASSUME NEW k \in 0..(Raised("pa")' - 1)
        PROVE  EdgeAt("pa", k)' = EdgeAt("pb", k)' /\ EdgeAt("pa", k)' <= edges'
    BY <1>1, <1>6, <1>8 DEF IInv, Level
  <2>3. ASSUME NEW j \in 0..(Raised("pa")' - 1), NEW k \in 0..(Raised("pa")' - 1), j < k
        PROVE  EdgeAt("pa", j)' < EdgeAt("pa", k)'
    <3>1. want + j < want + k
      BY <1>3, <1>8, <2>3
    <3>. QED BY <1>6, <1>8, <3>1 DEF IInv, Level
  <2>. QED BY <2>1, <2>2, <2>3 DEF Level
<1>10. \A s : Past(s) => Past(s)'
  BY <1>1, <1>6, <1>8 DEF Past
<1>11. \A i : IsSample(i)' <=> IsSample(i)
  BY <1>1 DEF IsSample
<1>12. FedOK'
  BY <1>1, <1>10, <1>11 DEF IInv, FedOK
<1>13. ASSUME NEW i \in 1..Len(samples)
       PROVE  /\ i \in Nat /\ i - 1 \in 0..(Raised("pa") - 1) /\ i - 1 < want /\ i - 1 \in Nat
              /\ samples[i].pa = EdgeAt("pa", i - 1) /\ samples[i].pb = EdgeAt("pb", i - 1)
  <2>1. i \in Nat /\ i - 1 \in Nat /\ i - 1 < want
    BY <1>1, <1>3
  <2>2. Raised("pa") \in Nat /\ want <= Raised("pa")
    BY <1>2, <1>3, PortFacts DEF IInv
  <2>3. samples[i].pa = EdgeAt("pa", i - 1) /\ samples[i].pb = EdgeAt("pb", i - 1)
    BY <1>1 DEF IInv, CopyOK
  <2>. QED BY <1>3, <2>1, <2>2, <2>3
<1>14. ASSUME NEW i \in 1..Len(samples) PROVE Past(samples[i])'
  <2>1. samples[i].pa = samples[i].pb /\ samples[i].pa <= edges
    BY <1>6, <1>13 DEF IInv, Level
  <2>2. ASSUME NEW k \in 0..(Raised("pa")' - 1) PROVE samples[i].pa < EdgeAt("pa", k)'
    <3>1. i - 1 < want + k
      BY <1>3, <1>8, <1>13
    <3>. QED BY <1>6, <1>8, <1>13, <3>1 DEF IInv, Level
  <2>. QED BY <1>1, <2>1, <2>2 DEF Past
<1>15. ASSUME NEW i \in 1..Len(samples), NEW j \in 1..Len(samples), i < j
       PROVE  samples[i].pa < samples[j].pa
  <2>1. i - 1 < j - 1
    BY <1>13, <1>15
  <2>. QED BY <1>6, <1>13, <2>1 DEF IInv, Level
<1>16. ASSUME NEW i \in 1..Len(fed), NEW j \in 1..Len(samples), IsSample(i)
       PROVE  fed[i].pa < samples[j].pa
  BY <1>6, <1>13, <1>16 DEF IInv, FedOK, Past
<1>17. UseOK'
  BY <1>1, <1>11, <1>14, <1>15, <1>16 DEF UseOK
<1>18. CountOK' /\ CopyOK'
  BY <1>1 DEF CountOK, CopyOK
<1>. QED BY <1>7, <1>9, <1>12, <1>17, <1>18 DEF IInv

LEMMA StopTimerKeeps ==
  ASSUME IInv, StopTimer
  PROVE  IInv'
<1>1. /\ pc = "resync" /\ cen' = FALSE
      /\ UNCHANGED <<edges, pend, ring, written, woken, read, dropped, streaming, pc, phase,
                     want, samples, fed, sessions>>
  BY DEF StopTimer, loop
<1>2. \A p : Unread(p)' = Unread(p) /\ Raised(p)' = Raised(p)
  BY <1>1 DEF Unread, Raised
<1>3. Types'
  BY <1>1, <1>2 DEF IInv, Types, TypeOK
<1>4. Level' /\ \A s : Past(s) => Past(s)'
  BY <1>1 DEF Level, Past
<1>5. \A i : IsSample(i)' <=> IsSample(i)
  BY <1>1 DEF IsSample
<1>6. FedOK'
  BY <1>1, <1>4, <1>5 DEF IInv, FedOK
<1>7. CountOK' /\ CopyOK' /\ UseOK'
  BY <1>1 DEF IInv, CountOK, CopyOK, UseOK
<1>. QED BY <1>3, <1>4, <1>6, <1>7 DEF IInv

\* Both rings are left empty, without a request.
LEMMA ResyncKeeps ==
  ASSUME IInv, Resync
  PROVE  IInv'
<1>1. /\ pc = "resync" /\ pc' = "use" /\ pend' = {} /\ dropped' = dropped + RING_CAP
      /\ read' = written /\ cen' = TRUE /\ samples = <<>>
      /\ UNCHANGED <<edges, ring, written, woken, streaming, phase, want, samples, fed, sessions>>
  BY DEF Resync, Anchored, IInv, CountOK
<1>2. ASSUME NEW p \in Ports
      PROVE  Unread(p)' = 0 /\ Raised(p)' = 0 /\ written'[p] - read'[p] = 0
  <2>1. written[p] \in Nat
    BY PortFacts DEF IInv
  <2>2. Unread(p)' = 0 /\ written'[p] - read'[p] = 0
    BY <1>1, <2>1 DEF Unread
  <2>. QED BY <1>1, <2>2 DEF Raised
<1>3. Types'
  <2>1. dropped' \in Nat /\ read' \in [Ports -> Nat]
    BY <1>1, Sizes DEF IInv, Types, TypeOK
  <2>. QED BY <1>1, <1>2, <2>1, Sizes DEF IInv, Types, TypeOK
<1>4. "pa" \in Ports /\ "pb" \in Ports
  BY DEF Ports
<1>5. Level'
  BY <1>2, <1>4 DEF Level
<1>6. \A s : Past(s) => Past(s)'
  BY <1>1, <1>2, <1>4 DEF Past
<1>7. \A i : IsSample(i)' <=> IsSample(i)
  BY <1>1 DEF IsSample
<1>8. FedOK'
  BY <1>1, <1>6, <1>7 DEF IInv, FedOK
<1>9. CountOK' /\ CopyOK' /\ UseOK'
  BY <1>1 DEF CountOK, CopyOK, UseOK
<1>. QED BY <1>3, <1>5, <1>8, <1>9 DEF IInv

-----------------------------------------------------------------------------
(* The loop around fast_drain. *)

\* Steps that keep fed and what is in hand, or leave no chunk in hand.
LEMMA TurnKeeps ==
  ASSUME IInv, UNCHANGED <<edges, cen, pend, ring, written>>, UNCHANGED <<read, want, samples, fed>>,
         woken' \in BOOLEAN, dropped' \in Nat, streaming' \in BOOLEAN,
         sessions' \in 0..MaxSessions, cen,
         phase' \in {"poll", "expiring", "timeout", "burst"},
         pc' \in {"commands", "drain", "report"}
  PROVE  IInv'
<1>1. /\ \A p : Unread(p)' = Unread(p) /\ Raised(p)' = Raised(p)
      /\ \A p : \A k : EdgeAt(p, k)' = EdgeAt(p, k)
  BY DEF Unread, Raised, EdgeAt
<1>2. Types'
  BY <1>1 DEF IInv, Types, TypeOK
<1>3. Level' /\ \A s : Past(s) => Past(s)'
  BY <1>1, SameRings DEF IInv, Types, TypeOK
<1>4. \A i : IsSample(i)' <=> IsSample(i)
  BY DEF IsSample
<1>5. FedOK'
  BY <1>3, <1>4 DEF IInv, FedOK
<1>. QED BY <1>2, <1>3, <1>5, Elsewhere DEF IInv

LEMMA IterateKeeps ==
  ASSUME IInv, Poll \/ Wake \/ Expire \/ TimedOut \/ Discard \/ Idle \/ BurstOver
  PROVE  IInv'
<1>1. cen /\ cen \in BOOLEAN
  BY DEF Poll, Wake, Expire, TimedOut, Discard, Idle, BurstOver, Waiting, Resolved, IInv, Types,
         TypeOK
<1>2. /\ woken \in BOOLEAN /\ dropped \in Nat /\ streaming \in BOOLEAN
      /\ sessions \in 0..MaxSessions /\ phase \in {"poll", "expiring", "timeout", "burst"}
  BY DEF IInv, Types, TypeOK
<1>3. CASE Poll
  BY <1>1, <1>2, <1>3, TurnKeeps DEF Poll, Enter, hardware
<1>4. CASE Wake
  BY <1>1, <1>2, <1>4, TurnKeeps DEF Wake, Enter
<1>5. CASE Expire
  BY <1>1, <1>2, <1>5, TurnKeeps DEF Expire, Enter, hardware
<1>6. CASE TimedOut
  BY <1>1, <1>2, <1>6, TurnKeeps DEF TimedOut, Enter, hardware
<1>7. CASE Discard
  BY <1>1, <1>2, <1>7, TurnKeeps DEF Discard, hardware
<1>8. CASE Idle
  BY <1>1, <1>2, <1>8, TurnKeeps DEF Idle, hardware
<1>9. CASE BurstOver
  BY <1>1, <1>2, <1>9, TurnKeeps DEF BurstOver, hardware
<1>. QED BY <1>3, <1>4, <1>5, <1>6, <1>7, <1>8, <1>9

LEMMA StopKeeps ==
  ASSUME IInv, Stop
  PROVE  IInv'
<1>1. cen
  BY DEF Stop, IInv, Types
<1>. QED BY <1>1, TurnKeeps DEF Stop, hardware, loop, IInv, Types, TypeOK

\* A mark behind what was fed.
LEMMA MarkKeeps ==
  ASSUME IInv, UNCHANGED hardware, UNCHANGED <<read, want, samples, phase>>, cen,
         dropped' \in Nat, streaming' \in BOOLEAN, sessions' \in 0..MaxSessions,
         pc' = "commands", NEW m \in {Gap, Begin}, fed' = Append(fed, m)
  PROVE  IInv'
<1>1. /\ \A p \in Ports : Unread(p)' = Unread(p) /\ Raised(p)' = Raised(p)
      /\ \A p \in Ports : \A k : EdgeAt(p, k)' = EdgeAt(p, k)
  BY LoopStep DEF IInv
<1>2. /\ fed \in Seq(Items) /\ Len(fed) \in Nat /\ m \in Items /\ m.kind # "sample"
  BY DEF IInv, Types, Items, Gap, Begin
<1>3. /\ fed' \in Seq(Items) /\ Len(fed') = Len(fed) + 1 /\ fed'[Len(fed) + 1] = m
      /\ \A i \in 1..Len(fed) : fed'[i] = fed[i]
  BY <1>2
<1>4. Types'
  BY <1>1, <1>3 DEF hardware, IInv, Types, TypeOK
<1>5. Level' /\ \A s : Past(s) => Past(s)'
  BY <1>1, SameRings DEF hardware, IInv, Types, TypeOK
<1>6. \A i \in 1..Len(fed') : IsSample(i)' => i \in 1..Len(fed) /\ IsSample(i) /\ fed'[i] = fed[i]
  <2> SUFFICES ASSUME NEW i \in 1..Len(fed'), IsSample(i)'
               PROVE  i \in 1..Len(fed) /\ IsSample(i) /\ fed'[i] = fed[i]
    OBVIOUS
  <2>1. fed'[i].kind = "sample"
    BY DEF IsSample
  <2>2. i # Len(fed) + 1
    BY <1>2, <1>3, <2>1
  <2>3. i \in 1..Len(fed)
    BY <1>2, <1>3, <2>2
  <2>. QED BY <1>3, <2>1, <2>3 DEF IsSample
<1>7. FedOK'
  BY <1>5, <1>6 DEF IInv, FedOK, Past
<1>. QED BY <1>4, <1>5, <1>7, Elsewhere DEF IInv

LEMMA StartKeeps ==
  ASSUME IInv, Start
  PROVE  IInv'
<1>1. cen /\ sessions' \in 0..MaxSessions /\ streaming' \in BOOLEAN /\ dropped' \in Nat
  BY Sizes DEF Start, IInv, Types, TypeOK
<1>2. CASE streaming
  BY <1>1, <1>2, TurnKeeps DEF Start, hardware, loop, IInv, Types, TypeOK
<1>3. CASE ~streaming
  BY <1>1, <1>3, MarkKeeps DEF Start, loop
<1>. QED BY <1>2, <1>3

LEMMA ReportKeeps ==
  ASSUME IInv, Report
  PROVE  IInv'
<1>1. cen /\ dropped' \in Nat /\ dropped \in Nat
  BY DEF Report, IInv, Types, TypeOK
<1>2. CASE dropped > 0
  BY <1>1, <1>2, MarkKeeps DEF Report, IInv, Types, TypeOK
<1>3. CASE ~(dropped > 0)
  BY <1>1, <1>3, TurnKeeps DEF Report, hardware, IInv, Types, TypeOK
<1>. QED BY <1>2, <1>3

LEMMA FeedKeeps ==
  ASSUME IInv, Feed
  PROVE  IInv'
<1>1. /\ pc = "use" /\ pc' \in {"report", "drain"} /\ fed' = fed \o samples
      /\ phase' \in {"poll", "expiring", "timeout", "burst"}
      /\ UNCHANGED hardware /\ UNCHANGED <<read, dropped, streaming, want, samples, sessions>>
  BY DEF Feed, Resolved, Enter, IInv, Types, TypeOK
<1>2. /\ \A p \in Ports : Unread(p)' = Unread(p) /\ Raised(p)' = Raised(p)
      /\ \A p \in Ports : \A k : EdgeAt(p, k)' = EdgeAt(p, k)
  BY <1>1, LoopStep DEF IInv
<1>3. fed \in Seq(Items) /\ samples \in Seq(Items) /\ Len(fed) \in Nat /\ Len(samples) \in Nat
  <2>1. samples \in Seq(SampleItems) /\ SampleItems \subseteq Items /\ fed \in Seq(Items)
    BY DEF IInv, Types, Items
  <2>2. samples \in Seq(Items)
    BY <2>1
  <2>. QED BY <2>1, <2>2
<1> DEFINE b == Len(fed)
<1>4. fed' \in Seq(Items) /\ Len(fed') = b + Len(samples)
  <2>1. (fed \o samples) \in Seq(Items) /\ Len(fed \o samples) = Len(fed) + Len(samples)
    BY <1>3
  <2>. QED BY <1>1, <2>1
<1>5. ASSUME NEW i \in 1..Len(fed')
      PROVE  /\ i \in Nat
             /\ \/ i \in 1..b /\ fed'[i] = fed[i] /\ (IsSample(i)' <=> IsSample(i))
                \/ i > b /\ i - b \in 1..Len(samples) /\ fed'[i] = samples[i - b]
  <2>1. i \in 1..(Len(fed) + Len(samples)) /\ i \in Nat
    BY <1>4
  <2>2. fed'[i] = IF i <= Len(fed) THEN fed[i] ELSE samples[i - Len(fed)]
    BY <1>1, <1>3, <2>1
  <2>3. CASE i <= b
    BY <1>3, <2>1, <2>2, <2>3 DEF IsSample
  <2>4. CASE i > b
    BY <1>3, <2>1, <2>2, <2>4
  <2>. QED BY <1>3, <2>1, <2>3, <2>4
<1>6. Types'
  BY <1>1, <1>2, <1>4 DEF hardware, IInv, Types, TypeOK
<1>7. Level' /\ \A s : Past(s) => Past(s)'
  BY <1>1, <1>2, SameRings DEF hardware, IInv, Types, TypeOK
<1>8. ASSUME NEW i \in 1..Len(fed'), IsSample(i)' PROVE Past(fed[i])'
  <2>1. Past(fed'[i])
    BY <1>1, <1>5, <1>8 DEF IInv, FedOK, UseOK, Past
  <2>. QED BY <1>7, <2>1 DEF Past
<1>9. ASSUME NEW i \in 1..Len(fed'), NEW j \in 1..Len(fed'), i < j, IsSample(i)', IsSample(j)'
      PROVE  fed'[i].pa < fed'[j].pa
  <2>1. CASE j \in 1..b /\ fed'[j] = fed[j] /\ IsSample(j)
    <3>1. i \in 1..b /\ fed'[i] = fed[i] /\ IsSample(i)
      BY <1>3, <1>5, <1>9, <2>1
    <3>. QED BY <1>9, <2>1, <3>1 DEF IInv, FedOK
  <2>2. CASE j > b /\ j - b \in 1..Len(samples) /\ fed'[j] = samples[j - b]
    <3>1. CASE i \in 1..b /\ fed'[i] = fed[i] /\ IsSample(i)
      BY <1>1, <2>2, <3>1 DEF IInv, UseOK
    <3>2. CASE i > b /\ i - b \in 1..Len(samples) /\ fed'[i] = samples[i - b]
      <4>1. i - b < j - b
        BY <1>3, <1>5, <1>9
      <4>. QED BY <1>1, <2>2, <3>2, <4>1 DEF IInv, UseOK
    <3>. QED BY <1>5, <1>9, <3>1, <3>2
  <2>. QED BY <1>5, <1>9, <2>1, <2>2
<1>10. FedOK'
  BY <1>8, <1>9 DEF FedOK
<1>. QED BY <1>1, <1>6, <1>7, <1>10, Elsewhere DEF IInv

-----------------------------------------------------------------------------
LEMMA Stutter == IInv /\ UNCHANGED vars => IInv'
<1> SUFFICES ASSUME IInv, UNCHANGED vars PROVE IInv'
  OBVIOUS
<1>1. UNCHANGED <<edges, cen, pend, ring, written, woken, read, dropped, streaming, pc, phase,
                  want, samples, fed, sessions>>
  BY DEF vars, hardware, loop
<1>2. /\ \A p : Unread(p)' = Unread(p) /\ Raised(p)' = Raised(p)
      /\ \A p : \A k : EdgeAt(p, k)' = EdgeAt(p, k)
      /\ \A i : IsSample(i)' <=> IsSample(i)
  BY <1>1 DEF Unread, Raised, EdgeAt, IsSample
<1>3. Types' /\ Level' /\ CountOK' /\ CopyOK'
  BY <1>1, <1>2 DEF IInv, Types, TypeOK, Level, CountOK, CopyOK
<1>4. FedOK' /\ UseOK'
  BY <1>1, <1>2 DEF IInv, FedOK, UseOK, Past
<1>. QED BY <1>3, <1>4 DEF IInv

LEMMA Inductive == IInv /\ [Next]_vars => IInv'
<1> SUFFICES ASSUME IInv, [Next]_vars PROVE IInv'
  OBVIOUS
<1>1. CASE Edge
  BY <1>1, EdgeKeeps
<1>2. CASE \E p \in Ports : Dma(p)
  BY <1>2, DmaKeeps
<1>3. CASE Start \/ Stop
  BY <1>3, StartKeeps, StopKeeps
<1>4. CASE Drain
  BY <1>4, ReadPaKeeps, ReadPbKeeps, CopySampleKeeps, CopyDoneKeeps, StopTimerKeeps, ResyncKeeps
     DEF Drain
<1>5. CASE Iterate
  BY <1>5, IterateKeeps, FeedKeeps, ReportKeeps DEF Iterate
<1>6. CASE UNCHANGED vars
  BY <1>6, Stutter
<1>. QED BY <1>1, <1>2, <1>3, <1>4, <1>5, <1>6 DEF Next

LEMMA Invariant == Spec => []IInv
BY InitHolds, Inductive, PTL DEF Spec

\* Neither channel laps the reader, and a chunk fits its buffer
\* (capture.rs 350-403).
THEOREM TypeCorrect == Spec => []TypeOK
<1>1. IInv => TypeOK
  BY DEF IInv, Types
<1>. QED BY <1>1, Invariant, PTL

\* Both halves of every sample come from one WR edge (capture.rs 16-31,
\* 282-290, 396-437).
THEOREM PairedAlways == Spec => []Paired
<1>1. ASSUME IInv PROVE Paired
  <2>1. DOMAIN fed = 1..Len(fed)
    BY <1>1 DEF IInv, Types
  <2>. QED BY <1>1, <2>1 DEF IInv, FedOK, Past, Paired
<1>2. IInv => Paired
  BY <1>1
<1>. QED BY <1>2, Invariant, PTL

\* No edge is delivered twice or out of order (capture.rs 377-403).
THEOREM InOrderAlways == Spec => []InOrder
<1>1. ASSUME IInv PROVE InOrder
  <2>1. DOMAIN fed = 1..Len(fed)
    BY <1>1 DEF IInv, Types
  <2>. QED BY <1>1, <2>1 DEF IInv, FedOK, InOrder
<1>2. IInv => InOrder
  BY <1>1
<1>. QED BY <1>2, Invariant, PTL

-----------------------------------------------------------------------------
(* Losses.  Every counted edge leaves a sample, so what is unread of PA's     *)
(* ring is the last edges, without a hole; a hole opens only where a resync   *)
(* empties the ring, and the resync counts it.                               *)

\* The oldest edge that is still in the ring, or the next one to come.
NextEdge == edges - Raised("pa") + 1

Consecutive == cen => \A k \in 0..(Raised("pa") - 1) : EdgeAt("pa", k) = NextEdge + k

\* A chunk in hand is the edges just before those in the ring.
InHand ==
  pc = "use" =>
    \A i \in 1..Len(samples) : samples[i].pa = NextEdge - Len(samples) + (i - 1)

\* The next sample to feed follows the last one fed, unless a loss is counted.
Upcoming == IF pc = "use" THEN NextEdge - Len(samples) ELSE NextEdge
Unbroken ==
  (streaming /\ dropped = 0 /\ cen /\ Len(fed) > 0 /\ IsSample(Len(fed))) =>
     Upcoming = fed[Len(fed)].pa + 1

\* The iteration that fed a hole is not over: its OVERRUN is still to come.
Owing == /\ dropped > 0 /\ streaming
         /\ pc # "commands"
         /\ (pc = "report" \/ phase = "burst")
SameSession(i, k) == \A m \in i..k : fed[m] # Begin
Marked(i) == \E k \in 1..Len(fed) : k > i /\ fed[k] = Gap /\ SameSession(i, k)
JumpsOK ==
  \A i, j \in 1..Len(fed) :
    (Neighbours(i, j) /\ fed[j].pa # fed[i].pa + 1) =>
       (Marked(i) \/ (Owing /\ SameSession(i, Len(fed))))

Holes == Consecutive /\ InHand /\ Unbroken /\ JumpsOK

LEMMA NextEdgeInt ==
  ASSUME Types
  PROVE  /\ NextEdge \in Int /\ edges \in Nat /\ Raised("pa") \in Nat
         /\ Len(samples) \in Nat /\ Len(fed) \in Nat
<1>1. "pa" \in Ports
  BY DEF Ports
<1>2. edges \in Nat /\ Raised("pa") \in Nat
  BY <1>1, PortFacts
<1>3. Len(samples) \in Nat /\ Len(fed) \in Nat
  BY DEF Types
<1>. QED BY <1>2, <1>3 DEF NextEdge

\* A step of the loop leaves the ring's edges.
LEMMA SameEdges ==
  ASSUME Consecutive, UNCHANGED <<edges, cen, pend, ring, written, read>>
  PROVE  Consecutive' /\ NextEdge' = NextEdge
<1>1. /\ Raised("pa")' = Raised("pa") /\ \A k : EdgeAt("pa", k)' = EdgeAt("pa", k)
  BY DEF Unread, Raised, EdgeAt
<1>. QED BY <1>1 DEF Consecutive, NextEdge

\* The holes fed so far stay excused.
LEMMA SameHoles ==
  ASSUME JumpsOK, fed' = fed, Owing => Owing'
  PROVE  JumpsOK'
<1>1. \A i, j : (Neighbours(i, j)' <=> Neighbours(i, j)) /\ (SameSession(i, j)' <=> SameSession(i, j))
  BY DEF Neighbours, IsSample, SameSession
<1>2. \A i : Marked(i) => Marked(i)'
  BY <1>1 DEF Marked
<1>. QED BY <1>1, <1>2 DEF JumpsOK

LEMMA SameEnd ==
  ASSUME Unbroken, fed' = fed, cen' => cen,
         streaming' => streaming /\ (dropped' = 0 => dropped = 0), Upcoming' = Upcoming
  PROVE  Unbroken'
<1>1. IsSample(Len(fed))' <=> IsSample(Len(fed))
  BY DEF IsSample
<1>. QED BY <1>1 DEF Unbroken

LEMMA InitHoles == Init => Holes
<1> SUFFICES ASSUME Init PROVE Holes
  OBVIOUS
<1>1. Raised("pa") = 0
  BY DEF Init, Unread, Raised, Ports
<1>2. Consecutive
  BY <1>1 DEF Consecutive
<1>3. InHand /\ Unbroken /\ JumpsOK
  BY DEF Init, InHand, Unbroken, JumpsOK
<1>. QED BY <1>2, <1>3 DEF Holes

LEMMA EdgeHoles ==
  ASSUME IInv, Holes, Edge
  PROVE  Holes'
<1>1. /\ edges' = edges + 1
      /\ UNCHANGED <<cen, ring, written, woken, read, dropped, streaming, pc, phase, want,
                     samples, fed, sessions>>
  BY DEF Edge, loop
<1>2. JumpsOK'
  BY <1>1, SameHoles DEF Owing, Holes
<1>3. CASE cen
  <2>1. pend = {} /\ pend' = Ports /\ "pa" \in Ports
    BY <1>3 DEF Edge, Ports
  <2>2. Unread("pa")' = Unread("pa") /\ Unread("pa") \in Nat /\ Raised("pa") = Unread("pa")
    BY <1>1, <2>1, PortFacts DEF Unread, IInv
  <2>3. Raised("pa")' = Unread("pa") + 1
    BY <2>1, <2>2 DEF Raised
  <2>4. NextEdge' = NextEdge /\ edges \in Nat /\ NextEdge = edges - Unread("pa") + 1
    BY <1>1, <2>2, <2>3, NextEdgeInt DEF NextEdge, IInv
  <2>5. ASSUME NEW k \in 0..(Raised("pa")' - 1)
        PROVE  EdgeAt("pa", k)' = NextEdge' + k
    <3>1. CASE k < Unread("pa")
      <4>1. EdgeAt("pa", k)' = EdgeAt("pa", k)
        BY <1>1, <2>2, <3>1 DEF EdgeAt
      <4>2. k \in 0..(Raised("pa") - 1)
        BY <2>2, <2>3, <3>1
      <4>. QED BY <1>3, <2>4, <4>1, <4>2 DEF Holes, Consecutive
    <3>2. CASE ~(k < Unread("pa"))
      <4>1. EdgeAt("pa", k)' = edges'
        BY <2>2, <3>2 DEF EdgeAt
      <4>2. k = Unread("pa")
        BY <2>2, <2>3, <3>2
      <4>. QED BY <1>1, <2>2, <2>4, <4>1, <4>2
    <3>. QED BY <3>1, <3>2
  <2>6. Consecutive'
    BY <2>5 DEF Consecutive
  <2>7. InHand'
    BY <1>1, <2>4 DEF Holes, InHand
  <2>8. Unbroken'
    BY <1>1, <2>4, SameEnd DEF Holes, Upcoming
  <2>. QED BY <1>2, <2>6, <2>7, <2>8 DEF Holes
<1>4. CASE ~cen
  <2>1. pc = "resync" /\ ~cen'
    BY <1>1, <1>4 DEF IInv, Types
  <2>. QED BY <1>1, <1>2, <2>1 DEF Holes, Consecutive, InHand, Unbroken
<1>. QED BY <1>3, <1>4

LEMMA DmaHoles ==
  ASSUME IInv, Holes, NEW p \in Ports, Dma(p)
  PROVE  Holes'
<1>1. UNCHANGED <<edges, cen, read, dropped, streaming, pc, phase, want, samples, fed, sessions>>
  BY DEF Dma, loop
<1>2. /\ Raised("pa")' = Raised("pa")
      /\ \A k \in 0..(Raised("pa") - 1) : EdgeAt("pa", k)' = EdgeAt("pa", k)
  BY DmaRings DEF Ports
<1>3. NextEdge' = NextEdge
  BY <1>1, <1>2 DEF NextEdge
<1>4. Consecutive'
  BY <1>1, <1>2, <1>3 DEF Holes, Consecutive
<1>5. InHand'
  BY <1>1, <1>3 DEF Holes, InHand
<1>6. Unbroken'
  BY <1>1, <1>3, SameEnd DEF Holes, Upcoming
<1>7. JumpsOK'
  BY <1>1, SameHoles DEF Owing, Holes
<1>. QED BY <1>4, <1>5, <1>6, <1>7 DEF Holes

\* What is copied is what the ring held next.
LEMMA CopyDoneHoles ==
  ASSUME IInv, Holes, CopyDone
  PROVE  Holes'
<1>1. /\ pc = "copy" /\ pc' = "use" /\ Len(samples) = want
      /\ UNCHANGED <<edges, cen, pend, ring, written, woken>>
      /\ UNCHANGED <<dropped, streaming, phase, want, samples, fed, sessions>>
  BY DEF CopyDone, hardware
<1>2. cen /\ "pa" \in Ports
  BY <1>1 DEF IInv, Types, Ports
<1>3. /\ want \in Nat /\ want <= Raised("pa")
      /\ Raised("pa")' = Raised("pa") - want /\ Raised("pa") \in Nat
      /\ \A k \in Nat : EdgeAt("pa", k)' = EdgeAt("pa", want + k)
  <2>1. want \in Nat /\ want <= Unread("pa") /\ Raised("pa")' = Raised("pa") - want
        /\ \A k \in Nat : EdgeAt("pa", k)' = EdgeAt("pa", want + k)
    BY <1>2, CopyDoneRings
  <2>2. Raised("pa") \in Nat /\ Unread("pa") \in Nat /\ Unread("pa") <= Raised("pa")
    BY <1>2, PortFacts DEF IInv
  <2>3. want <= Raised("pa")
    <3>1. PICK r \in Nat, v \in Nat : r = Raised("pa") /\ v = Unread("pa")
      BY <2>2
    <3>. QED BY <2>1, <2>2, <3>1
  <2>. QED BY <2>1, <2>2, <2>3, Zenon
<1>4. NextEdge' = NextEdge + want /\ NextEdge \in Int
  <2>1. NextEdge \in Int /\ edges \in Nat
    BY NextEdgeInt DEF IInv
  <2>2. NextEdge' = edges - (Raised("pa") - want) + 1
    BY <1>1, <1>3, Zenon DEF NextEdge
  <2>3. edges - (Raised("pa") - want) + 1 = (edges - Raised("pa") + 1) + want
    BY <1>3, <2>1
  <2>. QED BY <2>1, <2>2, <2>3, Zenon DEF NextEdge
<1>5. ASSUME NEW k \in 0..(Raised("pa")' - 1)
      PROVE  EdgeAt("pa", k)' = NextEdge' + k
  <2>1. k \in Nat /\ want + k \in 0..(Raised("pa") - 1)
    BY <1>3
  <2>2. EdgeAt("pa", want + k) = NextEdge + (want + k)
    BY <1>2, <2>1 DEF Holes, Consecutive
  <2>. QED BY <1>3, <1>4, <2>1, <2>2
<1>6. Consecutive'
  BY <1>5 DEF Consecutive
<1>7. InHand'
  <2> SUFFICES ASSUME NEW i \in 1..Len(samples)
               PROVE  samples[i].pa = NextEdge' - Len(samples) + (i - 1)
    BY <1>1 DEF InHand
  <2>1. samples[i].pa = EdgeAt("pa", i - 1)
    BY <1>1 DEF IInv, CopyOK
  <2>2. i \in Nat /\ i - 1 \in 0..(Raised("pa") - 1)
    BY <1>1, <1>3
  <2>3. EdgeAt("pa", i - 1) = NextEdge + (i - 1)
    BY <1>2, <2>2 DEF Holes, Consecutive
  <2>. QED BY <1>1, <1>3, <1>4, <2>1, <2>2, <2>3
<1>8. Unbroken'
  <2>1. Upcoming = NextEdge /\ Upcoming' = NextEdge' - want
    BY <1>1 DEF Upcoming
  <2>2. Upcoming' = Upcoming
    BY <1>3, <1>4, <2>1
  <2>. QED BY <1>1, <2>2, SameEnd DEF Holes
<1>9. JumpsOK'
  BY <1>1, SameHoles DEF Owing, Holes
<1>. QED BY <1>6, <1>7, <1>8, <1>9 DEF Holes

LEMMA StopTimerHoles ==
  ASSUME IInv, Holes, StopTimer
  PROVE  Holes'
<1>1. /\ pc = "resync" /\ cen' = FALSE
      /\ UNCHANGED <<dropped, streaming, pc, phase, fed>>
  BY DEF StopTimer, loop
<1>2. JumpsOK'
  BY <1>1, SameHoles DEF Owing, Holes
<1>. QED BY <1>1, <1>2 DEF Holes, Consecutive, InHand, Unbroken

\* The ring is emptied, and the loss is counted.
LEMMA ResyncHoles ==
  ASSUME IInv, Holes, Resync
  PROVE  Holes'
<1>1. /\ pc = "resync" /\ pc' = "use" /\ pend' = {} /\ dropped' = dropped + RING_CAP
      /\ read' = written /\ written' = written /\ samples' = <<>>
      /\ UNCHANGED <<streaming, phase, fed>>
  BY DEF Resync, Anchored, IInv, CountOK
<1>2. dropped \in Nat /\ dropped' > 0
  BY <1>1, Sizes DEF IInv, Types, TypeOK
<1>3. Raised("pa")' = 0
  <2>1. written["pa"] \in Nat
    BY PortFacts DEF IInv, Ports
  <2>2. Unread("pa")' = 0
    BY <1>1, <2>1 DEF Unread
  <2>. QED BY <1>1, <2>2 DEF Raised
<1>4. Consecutive'
  BY <1>3 DEF Consecutive
<1>5. InHand' /\ Unbroken'
  BY <1>1, <1>2 DEF InHand, Unbroken
<1>6. JumpsOK'
  BY <1>1, <1>2, SameHoles DEF Owing, Holes
<1>. QED BY <1>4, <1>5, <1>6 DEF Holes

\* fast_drain up to the copy: nothing leaves the ring.
LEMMA DrainHoles ==
  ASSUME IInv, Holes, ReadPa \/ ReadPb \/ CopySample
  PROVE  Holes'
<1>1. /\ UNCHANGED <<edges, cen, pend, ring, written, read>>
      /\ UNCHANGED <<dropped, streaming, phase, fed>>
      /\ pc \in {"drain", "readpb", "copy"} /\ pc' \in {"readpb", "resync", "copy"}
  BY DEF ReadPa, ReadPb, CopySample, hardware
<1>2. Consecutive' /\ NextEdge' = NextEdge
  BY <1>1, SameEdges DEF Holes
<1>3. InHand'
  BY <1>1 DEF InHand
<1>4. Unbroken'
  BY <1>1, <1>2, SameEnd DEF Holes, Upcoming
<1>5. JumpsOK'
  BY <1>1, SameHoles DEF Owing, Holes
<1>. QED BY <1>2, <1>3, <1>4, <1>5 DEF Holes

\* Steps that feed nothing and have nothing in hand.
LEMMA TurnHoles ==
  ASSUME IInv, Holes, UNCHANGED <<edges, cen, pend, ring, written, read>>, fed' = fed,
         pc = "use" => samples = <<>>, pc' # "use",
         streaming' => streaming /\ (dropped' = 0 => dropped = 0), Owing => Owing'
  PROVE  Holes'
<1>1. Consecutive' /\ NextEdge' = NextEdge
  BY SameEdges DEF Holes
<1>2. Upcoming = NextEdge /\ Upcoming' = NextEdge
  BY <1>1, NextEdgeInt DEF Upcoming, IInv
<1>3. InHand'
  BY DEF InHand
<1>4. Unbroken'
  BY <1>2, SameEnd DEF Holes
<1>5. JumpsOK'
  BY SameHoles DEF Holes
<1>. QED BY <1>1, <1>3, <1>4, <1>5 DEF Holes

LEMMA IterateHoles ==
  ASSUME IInv, Holes, Poll \/ Wake \/ Expire \/ TimedOut \/ Idle \/ BurstOver \/ Stop
  PROVE  Holes'
<1>1. CASE Poll
  BY <1>1, TurnHoles DEF Poll, Enter, Owing, hardware
<1>2. CASE Wake
  BY <1>2, TurnHoles DEF Wake, Waiting, Found, Enter, Owing
<1>3. CASE Expire
  BY <1>3, TurnHoles DEF Expire, Waiting, Found, Enter, Owing, hardware
<1>4. CASE TimedOut
  BY <1>4, TurnHoles DEF TimedOut, Found, Enter, Owing, hardware
<1>5. CASE Idle
  BY <1>5, TurnHoles DEF Idle, Resolved, Found, Owing, hardware
<1>6. CASE BurstOver
  BY <1>6, TurnHoles DEF BurstOver, Resolved, Found, Owing, hardware
<1>7. CASE Stop
  BY <1>7, TurnHoles DEF Stop, Owing, hardware, loop
<1>. QED BY <1>1, <1>2, <1>3, <1>4, <1>5, <1>6, <1>7

\* What is discarded belongs to no session.
LEMMA DiscardHoles ==
  ASSUME IInv, Holes, Discard
  PROVE  Holes'
<1>1. /\ UNCHANGED <<edges, cen, pend, ring, written, read>> /\ fed' = fed
      /\ ~streaming /\ ~streaming' /\ pc' = "commands"
  BY DEF Discard, hardware
<1>2. Consecutive'
  BY <1>1, SameEdges DEF Holes
<1>3. InHand' /\ Unbroken'
  BY <1>1 DEF InHand, Unbroken
<1>4. JumpsOK'
  BY <1>1, SameHoles DEF Owing, Holes
<1>. QED BY <1>2, <1>3, <1>4 DEF Holes

\* A mark behind what was fed: it excuses the holes before it, if it is an OVERRUN.
LEMMA MarkHoles ==
  ASSUME IInv, Holes, UNCHANGED <<edges, cen, pend, ring, written, read>>,
         pc' = "commands", NEW x \in {Gap, Begin}, fed' = Append(fed, x), Owing => x = Gap
  PROVE  Holes'
<1> PICK b \in Nat : b = Len(fed)
  BY NextEdgeInt DEF IInv
<1>1. /\ fed \in Seq(Items) /\ x \in Items /\ x.kind # "sample" /\ Gap # Begin
  BY DEF IInv, Types, Items, Gap, Begin
<1>2. /\ Len(fed') = b + 1 /\ fed'[b + 1] = x /\ \A i \in 1..b : fed'[i] = fed[i]
  BY <1>1
<1>3. Consecutive' /\ InHand'
  BY SameEdges DEF Holes, InHand
<1>4. ~IsSample(b + 1)' /\ Unbroken'
  BY <1>1, <1>2 DEF IsSample, Unbroken
<1>5. ASSUME NEW i \in 1..b, NEW k \in 1..b
      PROVE  SameSession(i, k) => SameSession(i, k)'
  BY <1>1, <1>2 DEF SameSession
<1>6. ASSUME NEW i \in 1..Len(fed'), NEW j \in 1..Len(fed'), Neighbours(i, j)',
             fed'[j].pa # fed'[i].pa + 1
      PROVE  Marked(i)'
  <2>1. i < j /\ IsSample(i)' /\ IsSample(j)' /\ \A k \in (i + 1)..(j - 1) : fed'[k] = Gap
    BY <1>6 DEF Neighbours
  <2>2. i \in 1..b /\ j \in 1..b
    BY <1>1, <1>2, <1>4, <2>1
  <2>3. fed'[i] = fed[i] /\ fed'[j] = fed[j] /\ IsSample(i) /\ IsSample(j)
    BY <1>2, <2>1, <2>2 DEF IsSample
  <2>4. \A k \in (i + 1)..(j - 1) : fed[k] = Gap
    BY <1>1, <1>2, <2>1, <2>2
  <2>5. Neighbours(i, j)
    BY <2>1, <2>3, <2>4 DEF Neighbours
  <2>6. CASE Marked(i)
    <3>1. PICK k \in 1..b : k > i /\ fed[k] = Gap /\ SameSession(i, k)
      BY <2>6 DEF Marked
    <3>. QED BY <1>1, <1>2, <1>5, <2>2, <3>1 DEF Marked
  <2>7. CASE Owing /\ SameSession(i, b)
    <3>1. b + 1 \in 1..Len(fed') /\ b + 1 > i /\ fed'[b + 1] = Gap
      BY <1>1, <1>2, <2>2, <2>7
    <3>2. SameSession(i, b + 1)'
      <4> SUFFICES ASSUME NEW m \in i..(b + 1) PROVE fed'[m] # Begin
        BY DEF SameSession
      <4>1. CASE m = b + 1
        BY <1>1, <3>1, <4>1
      <4>2. CASE m # b + 1
        <5>1. m \in i..b /\ m \in 1..b
          BY <1>1, <2>2, <4>2
        <5>. QED BY <1>2, <2>7, <5>1 DEF SameSession
      <4>. QED BY <4>1, <4>2
    <3>. QED BY <3>1, <3>2 DEF Marked
  <2>. QED BY <1>6, <2>2, <2>3, <2>5, <2>6, <2>7 DEF Holes, JumpsOK
<1>7. JumpsOK'
  BY <1>6 DEF JumpsOK
<1>. QED BY <1>3, <1>4, <1>7 DEF Holes

LEMMA StartHoles ==
  ASSUME IInv, Holes, Start
  PROVE  Holes'
<1>1. pc = "commands" /\ pc' = "commands" /\ ~Owing
  BY DEF Start, loop, Owing
<1>2. CASE streaming
  BY <1>1, <1>2, TurnHoles DEF Start, hardware, loop
<1>3. CASE ~streaming
  BY <1>1, <1>3, MarkHoles DEF Start, hardware, loop
<1>. QED BY <1>2, <1>3

LEMMA ReportHoles ==
  ASSUME IInv, Holes, Report
  PROVE  Holes'
<1>1. /\ pc = "report" /\ pc' = "commands" /\ streaming' = streaming /\ dropped \in Nat
      /\ UNCHANGED <<edges, cen, pend, ring, written, read>>
  BY DEF Report, hardware, IInv, Types, TypeOK
<1>2. CASE dropped > 0
  BY <1>1, <1>2, MarkHoles DEF Report
<1>3. CASE ~(dropped > 0)
  <2>1. dropped = 0 /\ ~Owing
    BY <1>1, <1>3 DEF Owing
  <2>. QED BY <1>1, <1>3, <2>1, TurnHoles DEF Report
<1>. QED BY <1>2, <1>3

\* A chunk continues what was fed, or the loss before it is still to be reported.
LEMMA FeedHoles ==
  ASSUME IInv, Holes, Feed
  PROVE  Holes'
<1> PICK b \in Nat, n \in Nat : b = Len(fed) /\ n = Len(samples)
  BY NextEdgeInt DEF IInv
<1>1. /\ pc = "use" /\ pc' \in {"report", "drain"} /\ fed' = fed \o samples
      /\ streaming /\ streaming' /\ dropped' = dropped /\ dropped \in Nat /\ samples # <<>>
      /\ pc' = "drain" => phase' = "burst"
      /\ UNCHANGED <<edges, cen, pend, ring, written, read>>
  BY DEF Feed, Resolved, Found, Enter, hardware, IInv, Types, TypeOK
<1>2. /\ samples \in Seq(SampleItems) /\ fed \in Seq(Items) /\ b \in Nat /\ n \in Nat
      /\ n > 0 /\ samples \in Seq(Items) /\ cen
  <2>1. samples \in Seq(SampleItems) /\ fed \in Seq(Items) /\ cen /\ SampleItems \subseteq Items
    BY <1>1 DEF IInv, Types, Items
  <2>2. samples \in Seq(Items)
    BY <2>1
  <2>. QED BY <1>1, <2>1, <2>2
<1>3. Consecutive' /\ NextEdge' = NextEdge /\ NextEdge \in Int
  BY <1>1, SameEdges, NextEdgeInt DEF Holes, IInv
<1>4. /\ Len(fed') = b + n
      /\ \A i \in 1..b : fed'[i] = fed[i]
      /\ \A i \in (b + 1)..(b + n) : fed'[i] = samples[i - b] /\ i - b \in 1..n
  <2>1. Len(fed') = b + n
    BY <1>1, <1>2
  <2>2. \A i \in 1..(Len(fed) + Len(samples)) :
          fed'[i] = IF i <= Len(fed) THEN fed[i] ELSE samples[i - Len(fed)]
    BY <1>1, <1>2
  <2>. QED BY <1>2, <2>1, <2>2
<1>5. ASSUME NEW i \in (b + 1)..(b + n)
      PROVE  /\ i \in Int /\ i > b /\ fed'[i] # Gap /\ fed'[i] # Begin
             /\ fed'[i].pa = NextEdge - n + (i - b - 1)
  <2>1. \A k \in 1..Len(samples) : samples[k] \in SampleItems
    BY <1>2
  <2>2. fed'[i] = samples[i - b] /\ i - b \in 1..n /\ samples[i - b] \in SampleItems
    BY <1>4, <2>1
  <2>3. samples[i - b].pa = NextEdge - n + ((i - b) - 1)
    BY <1>1, <2>2 DEF Holes, InHand
  <2>4. fed'[i] # Gap /\ fed'[i] # Begin
    BY <2>2 DEF SampleItems, Gap, Begin
  <2>5. i \in Int /\ i > b
    BY <1>2
  <2>. QED BY <1>2, <2>2, <2>3, <2>4, <2>5
<1>6. InHand'
  BY <1>1 DEF InHand
<1>7. Unbroken'
  <2>1. b + n \in (b + 1)..(b + n)
    BY <1>2
  <2>2. fed'[b + n].pa = NextEdge - 1
    BY <1>2, <1>3, <1>5, <2>1
  <2>3. Upcoming' = NextEdge
    BY <1>1, <1>3 DEF Upcoming
  <2>. QED BY <1>3, <1>4, <2>2, <2>3 DEF Unbroken
<1>8. dropped > 0 => Owing'
  BY <1>1 DEF Owing
<1>9. ASSUME NEW i \in 1..b, SameSession(i, b)
      PROVE  SameSession(i, b + n)'
  <2> SUFFICES ASSUME NEW m \in i..(b + n) PROVE fed'[m] # Begin
    BY DEF SameSession
  <2>1. CASE m <= b
    <3>1. m \in i..b /\ m \in 1..b
      BY <1>2, <2>1
    <3>. QED BY <1>4, <1>9, <3>1 DEF SameSession
  <2>2. CASE ~(m <= b)
    <3>1. m \in (b + 1)..(b + n)
      BY <1>2, <2>2
    <3>. QED BY <1>5, <3>1
  <2>. QED BY <2>1, <2>2
<1>10. ASSUME NEW i \in 1..Len(fed'), NEW j \in 1..Len(fed'), Neighbours(i, j)',
              fed'[j].pa # fed'[i].pa + 1
       PROVE  Marked(i)' \/ (Owing' /\ SameSession(i, b + n)')
  <2>1. i < j /\ IsSample(i)' /\ IsSample(j)' /\ \A k \in (i + 1)..(j - 1) : fed'[k] = Gap
    BY <1>10 DEF Neighbours
  <2>2. CASE j <= b
    <3>1. i \in 1..b /\ j \in 1..b
      BY <1>2, <1>4, <2>1, <2>2
    <3>2. fed'[i] = fed[i] /\ fed'[j] = fed[j] /\ IsSample(i) /\ IsSample(j)
      BY <1>4, <2>1, <3>1 DEF IsSample
    <3>3. \A k \in (i + 1)..(j - 1) : fed[k] = Gap
      BY <1>2, <1>4, <2>1, <3>1
    <3>4. Marked(i) \/ (Owing /\ SameSession(i, b))
      BY <1>10, <2>1, <3>1, <3>2, <3>3 DEF Holes, JumpsOK, Neighbours
    <3>5. CASE Marked(i)
      <4>1. PICK k \in 1..b : k > i /\ fed[k] = Gap /\ SameSession(i, k)
        BY <3>5 DEF Marked
      <4>2. SameSession(i, k)'
        BY <1>2, <1>4, <3>1, <4>1 DEF SameSession
      <4>3. k \in 1..Len(fed') /\ fed'[k] = Gap
        BY <1>2, <1>4, <4>1
      <4>. QED BY <4>1, <4>2, <4>3 DEF Marked
    <3>6. CASE Owing /\ SameSession(i, b)
      BY <1>8, <1>9, <3>1, <3>6 DEF Owing
    <3>. QED BY <3>4, <3>5, <3>6
  <2>3. CASE j > b
    <3>1. j \in (b + 1)..(b + n)
      BY <1>2, <1>4, <2>3
    <3>2. CASE i > b
      <4>1. i \in (b + 1)..(b + n)
        BY <1>2, <1>4, <3>2
      <4>2. i + 1 = j
        <5>1. i + 1 < j => i + 1 \in (b + 1)..(b + n) /\ i + 1 \in (i + 1)..(j - 1)
          BY <1>2, <3>1, <4>1
        <5>2. ~(i + 1 < j)
          BY <1>5, <2>1, <5>1
        <5>. QED BY <1>2, <2>1, <3>1, <4>1, <5>2
      <4>3. fed'[i].pa = NextEdge - n + (i - b - 1) /\ fed'[j].pa = NextEdge - n + (j - b - 1)
        BY <1>5, <3>1, <4>1
      <4>4. fed'[j].pa = fed'[i].pa + 1
        BY <1>2, <1>3, <3>1, <4>1, <4>2, <4>3
      <4>. QED BY <1>10, <4>4
    <3>3. CASE i <= b
      <4>1. i \in 1..b /\ b \in 1..b /\ b + 1 \in (b + 1)..(b + n)
        BY <1>2, <1>4, <3>3
      <4>2. j = b + 1
        <5>1. b + 1 < j => b + 1 \in (i + 1)..(j - 1)
          BY <1>2, <3>1, <4>1
        <5>2. ~(b + 1 < j)
          BY <1>5, <2>1, <4>1, <5>1
        <5>. QED BY <1>2, <3>1, <5>2
      <4>3. fed'[i] = fed[i] /\ IsSample(i) /\ fed[i] # Begin
        BY <1>4, <2>1, <4>1 DEF IsSample, Begin
      <4>4. CASE i = b
        <5>1. fed'[j].pa = NextEdge - n
          <6>1. fed'[j].pa = NextEdge - n + (j - b - 1)
            BY <1>5, <3>1
          <6>. QED BY <1>3, <4>2, <6>1
        <5>2. dropped # 0
          BY <1>1, <1>2, <1>10, <4>1, <4>3, <4>4, <5>1 DEF Holes, Unbroken, Upcoming
        <5>3. SameSession(i, b)
          BY <1>2, <4>1, <4>3, <4>4 DEF SameSession
        <5>. QED BY <1>1, <1>8, <1>9, <4>1, <5>2, <5>3
      <4>5. CASE i < b
        <5>1. \A k \in (i + 1)..b : fed'[k] = Gap
          BY <1>2, <2>1, <4>1, <4>2
        <5>2. b \in 1..Len(fed') /\ b > i /\ fed'[b] = Gap
          BY <1>2, <1>4, <4>1, <4>5, <5>1
        <5>3. SameSession(i, b)'
          <6> SUFFICES ASSUME NEW m \in i..b PROVE fed'[m] # Begin
            BY DEF SameSession
          <6>1. m = i \/ m \in (i + 1)..b
            BY <1>2, <4>1
          <6>. QED BY <4>3, <5>1, <6>1 DEF Gap, Begin
        <5>. QED BY <5>2, <5>3 DEF Marked
      <4>. QED BY <1>2, <3>3, <4>1, <4>4, <4>5
    <3>. QED BY <1>2, <1>4, <3>2, <3>3
  <2>. QED BY <1>2, <1>4, <2>2, <2>3
<1>11. JumpsOK'
  BY <1>4, <1>10 DEF JumpsOK
<1>. QED BY <1>3, <1>6, <1>7, <1>11 DEF Holes

LEMMA HolesInductive == IInv /\ Holes /\ [Next]_vars => Holes'
<1> SUFFICES ASSUME IInv, Holes, [Next]_vars PROVE Holes'
  OBVIOUS
<1>1. CASE Edge
  BY <1>1, EdgeHoles
<1>2. CASE \E p \in Ports : Dma(p)
  BY <1>2, DmaHoles
<1>3. CASE Start \/ Stop
  BY <1>3, StartHoles, IterateHoles
<1>4. CASE Drain
  BY <1>4, DrainHoles, CopyDoneHoles, StopTimerHoles, ResyncHoles DEF Drain
<1>5. CASE Iterate
  BY <1>5, IterateHoles, DiscardHoles, FeedHoles, ReportHoles DEF Iterate
<1>6. CASE UNCHANGED vars
  <2>1. UNCHANGED <<edges, cen, pend, ring, written, read, dropped, streaming, pc, phase,
                    samples, fed>>
    BY <1>6 DEF vars, hardware, loop
  <2>2. Consecutive' /\ NextEdge' = NextEdge
    BY <2>1, SameEdges DEF Holes
  <2>3. InHand'
    BY <2>1, <2>2 DEF Holes, InHand
  <2>4. Unbroken'
    BY <2>1, <2>2, SameEnd DEF Holes, Upcoming
  <2>5. JumpsOK'
    BY <2>1, SameHoles DEF Holes, Owing
  <2>. QED BY <2>2, <2>3, <2>4, <2>5 DEF Holes
<1>. QED BY <1>1, <1>2, <1>3, <1>4, <1>5, <1>6 DEF Next

LEMMA HolesInvariant == Spec => [](IInv /\ Holes)
<1>1. Init => IInv /\ Holes
  BY InitHolds, InitHoles
<1>2. IInv /\ Holes /\ [Next]_vars => (IInv /\ Holes)'
  BY Inductive, HolesInductive
<1>. QED BY <1>1, <1>2, PTL DEF Spec

\* A hole in a session's samples has an OVERRUN at or after it in the same
\* session, or one still to come (capture.rs 384-388).
THEOREM LossMarkedAlways == Spec => []LossMarked
<1>1. ASSUME IInv, Holes PROVE LossMarked
  <2>1. DOMAIN fed = 1..Len(fed)
    BY <1>1 DEF IInv, Types
  <2> SUFFICES ASSUME NEW h \in Jumps
               PROVE  \/ dropped > 0 /\ streaming
                      \/ \E k \in DOMAIN fed :
                           k > h[1] /\ fed[k] = Gap /\ \A m \in h[1]..k : fed[m] # Begin
    BY DEF LossMarked
  <2>2. /\ h[1] \in 1..Len(fed) /\ h[2] \in 1..Len(fed)
        /\ Neighbours(h[1], h[2]) /\ fed[h[2]].pa # fed[h[1]].pa + 1
    BY <2>1 DEF Jumps
  <2>3. Marked(h[1]) \/ Owing
    BY <1>1, <2>2 DEF Holes, JumpsOK
  <2>. QED BY <2>1, <2>3 DEF Marked, SameSession, Owing
<1>2. IInv /\ Holes => LossMarked
  BY <1>1
<1>. QED BY <1>2, HolesInvariant, PTL
=============================================================================
