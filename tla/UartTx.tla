------------------------------- MODULE UartTx -------------------------------
(***************************************************************************)
(* The STM32 board's byte transport, firmware-stm32/src/uart.rs: a         *)
(* software ring that the capture loop fills byte by byte and a one-shot   *)
(* DMA transfer drains, one contiguous span at a time.                     *)
(*                                                                         *)
(* The DMA runs in hardware, between any two register reads of the CPU, so *)
(* a push is several steps: the spin on the free count, the store, and the *)
(* kick that re-arms an idle channel.  A byte is named by its position in  *)
(* the order of pushes: the k-th byte pushed is the number k.              *)
(***************************************************************************)
EXTENDS Integers, Sequences

CONSTANTS
  TX_RING,     \* ring size, a power of two so that `& TX_RING_MASK` is `%`
  MaxPushed    \* bound on the bytes pushed

ASSUME UartConstants == TX_RING \in Nat \ {0, 1} /\ MaxPushed \in Nat

VARIABLES
  buf,        \* the ring's storage
  head,       \* start of the unsent region, and of the transfer in flight
  tail,       \* next free slot
  inflight,   \* length of the transfer in flight, 0 when idle
  dma,        \* the channel: enabled, memory slot, remaining count, TC flag
  pc,         \* where the capture loop is in push
  pushed,     \* history: bytes pushed
  sent        \* history: bytes the DMA moved to the USART, in order

vars == <<buf, head, tail, inflight, dma, pc, pushed, sent>>
ring == <<buf, head, tail, inflight>>

Slots == 0..(TX_RING - 1)

Init ==
  /\ buf = [s \in Slots |-> 0]
  /\ head = 0 /\ tail = 0 /\ inflight = 0
  /\ dma = [en |-> FALSE, mar |-> 0, ndtr |-> 0, tcif |-> FALSE]
  /\ pc = "idle"
  /\ pushed = 0
  /\ sent = <<>>

-----------------------------------------------------------------------------
\* Mutant: the transfer in flight is never waited for.
NeverBusy == FALSE

\* Mutant: a transfer stays in flight until someone finalises it.
BusyWhileInflight == inflight > 0

InflightBusy == inflight > 0 /\ ~dma.tcif

\* Contiguous bytes from h to the tail, or to the end of the storage.
Span(h, t) == IF t > h THEN t - h ELSE TX_RING - h

\* Finalise a finished transfer and arm the next span.  The channel moves no
\* byte once its count is 0, so nothing changes under it after the TC test.
KickDma ==
  IF InflightBusy THEN UNCHANGED <<head, inflight, dma>>
  ELSE LET h == (head + inflight) % TX_RING
           off == [dma EXCEPT !.en = IF inflight > 0 THEN FALSE ELSE @,
                              !.tcif = IF inflight > 0 THEN FALSE ELSE @]
       IN  /\ head' = h
           /\ IF h = tail
              THEN inflight' = 0 /\ dma' = off
              ELSE /\ inflight' = Span(h, tail)
                   /\ dma' = [off EXCEPT !.en = TRUE, !.mar = h,
                                         !.ndtr = Span(h, tail)]

\* Mutant: no slot is kept free.
FreeAll ==
  LET remaining == IF inflight > 0 THEN dma.ndtr ELSE 0
      liveHead == (head + (inflight - remaining)) % TX_RING
  IN  IF liveHead = tail THEN TX_RING ELSE (liveHead + TX_RING - tail) % TX_RING

\* Free slots, from the live count of the transfer in flight; one is kept free.
Free ==
  LET remaining == IF inflight > 0 THEN dma.ndtr ELSE 0
      liveHead == (head + (inflight - remaining)) % TX_RING
  IN  (liveHead + TX_RING - tail - 1) % TX_RING

-----------------------------------------------------------------------------
(* The capture loop. *)

PushCall ==
  /\ pc = "idle" /\ pushed < MaxPushed
  /\ pc' = "push"
  /\ UNCHANGED <<buf, head, tail, inflight, dma, pushed, sent>>

\* The spin's two looks at the channel: its count, and in the kick its TC flag.
PushFull ==
  /\ pc = "push" /\ Free = 0
  /\ pc' = "spin"
  /\ UNCHANGED <<buf, head, tail, inflight, dma, pushed, sent>>

PushSpin ==
  /\ pc = "spin"
  /\ KickDma
  /\ pc' = "push"
  /\ UNCHANGED <<buf, tail, pushed, sent>>

\* Mutant: the tail is not wrapped.
StoreUnwrapped ==
  /\ pc = "push" /\ Free # 0
  /\ buf' = [buf EXCEPT ![tail] = pushed + 1]
  /\ tail' = tail + 1
  /\ pushed' = pushed + 1
  /\ pc' = "kick"
  /\ UNCHANGED <<head, inflight, dma, sent>>

PushStore ==
  /\ pc = "push" /\ Free # 0
  /\ buf' = [buf EXCEPT ![tail] = pushed + 1]
  /\ tail' = (tail + 1) % TX_RING
  /\ pushed' = pushed + 1
  /\ pc' = "kick"
  /\ UNCHANGED <<head, inflight, dma, sent>>

PushKick ==
  /\ pc = "kick"
  /\ KickDma
  /\ pc' = "idle"
  /\ UNCHANGED <<buf, tail, pushed, sent>>

\* Mutant: the loop does not kick.
KickNothing == pc = "idle" /\ UNCHANGED vars

\* The loop's kick at the end of each iteration.
Kick ==
  /\ pc = "idle"
  /\ KickDma
  /\ UNCHANGED <<buf, tail, pc, pushed, sent>>

\* The channel moves one byte to the USART; the last one raises TC.
DmaByte ==
  /\ dma.en /\ dma.ndtr > 0
  /\ sent' = Append(sent, buf[dma.mar])
  /\ dma' = [dma EXCEPT !.mar = @ + 1, !.ndtr = @ - 1, !.tcif = (dma.ndtr = 1)]
  /\ UNCHANGED <<buf, head, tail, inflight, pc, pushed>>

Push == PushCall \/ PushFull \/ PushSpin \/ PushStore \/ PushKick
Next == Push \/ Kick \/ DmaByte

Spec == Init /\ [][Next]_vars

\* The DMA runs as long as it is armed; the capture loop never stops, and when
\* it is not pushing it kicks once per iteration.
FairSpec ==
  /\ Spec
  /\ WF_vars(DmaByte)
  /\ WF_vars(PushFull \/ PushSpin \/ PushStore \/ PushKick)
  /\ WF_vars(Kick)

-----------------------------------------------------------------------------
(* Properties. *)

TypeOK ==
  /\ buf \in [Slots -> Nat]
  /\ head \in Slots /\ tail \in Slots /\ inflight \in 0..TX_RING
  /\ dma \in [en : BOOLEAN, mar : 0..TX_RING, ndtr : 0..TX_RING, tcif : BOOLEAN]
  /\ pc \in {"idle", "push", "spin", "kick"}
  /\ pushed \in Nat
  /\ sent \in Seq(Nat)

\* The wire carries the bytes pushed, in order, each once: the DMA never reads
\* a slot before it is written, after it is overwritten, or a second time, and
\* a wrapped span continues where the last one ended (uart.rs 137-198).
InOrder == \A i \in DOMAIN sent : sent[i] = i /\ i <= pushed

\* The bytes between the live head and the tail are exactly those pushed and
\* not yet sent: the ring never confuses full with empty (uart.rs 174-184).
RingHoldsUnsent ==
  pushed - Len(sent) = TX_RING - 1 - Free

\* A push that finds the ring full returns (uart.rs 38-42: the spin always
\* makes progress and never deadlocks).
PushReturns == pc = "push" ~> pc = "idle"

\* No byte is stranded in the ring: what was pushed is sent, though a push that
\* found the channel busy did not arm it (uart.rs 120-125).
AllSent == \A k \in 1..MaxPushed : pushed >= k ~> Len(sent) >= k
=============================================================================
