---------------------------- MODULE PicoCapture ----------------------------
(***************************************************************************)
(* The Pico board's capture path: firmware/src/pio_capture.rs and the      *)
(* capture loop of firmware/src/main.rs.                                   *)
(*                                                                         *)
(* One DMA channel writes the samples of all WR edges into a ring without  *)
(* ever stopping.  drain reads the write position twice, once to judge the *)
(* fill level and once to count what there is to copy, and then copies     *)
(* sample by sample; the DMA may write between any two of these steps.  A  *)
(* sample is named by the number of its WR edge.                           *)
(***************************************************************************)
EXTENDS Integers, FiniteSets, Sequences

CONSTANTS
  LEN,          \* the ring's slots, a power of two, so `& len_mask()` is `%`
  DRAIN_CHUNK,  \* samples per drain
  MaxLag,       \* environment: before the first resync, unread samples at most
  MaxEdges      \* bound on the WR edges of a behaviour

\* The ring's headroom rides out the longest stall (main.rs 43-46).
ASSUME CaptureConstants ==
  /\ LEN \in Nat \ {0} /\ LEN % 8 = 0
  /\ DRAIN_CHUNK \in 1..LEN
  /\ MaxLag \in 1..(LEN - 1)
  /\ MaxEdges \in Nat

VARIABLES
  ring,       \* the DMA buffer
  written,    \* samples the DMA wrote; write_pos() is written % LEN
  read_pos,   \* next slot to read
  dropped,    \* dropped_samples: counted as lost and not yet reported
  streaming,  \* state == Streaming
  pc,         \* the next step of the loop
  n,          \* drain's count of samples to copy
  chunk,      \* the samples copied by the drain that is running
  popped,     \* history: the samples all drains returned, in order
  total,      \* history: dropped_total, all samples ever counted as dropped
  resyncs     \* history: times the high-water mark was met

ringVars == <<ring, written>>
reader == <<read_pos, n, chunk>>
histories == <<popped, total, resyncs>>
vars == <<ringVars, reader, dropped, streaming, pc, histories>>

Slots == 0..(LEN - 1)

Init ==
  /\ ring = [s \in Slots |-> 0] /\ written = 0
  /\ read_pos = 0 /\ n = 0 /\ chunk = <<>>
  /\ dropped = 0 /\ streaming = FALSE /\ pc = "commands"
  /\ popped = <<>> /\ total = 0 /\ resyncs = 0

\* The DMA writes the next sample.
Edge ==
  /\ written < MaxEdges
  /\ resyncs = 0 => written - Len(popped) < MaxLag
  /\ ring' = [ring EXCEPT ![written % LEN] = written + 1]
  /\ written' = written + 1
  /\ UNCHANGED <<reader, dropped, streaming, pc, histories>>

-----------------------------------------------------------------------------
(* One iteration of the capture loop: commands, drains until one is empty, *)
(* the overrun report.                                                     *)

Command ==
  /\ pc = "commands"
  /\ \E s \in BOOLEAN : streaming' = s
  /\ UNCHANGED <<ringVars, reader, dropped, pc, histories>>

BeginDrains ==
  /\ pc = "commands"
  /\ pc' = "fill"
  /\ UNCHANGED <<ringVars, reader, dropped, streaming, histories>>

Available == ((written % LEN) - read_pos) % LEN

HighWater(fill) == fill >= (LEN \div 8) * 7

\* Mutant: the new position is not masked.
RestartUnmasked(w) == (w % LEN) + 1

\* At the high-water mark: count the unread tail as dropped and start again at
\* the slot after the writer.
Restart(w) == (w + 1) % LEN

ReadFill ==
  /\ pc = "fill"
  /\ chunk' = <<>>
  /\ IF HighWater(Available)
     THEN /\ dropped' = dropped + Available
          /\ total' = total + Available
          /\ read_pos' = Restart(written)
          /\ resyncs' = resyncs + 1
     ELSE UNCHANGED <<dropped, total, read_pos, resyncs>>
  /\ pc' = "available"
  /\ UNCHANGED <<ringVars, n, streaming, popped>>

Smaller(a, b) == IF a < b THEN a ELSE b

\* available() reads the write position again.
ReadAvailable ==
  /\ pc = "available"
  /\ n' = Smaller(Available, DRAIN_CHUNK)
  /\ pc' = "copy"
  /\ UNCHANGED <<ringVars, read_pos, chunk, dropped, streaming, histories>>

CopySample ==
  /\ pc = "copy" /\ Len(chunk) < n
  /\ chunk' = Append(chunk, ring[(read_pos + Len(chunk)) % LEN])
  /\ UNCHANGED <<ringVars, read_pos, n, dropped, streaming, pc, histories>>

\* Mutant: the read position moves by a whole chunk.
DrainDoneWholeChunk ==
  /\ pc = "copy" /\ Len(chunk) = n
  /\ read_pos' = (read_pos + DRAIN_CHUNK) % LEN
  /\ popped' = popped \o chunk
  /\ pc' = IF n = 0 THEN "report" ELSE "fill"
  /\ UNCHANGED <<ringVars, n, chunk, dropped, streaming, total, resyncs>>

\* drain returns; what it returned is fed while streaming and forgotten while
\* stopped, and the loop drains again until nothing is returned.
DrainDone ==
  /\ pc = "copy" /\ Len(chunk) = n
  /\ read_pos' = (read_pos + n) % LEN
  /\ popped' = popped \o chunk
  /\ pc' = IF n = 0 THEN "report" ELSE "fill"
  /\ UNCHANGED <<ringVars, n, chunk, dropped, streaming, total, resyncs>>

\* Mutant: a loss is reported only in an iteration that ends with samples.
ReportWithSamples ==
  /\ pc = "report"
  /\ dropped' = IF streaming /\ chunk # <<>> THEN 0 ELSE dropped
  /\ pc' = "commands"
  /\ UNCHANGED <<ringVars, reader, streaming, histories>>

Report ==
  /\ pc = "report"
  /\ dropped' = IF streaming THEN 0 ELSE dropped
  /\ pc' = "commands"
  /\ UNCHANGED <<ringVars, reader, streaming, histories>>

-----------------------------------------------------------------------------
Drain == BeginDrains \/ ReadFill \/ ReadAvailable \/ CopySample \/ DrainDone
Next == Edge \/ Command \/ Drain \/ Report

Spec == Init /\ [][Next]_vars

\* The executor runs the capture loop; WR edges and commands are the
\* environment's.
FairSpec == Spec /\ WF_vars(Drain \/ Report)

-----------------------------------------------------------------------------
(* Properties. *)

TypeOK ==
  /\ ring \in [Slots -> 0..MaxEdges] /\ written \in 0..MaxEdges
  /\ read_pos \in Slots /\ n \in 0..DRAIN_CHUNK
  /\ Len(chunk) <= n \/ pc \in {"fill", "available"}
  /\ dropped \in 0..total /\ streaming \in BOOLEAN
  /\ pc \in {"commands", "fill", "available", "copy", "report"}

Returned == {popped[i] : i \in DOMAIN popped}

\* Until the high-water mark is first met, drain returns every edge, in order
\* and once, however the DMA's writes fall between its two readings of the
\* write position and its copies (pio_capture.rs 232-255).
ExactUntilOverrun ==
  resyncs = 0 => \A i \in DOMAIN popped : popped[i] = i

\* A loss counted while streaming reaches the host as an OVERRUN, or the host
\* stops the stream, though the bus falls silent (main.rs 440-445).
LossReported == dropped > 0 /\ streaming ~> dropped = 0 \/ ~streaming

\* What is counted as dropped is not delivered: `we count the unread tail as
\* dropped` and `never read across an overrun boundary` (pio_capture.rs 226-231).
CountIsLoss == total <= Cardinality((1..written) \ Returned)
=============================================================================
