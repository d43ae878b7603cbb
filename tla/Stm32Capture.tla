---------------------------- MODULE Stm32Capture ----------------------------
(***************************************************************************)
(* The STM32 board's capture path: firmware-stm32/src/capture.rs and the   *)
(* capture loop of firmware-stm32/src/main.rs.                             *)
(*                                                                         *)
(* Each WR edge the timer counts raises two DMA requests; each channel     *)
(* copies its own GPIO port into its own ring.  The loop pairs the two     *)
(* rings by position, so the hardware's two channels, the timer and the    *)
(* loop's register reads interleave.  A sample of a port is named by the   *)
(* number of the WR edge it was taken at.                                  *)
(***************************************************************************)
EXTENDS Integers, FiniteSets, Sequences

CONSTANTS
  RING_CAP,      \* slots of each ring; a power of two, so `& RING_MASK` is `%`
  DRAIN_CHUNK,   \* samples per fast_drain
  MaxLag,        \* environment: unread samples never exceed this
  MaxEdges,      \* bound on the WR edges of a behaviour
  MaxSessions    \* bound on the STARTs of a behaviour

\* fast_drain trusts that the DMA never laps the reader (capture.rs 350-354).
ASSUME CaptureConstants ==
  /\ RING_CAP \in Nat \ {0} /\ RING_CAP % 2 = 0
  /\ DRAIN_CHUNK \in 1..(RING_CAP \div 2)
  /\ MaxLag \in 1..(RING_CAP - 1)
  /\ MaxEdges \in Nat /\ MaxSessions \in Nat

VARIABLES
  edges,      \* WR edges so far
  cen,        \* TIM2 counts: an edge raises DMA requests
  pend,       \* DMA requests raised and not yet served, by port
  ring,       \* the DMA buffers
  written,    \* transfers each channel made; NDTR is RING_CAP - written % RING_CAP
  read,       \* samples taken from each ring; the read index is read % RING_CAP
  woken,      \* the half-/full-transfer IRQ has fired since the last poll
  dropped,    \* samples counted as lost and not yet reported
  streaming,  \* state == Streaming
  pc,         \* the next step of the loop
  phase,      \* which of the loop's calls to fast_drain is running
  want,       \* fast_drain's locals: what PA's NDTR said, then n
  samples,    \* the chunk being filled
  fed,        \* history: what the encoder was given
  sessions    \* history: STARTs so far

hardware == <<edges, cen, pend, ring, written, woken>>
loop == <<pc, phase, want, samples>>
vars == <<hardware, read, dropped, streaming, loop, fed, sessions>>

Ports == {"pa", "pb"}
Slots == 0..(RING_CAP - 1)
Gap == [kind |-> "gap"]
Begin == [kind |-> "begin"]
Sample(a, b) == [kind |-> "sample", pa |-> a, pb |-> b]

Init ==
  /\ edges = 0 /\ cen = TRUE /\ pend = {} /\ woken = FALSE
  /\ ring = [p \in Ports |-> [s \in Slots |-> 0]]
  /\ written = [p \in Ports |-> 0]
  /\ read = [p \in Ports |-> 0]
  /\ dropped = 0 /\ streaming = FALSE
  /\ pc = "commands" /\ phase = "poll" /\ want = 0 /\ samples = <<>>
  /\ fed = <<>> /\ sessions = 0

-----------------------------------------------------------------------------
(* The hardware. *)

\* The requests of an edge are served before the next edge; an edge that finds
\* the timer stopped raises none.
Edge ==
  /\ edges < MaxEdges
  /\ cen => pend = {} /\ \A p \in Ports : written[p] - read[p] < MaxLag
  /\ edges' = edges + 1
  /\ pend' = IF cen THEN Ports ELSE pend
  /\ UNCHANGED <<cen, ring, written, woken, read, dropped, streaming, loop, fed,
                 sessions>>

\* One channel serves its request.  PA's IRQ at half and at full wakes the loop.
Dma(p) ==
  /\ p \in pend
  /\ pend' = pend \ {p}
  /\ ring' = [ring EXCEPT ![p][written[p] % RING_CAP] = edges]
  /\ written' = [written EXCEPT ![p] = @ + 1]
  /\ woken' = (woken \/ (p = "pa" /\ (written[p] + 1) % (RING_CAP \div 2) = 0))
  /\ UNCHANGED <<edges, cen, read, dropped, streaming, loop, fed, sessions>>

-----------------------------------------------------------------------------
(* Host commands, taken at the top of an iteration. *)

Start ==
  /\ pc = "commands" /\ sessions < MaxSessions
  /\ sessions' = sessions + 1
  /\ streaming' = TRUE
  /\ fed' = IF streaming THEN fed ELSE Append(fed, Begin)
  /\ UNCHANGED <<hardware, read, dropped, loop>>

Stop ==
  /\ pc = "commands"
  /\ streaming' = FALSE
  /\ UNCHANGED <<hardware, read, dropped, loop, fed, sessions>>

-----------------------------------------------------------------------------
(* fast_drain: both NDTRs are read, one after the other, then the samples  *)
(* are copied one by one while the DMA goes on.                            *)

Enter(ph) == pc' = "drain" /\ phase' = ph

\* What one NDTR says is there to read: a backlog of RING_CAP looks like none.
Avail(p) ==
  ((written[p] % RING_CAP) - (read[p] % RING_CAP)) % RING_CAP

Backlog(n) == n > RING_CAP \div 2

\* Mutant: the chunk's size is ignored.
CountAll(pa, pb) == LET S == {pa, pb} IN CHOOSE m \in S : \A k \in S : m <= k

\* Mutant: the count read last stands for both.
CountPb(pa, pb) == IF pb < DRAIN_CHUNK THEN pb ELSE DRAIN_CHUNK

\* Samples to copy: what both rings hold, up to the chunk.
Least(S) == CHOOSE m \in S : \A k \in S : m <= k
Count(pa, pb) == Least({pa, pb, DRAIN_CHUNK})

ReadPa ==
  /\ pc = "drain"
  /\ want' = Avail("pa")
  /\ samples' = <<>>
  /\ pc' = "readpb"
  /\ UNCHANGED <<hardware, read, dropped, streaming, phase, fed, sessions>>

ReadPb ==
  /\ pc = "readpb"
  /\ \/ /\ Backlog(want) \/ Backlog(Avail("pb"))
        /\ pc' = "resync" /\ want' = 0
     \/ /\ ~Backlog(want) /\ ~Backlog(Avail("pb"))
        /\ pc' = "copy" /\ want' = Count(want, Avail("pb"))
  /\ UNCHANGED <<hardware, read, dropped, streaming, phase, samples, fed, sessions>>

CopySample ==
  /\ pc = "copy" /\ Len(samples) < want
  /\ LET slot(p) == (read[p] + Len(samples)) % RING_CAP
     IN  samples' = Append(samples, Sample(ring["pa"][slot("pa")],
                                           ring["pb"][slot("pb")]))
  /\ UNCHANGED <<hardware, read, dropped, streaming, pc, phase, want, fed, sessions>>

\* The read indices move on once all samples are copied.
CopyDone ==
  /\ pc = "copy" /\ Len(samples) = want
  /\ read' = [p \in Ports |-> read[p] + want]
  /\ pc' = "use"
  /\ UNCHANGED <<hardware, dropped, streaming, phase, want, samples, fed, sessions>>

\* hard_resync: stop the timer, so that no edge raises requests ...
StopTimer ==
  /\ pc = "resync" /\ cen
  /\ cen' = FALSE
  /\ UNCHANGED <<edges, pend, ring, written, woken, read, dropped, streaming,
                 loop, fed, sessions>>

\* Mutant: both rings are anchored at PA's position.
AnchoredAtPa == [p \in Ports |-> written["pa"]]

\* ... withdraw the requests not yet served, count a ring of losses, take each
\* channel's position as the new read index, and restart.
Anchored == written

\* Mutant: the loss is not counted.
ResyncUncounted ==
  /\ pc = "resync" /\ ~cen
  /\ pend' = {} /\ read' = Anchored /\ cen' = TRUE /\ pc' = "use"
  /\ UNCHANGED <<edges, ring, written, woken, dropped, streaming, phase, want,
                 samples, fed, sessions>>

Resync ==
  /\ pc = "resync" /\ ~cen
  /\ pend' = {}
  /\ dropped' = dropped + RING_CAP
  /\ read' = Anchored
  /\ cen' = TRUE
  /\ pc' = "use"
  /\ UNCHANGED <<edges, ring, written, woken, streaming, phase, want, samples,
                 fed, sessions>>

-----------------------------------------------------------------------------
(* The loop around it: poll until samples or 10 ms pass, then once more;   *)
(* while streaming, feed and drain again until a chunk comes back short.   *)

Poll ==
  /\ pc = "commands"
  /\ Enter("poll")
  /\ UNCHANGED <<hardware, read, dropped, streaming, want, samples, fed, sessions>>

Found == samples # <<>>
Waiting == pc = "use" /\ phase = "poll" /\ ~Found

\* The IRQ's waker: poll again.
Wake ==
  /\ Waiting /\ woken
  /\ woken' = FALSE
  /\ Enter("poll")
  /\ UNCHANGED <<edges, cen, pend, ring, written, read, dropped, streaming, want,
                 samples, fed, sessions>>

\* Mutant: no timer, only the IRQ ends the wait.
ExpireOnIrq ==
  /\ Waiting /\ woken
  /\ Enter("expiring")
  /\ UNCHANGED <<hardware, read, dropped, streaming, want, samples, fed, sessions>>

\* The timer's: the select polls the ring first and then sees the timer.
Expire ==
  /\ Waiting
  /\ Enter("expiring")
  /\ UNCHANGED <<hardware, read, dropped, streaming, want, samples, fed, sessions>>

\* The 10 ms are over: drain what never reached the IRQ's mark.
TimedOut ==
  /\ pc = "use" /\ phase = "expiring" /\ ~Found
  /\ Enter("timeout")
  /\ UNCHANGED <<hardware, read, dropped, streaming, want, samples, fed, sessions>>

\* The select is over, with samples or with none after the timeout.
Resolved == pc = "use" /\ (Found \/ phase \in {"timeout", "burst"})

Discard ==
  /\ Resolved /\ ~streaming
  /\ dropped' = 0
  /\ pc' = "commands"
  /\ UNCHANGED <<hardware, read, streaming, phase, want, samples, fed, sessions>>

\* An idle bus: the loop flushes the encoder and goes round.
Idle ==
  /\ Resolved /\ streaming /\ ~Found /\ phase = "timeout"
  /\ pc' = "commands"
  /\ UNCHANGED <<hardware, read, dropped, streaming, phase, want, samples, fed,
                 sessions>>

Feed ==
  /\ Resolved /\ streaming /\ Found
  /\ fed' = fed \o samples
  /\ \/ Len(samples) < DRAIN_CHUNK /\ pc' = "report" /\ UNCHANGED phase
     \/ Len(samples) = DRAIN_CHUNK /\ Enter("burst")
  /\ UNCHANGED <<hardware, read, dropped, streaming, want, samples, sessions>>

BurstOver ==
  /\ Resolved /\ streaming /\ ~Found /\ phase = "burst"
  /\ pc' = "report"
  /\ UNCHANGED <<hardware, read, dropped, streaming, phase, want, samples, fed,
                 sessions>>

\* Take the dropped count; if it is not zero, emit an OVERRUN.
Report ==
  /\ pc = "report"
  /\ fed' = IF dropped > 0 THEN Append(fed, Gap) ELSE fed
  /\ dropped' = 0
  /\ pc' = "commands"
  /\ UNCHANGED <<hardware, read, streaming, phase, want, samples, sessions>>

-----------------------------------------------------------------------------
Drain == ReadPa \/ ReadPb \/ CopySample \/ CopyDone \/ StopTimer \/ Resync
Iterate ==
  Poll \/ Wake \/ Expire \/ TimedOut \/ Discard \/ Idle \/ Feed \/ BurstOver \/ Report
Next ==
  \/ Edge \/ \E p \in Ports : Dma(p)
  \/ Start \/ Stop
  \/ Drain \/ Iterate

Spec == Init /\ [][Next]_vars

\* The channels serve their requests; the executor runs the loop; the 10 ms
\* timer fires.  WR edges and host commands come when they please.
FairSpec ==
  /\ Spec
  /\ \A p \in Ports : WF_vars(Dma(p))
  /\ WF_vars(Drain \/ Iterate)

-----------------------------------------------------------------------------
(* Properties. *)

TypeOK ==
  /\ edges \in 0..MaxEdges /\ cen \in BOOLEAN /\ pend \subseteq Ports
  /\ ring \in [Ports -> [Slots -> 0..MaxEdges]]
  /\ written \in [Ports -> Nat] /\ read \in [Ports -> Nat]
  /\ \A p \in Ports : written[p] - read[p] \in 0..RING_CAP
  /\ woken \in BOOLEAN /\ dropped \in Nat /\ streaming \in BOOLEAN
  /\ pc \in {"commands", "drain", "readpb", "copy", "resync", "use", "report"}
  /\ phase \in {"poll", "expiring", "timeout", "burst"}
  /\ want \in Slots
  /\ Len(samples) <= DRAIN_CHUNK
  /\ sessions \in 0..MaxSessions

IsSample(i) == fed[i].kind = "sample"

\* Both halves of every sample come from the same WR edge, though the channels
\* run apart by one transfer, the NDTRs are read one after the other, and a
\* resync may withdraw one request of a pair (capture.rs 16-31, 282-290, 396-437).
Paired == \A i \in DOMAIN fed : IsSample(i) => fed[i].pa = fed[i].pb

\* No edge is delivered twice or out of order, across chunks, wraps of the ring
\* and resyncs: a copy never reads a slot before the DMA fills it or after the
\* DMA reuses it (capture.rs 377-403).
InOrder ==
  \A i, j \in DOMAIN fed :
    i < j /\ IsSample(i) /\ IsSample(j) => fed[i].pa < fed[j].pa

\* Consecutive samples of one session, with at most gap marks between them, that
\* are not of consecutive edges.
Neighbours(i, j) ==
  /\ i < j /\ IsSample(i) /\ IsSample(j)
  /\ \A k \in (i + 1)..(j - 1) : fed[k] = Gap
Jumps == {h \in (DOMAIN fed) \X (DOMAIN fed) :
            Neighbours(h[1], h[2]) /\ fed[h[2]].pa # fed[h[1]].pa + 1}

\* Samples are never lost silently: a hole in a session's samples has an
\* OVERRUN at or after it in the same session, or one still to come (capture.rs 384-388 "a resync
\* shows up in cap_dropped, whereas torn samples are silent corruption").
LossMarked ==
  \A h \in Jumps :
    \/ dropped > 0 /\ streaming
    \/ \E k \in DOMAIN fed :
         k > h[1] /\ fed[k] = Gap /\ \A m \in h[1]..k : fed[m] # Begin

\* Every captured edge leaves the ring though the bus went quiet before the
\* IRQ's mark: it is fed, discarded or counted as lost (main.rs 226-244).
Drained ==
  \A e \in 1..MaxEdges : written["pb"] >= e ~> read["pb"] >= e
=============================================================================
