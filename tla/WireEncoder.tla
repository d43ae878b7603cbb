----------------------------- MODULE WireEncoder -----------------------------
(***************************************************************************)
(* The sample-stream encoder, wire/src/encoder.rs.  It run-length encodes  *)
(* samples, holds back up to two finished runs to see whether a third      *)
(* confirms an A,B,A alternation, and streams three kinds of data frames   *)
(* (BLOCK, RUN, REPEAT2) between which side-band frames may appear.        *)
(*                                                                         *)
(* The encoder's private functions are operators from an encoder record to *)
(* an encoder record; `sink` holds the tokens the current call has pushed  *)
(* and `reader` is a history of what all tokens so far mean to a receiver. *)
(* `fed` is a history of the samples and gap marks the caller handed over. *)
(***************************************************************************)
EXTENDS WireFormat

CONSTANT MaxFed     \* bound on Len(fed)

ASSUME MaxFedNat == MaxFed \in Nat

VARIABLES
  enc,        \* the Encoder, its sink and the meaning of the sink
  fed,        \* history: samples fed and gaps marked, in order
  streaming   \* the firmware's session: between a START and a STOP

vars == <<enc, fed, streaming>>

-----------------------------------------------------------------------------
Runs == [sample : Samples, len : 0..MAX_RUN]
NoRun == [sample |-> Zero, len |-> 0]

Idle == [open |-> "none", a |-> Zero, b |-> Zero, nextB |-> FALSE]
BlockOpen == [Idle EXCEPT !.open = "block"]
Repeat2Open(a, b, nextB) ==
  [open |-> "repeat2", a |-> a, b |-> b, nextB |-> nextB]

States == [open : {"none", "block", "repeat2"}, a : Samples, b : Samples,
           nextB : BOOLEAN]

Encoders ==
  [run : Runs, deferred : Seq(Runs), state : States,
   sink : Seq(Tokens), reader : Readers]

NewEncoder ==
  [run |-> NoRun, deferred |-> <<>>, state |-> Idle,
   sink |-> <<>>, reader |-> NewReader]

\* sink.push of one field.
Push(e, t) ==
  [e EXCEPT !.sink = Append(@, t), !.reader = Read(@, t)]

\* Close whatever frame is open.
GoIdle(e) ==
  IF e.state.open = "none" THEN e
  ELSE [Push(e, IF e.state.open = "block" THEN Sentinel ELSE Terminator)
          EXCEPT !.state = Idle]

OpenBlock(e) ==
  [Push(GoIdle(e), BlockTag) EXCEPT !.state = BlockOpen]

AppendBlock(e, x) ==
  Push(IF e.state.open = "block" THEN e ELSE OpenBlock(e), Word(x))

EmitRun(e, r) == Push(e, RunFrame(r.len, r.sample))

\* Mutant: a lone sample is emitted as a RUN of one.
ResolveAsRun(e, r) == EmitRun(GoIdle(e), r)

\* A run that joins no REPEAT2: a lone sample goes into a BLOCK.
ResolveSingle(e, r) ==
  IF r.len = 1 THEN AppendBlock(e, r.sample) ELSE EmitRun(GoIdle(e), r)

\* Resolve the oldest deferred run.
ResolveOldest(e) ==
  [ResolveSingle(e, e.deferred[1]) EXCEPT !.deferred = Tail(@)]

\* Mutant: only the oldest deferred run is drained, the other is forgotten.
DrainOldestOnly(e) ==
  IF e.deferred = <<>> THEN e
  ELSE [ResolveOldest(e) EXCEPT !.deferred = <<>>]

DrainDeferred(e) ==
  IF e.deferred = <<>> THEN e
  ELSE LET once == ResolveOldest(e)
       IN  IF once.deferred = <<>> THEN once ELSE ResolveOldest(once)

Repeat2Start(e, a, b, c) ==
  LET header == Push(GoIdle(e), Repeat2Tag(a.sample, b.sample))
      lens   == Push(Push(Push(header, LenByte(a.len)), LenByte(b.len)),
                     LenByte(c.len))
  IN  [lens EXCEPT !.deferred = <<>>,
                   !.state = Repeat2Open(a.sample, b.sample, TRUE)]

\* Mutant: a run too long for a length byte is deferred like any other.
WindowUncapped(e, r) ==
  IF Len(e.deferred) < 2 THEN [e EXCEPT !.deferred = Append(@, r)]
  ELSE IF e.deferred[1].sample = r.sample
       THEN Repeat2Start(e, e.deferred[1], e.deferred[2], r)
  ELSE [ResolveOldest(e) EXCEPT !.deferred = Append(@, r)]

\* A finished run that extends no open REPEAT2 enters the candidate window.
Window(e, r) ==
  IF r.len > MAX_REPEAT2_LEN THEN EmitRun(GoIdle(DrainDeferred(e)), r)
  ELSE IF Len(e.deferred) < 2 THEN [e EXCEPT !.deferred = Append(@, r)]
  ELSE IF e.deferred[1].sample = r.sample
       THEN Repeat2Start(e, e.deferred[1], e.deferred[2], r)
  ELSE [ResolveOldest(e) EXCEPT !.deferred = Append(@, r)]

\* Mutant: the length of a run that continues the alternation is not checked.
ExtendsAnyLength(e, r) ==
  /\ e.state.open = "repeat2"
  /\ r.sample = IF e.state.nextB THEN e.state.b ELSE e.state.a

\* Does r continue the alternation of the open REPEAT2, and fit its byte?
Extends(e, r) ==
  /\ e.state.open = "repeat2"
  /\ r.sample = IF e.state.nextB THEN e.state.b ELSE e.state.a
  /\ r.len <= MAX_REPEAT2_LEN

CompleteRun(e0) ==
  LET r == e0.run
      e == [e0 EXCEPT !.run = NoRun]
  IN  IF r.len = 0 THEN e0
      ELSE IF Extends(e, r)
           THEN [Push(e, LenByte(r.len)) EXCEPT !.state.nextB = ~@]
      ELSE Window(IF e.state.open = "repeat2" THEN GoIdle(e) ELSE e, r)

-----------------------------------------------------------------------------
(* The public methods. *)

Feed(e, x) ==
  IF e.run.len > 0 /\ e.run.sample = x
  THEN LET longer == [e EXCEPT !.run.len = @ + 1]
       IN  IF longer.run.len = MAX_RUN THEN CompleteRun(longer) ELSE longer
  ELSE [CompleteRun(e) EXCEPT !.run = [sample |-> x, len |-> 1]]

Flush(e) == GoIdle(DrainDeferred(CompleteRun(e)))

\* reset forgets the pending runs and the open frame, without closing it.
Reset(e) == [e EXCEPT !.run = NoRun, !.deferred = <<>>, !.state = Idle]

\* tick, log, started and stopped: close the frame, leave pending runs alone.
Side(e, k) == Push(GoIdle(e), SideFrame(k))

\* Mutant: the pending runs are not flushed before the gap mark.
OverrunUnflushed(e) == Push(GoIdle(e), OverrunFrame)

\* overrun marks a position, so everything captured before it goes first.
Overrun(e) == Push(Flush(e), OverrunFrame)

-----------------------------------------------------------------------------
(* The firmware's capture loop drives the encoder (firmware/src/main.rs,   *)
(* firmware-stm32/src/main.rs); each step is one call from it.             *)

Init ==
  /\ enc = NewEncoder
  /\ fed = <<>>
  /\ streaming = FALSE

Called == [enc EXCEPT !.sink = <<>>]

FeedSample(x) ==
  /\ streaming
  /\ Len(fed) < MaxFed
  /\ enc' = Feed(Called, x)
  /\ fed' = Append(fed, x)
  /\ UNCHANGED streaming

MarkOverrun ==
  /\ streaming
  /\ Len(fed) < MaxFed
  /\ enc' = Overrun(Called)
  /\ fed' = Append(fed, Gap)
  /\ UNCHANGED streaming

IdleFlush ==
  /\ streaming
  /\ enc' = Flush(Called)
  /\ UNCHANGED <<fed, streaming>>

Telemetry(k) ==
  /\ k = "tick" => streaming
  /\ enc' = Side(Called, k)
  /\ UNCHANGED <<fed, streaming>>

\* START: reset before streaming begins, then acknowledge.
Start ==
  /\ enc' = Side(IF streaming THEN Called ELSE Reset(Called), "started")
  /\ streaming' = TRUE
  /\ UNCHANGED fed

\* Mutant: STOP acknowledges without flushing.
StopUnflushed ==
  /\ enc' = Side(Called, "stopped")
  /\ streaming' = FALSE
  /\ UNCHANGED fed

\* STOP: flush if streaming, then acknowledge.
Stop ==
  /\ enc' = Side(IF streaming THEN Flush(Called) ELSE Called, "stopped")
  /\ streaming' = FALSE
  /\ UNCHANGED fed

Next ==
  \/ \E x \in Samples : FeedSample(x)
  \/ MarkOverrun
  \/ IdleFlush
  \/ \E k \in {"tick", "log"} : Telemetry(k)
  \/ Start
  \/ Stop

Spec == Init /\ [][Next]_vars

-----------------------------------------------------------------------------
(* Properties. *)

\* The encoder's fields keep their ranges: a run fits u16, a deferred run fits
\* a REPEAT2 length byte, at most two runs are deferred (encoder.rs 92-108).
TypeOK ==
  /\ enc \in Encoders
  /\ Len(enc.deferred) <= 2
  /\ \A i \in DOMAIN enc.deferred : enc.deferred[i].len \in 1..MAX_REPEAT2_LEN
  /\ fed \in Seq(Items)
  /\ streaming \in BOOLEAN

\* The samples the encoder still holds, oldest first.
Held(d, i) == IF i \in DOMAIN d THEN Repeat(d[i].len, d[i].sample) ELSE <<>>
Deferred(d) == Held(d, 1) \o Held(d, 2)
Pending(e) == Deferred(e.deferred) \o Repeat(e.run.len, e.run.sample)

\* Nothing is lost, duplicated, reordered or moved across a gap mark: what the
\* wire says so far, followed by what the encoder still holds back in its
\* deferral window and current run, is exactly what was fed (encoder.rs 122-292).
Lossless == enc.reader.out \o Pending(enc) = fed

\* A receiver never meets a field it cannot be reading: no tag lands inside an
\* open BLOCK or REPEAT2, no run length wraps to the terminator's zero byte
\* (encoder.rs 271-300, MAX_REPEAT2_LEN 48-51).
NeverDesyncs == enc.reader.open # "desync"

\* Every frame keeps the rules wire_protocol.md gives for it: consecutive
\* samples of a BLOCK differ, a RUN carries at least two samples, and a
\* REPEAT2 alternates between two different values.
Canonical == enc.reader.canonical

\* The STOPPED ack follows everything captured before it, and the reset that
\* opens the next session forgets nothing: while stopped, no sample is held
\* back and no frame is open (firmware main.rs command loop, encoder.rs 110-120).
StoppedIsFlushed ==
  ~streaming => /\ Pending(enc) = <<>>
                /\ enc.reader.open = "none"
=============================================================================
