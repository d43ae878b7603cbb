---------------------------- MODULE PicoSession ----------------------------
(***************************************************************************)
(* Sessions between the viewer (host/src/main.rs: sync and reader_loop)    *)
(* and the Pico firmware (firmware/src/main.rs: the RX and capture tasks), *)
(* over the lossy pipe of UsbPipe.                                         *)
(*                                                                         *)
(* The viewer is started, exits and is started again while the firmware    *)
(* goes on; run numbers its lives.  Every byte carries the run whose START *)
(* or command caused it.  Of the encoder only the shape of what it writes  *)
(* is kept: a frame is a head, bodies and an end, and the last sample fed  *)
(* is always held back.  A body byte may or may not be 0xFC.               *)
(***************************************************************************)
EXTENDS UsbPipe

CONSTANTS
  CMD_QUEUE_CAP,   \* the command channel's slots
  MaxRuns,         \* bound on the viewer's lives
  MaxFeeds,        \* bound on the frame bodies the bus causes
  MaxTells         \* bound on passes that report, and on "idle" and STATS frames

ASSUME SessionConstants ==
  /\ CMD_QUEUE_CAP \in Nat \ {0}
  /\ MaxRuns \in Nat /\ MaxFeeds \in Nat /\ MaxTells \in Nat

VARIABLES
  host,     \* the viewer: "closed", "stop", "drain", "reading", "failed", "desynced"
  run,      \* its life
  saw,      \* drain_until_quiet's saw_needle
  dec,      \* the decoder: in a frame; history: STARTED seen, runs heard
  cmds,     \* commands on the bus, not yet in the channel
  queue,    \* CMD_QUEUE
  enc,      \* the encoder: streaming state, a frame open, a sample held back,
            \* the run it serves
  pc,       \* the capture task: "top" of its loop, in its "commands", "yielded"
  busy,     \* this pass drained something
  idle,     \* idle_ticks > 0
  feeds, tells   \* bounded counters of the environment

hostVars == <<host, run, saw, dec>>
fwVars == <<queue, enc, pc, busy, idle, feeds, tells>>
vars == <<usbVars, hostVars, cmds, fwVars>>

Byte(kind, r) == [kind |-> kind, run |-> r]
Bodies == {"body", "body 0xFC"}
Data == Bodies \cup {"head", "end"}
Fresh == [in |-> FALSE, bad |-> FALSE, started |-> FALSE, heard |-> {}]

Init ==
  /\ UsbInit(<<Byte("log", 0)>>)   \* the boot banner
  /\ host = "closed" /\ run = 0 /\ saw = FALSE /\ dec = Fresh
  /\ cmds = <<>> /\ queue = <<>>
  /\ enc = [streaming |-> FALSE, open |-> FALSE, held |-> FALSE, run |-> 0]
  /\ pc = "top" /\ busy = FALSE /\ idle = FALSE
  /\ feeds = 0 /\ tells = 0

-----------------------------------------------------------------------------
(* The encoder, as a pair of its state and the bytes it pushed. *)

Out(e, bytes) == [e |-> e, bytes |-> bytes]

\* The bytes of o, then those of q, which went on from o's encoder.
Joined(o, q) == Out(q.e, o.bytes \o q.bytes)

GoIdle(e) ==
  Out([e EXCEPT !.open = FALSE], IF e.open THEN <<Byte("end", e.run)>> ELSE <<>>)

\* A sample leaves the encoder, in a frame opened for it if none is open.
EmitBody(e, b) ==
  Out([e EXCEPT !.open = TRUE],
      (IF e.open THEN <<>> ELSE <<Byte("head", e.run)>>) \o <<Byte(b, e.run)>>)

\* A new sample is held back; the one before it leaves.
FeedSample(e, b) ==
  IF e.held THEN EmitBody(e, b) ELSE Out([e EXCEPT !.held = TRUE], <<>>)

\* The held sample leaves, if there is one.
Release(e, b) ==
  IF e.held THEN EmitBody([e EXCEPT !.held = FALSE], b) ELSE Out(e, <<>>)

\* Mutant: the frame's end is written and the frame is not forgotten.
FlushStaysOpen(e, b) ==
  LET o == Joined(Release(e, b), GoIdle(Release(e, b).e))
  IN  Out([o.e EXCEPT !.open = e.open \/ e.held], o.bytes)

Flush(e, b) == Joined(Release(e, b), GoIdle(Release(e, b).e))

\* Telemetry and acks close the open frame and leave the held sample alone.
Tell(e, kind, r) == Joined(GoIdle(e), Out(GoIdle(e).e, <<Byte(kind, r)>>))

-----------------------------------------------------------------------------
(* The firmware's tasks share one executor: none runs in a pass of another *)
(* before its await.                                                       *)

InPass == pc = "commands"

(* The RX task: a byte into the command channel, if it has room. *)

\* Mutant: a command that finds the channel full is dropped.
RxTrySend ==
  /\ cmds # <<>> /\ ~InPass
  /\ queue' = IF Len(queue) < CMD_QUEUE_CAP THEN Append(queue, Head(cmds)) ELSE queue
  /\ cmds' = Tail(cmds)
  /\ UNCHANGED <<usbVars, hostVars, enc, pc, busy, idle, feeds, tells>>

RxCommand ==
  /\ cmds # <<>> /\ ~InPass /\ Len(queue) < CMD_QUEUE_CAP
  /\ queue' = Append(queue, Head(cmds))
  /\ cmds' = Tail(cmds)
  /\ UNCHANGED <<usbVars, hostVars, enc, pc, busy, idle, feeds, tells>>

(* The capture task. *)

StartCmd(e, r) ==
  Tell(IF e.streaming THEN [e EXCEPT !.run = r]
       ELSE [streaming |-> TRUE, open |-> FALSE, held |-> FALSE, run |-> r],
       "started", r)

StopCmd(e, r, b) ==
  IF e.streaming
  THEN Joined(Flush(e, b), Tell([Flush(e, b).e EXCEPT !.streaming = FALSE], "stopped", r))
  ELSE Tell(e, "stopped", r)

Command(e, c, b) ==
  CASE c.kind = "START" -> StartCmd(e, c.run)
    [] c.kind = "STOP"  -> StopCmd(e, c.run, b)
    [] c.kind = "STATS" -> Tell(e, "log", c.run)

\* A pass first takes all commands, oldest first.
TakeCommand ==
  /\ pc \in {"top", "commands"} /\ queue # <<>>
  /\ \E b \in Bodies :
       /\ enc' = Command(enc, Head(queue), b).e
       /\ Push(Command(enc, Head(queue), b).bytes)
  /\ queue' = Tail(queue)
  /\ pc' = "commands"
  /\ UNCHANGED <<tx, buf, ep, urb, tty, hostVars, cmds, busy, idle, feeds, tells>>

\* What the pass says after the samples: a TICK, an OVERRUN or both.
Tick(e, due) == IF due THEN Tell(e, "log", e.run) ELSE Out(e, <<>>)

Overrun(e, dropped, b) ==
  IF dropped THEN Joined(Flush(e, b), Tell(Flush(e, b).e, "log", e.run))
  ELSE Out(e, <<>>)

Reports(e, due, dropped, b) == Joined(Tick(e, due), Overrun(Tick(e, due).e, dropped, b))

\* Then, down to the yield: samples while streaming, and a TICK and an OVERRUN;
\* samples of a stopped stream are drained and dropped.
CapturePass ==
  /\ pc \in {"top", "commands"} /\ queue = <<>>
  /\ \E b \in Bodies, fed, due, dropped \in BOOLEAN :
       LET o1 == IF fed THEN FeedSample(enc, b) ELSE Out(enc, <<>>)
           o2 == Joined(o1, Reports(o1.e, due, dropped, b))
       IN  /\ fed => feeds < MaxFeeds
           /\ fed \/ due \/ dropped => enc.streaming
           /\ due \/ dropped => tells < MaxTells
           /\ enc' = o2.e
           /\ Push(o2.bytes)
           /\ busy' = fed
           /\ feeds' = IF fed THEN feeds + 1 ELSE feeds
           /\ tells' = IF due \/ dropped THEN tells + 1 ELSE tells
  /\ pc' = "yielded"
  /\ UNCHANGED <<tx, buf, ep, urb, tty, hostVars, cmds, queue, idle>>

\* The rest of the pass: the first idle tick flushes the encoder, a later one
\* may log.
AfterYield ==
  /\ pc = "yielded"
  /\ pc' = "top"
  /\ IF busy \/ ~enc.streaming \/ (idle /\ tells = MaxTells)
     THEN UNCHANGED <<enc, pipe, lost, tells>>
     ELSE IF ~idle
     THEN \E b \in Bodies : /\ enc' = Flush(enc, b).e
                            /\ Push(Flush(enc, b).bytes)
                            /\ UNCHANGED tells
     ELSE \/ UNCHANGED <<enc, pipe, lost, tells>>
          \/ /\ enc' = Tell(enc, "log", enc.run).e
             /\ Push(Tell(enc, "log", enc.run).bytes)
             /\ tells' = tells + 1
  /\ idle' = ~busy /\ busy' = FALSE
  /\ UNCHANGED <<tx, buf, ep, urb, tty, hostVars, cmds, queue, feeds>>

-----------------------------------------------------------------------------
(* The viewer. *)

Open == host \in {"stop", "drain", "reading"}
Send(kind) == cmds' = Append(cmds, [kind |-> kind, run |-> run])

HostOpen ==
  /\ host = "closed" /\ run < MaxRuns
  /\ host' = "stop" /\ run' = run + 1
  /\ UNCHANGED <<usbVars, saw, dec, cmds, fwVars>>

HostStop ==
  /\ host = "stop"
  /\ Send("STOP")
  /\ host' = "drain" /\ saw' = FALSE
  /\ UNCHANGED <<usbVars, run, dec, fwVars>>

IsFC(b) == b.kind \in {"stopped", "body 0xFC"}

\* drain_until_quiet reads on.
HostDrain ==
  /\ host = "drain" /\ tty # <<>>
  /\ saw' = (saw \/ \E i \in DOMAIN tty : IsFC(tty[i]))
  /\ tty' = <<>>
  /\ UNCHANGED <<pipe, lost, tx, buf, ep, urb, host, run, dec, cmds, fwVars>>

\* The firmware has nothing left to do or to say.
Quiescent == cmds = <<>> /\ queue = <<>> /\ NothingToSend

\* A read timed out: quiet.  Environment: the firmware, and the bus to it, answer
\* within one read timeout.  A slower pass would let old bytes into the session.
HostQuiet ==
  /\ host = "drain" /\ tty = <<>>
  /\ Quiescent
  /\ IF saw
     THEN Send("START") /\ host' = "reading" /\ dec' = Fresh
     ELSE host' = "failed" /\ UNCHANGED <<cmds, dec>>
  /\ saw' = FALSE
  /\ UNCHANGED <<usbVars, run, fwVars>>

\* The decoder takes a byte.  Inside a frame all but its end is payload; a body
\* or an end taken for a tag is taken for an unknown one.
Decode(d, b) ==
  LET h == [d EXCEPT !.heard = IF b.kind = "log" THEN @ ELSE @ \cup {b.run}]
  IN  IF d.in THEN [h EXCEPT !.in = b.kind # "end"]
      ELSE IF b.kind = "head" THEN [h EXCEPT !.in = TRUE]
      ELSE IF b.kind = "started" THEN [h EXCEPT !.started = TRUE]
      ELSE IF b.kind \in Bodies \cup {"end"} THEN [h EXCEPT !.bad = TRUE]
      ELSE h

\* A byte of what a read returned; a bad tag ends the reader before the next.
HostRead ==
  /\ host = "reading" /\ tty # <<>>
  /\ dec' = Decode(dec, Head(tty))
  /\ tty' = Tail(tty)
  /\ host' = IF dec'.bad THEN "desynced" ELSE "reading"
  /\ UNCHANGED <<pipe, lost, tx, buf, ep, urb, run, saw, cmds, fwVars>>

\* The viewer exits, killed or after its reader's error, and is free to start
\* again.  The driver forgets what it received.
HostExit ==
  /\ host # "closed"
  /\ host' = "closed"
  /\ urb' = <<>> /\ tty' = <<>> /\ dec' = Fresh /\ saw' = FALSE
  /\ UNCHANGED <<pipe, lost, tx, buf, ep, run, cmds, fwVars>>

\* Another process pokes STATS while the viewer has the port open.
Poke ==
  /\ Open /\ tells < MaxTells
  /\ Send("STATS")
  /\ tells' = tells + 1
  /\ UNCHANGED <<usbVars, hostVars, queue, enc, pc, busy, idle, feeds>>

-----------------------------------------------------------------------------
UsbTx == ~InPass /\ TxTask /\ UNCHANGED <<hostVars, cmds, fwVars>>
UsbRx == Open /\ UsbIn /\ UNCHANGED <<hostVars, cmds, fwVars>>
Capture == TakeCommand \/ CapturePass \/ AfterYield
Firmware == RxCommand \/ Capture \/ UsbTx
Host == HostOpen \/ HostStop \/ HostDrain \/ HostQuiet \/ HostRead \/ HostExit
Next == Firmware \/ UsbRx \/ Host \/ Poke

Spec == Init /\ [][Next]_vars

\* The executor runs every task, the USB host polls, and an open viewer goes on
\* with its calls.  Nobody has to start or to stop the viewer.
FairSpec ==
  /\ Spec
  /\ WF_vars(RxCommand) /\ WF_vars(Capture)
  /\ WF_vars(UsbTx) /\ WF_vars(UsbRx)
  /\ WF_vars(HostStop) /\ WF_vars(HostDrain \/ HostQuiet) /\ WF_vars(HostRead)

-----------------------------------------------------------------------------
(* Properties. *)

Bytes == [kind : Data \cup {"started", "stopped", "log"}, run : 0..MaxRuns]
Cmds == [kind : {"START", "STOP", "STATS"}, run : 1..MaxRuns]

TypeOK ==
  /\ pipe \in Seq(Bytes) /\ Len(pipe) <= TX_PIPE_CAP
  /\ lost \subseteq 0..MaxRuns
  /\ tx \in {"read", "topup", "write", "zlp"}
  /\ buf \in Seq(Bytes) /\ Len(buf) <= PACKET
  /\ ep \in Seq(Seq(Bytes)) /\ Len(ep) <= 1
  /\ urb \in Seq(Bytes) /\ Len(urb) < URB /\ tty \in Seq(Bytes)
  /\ host \in {"closed", "stop", "drain", "reading", "failed", "desynced"}
  /\ run \in 0..MaxRuns /\ saw \in BOOLEAN
  /\ dec \in [in : BOOLEAN, bad : BOOLEAN, started : BOOLEAN, heard : SUBSET (0..MaxRuns)]
  /\ cmds \in Seq(Cmds) /\ queue \in Seq(Cmds) /\ Len(queue) <= CMD_QUEUE_CAP
  /\ enc \in [streaming : BOOLEAN, open : BOOLEAN, held : BOOLEAN, run : 0..MaxRuns]
  /\ pc \in {"top", "commands", "yielded"} /\ busy \in BOOLEAN /\ idle \in BOOLEAN
  /\ feeds \in 0..MaxFeeds /\ tells \in 0..MaxTells

\* After the handshake the viewer decodes only bytes of its own session, though
\* the firmware may have streamed for an earlier viewer that died: `After this
\* returns, the next byte read starts a fresh frame` (host main.rs 606-608).
FreshStart == dec.heard \subseteq {run} /\ (dec.heard # {} => dec.started)

\* A viewer fails its handshake or desyncs only if its own session, or its own
\* ack, lost a byte at the full pipe: losses of an earlier session do no harm
\* beyond the STOP and START (firmware main.rs 82-88).
OwnLossOnly ==
  host \in {"failed", "desynced"} => run \in lost

\* The handshake ends, in streaming or in a failure: the STOPPED ack is never
\* stranded in a half-filled packet or behind a full one, and the rest of the
\* old stream drains (firmware main.rs 250-277).
HandshakeEnds == host = "drain" ~> host # "drain"

\* Every byte the pipe took reaches an open viewer (firmware main.rs 250-277).
Delivered == pipe # <<>> /\ host = "reading" ~>
             (NothingToSend /\ urb = <<>>) \/ host # "reading"
=============================================================================
