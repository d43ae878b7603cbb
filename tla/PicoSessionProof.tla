-------------------------- MODULE PicoSessionProof --------------------------
(***************************************************************************)
(* Proofs about PicoSession, for any pipe, packet, read request and command *)
(* channel, any number of viewers and any bounds: what the handshake cuts   *)
(* apart stays apart, and only a session's own losses can hurt it.          *)
(*                                                                         *)
(* The transport is one FIFO, InFlight; each task moves bytes within it.    *)
(* The invariant follows a session from its STOP to its last byte: what the *)
(* commands under way will have done (StopComes, AckComes), that quiet is   *)
(* really empty (PacketsEnd), and then that all that is in flight is the    *)
(* session's own and, unless one was lost, framed as the decoder takes it.  *)
(***************************************************************************)
EXTENDS PicoSession, SequenceTheorems, TLAPS

Packet == IF ep = <<>> THEN <<>> ELSE ep[1]

\* The bytes between the encoder and the viewer, oldest first.
InFlight == (((tty \o urb) \o Packet) \o buf) \o pipe

\* The commands between the viewer and the capture task, oldest first.
Pending == queue \o cmds

\* Is the decoder, or the encoder, in a frame before byte i of s?
Inside(in, s, i) ==
  (i = 1 /\ in) \/ (i # 1 /\ s[i - 1].kind \in Bodies \cup {"head"})

\* s is made of frames, acks and logs, from a reader that is in a frame or not
\* to a writer that has one open or not.
Framed(in, s, open) ==
  /\ \A i \in 1..Len(s) : s[i].kind \in Bodies \cup {"end"} <=> Inside(in, s, i)
  /\ Inside(in, s, Len(s) + 1) <=> open

-----------------------------------------------------------------------------
(* The invariant. *)

\* A packet is being filled only while it is being sent; requests are whole
\* packets; what waits in the driver has a packet coming that completes it.
PacketsEnd ==
  /\ tx \in {"read", "zlp"} => buf = <<>>
  /\ Len(urb) % PACKET = 0
  /\ ep # <<>> => Len(ep[1]) <= PACKET
  /\ tx = "read" /\ pipe = <<>> =>
       (ep = <<>> /\ urb = <<>>) \/ (ep # <<>> /\ Len(ep[1]) < PACKET)

\* Nothing is held back by an encoder that is not streaming.
StoppedIsEmpty == ~enc.streaming => ~enc.open /\ ~enc.held

\* The decoder is fresh outside a session, and a viewer has a number.
HostFresh ==
  /\ host \notin {"reading", "desynced"} => dec = Fresh
  /\ host # "closed" => run >= 1

IsStart(c) == c.kind = "START"

\* While the viewer drains, the stream is stopped once all commands are taken.
StopComes ==
  \/ \E i \in 1..Len(Pending) :
       /\ Pending[i].kind = "STOP"
       /\ \A j \in (i + 1)..Len(Pending) : ~IsStart(Pending[j])
  \/ ~enc.streaming /\ \A j \in 1..Len(Pending) : ~IsStart(Pending[j])

\* Its ack has been seen, is in flight, was dropped, or its STOP is under way.
AckComes ==
  \/ saw
  \/ run \in lost
  \/ \E i \in 1..Len(InFlight) : InFlight[i].kind = "stopped"
  \/ \E i \in 1..Len(Pending) : Pending[i] = [kind |-> "STOP", run |-> run]

\* START is under way, and nothing else.
Asked ==
  /\ Len(Pending) >= 1 /\ IsStart(Pending[1])
  /\ \A i \in 2..Len(Pending) : Pending[i].kind = "STATS"
  /\ InFlight = <<>> /\ ~enc.streaming /\ dec = Fresh

\* The firmware streams for this session, and STARTED comes first.
Granted ==
  /\ \A i \in 1..Len(Pending) : Pending[i].kind = "STATS"
  /\ enc.streaming /\ enc.run = run
  /\ \A i \in 1..Len(InFlight) : InFlight[i].run = run
  /\ \/ dec.started
     \/ dec = Fresh /\ Len(InFlight) >= 1 /\ InFlight[1].kind = "started"
  /\ run \notin lost => ~dec.bad /\ Framed(dec.in, InFlight, enc.open)

Reading ==
  /\ \A i \in 1..Len(Pending) : Pending[i].run = run
  /\ Asked \/ Granted

SessionInv ==
  /\ StoppedIsEmpty /\ HostFresh /\ FreshStart
  /\ host = "drain" => StopComes /\ AckComes
  /\ host = "reading" => Reading
  /\ OwnLossOnly

IInv == TypeOK /\ PacketsEnd /\ SessionInv

-----------------------------------------------------------------------------
(* Frames in sequences of bytes. *)

Encoders == [streaming : BOOLEAN, open : BOOLEAN, held : BOOLEAN, run : 0..MaxRuns]

\* Frames may be cut anywhere and put together again.
LEMMA FramedConcat ==
  ASSUME NEW a \in BOOLEAN, NEW b \in BOOLEAN, NEW c \in BOOLEAN,
         NEW s \in Seq(Bytes), NEW t \in Seq(Bytes),
         Framed(a, s, b), Framed(b, t, c)
  PROVE  Framed(a, s \o t, c)
<1> DEFINE u == s \o t
           m == Len(s)
           n == Len(t)
<1>1. /\ u \in Seq(Bytes) /\ m \in Nat /\ n \in Nat /\ Len(u) = m + n
      /\ \A i \in 1..m : u[i] = s[i]
      /\ \A i \in 1..n : u[m + i] = t[i]
  OBVIOUS
<1>2. \A i \in 1..(m + 1) : Inside(a, u, i) <=> Inside(a, s, i)
  <2>1. SUFFICES ASSUME NEW i \in 1..(m + 1) PROVE Inside(a, u, i) <=> Inside(a, s, i)
    OBVIOUS
  <2>2. CASE i = 1
    BY <2>2 DEF Inside
  <2>3. CASE i > 1
    <3>1. i - 1 \in 1..m
      BY <1>1, <2>3
    <3>2. u[i - 1] = s[i - 1]
      BY <3>1, <1>1
    <3> QED BY <3>2, <2>3 DEF Inside
  <2> QED BY <1>1, <2>2, <2>3
<1>3. \A i \in 1..(n + 1) : Inside(a, u, m + i) <=> Inside(b, t, i)
  <2>1. SUFFICES ASSUME NEW i \in 1..(n + 1) PROVE Inside(a, u, m + i) <=> Inside(b, t, i)
    OBVIOUS
  <2>2. CASE i = 1
    <3>1. Inside(a, u, m + 1) <=> Inside(a, s, m + 1)
      BY <1>2, <1>1
    <3>2. Inside(a, s, m + 1) <=> b
      BY DEF Framed
    <3>3. Inside(b, t, 1) <=> b
      BY DEF Inside
    <3> QED BY <3>1, <3>2, <3>3, <2>2
  <2>3. CASE i > 1
    <3>1. i - 1 \in 1..n /\ m + i # 1 /\ m + i - 1 = m + (i - 1)
      BY <1>1, <2>3
    <3>2. u[m + (i - 1)] = t[i - 1]
      BY <3>1, <1>1
    <3> QED BY <3>1, <3>2, <2>3 DEF Inside
  <2> QED BY <1>1, <2>2, <2>3
<1>4. ASSUME NEW i \in 1..(m + n)
      PROVE  u[i].kind \in Bodies \cup {"end"} <=> Inside(a, u, i)
  <2>1. CASE i <= m
    <3>1. i \in 1..m /\ i \in 1..(m + 1)
      BY <1>1, <2>1
    <3>2. u[i] = s[i] /\ (Inside(a, u, i) <=> Inside(a, s, i))
      BY <3>1, <1>1, <1>2
    <3>3. s[i].kind \in Bodies \cup {"end"} <=> Inside(a, s, i)
      BY <3>1 DEF Framed
    <3> QED BY <3>2, <3>3
  <2>2. CASE i > m
    <3> DEFINE j == i - m
    <3>1. j \in 1..n /\ j \in 1..(n + 1) /\ m + j = i
      BY <1>1, <2>2
    <3>2. u[m + j] = t[j] /\ (Inside(a, u, m + j) <=> Inside(b, t, j))
      BY <3>1, <1>1, <1>3
    <3>3. t[j].kind \in Bodies \cup {"end"} <=> Inside(b, t, j)
      BY <3>1 DEF Framed
    <3> QED BY <3>1, <3>2, <3>3
  <2> QED BY <1>1, <2>1, <2>2
<1>5. Inside(a, u, Len(u) + 1) <=> c
  <2>1. n + 1 \in 1..(n + 1) /\ Len(u) + 1 = m + (n + 1)
    BY <1>1
  <2>2. Inside(a, u, m + (n + 1)) <=> Inside(b, t, n + 1)
    BY <2>1, <1>3
  <2>3. Inside(b, t, n + 1) <=> c
    BY DEF Framed
  <2> QED BY <2>1, <2>2, <2>3
<1> QED BY <1>1, <1>4, <1>5 DEF Framed

\* A reader that takes the first byte as what it is finds the rest framed.
LEMMA FramedTail ==
  ASSUME NEW a \in BOOLEAN, NEW c \in BOOLEAN, NEW s \in Seq(Bytes), s # <<>>,
         Framed(a, s, c)
  PROVE  /\ s[1].kind \in Bodies \cup {"end"} <=> a
         /\ Framed(s[1].kind \in Bodies \cup {"head"}, Tail(s), c)
<1> DEFINE t == Tail(s)
           b == s[1].kind \in Bodies \cup {"head"}
<1>1. /\ t \in Seq(Bytes) /\ Len(s) \in Nat /\ Len(s) >= 1 /\ Len(t) = Len(s) - 1
      /\ \A i \in 1..Len(t) : t[i] = s[i + 1]
  OBVIOUS
<1>2. \A i \in 1..(Len(t) + 1) : Inside(b, t, i) <=> Inside(a, s, i + 1)
  <2>1. SUFFICES ASSUME NEW i \in 1..(Len(t) + 1)
                 PROVE  Inside(b, t, i) <=> Inside(a, s, i + 1)
    OBVIOUS
  <2>2. CASE i = 1
    BY <2>2 DEF Inside
  <2>3. CASE i > 1
    <3>1. i - 1 \in 1..Len(t) /\ i + 1 # 1 /\ (i + 1) - 1 = (i - 1) + 1
      BY <1>1, <2>3
    <3>2. t[i - 1] = s[(i - 1) + 1]
      BY <3>1, <1>1
    <3> QED BY <3>1, <3>2, <2>3 DEF Inside
  <2> QED BY <1>1, <2>2, <2>3
<1>3. s[1].kind \in Bodies \cup {"end"} <=> a
  BY <1>1 DEF Framed, Inside
<1>4. ASSUME NEW i \in 1..Len(t)
      PROVE  t[i].kind \in Bodies \cup {"end"} <=> Inside(b, t, i)
  <2>1. i + 1 \in 1..Len(s) /\ i \in 1..(Len(t) + 1)
    BY <1>1
  <2>2. s[i + 1].kind \in Bodies \cup {"end"} <=> Inside(a, s, i + 1)
    BY <2>1 DEF Framed
  <2> QED BY <2>1, <2>2, <1>1, <1>2
<1>5. Inside(b, t, Len(t) + 1) <=> c
  <2>1. Len(t) + 1 \in 1..(Len(t) + 1) /\ (Len(t) + 1) + 1 = Len(s) + 1
    BY <1>1
  <2>2. Inside(b, t, Len(t) + 1) <=> Inside(a, s, Len(s) + 1)
    BY <2>1, <1>2
  <2>3. Inside(a, s, Len(s) + 1) <=> c
    BY DEF Framed
  <2> QED BY <2>2, <2>3
<1> QED BY <1>3, <1>4, <1>5 DEF Framed

-----------------------------------------------------------------------------
(* What the encoder says. *)

\* From an encoder whose frame is open or not, o's bytes are whole but for the
\* frame o's encoder has open, and belong to run r.
Utters(open, o, r) ==
  /\ o.e \in Encoders /\ o.bytes \in Seq(Bytes)
  /\ Framed(open, o.bytes, o.e.open)
  /\ \A i \in 1..Len(o.bytes) : o.bytes[i].run = r

\* Silence.
LEMMA SilenceUtters ==
  ASSUME NEW e \in Encoders, NEW r \in 0..MaxRuns
  PROVE  Utters(e.open, Out(e, <<>>), r)
BY DEF Utters, Out, Framed, Inside, Encoders

\* A byte.
LEMMA ByteUtters ==
  ASSUME NEW e \in Encoders, NEW open \in BOOLEAN, NEW r \in 0..MaxRuns,
         NEW k \in Data \cup {"started", "stopped", "log"},
         k \in Bodies \cup {"end"} <=> open,
         e.open <=> k \in Bodies \cup {"head"}
  PROVE  Utters(open, Out(e, <<Byte(k, r)>>), r)
<1> DEFINE s == <<Byte(k, r)>>
<1>1. /\ s \in Seq(Bytes) /\ Len(s) = 1 /\ s[1].kind = k /\ s[1].run = r
  BY DEF Byte, Bytes
<1>2. \A i \in 1..Len(s) : i = 1
  BY <1>1
<1> HIDE DEF s
<1>3. Framed(open, s, e.open)
  BY <1>1, <1>2 DEF Framed, Inside
<1>4. \A i \in 1..Len(s) : s[i].run = r
  BY <1>1, <1>2
<1>5. Out(e, s).e = e /\ Out(e, s).bytes = s
  BY DEF Out
<1> QED BY <1>1, <1>3, <1>4, <1>5 DEF Utters, s

\* Bytes of one run, put together.
LEMMA RunConcat ==
  ASSUME NEW s \in Seq(Bytes), NEW t \in Seq(Bytes), NEW r,
         \A i \in 1..Len(s) : s[i].run = r, \A i \in 1..Len(t) : t[i].run = r
  PROVE  \A i \in 1..Len(s \o t) : (s \o t)[i].run = r
<1> DEFINE m == Len(s)
           n == Len(t)
<1>1. /\ m \in Nat /\ n \in Nat /\ Len(s \o t) = m + n
      /\ \A i \in 1..m : (s \o t)[i] = s[i]
      /\ \A i \in 1..n : (s \o t)[m + i] = t[i]
  OBVIOUS
<1>2. SUFFICES ASSUME NEW i \in 1..(m + n) PROVE (s \o t)[i].run = r
  BY <1>1
<1>3. CASE i <= m
  BY <1>1, <1>3
<1>4. CASE i > m
  <2>1. i - m \in 1..n /\ m + (i - m) = i
    BY <1>1, <1>4
  <2>2. (s \o t)[m + (i - m)] = t[i - m]
    BY <2>1, <1>1
  <2> QED BY <2>1, <2>2
<1> QED BY <1>1, <1>3, <1>4

\* What is said one after the other.
LEMMA JoinedUtters ==
  ASSUME NEW open \in BOOLEAN, NEW o, NEW q, NEW r \in 0..MaxRuns,
         Utters(open, o, r), Utters(o.e.open, q, r)
  PROVE  Utters(open, Joined(o, q), r)
<1>1. /\ Joined(o, q).e = q.e /\ Joined(o, q).bytes = o.bytes \o q.bytes
  BY DEF Joined, Out
<1>2. o.e.open \in BOOLEAN /\ q.e.open \in BOOLEAN
  BY DEF Utters, Encoders
<1>3. Framed(open, o.bytes \o q.bytes, q.e.open)
  BY <1>2, FramedConcat DEF Utters
<1>4. o.bytes \in Seq(Bytes) /\ q.bytes \in Seq(Bytes)
  BY DEF Utters
<1>5. \A i \in 1..Len(o.bytes \o q.bytes) : (o.bytes \o q.bytes)[i].run = r
  BY <1>4, RunConcat DEF Utters
<1>6. o.bytes \o q.bytes \in Seq(Bytes)
  BY <1>4, ConcatProperties
<1>7. q.e \in Encoders
  BY DEF Utters
<1> QED BY <1>1, <1>3, <1>5, <1>6, <1>7 DEF Utters

\* The contract of each function: what it says, and the fields it leaves alone.
LEMMA GoIdleUtters ==
  ASSUME NEW e \in Encoders
  PROVE  /\ Utters(e.open, GoIdle(e), e.run)
         /\ GoIdle(e).e = [e EXCEPT !.open = FALSE]
<1> DEFINE f == [e EXCEPT !.open = FALSE]
<1>1. f \in Encoders /\ f.open = FALSE /\ e.run \in 0..MaxRuns /\ e.open \in BOOLEAN
  BY DEF Encoders
<1>2. CASE e.open
  <2>1. Utters(e.open, Out(f, <<Byte("end", e.run)>>), e.run)
    BY <1>1, <1>2, ByteUtters DEF Data, Bodies
  <2>2. GoIdle(e) = Out(f, <<Byte("end", e.run)>>)
    BY <1>2 DEF GoIdle
  <2> QED BY <2>1, <2>2 DEF Out
<1>3. CASE ~e.open
  <2>1. f.open = e.open
    BY <1>1, <1>3
  <2>2. Utters(f.open, Out(f, <<>>), e.run)
    BY <1>1, SilenceUtters
  <2>3. Utters(e.open, Out(f, <<>>), e.run)
    BY <2>1, <2>2
  <2>4. GoIdle(e) = Out(f, <<>>)
    BY <1>3 DEF GoIdle
  <2> QED BY <2>3, <2>4 DEF Out
<1> QED BY <1>2, <1>3

LEMMA EmitBodyUtters ==
  ASSUME NEW e \in Encoders, NEW b \in Bodies
  PROVE  /\ Utters(e.open, EmitBody(e, b), e.run)
         /\ EmitBody(e, b).e = [e EXCEPT !.open = TRUE]
<1> DEFINE f == [e EXCEPT !.open = TRUE]
           head == IF e.open THEN Out(f, <<>>) ELSE Out(f, <<Byte("head", e.run)>>)
           body == Out(f, <<Byte(b, e.run)>>)
<1>1. f \in Encoders /\ f.open = TRUE /\ e.run \in 0..MaxRuns /\ e.open \in BOOLEAN
  BY DEF Encoders
<1>2. Utters(e.open, head, e.run)
  <2>1. CASE e.open
    BY <1>1, <2>1, SilenceUtters
  <2>2. CASE ~e.open
    BY <1>1, <2>2, ByteUtters DEF Data, Bodies
  <2> QED BY <2>1, <2>2
<1>3. head.e = f /\ body.e = f /\ body.bytes = <<Byte(b, e.run)>>
      /\ head.bytes = (IF e.open THEN <<>> ELSE <<Byte("head", e.run)>>)
  BY DEF Out
<1>4. Utters(f.open, body, e.run)
  BY <1>1, ByteUtters DEF Data, Bodies
<1>5. EmitBody(e, b) = Joined(head, body)
  BY <1>3 DEF EmitBody, Joined
<1> HIDE DEF f, head, body
<1>6. Utters(e.open, Joined(head, body), e.run)
  BY <1>1, <1>2, <1>3, <1>4, JoinedUtters
<1> QED BY <1>3, <1>5, <1>6 DEF Joined, Out, f

LEMMA ReleaseUtters ==
  ASSUME NEW e \in Encoders, NEW b \in Bodies
  PROVE  /\ Utters(e.open, Release(e, b), e.run)
         /\ Release(e, b).e = [e EXCEPT !.open = @ \/ e.held, !.held = FALSE]
<1>1. CASE e.held
  <2> DEFINE f == [e EXCEPT !.held = FALSE]
  <2>1. f \in Encoders /\ f.open = e.open /\ f.run = e.run
    BY DEF Encoders
  <2>2. /\ Utters(f.open, EmitBody(f, b), f.run)
        /\ EmitBody(f, b).e = [f EXCEPT !.open = TRUE]
    BY <2>1, EmitBodyUtters
  <2>3. Release(e, b) = EmitBody(f, b)
    BY <1>1 DEF Release
  <2>4. [f EXCEPT !.open = TRUE] = [e EXCEPT !.open = @ \/ e.held, !.held = FALSE]
    BY <1>1 DEF Encoders
  <2> QED BY <2>1, <2>2, <2>3, <2>4
<1>2. CASE ~e.held
  <2>1. Release(e, b) = Out(e, <<>>)
    BY <1>2 DEF Release
  <2>2. Utters(e.open, Out(e, <<>>), e.run) /\ Out(e, <<>>).e = e
    BY SilenceUtters DEF Encoders, Out
  <2>3. e = [e EXCEPT !.open = @ \/ e.held, !.held = FALSE]
    BY <1>2 DEF Encoders
  <2> QED BY <2>1, <2>2, <2>3
<1> QED BY <1>1, <1>2

LEMMA FlushUtters ==
  ASSUME NEW e \in Encoders, NEW b \in Bodies
  PROVE  /\ Utters(e.open, Flush(e, b), e.run)
         /\ Flush(e, b).e = [e EXCEPT !.open = FALSE, !.held = FALSE]
<1> DEFINE o == Release(e, b)
<1>1. Utters(e.open, o, e.run) /\ o.e = [e EXCEPT !.open = @ \/ e.held, !.held = FALSE]
  BY ReleaseUtters
<1>2. o.e \in Encoders /\ o.e.run = e.run
  BY <1>1 DEF Utters, Encoders
<1>3. Utters(o.e.open, GoIdle(o.e), o.e.run) /\ GoIdle(o.e).e = [o.e EXCEPT !.open = FALSE]
  BY <1>2, GoIdleUtters
<1>4. Utters(e.open, Joined(o, GoIdle(o.e)), e.run)
  BY <1>1, <1>2, <1>3, JoinedUtters DEF Encoders
<1>5. Flush(e, b) = Joined(o, GoIdle(o.e)) /\ Flush(e, b).e = GoIdle(o.e).e
  BY DEF Flush, Joined, Out
<1>6. [o.e EXCEPT !.open = FALSE] = [e EXCEPT !.open = FALSE, !.held = FALSE]
  BY <1>1 DEF Encoders
<1> QED BY <1>3, <1>4, <1>5, <1>6

\* An ack or a log is the last byte of what it causes.
Asides == {"started", "stopped", "log"}

LEMMA TellUtters ==
  ASSUME NEW e \in Encoders, NEW kind \in Asides, NEW r \in 0..MaxRuns
  PROVE  /\ Tell(e, kind, r).bytes =
               GoIdle(e).bytes \o <<Byte(kind, r)>>
         /\ Tell(e, kind, r).e = [e EXCEPT !.open = FALSE]
         /\ Tell(e, kind, r).bytes \in Seq(Bytes)
         /\ e.run = r => Utters(e.open, Tell(e, kind, r), r)
<1> DEFINE g == GoIdle(e)
           q == Out(g.e, <<Byte(kind, r)>>)
<1>1. Utters(e.open, g, e.run) /\ g.e = [e EXCEPT !.open = FALSE]
  BY GoIdleUtters
<1>2. g.e \in Encoders /\ g.e.open = FALSE
  BY <1>1 DEF Encoders
<1>3. Utters(g.e.open, q, r)
  BY <1>2, ByteUtters DEF Asides, Data, Bodies
<1>4. Tell(e, kind, r) = Joined(g, q)
  BY DEF Tell
<1>5. Joined(g, q).e = q.e /\ Joined(g, q).bytes = g.bytes \o q.bytes /\ q.e = g.e
      /\ q.bytes = <<Byte(kind, r)>>
  BY DEF Joined, Out
<1>6. e.run = r => Utters(e.open, Joined(g, q), r)
  BY <1>1, <1>3, JoinedUtters DEF Encoders
<1>7. g.bytes \o q.bytes \in Seq(Bytes)
  BY <1>1, <1>3 DEF Utters
<1> QED BY <1>1, <1>4, <1>5, <1>6, <1>7

LEMMA FeedSampleUtters ==
  ASSUME NEW e \in Encoders, NEW b \in Bodies
  PROVE  /\ Utters(e.open, FeedSample(e, b), e.run)
         /\ FeedSample(e, b).e.streaming = e.streaming
         /\ FeedSample(e, b).e.run = e.run
<1>1. CASE e.held
  <2>1. FeedSample(e, b) = EmitBody(e, b)
    BY <1>1 DEF FeedSample
  <2>2. Utters(e.open, EmitBody(e, b), e.run) /\ EmitBody(e, b).e = [e EXCEPT !.open = TRUE]
    BY EmitBodyUtters
  <2>3. [e EXCEPT !.open = TRUE].streaming = e.streaming /\ [e EXCEPT !.open = TRUE].run = e.run
    BY DEF Encoders
  <2> QED BY <2>1, <2>2, <2>3
<1>2. CASE ~e.held
  <2> DEFINE f == [e EXCEPT !.held = TRUE]
  <2>1. /\ f \in Encoders /\ f.open = e.open /\ f.streaming = e.streaming
        /\ f.run = e.run /\ e.run \in 0..MaxRuns
    BY DEF Encoders
  <2>2. Utters(f.open, Out(f, <<>>), e.run) /\ Out(f, <<>>).e = f
    BY <2>1, SilenceUtters DEF Out
  <2>3. FeedSample(e, b) = Out(f, <<>>)
    BY <1>2 DEF FeedSample
  <2> QED BY <2>1, <2>2, <2>3
<1> QED BY <1>1, <1>2

LEMMA TickUtters ==
  ASSUME NEW e \in Encoders, NEW due \in BOOLEAN
  PROVE  /\ Utters(e.open, Tick(e, due), e.run)
         /\ Tick(e, due).e.streaming = e.streaming
         /\ Tick(e, due).e.run = e.run
<1>1. CASE ~due
  <2>1. Tick(e, due) = Out(e, <<>>)
    BY <1>1 DEF Tick
  <2>2. Utters(e.open, Out(e, <<>>), e.run) /\ Out(e, <<>>).e = e
    BY SilenceUtters DEF Encoders, Out
  <2> QED BY <2>1, <2>2
<1>2. CASE due
  <2>1. Tick(e, due) = Tell(e, "log", e.run)
    BY <1>2 DEF Tick
  <2>2. e.run \in 0..MaxRuns /\ "log" \in Asides
    BY DEF Encoders, Asides
  <2>3. /\ Utters(e.open, Tell(e, "log", e.run), e.run)
        /\ Tell(e, "log", e.run).e = [e EXCEPT !.open = FALSE]
    BY <2>2, TellUtters
  <2>4. [e EXCEPT !.open = FALSE].streaming = e.streaming /\ [e EXCEPT !.open = FALSE].run = e.run
    BY DEF Encoders
  <2> QED BY <2>1, <2>3, <2>4
<1> QED BY <1>1, <1>2

LEMMA OverrunUtters ==
  ASSUME NEW e \in Encoders, NEW dropped \in BOOLEAN, NEW b \in Bodies
  PROVE  /\ Utters(e.open, Overrun(e, dropped, b), e.run)
         /\ Overrun(e, dropped, b).e.streaming = e.streaming
         /\ Overrun(e, dropped, b).e.run = e.run
<1>1. CASE ~dropped
  BY <1>1, SilenceUtters DEF Overrun, Out, Encoders
<1>2. CASE dropped
  <2> DEFINE o == Flush(e, b)
             q == Tell(o.e, "log", e.run)
  <2>1. Utters(e.open, o, e.run) /\ o.e = [e EXCEPT !.open = FALSE, !.held = FALSE]
    BY FlushUtters
  <2>2. o.e \in Encoders /\ o.e.run = e.run /\ o.e.streaming = e.streaming
    BY <2>1 DEF Encoders
  <2>3. Utters(o.e.open, q, e.run) /\ q.e = [o.e EXCEPT !.open = FALSE]
    BY <2>2, TellUtters DEF Asides, Encoders
  <2>4. Utters(e.open, Joined(o, q), e.run) /\ Joined(o, q).e = q.e
    BY <2>1, <2>3, JoinedUtters DEF Encoders, Joined, Out
  <2>5. Overrun(e, dropped, b) = Joined(o, q)
    BY <1>2 DEF Overrun
  <2> QED BY <2>2, <2>3, <2>4, <2>5 DEF Encoders
<1> QED BY <1>1, <1>2

LEMMA ReportsUtters ==
  ASSUME NEW e \in Encoders, NEW due \in BOOLEAN, NEW dropped \in BOOLEAN, NEW b \in Bodies
  PROVE  LET q == Reports(e, due, dropped, b)
         IN  /\ Utters(e.open, q, e.run)
             /\ q.e.streaming = e.streaming /\ q.e.run = e.run
<1> DEFINE o == Tick(e, due)
           q == Overrun(o.e, dropped, b)
<1>1. Utters(e.open, o, e.run) /\ o.e.streaming = e.streaming /\ o.e.run = e.run
  BY TickUtters
<1>2. o.e \in Encoders
  BY <1>1 DEF Utters
<1> HIDE DEF o
<1>3. Utters(o.e.open, q, e.run) /\ q.e.streaming = e.streaming /\ q.e.run = e.run
  BY <1>1, <1>2, OverrunUtters
<1> HIDE DEF q
<1>4. Utters(e.open, Joined(o, q), e.run) /\ Joined(o, q).e = q.e
  BY <1>1, <1>3, JoinedUtters DEF Encoders, Joined, Out
<1>5. Reports(e, due, dropped, b) = Joined(o, q)
  BY DEF Reports, o, q
<1> QED BY <1>3, <1>4, <1>5

-----------------------------------------------------------------------------
(* The transport. *)

UsbTypes ==
  /\ pipe \in Seq(Bytes) /\ Len(pipe) <= TX_PIPE_CAP
  /\ lost \subseteq 0..MaxRuns
  /\ tx \in {"read", "topup", "write", "zlp"}
  /\ buf \in Seq(Bytes) /\ Len(buf) <= PACKET
  /\ ep \in Seq(Seq(Bytes)) /\ Len(ep) <= 1
  /\ urb \in Seq(Bytes) /\ Len(urb) < URB /\ tty \in Seq(Bytes)

LEMMA OneElement ==
  ASSUME NEW S, NEW s \in Seq(S), s # <<>>, Len(s) <= 1
  PROVE  s[1] \in S /\ s = <<s[1]>>
<1>1. Len(s) = 1
  <2>1. Len(s) \in Nat \ {0}
    BY EmptySeq
  <2> QED BY <2>1
<1>2. s[1] \in S
  BY <1>1
<1>3. Len(<<s[1]>>) = 1 /\ <<s[1]>>[1] = s[1] /\ <<s[1]>> \in Seq(S)
  BY <1>2
<1> QED BY <1>1, <1>2, <1>3, SeqEqual

LEMMA PacketType ==
  ASSUME UsbTypes
  PROVE  /\ Packet \in Seq(Bytes)
         /\ ep # <<>> => ep = <<Packet>>
<1>1. ep \in Seq(Seq(Bytes)) /\ Len(ep) <= 1
  BY DEF UsbTypes
<1>2. ep # <<>> => ep[1] \in Seq(Bytes) /\ ep = <<ep[1]>>
  BY <1>1, OneElement
<1>3. <<>> \in Seq(Bytes)
  OBVIOUS
<1> QED BY <1>2, <1>3 DEF Packet

\* Concatenation is associative.
LEMMA Assoc ==
  ASSUME NEW s \in Seq(Bytes), NEW t \in Seq(Bytes), NEW u \in Seq(Bytes)
  PROVE  (s \o t) \o u = s \o (t \o u)
OBVIOUS

LEMMA ConcatType ==
  ASSUME NEW s \in Seq(Bytes), NEW t \in Seq(Bytes)
  PROVE  s \o t \in Seq(Bytes)
OBVIOUS

\* What is in flight before the pipe.
LEMMA FrontType ==
  UsbTypes => /\ tty \o urb \in Seq(Bytes)
              /\ (tty \o urb) \o Packet \in Seq(Bytes)
              /\ ((tty \o urb) \o Packet) \o buf \in Seq(Bytes)
BY PacketType, ConcatProperties DEF UsbTypes

LEMMA InFlightType == UsbTypes => InFlight \in Seq(Bytes)
BY FrontType, ConcatProperties DEF UsbTypes, InFlight

\* What is pushed is in flight, or was dropped and its run lost a byte.
LEMMA Pushed ==
  ASSUME UsbTypes, NEW bytes \in Seq(Bytes), Push(bytes),
         UNCHANGED <<tx, buf, ep, urb, tty>>
  PROVE  /\ UsbTypes'
         /\ lost \subseteq lost'
         /\ pipe' = <<>> => pipe = <<>>
         /\ \E n \in 0..Len(bytes) :
              /\ InFlight' = InFlight \o SubSeq(bytes, 1, n)
              /\ n = Len(bytes) => lost' = lost
              /\ n < Len(bytes) => bytes[Len(bytes)].run \in lost'
              /\ pipe = <<>> /\ bytes # <<>> => n >= 1
<1> DEFINE n == Least(TX_PIPE_CAP - Len(pipe), Len(bytes))
           b == SubSeq(bytes, 1, n)
<1>1. /\ Len(bytes) \in Nat /\ Len(pipe) \in Nat /\ TX_PIPE_CAP \in Nat
      /\ TX_PIPE_CAP >= 1 /\ Len(pipe) <= TX_PIPE_CAP
      /\ \A i \in 1..Len(bytes) : bytes[i] \in Bytes
  BY UsbConstants DEF UsbTypes
<1>2. n \in 0..Len(bytes) /\ n <= TX_PIPE_CAP - Len(pipe)
  BY <1>1 DEF Least
<1>3. b \in Seq(Bytes) /\ Len(b) = n
  BY <1>1, <1>2
<1>4. pipe' = pipe \o b /\ lost' = lost \cup {bytes[i].run : i \in (n + 1)..Len(bytes)}
  BY DEF Push
<1> HIDE DEF b
<1>5. pipe' \in Seq(Bytes) /\ Len(pipe') = Len(pipe) + n
  BY <1>3, <1>4, ConcatProperties DEF UsbTypes
<1>6. lost' \subseteq 0..MaxRuns
  <2>1. \A i \in (n + 1)..Len(bytes) : i \in 1..Len(bytes)
    BY <1>1, <1>2
  <2>2. \A i \in (n + 1)..Len(bytes) : bytes[i].run \in 0..MaxRuns
    BY <2>1, <1>1 DEF Bytes
  <2> QED BY <2>2, <1>4 DEF UsbTypes
<1>7. UsbTypes'
  BY <1>1, <1>2, <1>5, <1>6 DEF UsbTypes
<1>8. pipe' = <<>> => pipe = <<>>
  <2>1. pipe \in Seq(Bytes) /\ pipe' \in Seq(Bytes) /\ Len(pipe) \in Nat /\ n \in Nat
    BY <1>2, <1>5 DEF UsbTypes
  <2>2. pipe' = <<>> => Len(pipe') = 0
    OBVIOUS
  <2>3. Len(pipe) = 0 => pipe = <<>>
    BY <2>1
  <2> QED BY <2>1, <2>2, <2>3, <1>5
<1>9. InFlight' = InFlight \o b
  <2> DEFINE front == ((tty \o urb) \o Packet) \o buf
  <2>1. front \in Seq(Bytes) /\ pipe \in Seq(Bytes)
    BY FrontType DEF UsbTypes
  <2>2. InFlight' = front \o (pipe \o b) /\ InFlight = front \o pipe
    BY <1>4 DEF InFlight, Packet
  <2> HIDE DEF front
  <2> QED BY <2>1, <2>2, <1>3, Assoc
<1>10. n = Len(bytes) => lost' = lost
  BY <1>1, <1>4
<1>11. n < Len(bytes) => bytes[Len(bytes)].run \in lost'
  <2>1. n < Len(bytes) => Len(bytes) \in (n + 1)..Len(bytes)
    BY <1>1, <1>2
  <2> QED BY <2>1, <1>4
<1>12. pipe = <<>> /\ bytes # <<>> => n >= 1
  <2>1. pipe = <<>> => Len(pipe) = 0
    OBVIOUS
  <2>2. bytes # <<>> => Len(bytes) >= 1
    BY <1>1
  <2> QED BY <2>1, <2>2, <1>1 DEF Least
<1>13. lost \subseteq lost'
  BY <1>4
<1> QED BY <1>2, <1>7, <1>8, <1>9, <1>10, <1>11, <1>12, <1>13 DEF b

\* A sequence cut in two.
LEMMA Cut ==
  ASSUME NEW s \in Seq(Bytes), NEW n \in 0..Len(s)
  PROVE  /\ SubSeq(s, 1, n) \in Seq(Bytes) /\ Len(SubSeq(s, 1, n)) = n
         /\ SubSeq(s, n + 1, Len(s)) \in Seq(Bytes)
         /\ Len(SubSeq(s, n + 1, Len(s))) = Len(s) - n
         /\ SubSeq(s, 1, n) \o SubSeq(s, n + 1, Len(s)) = s
<1> DEFINE u == SubSeq(s, 1, n)
           v == SubSeq(s, n + 1, Len(s))
<1>1. /\ Len(s) \in Nat /\ n \in Nat /\ n <= Len(s)
      /\ \A i \in 1..Len(s) : s[i] \in Bytes
  OBVIOUS
<1>2. /\ u \in Seq(Bytes) /\ Len(u) = n /\ \A i \in 1..n : u[i] = s[i]
  BY <1>1
<1>3. /\ v \in Seq(Bytes) /\ Len(v) = Len(s) - n
      /\ \A i \in 1..(Len(s) - n) : v[i] = s[n + i]
  BY <1>1
<1> HIDE DEF u, v
<1>4. u \o v \in Seq(Bytes) /\ Len(u \o v) = Len(s)
  BY <1>1, <1>2, <1>3, ConcatProperties
<1>5. ASSUME NEW i \in 1..Len(s) PROVE (u \o v)[i] = s[i]
  <2>1. (u \o v)[i] = IF i <= n THEN u[i] ELSE v[i - n]
    BY <1>1, <1>2, <1>3, ConcatProperties
  <2>2. CASE i <= n
    BY <2>1, <2>2, <1>1, <1>2
  <2>3. CASE i > n
    <3>1. i - n \in 1..(Len(s) - n) /\ n + (i - n) = i
      BY <1>1, <2>3
    <3> QED BY <2>1, <2>3, <3>1, <1>1, <1>3
  <2>4. i <= n \/ i > n
    BY <1>1
  <2> QED BY <2>2, <2>3, <2>4
<1>6. u \o v = s
  BY <1>4, <1>5, SeqEqual
<1> QED BY <1>2, <1>3, <1>6 DEF u, v

\* One more packet fits a request that whole packets do not fill.
LEMMA WholePackets ==
  ASSUME NEW p \in Nat \ {0}, NEW a \in Nat, NEW u \in Nat,
         a % p = 0, u % p = 0, a < u
  PROVE  a + p <= u /\ (a + p) % p = 0
<1> DEFINE i == a \div p
           j == u \div p
<1>1. i \in Nat /\ j \in Nat /\ a = p * i /\ u = p * j
  OBVIOUS
<1> HIDE DEF i, j
<1>2. i < j
  <2>1. i >= j => p * i >= p * j
    BY <1>1
  <2> QED BY <1>1, <2>1
<1>3. p * (i + 1) <= p * j /\ p * (i + 1) = p * i + p
  <2>1. i + 1 <= j /\ i + 1 \in Nat
    BY <1>1, <1>2
  <2> QED BY <1>1, <2>1
<1>4. (p * (i + 1)) % p = 0
  <2> DEFINE m == p * (i + 1)
             d == m \div p
             r == m % p
  <2>1. i + 1 \in Nat /\ m \in Nat
    BY <1>1
  <2> HIDE DEF m
  <2>2. m = p * d + r /\ r \in 0..(p - 1) /\ d \in Int
    BY <2>1
  <2> HIDE DEF d, r
  <2>3. r = p * ((i + 1) - d)
    BY <1>1, <2>2 DEF m
  <2>4. PICK g \in Int : g = (i + 1) - d
    BY <1>1, <2>2
  <2>5. r = p * g
    BY <2>3, <2>4
  <2>6. g >= 1 => r >= p
    BY <2>5
  <2>7. g <= -1 => r < 0
    BY <2>5
  <2>8. g = 0
    BY <2>2, <2>4, <2>6, <2>7
  <2>9. r = 0
    BY <2>5, <2>8
  <2> QED BY <2>9 DEF m, r
<1> QED BY <1>1, <1>3, <1>4

LEMMA BytesAssociative ==
  \A a, b, c \in Seq(Bytes) : (a \o b) \o c = a \o (b \o c)
BY ConcatAssociative

\* The TX task moves bytes on, and leaves no full packet as the last.
LEMMA TxStep ==
  ASSUME UsbTypes, PacketsEnd, TxTask
  PROVE  UsbTypes' /\ PacketsEnd' /\ InFlight' = InFlight /\ lost' = lost
<1> DEFINE ahead == (tty \o urb) \o Packet
<1>1. /\ pipe \in Seq(Bytes) /\ buf \in Seq(Bytes) /\ ahead \in Seq(Bytes)
      /\ Len(pipe) \in Nat /\ Len(buf) \in Nat /\ Len(buf) <= PACKET
      /\ PACKET \in Nat \ {0} /\ tty \o urb \in Seq(Bytes)
  BY FrontType, UsbConstants DEF UsbTypes
<1>2. CASE TxRead
  <2> DEFINE n == Least(PACKET - Len(buf), Len(pipe))
             p1 == SubSeq(pipe, 1, n)
             p2 == SubSeq(pipe, n + 1, Len(pipe))
  <2>1. n \in 0..Len(pipe) /\ Len(buf) + n <= PACKET
    BY <1>1 DEF Least
  <2> HIDE DEF n
  <2>2. /\ p1 \in Seq(Bytes) /\ p2 \in Seq(Bytes)
        /\ Len(p1) = n /\ Len(p2) = Len(pipe) - n
    BY <1>1, <2>1, Cut
  <2>3. p1 \o p2 = pipe
    BY <1>1, <2>1, Cut
  <2>4. /\ buf' = buf \o p1 /\ pipe' = p2 /\ tx' \in {"write", "topup"}
        /\ UNCHANGED <<lost, ep, urb, tty>>
    BY <1>2 DEF TxRead, Fill, n
  <2> HIDE DEF p1, p2
  <2>5. buf' \in Seq(Bytes) /\ Len(buf') = Len(buf) + n
    BY <1>1, <2>2, <2>4, ConcatProperties
  <2>6. UsbTypes'
    <3>1. Len(pipe') <= TX_PIPE_CAP /\ Len(buf') <= PACKET
      BY <1>1, <2>1, <2>2, <2>4, <2>5, UsbConstants DEF UsbTypes
    <3> QED BY <2>2, <2>4, <2>5, <3>1 DEF UsbTypes
  <2>7. PacketsEnd'
    BY <2>4 DEF PacketsEnd
  <2>8. InFlight' = (ahead \o (buf \o p1)) \o p2 /\ InFlight = (ahead \o buf) \o pipe
    BY <2>4 DEF InFlight, Packet
  <2> HIDE DEF ahead
  <2>9. (ahead \o (buf \o p1)) \o p2 = (ahead \o buf) \o (p1 \o p2)
    <3> DEFINE st == ahead \o buf
    <3>1. ahead \in Seq(Bytes) /\ buf \in Seq(Bytes)
      BY <1>1
    <3>2. st \in Seq(Bytes)
      BY <3>1, ConcatType
    <3>3. ahead \o (buf \o p1) = st \o p1
      BY <3>1, <2>2, BytesAssociative, Zenon
    <3> HIDE DEF st
    <3>4. (st \o p1) \o p2 = st \o (p1 \o p2)
      BY <2>2, <3>2, BytesAssociative, Zenon
    <3> QED BY <3>3, <3>4, Zenon DEF st
  <2> QED BY <2>3, <2>4, <2>6, <2>7, <2>8, <2>9
<1>3. CASE TxTimeout
  BY <1>3 DEF TxTimeout, UsbTypes, PacketsEnd, InFlight, Packet
<1>4. CASE TxWrite
  <2>1. /\ ep = <<>> /\ ep' = <<buf>> /\ buf' = <<>> /\ UNCHANGED <<pipe, lost, urb, tty>>
        /\ tx' = IF NeedsZlp THEN "zlp" ELSE "read"
    BY <1>4 DEF TxWrite
  <2>2. ep' # <<>> /\ ep'[1] = buf /\ Packet' = buf /\ Packet = <<>>
    BY <2>1 DEF Packet
  <2>3. ep' \in Seq(Seq(Bytes)) /\ Len(ep') = 1
    BY <2>1, <1>1
  <2>4. UsbTypes'
    BY <1>1, <2>1, <2>3 DEF UsbTypes
  <2>5. PacketsEnd'
    BY <1>1, <2>1, <2>2 DEF PacketsEnd, NeedsZlp
  <2>6. InFlight' = (((tty \o urb) \o buf) \o <<>>) \o pipe
        /\ InFlight = (((tty \o urb) \o <<>>) \o buf) \o pipe
    BY <2>1, <2>2 DEF InFlight
  <2>7. (tty \o urb) \o <<>> = tty \o urb
        /\ ((tty \o urb) \o buf) \o <<>> = (tty \o urb) \o buf
    BY <1>1, ConcatEmptySeq, ConcatProperties
  <2> QED BY <2>1, <2>4, <2>5, <2>6, <2>7
<1>5. CASE TxZlp
  <2>1. /\ ep = <<>> /\ ep' = << <<>> >> /\ tx' = "read" /\ tx = "zlp"
        /\ UNCHANGED <<pipe, lost, buf, urb, tty>>
    BY <1>5 DEF TxZlp
  <2>2. ep' # <<>> /\ ep'[1] = <<>> /\ Len(ep'[1]) = 0
    BY <2>1
  <2>3. Packet' = <<>> /\ Packet = <<>>
    BY <2>1, <2>2 DEF Packet
  <2>4. ep' \in Seq(Seq(Bytes)) /\ Len(ep') = 1
    BY <2>1
  <2>5. UsbTypes'
    BY <2>1, <2>4 DEF UsbTypes
  <2>6. PacketsEnd'
    BY <1>1, <2>1, <2>2 DEF PacketsEnd
  <2>7. InFlight' = InFlight
    BY <2>1, <2>3 DEF InFlight
  <2> QED BY <2>1, <2>5, <2>6, <2>7
<1> QED BY <1>2, <1>3, <1>4, <1>5 DEF TxTask

\* The host moves them on, and never holds more than its request.
LEMMA UsbInStep ==
  ASSUME UsbTypes, PacketsEnd, UsbIn
  PROVE  UsbTypes' /\ PacketsEnd' /\ InFlight' = InFlight /\ lost' = lost
<1> DEFINE got == urb \o Packet
<1>1. /\ Packet \in Seq(Bytes) /\ urb \in Seq(Bytes) /\ tty \in Seq(Bytes)
      /\ ep[1] = Packet /\ ep # <<>> /\ ep' = <<>> /\ Packet' = <<>>
      /\ UNCHANGED <<pipe, lost, tx, buf>>
  BY PacketType DEF UsbIn, UsbTypes, Packet
<1>2. /\ got \in Seq(Bytes) /\ Len(got) = Len(urb) + Len(Packet)
      /\ Len(urb) \in Nat /\ Len(Packet) \in Nat /\ Len(Packet) <= PACKET
      /\ PACKET \in Nat \ {0} /\ URB \in Nat \ {0} /\ Len(urb) < URB
      /\ Len(urb) % PACKET = 0 /\ URB % PACKET = 0
  BY <1>1, ConcatProperties, UsbConstants DEF UsbTypes, PacketsEnd
<1>a. (tty \o urb) \o Packet = tty \o got /\ tty \o got \in Seq(Bytes)
  <2>1. (tty \o urb) \o Packet = tty \o (urb \o Packet)
    BY <1>1, Assoc, Zenon
  <2>2. tty \o got \in Seq(Bytes)
    BY <1>1, <1>2, ConcatProperties, Zenon
  <2>. QED BY <2>1, <2>2
<1>b. (tty \o got) \o <<>> = tty \o got
  BY <1>a, ConcatEmptySeq
<1>c. (urb \o ep[1]) = got
  BY <1>1
<1> HIDE DEF got
<1>3. CASE Len(Packet) < PACKET \/ Len(got) = URB
  <2>1. tty' = tty \o got /\ urb' = <<>>
    BY <1>1, <1>3, <1>c DEF UsbIn
  <2>2. tty' \in Seq(Bytes) /\ urb' \in Seq(Bytes) /\ Len(urb') = 0
    BY <1>a, <2>1
  <2>3. UsbTypes'
    BY <1>1, <1>2, <2>2 DEF UsbTypes
  <2>4. PacketsEnd'
    BY <1>1, <1>2, <2>1, <2>2 DEF PacketsEnd
  <2>5. ((tty \o got) \o <<>>) \o <<>> = (tty \o urb) \o Packet
    BY <1>a, <1>b
  <2>6. InFlight' = ((((tty \o got) \o <<>>) \o <<>>) \o buf) \o pipe
    BY <1>1, <2>1 DEF InFlight
  <2> QED BY <1>1, <2>3, <2>4, <2>5, <2>6 DEF InFlight
<1>4. CASE ~(Len(Packet) < PACKET \/ Len(got) = URB)
  <2>1. tty' = tty /\ urb' = got /\ Len(Packet) = PACKET
    BY <1>1, <1>2, <1>4, <1>c DEF UsbIn
  <2>2. Len(got) <= URB /\ Len(got) % PACKET = 0
    BY <1>2, <2>1, WholePackets
  <2>3. Len(urb') < URB
    BY <1>2, <1>4, <2>1, <2>2
  <2>4. UsbTypes'
    BY <1>1, <1>2, <2>1, <2>3 DEF UsbTypes
  <2>5. ~(tx = "read" /\ pipe = <<>>)
    BY <1>1, <1>2, <2>1 DEF PacketsEnd
  <2>6. PacketsEnd'
    BY <1>1, <2>1, <2>2, <2>5 DEF PacketsEnd
  <2>7. (tty \o got) \o <<>> = (tty \o urb) \o Packet
    BY <1>a, <1>b
  <2>8. InFlight' = (((tty \o got) \o <<>>) \o buf) \o pipe
    BY <1>1, <2>1 DEF InFlight
  <2> QED BY <1>1, <2>4, <2>6, <2>7, <2>8 DEF InFlight
<1> QED BY <1>3, <1>4

-----------------------------------------------------------------------------
(* What a command makes the encoder say. *)

\* Of the bytes s only the last, x, matters.
EndsWith(s, x) == Len(s) >= 1 /\ s[Len(s)] = x

LEMMA EndsWithLast ==
  ASSUME NEW s \in Seq(Bytes), NEW x \in Bytes
  PROVE  EndsWith(s \o <<x>>, x)
<1>1. Len(s) \in Nat /\ Len(s \o <<x>>) = Len(s) + 1 /\ (s \o <<x>>)[Len(s) + 1] = x
  OBVIOUS
<1> QED BY <1>1 DEF EndsWith

LEMMA TellEnds ==
  ASSUME NEW e \in Encoders, NEW kind \in Asides, NEW r \in 0..MaxRuns
  PROVE  EndsWith(Tell(e, kind, r).bytes, Byte(kind, r))
<1>1. Utters(e.open, GoIdle(e), e.run)
  BY GoIdleUtters
<1>2. GoIdle(e).bytes \in Seq(Bytes) /\ Byte(kind, r) \in Bytes
  BY <1>1 DEF Utters, Byte, Bytes, Asides, Data, Bodies
<1>3. Tell(e, kind, r).bytes = GoIdle(e).bytes \o <<Byte(kind, r)>>
  BY TellUtters
<1> QED BY <1>2, <1>3, EndsWithLast

\* A START on a stopped stream: its ack is all that is said.
LEMMA StartSays ==
  ASSUME NEW e \in Encoders, NEW r \in 0..MaxRuns
  PROVE  /\ StartCmd(e, r).e \in Encoders /\ StartCmd(e, r).e.streaming
         /\ StartCmd(e, r).bytes \in Seq(Bytes)
         /\ ~e.streaming => /\ StartCmd(e, r).bytes = <<Byte("started", r)>>
                            /\ StartCmd(e, r).e.run = r
                            /\ ~StartCmd(e, r).e.open
<1> DEFINE f == IF e.streaming THEN [e EXCEPT !.run = r]
                ELSE [streaming |-> TRUE, open |-> FALSE, held |-> FALSE, run |-> r]
<1>1. /\ f \in Encoders /\ f.streaming /\ f.run = r
      /\ ~e.streaming => f.open = FALSE
  BY DEF Encoders
<1>2. StartCmd(e, r) = Tell(f, "started", r)
  BY DEF StartCmd
<1> HIDE DEF f
<1>3. /\ Tell(f, "started", r).bytes = GoIdle(f).bytes \o <<Byte("started", r)>>
      /\ Tell(f, "started", r).e = [f EXCEPT !.open = FALSE]
      /\ Tell(f, "started", r).bytes \in Seq(Bytes)
  BY <1>1, TellUtters DEF Asides
<1>4. ~e.streaming => GoIdle(f).bytes = <<>>
  BY <1>1 DEF GoIdle, Out
<1>5. <<>> \o <<Byte("started", r)>> = <<Byte("started", r)>>
  <2>1. Byte("started", r) \in Bytes
    BY DEF Byte, Bytes
  <2> QED BY <2>1
<1> QED BY <1>1, <1>2, <1>3, <1>4, <1>5 DEF Encoders

\* A STOP: its ack comes last, and the encoder is empty.
LEMMA StopSays ==
  ASSUME NEW e \in Encoders, NEW r \in 0..MaxRuns, NEW b \in Bodies,
         ~e.streaming => ~e.open /\ ~e.held
  PROVE  /\ StopCmd(e, r, b).e \in Encoders
         /\ LET f == StopCmd(e, r, b).e IN ~f.streaming /\ ~f.open /\ ~f.held
         /\ StopCmd(e, r, b).bytes \in Seq(Bytes)
         /\ EndsWith(StopCmd(e, r, b).bytes, Byte("stopped", r))
<1>1. "stopped" \in Asides
  BY DEF Asides
<1>2. CASE e.streaming
  <2> DEFINE o == Flush(e, b)
             f == [o.e EXCEPT !.streaming = FALSE]
             q == Tell(f, "stopped", r)
  <2>1. o.bytes \in Seq(Bytes) /\ o.e = [e EXCEPT !.open = FALSE, !.held = FALSE]
    BY FlushUtters DEF Utters
  <2>2. f \in Encoders /\ ~f.streaming /\ ~f.open /\ ~f.held
    BY <2>1 DEF Encoders
  <2>3. StopCmd(e, r, b).e = q.e /\ StopCmd(e, r, b).bytes = o.bytes \o q.bytes
    BY <1>2 DEF StopCmd, Joined, Out
  <2> HIDE DEF o, f
  <2>4. /\ q.bytes = GoIdle(f).bytes \o <<Byte("stopped", r)>>
        /\ q.e = [f EXCEPT !.open = FALSE] /\ q.bytes \in Seq(Bytes)
    BY <2>2, <1>1, TellUtters
  <2>5. GoIdle(f).bytes = <<>> /\ Byte("stopped", r) \in Bytes
    BY <2>2 DEF GoIdle, Out, Byte, Bytes
  <2>6. q.bytes = <<Byte("stopped", r)>>
    BY <2>4, <2>5
  <2>7. EndsWith(o.bytes \o q.bytes, Byte("stopped", r))
    BY <2>1, <2>5, <2>6, EndsWithLast
  <2>8. o.bytes \o q.bytes \in Seq(Bytes)
    BY <2>1, <2>4, ConcatProperties
  <2> QED BY <2>2, <2>3, <2>4, <2>7, <2>8 DEF Encoders
<1>3. CASE ~e.streaming
  <2>1. StopCmd(e, r, b) = Tell(e, "stopped", r)
    BY <1>3 DEF StopCmd
  <2>2. /\ Tell(e, "stopped", r).e = [e EXCEPT !.open = FALSE]
        /\ Tell(e, "stopped", r).bytes \in Seq(Bytes)
    BY <1>1, TellUtters
  <2>3. EndsWith(Tell(e, "stopped", r).bytes, Byte("stopped", r))
    BY <1>1, TellEnds
  <2> QED BY <1>3, <2>1, <2>2, <2>3 DEF Encoders
<1> QED BY <1>2, <1>3

-----------------------------------------------------------------------------
(* The steps of a session. *)

\* The types of the viewer's variables, and of the firmware's.
HostTypes ==
  /\ host \in {"closed", "stop", "drain", "reading", "failed", "desynced"}
  /\ run \in 0..MaxRuns /\ saw \in BOOLEAN
  /\ dec \in [in : BOOLEAN, bad : BOOLEAN, started : BOOLEAN, heard : SUBSET (0..MaxRuns)]
  /\ cmds \in Seq(Cmds)
FwTypes ==
  /\ queue \in Seq(Cmds) /\ Len(queue) <= CMD_QUEUE_CAP
  /\ enc \in [streaming : BOOLEAN, open : BOOLEAN, held : BOOLEAN, run : 0..MaxRuns]
  /\ pc \in {"top", "commands", "yielded"} /\ busy \in BOOLEAN /\ idle \in BOOLEAN
  /\ feeds \in 0..MaxFeeds /\ tells \in 0..MaxTells

LEMMA TypeParts ==
  /\ TypeOK => UsbTypes /\ HostTypes /\ FwTypes
  /\ UsbTypes' /\ HostTypes' /\ FwTypes' => TypeOK'
BY Zenon DEF TypeOK, UsbTypes, HostTypes, FwTypes

LEMMA SameTypes ==
  /\ FwTypes /\ UNCHANGED fwVars => FwTypes'
  /\ UsbTypes /\ UNCHANGED usbVars => UsbTypes'
<1>1. FwTypes /\ UNCHANGED fwVars => FwTypes'
  BY DEF FwTypes, fwVars
<1>2. UsbTypes /\ UNCHANGED usbVars => UsbTypes'
  BY DEF UsbTypes, usbVars
<1> QED BY <1>1, <1>2

LEMMA TypeFacts ==
  ASSUME TypeOK
  PROVE  /\ UsbTypes /\ enc \in Encoders /\ run \in 0..MaxRuns
         /\ Pending \in Seq(Cmds) /\ InFlight \in Seq(Bytes)
         /\ \A i \in 1..Len(Pending) : Pending[i] \in Cmds
         /\ \A i \in 1..Len(InFlight) : InFlight[i] \in Bytes
<1>1. UsbTypes /\ enc \in Encoders /\ run \in 0..MaxRuns
  BY DEF TypeOK, UsbTypes, Encoders
<1>2. Pending \in Seq(Cmds)
  BY ConcatProperties DEF TypeOK, Pending
<1>3. InFlight \in Seq(Bytes)
  BY <1>1, InFlightType
<1> QED BY <1>1, <1>2, <1>3

\* Bytes and commands that move within their queues change no session.
LEMMA QuietStep ==
  ASSUME SessionInv, InFlight' = InFlight, Pending' = Pending,
         UNCHANGED <<hostVars, enc, lost>>
  PROVE  SessionInv'
BY DEF SessionInv, StoppedIsEmpty, HostFresh, FreshStart, StopComes, AckComes,
       Reading, Asked, Granted, OwnLossOnly, hostVars

\* What is appended leaves the bytes before it where they are.
LEMMA Appended ==
  ASSUME NEW s \in Seq(Bytes), NEW t \in Seq(Bytes)
  PROVE  /\ s \o t \in Seq(Bytes) /\ Len(s \o t) = Len(s) + Len(t)
         /\ \A i \in 1..Len(s) : (s \o t)[i] = s[i]
         /\ \A i \in 1..Len(t) : (s \o t)[Len(s) + i] = t[i]
OBVIOUS

\* An ack that was to come still comes, as bytes and losses only accumulate.
LEMMA AckStays ==
  ASSUME NEW s \in Seq(Bytes), NEW t \in Seq(Bytes),
         NEW i \in 1..Len(s), s[i].kind = "stopped"
  PROVE  \E j \in 1..Len(s \o t) : (s \o t)[j].kind = "stopped"
BY Appended

\* A session that is granted stays so as the encoder goes on.
LEMMA GrantedSays ==
  ASSUME TypeOK, Granted, NEW o,
         Utters(enc.open, o, enc.run), o.e.streaming, o.e.run = enc.run,
         enc' = o.e, Push(o.bytes), UNCHANGED <<tx, buf, ep, urb, tty, hostVars>>,
         \A i \in 1..Len(Pending') : Pending'[i].kind = "STATS"
  PROVE  Granted'
<1>1. /\ UsbTypes /\ enc \in Encoders /\ run' = run /\ dec' = dec
      /\ InFlight \in Seq(Bytes) /\ o.bytes \in Seq(Bytes)
  BY TypeFacts DEF Utters, hostVars
<1>2. PICK n \in 0..Len(o.bytes) :
        /\ InFlight' = InFlight \o SubSeq(o.bytes, 1, n)
        /\ n = Len(o.bytes) => lost' = lost
        /\ n < Len(o.bytes) => o.bytes[Len(o.bytes)].run \in lost'
  BY <1>1, Pushed
<1>3. lost \subseteq lost'
  BY <1>1, Pushed
<1> DEFINE t == SubSeq(o.bytes, 1, n)
<1>4. /\ t \in Seq(Bytes) /\ Len(t) = n /\ n \in Nat /\ Len(o.bytes) \in Nat
      /\ \A i \in 1..n : t[i] = o.bytes[i]
      /\ n = Len(o.bytes) => t = o.bytes
      /\ InFlight' = InFlight \o t
  BY <1>1, <1>2
<1> HIDE DEF t
<1>5. \A i \in 1..Len(o.bytes) : o.bytes[i].run = run
  BY DEF Granted, Utters
<1>6. \A i \in 1..Len(t) : t[i].run = run
  <2>1. \A i \in 1..Len(t) : i \in 1..Len(o.bytes) /\ t[i] = o.bytes[i]
    BY <1>4
  <2> QED BY <1>5, <2>1
<1>7. \A i \in 1..Len(InFlight \o t) : (InFlight \o t)[i].run = run
  BY <1>6, <1>1, <1>4, RunConcat DEF Granted
<1>8. Len(InFlight) >= 1 => Len(InFlight') >= 1 /\ InFlight'[1] = InFlight[1]
  BY <1>1, <1>4, Appended
<1>9. ASSUME run \notin lost' PROVE Framed(dec.in, InFlight', o.e.open)
  <2>1. n = Len(o.bytes)
    <3>1. CASE n < Len(o.bytes)
      <4>1. Len(o.bytes) \in 1..Len(o.bytes)
        BY <3>1, <1>4
      <4> QED BY <3>1, <4>1, <1>2, <1>5, <1>9
    <3> QED BY <3>1, <1>4
  <2>2. t = o.bytes /\ run \notin lost
    BY <2>1, <1>4, <1>3, <1>9
  <2>3. Framed(dec.in, InFlight, enc.open) /\ Framed(enc.open, t, o.e.open)
    BY <2>2 DEF Granted, Utters
  <2>4. dec.in \in BOOLEAN /\ enc.open \in BOOLEAN /\ o.e.open \in BOOLEAN
    BY <1>1 DEF TypeOK, Utters, Encoders
  <2> QED BY <2>3, <2>4, <1>1, <1>4, FramedConcat
<1>10. run \notin lost' => ~dec.bad
  BY <1>3 DEF Granted
<1> QED BY <1>1, <1>4, <1>7, <1>8, <1>9, <1>10 DEF Granted

\* The firmware goes on with its stream.
LEMMA SayStep ==
  ASSUME TypeOK, SessionInv, NEW o,
         Utters(enc.open, o, enc.run),
         o.e.streaming = enc.streaming, o.e.run = enc.run,
         ~enc.streaming => o.bytes = <<>> /\ o.e = enc,
         enc' = o.e, Push(o.bytes), Pending' = Pending,
         UNCHANGED <<tx, buf, ep, urb, tty, hostVars>>
  PROVE  SessionInv'
<1>1. /\ UsbTypes /\ enc \in Encoders /\ run \in 0..MaxRuns
      /\ InFlight \in Seq(Bytes) /\ o.bytes \in Seq(Bytes)
  BY TypeFacts DEF Utters
<1>2. PICK n \in 0..Len(o.bytes) :
        /\ InFlight' = InFlight \o SubSeq(o.bytes, 1, n)
        /\ n = Len(o.bytes) => lost' = lost
        /\ n < Len(o.bytes) => o.bytes[Len(o.bytes)].run \in lost'
  BY <1>1, Pushed
<1>3. lost \subseteq lost'
  BY <1>1, Pushed
<1> DEFINE t == SubSeq(o.bytes, 1, n)
<1>4. /\ t \in Seq(Bytes) /\ Len(t) = n /\ n \in Nat /\ Len(o.bytes) \in Nat
      /\ \A i \in 1..n : t[i] = o.bytes[i]
      /\ n = Len(o.bytes) => t = o.bytes
  BY <1>1
<1> HIDE DEF t
<1>5. StoppedIsEmpty'
  BY DEF SessionInv, StoppedIsEmpty
<1>6. HostFresh' /\ FreshStart' /\ OwnLossOnly'
  BY <1>3 DEF SessionInv, HostFresh, FreshStart, OwnLossOnly, hostVars
<1>7. ASSUME host' = "drain" PROVE StopComes' /\ AckComes'
  <2>1. host = "drain" /\ StopComes /\ AckComes /\ saw' = saw /\ run' = run
    BY <1>7 DEF SessionInv, hostVars
  <2>2. StopComes'
    BY <2>1 DEF StopComes
  <2>3. AckComes'
    <3>1. CASE \E i \in 1..Len(InFlight) : InFlight[i].kind = "stopped"
      BY <3>1, <1>1, <1>2, <1>4, AckStays DEF AckComes, t
    <3>2. CASE ~\E i \in 1..Len(InFlight) : InFlight[i].kind = "stopped"
      BY <3>2, <2>1, <1>3 DEF AckComes
    <3> QED BY <3>1, <3>2
  <2> QED BY <2>2, <2>3
<1>8. ASSUME host' = "reading" PROVE Reading'
  <2>1. Reading /\ run' = run /\ dec' = dec
    BY <1>8 DEF SessionInv, hostVars
  <2>2. CASE Asked
    <3>1. o.bytes = <<>> /\ enc' = enc
      BY <2>2 DEF Asked
    <3>2. t = <<>> /\ InFlight' = InFlight \o t
      BY <3>1, <1>2, <1>4 DEF t
    <3>3. InFlight' = <<>>
      BY <3>2, <2>2 DEF Asked
    <3> QED BY <2>1, <2>2, <3>1, <3>3 DEF Reading, Asked
  <2>3. CASE Granted
    <3>1. \A i \in 1..Len(Pending') : Pending'[i].kind = "STATS"
      BY <2>3 DEF Granted
    <3>2. o.e.streaming
      BY <2>3 DEF Granted
    <3>3. Granted'
      BY <2>3, <3>1, <3>2, GrantedSays
    <3> QED BY <2>1, <3>3 DEF Reading
  <2> QED BY <2>1, <2>2, <2>3 DEF Reading
<1> QED BY <1>5, <1>6, <1>7, <1>8 DEF SessionInv

\* The capture task takes a command: the session's own START starts its stream,
\* a STOP ends every stream and its ack comes last.
LEMMA TakeCommandStep ==
  ASSUME TypeOK, SessionInv, TakeCommand
  PROVE  SessionInv' /\ UsbTypes' /\ enc' \in Encoders /\ (pipe' = <<>> => pipe = <<>>)
<1> DEFINE c == Head(queue)
<1>1. /\ UsbTypes /\ enc \in Encoders /\ run \in 0..MaxRuns
      /\ Pending \in Seq(Cmds) /\ InFlight \in Seq(Bytes)
  BY TypeFacts
<1>2. /\ queue \in Seq(Cmds) /\ cmds \in Seq(Cmds) /\ queue # <<>> /\ c \in Cmds
      /\ queue' = Tail(queue) /\ cmds' = cmds
      /\ UNCHANGED <<tx, buf, ep, urb, tty, hostVars>>
  BY DEF TypeOK, TakeCommand
<1>3. /\ Len(Pending) >= 1 /\ Pending[1] = c /\ Pending' = Tail(Pending)
  <2>1. Pending' = Tail(queue) \o cmds
    BY <1>2 DEF Pending
  <2>2. Tail(queue) \o cmds = Tail(queue \o cmds)
    BY <1>2
  <2>3. Len(queue \o cmds) >= 1 /\ (queue \o cmds)[1] = c
    BY <1>2
  <2> QED BY <2>1, <2>2, <2>3 DEF Pending
<1> HIDE DEF c
<1>4. PICK b \in Bodies :
        /\ enc' = Command(enc, c, b).e
        /\ Push(Command(enc, c, b).bytes)
  BY DEF TakeCommand, c
<1> DEFINE o == Command(enc, c, b)
<1>5. c.run \in 0..MaxRuns /\ c.run >= 1 /\ c.kind \in {"START", "STOP", "STATS"}
  BY <1>2 DEF Cmds
<1>6. ~enc.streaming => ~enc.open /\ ~enc.held
  BY DEF SessionInv, StoppedIsEmpty
<1>7. c.kind = "START" =>
        /\ o.e \in Encoders /\ o.bytes \in Seq(Bytes) /\ o.e.streaming
        /\ ~enc.streaming => /\ o.bytes = <<Byte("started", c.run)>>
                             /\ o.e.run = c.run /\ ~o.e.open
  BY <1>1, <1>5, StartSays DEF Command
<1>8. c.kind = "STOP" =>
        /\ o.e \in Encoders /\ o.bytes \in Seq(Bytes)
        /\ ~o.e.streaming /\ ~o.e.open /\ ~o.e.held
        /\ EndsWith(o.bytes, Byte("stopped", c.run))
  BY <1>1, <1>5, <1>6, StopSays DEF Command
<1>9. c.kind = "STATS" =>
        /\ o.e = [enc EXCEPT !.open = FALSE] /\ o.e \in Encoders /\ o.bytes \in Seq(Bytes)
        /\ enc.run = c.run => Utters(enc.open, o, c.run)
        /\ EndsWith(o.bytes, Byte("log", c.run))
  <2>1. "log" \in Asides
    BY DEF Asides
  <2>2. [enc EXCEPT !.open = FALSE] \in Encoders
    BY <1>1 DEF Encoders
  <2>3. c.kind = "STATS" => o = Tell(enc, "log", c.run)
    BY DEF Command
  <2> HIDE DEF o
  <2>4. /\ Tell(enc, "log", c.run).e = [enc EXCEPT !.open = FALSE]
        /\ Tell(enc, "log", c.run).bytes \in Seq(Bytes)
        /\ enc.run = c.run => Utters(enc.open, Tell(enc, "log", c.run), c.run)
    BY <1>1, <1>5, <2>1, TellUtters
  <2>5. EndsWith(Tell(enc, "log", c.run).bytes, Byte("log", c.run))
    BY <1>1, <1>5, <2>1, TellEnds
  <2> QED BY <2>2, <2>3, <2>4, <2>5
<1> HIDE DEF o
<1>10. o.e \in Encoders /\ o.bytes \in Seq(Bytes) /\ enc' = o.e /\ Push(o.bytes)
  BY <1>4, <1>5, <1>7, <1>8, <1>9 DEF o
<1>11. PICK n \in 0..Len(o.bytes) :
        /\ InFlight' = InFlight \o SubSeq(o.bytes, 1, n)
        /\ n = Len(o.bytes) => lost' = lost
        /\ n < Len(o.bytes) => o.bytes[Len(o.bytes)].run \in lost'
        /\ pipe = <<>> /\ o.bytes # <<>> => n >= 1
  BY <1>1, <1>2, <1>10, Pushed
<1>12. lost \subseteq lost' /\ UsbTypes' /\ (pipe' = <<>> => pipe = <<>>)
  BY <1>1, <1>2, <1>10, Pushed
<1> DEFINE t == SubSeq(o.bytes, 1, n)
<1>13. /\ t \in Seq(Bytes) /\ Len(t) = n /\ n \in Nat /\ Len(o.bytes) \in Nat
       /\ n = Len(o.bytes) => t = o.bytes
       /\ InFlight' = InFlight \o t
  BY <1>10, <1>11
<1> HIDE DEF t
<1>14. /\ Pending' \in Seq(Cmds) /\ Len(Pending') = Len(Pending) - 1
       /\ \A i \in 1..Len(Pending') : Pending'[i] = Pending[i + 1]
       /\ Len(Pending) \in Nat
  BY <1>1, <1>3
<1>15. StoppedIsEmpty'
  <2>1. ~o.e.streaming => ~o.e.open /\ ~o.e.held
    BY <1>1, <1>5, <1>6, <1>7, <1>8, <1>9 DEF Encoders
  <2> QED BY <2>1, <1>10 DEF StoppedIsEmpty
<1>16. HostFresh' /\ FreshStart' /\ OwnLossOnly'
  BY <1>2, <1>12 DEF SessionInv, HostFresh, FreshStart, OwnLossOnly, hostVars
<1>17. ASSUME host' = "drain" PROVE StopComes' /\ AckComes'
  <2>1. host = "drain" /\ StopComes /\ AckComes /\ saw' = saw /\ run' = run
    BY <1>2, <1>17 DEF SessionInv, hostVars
  <2>2. StopComes'
    <3>1. CASE ~enc.streaming /\ \A j \in 1..Len(Pending) : ~IsStart(Pending[j])
      <4>1. c.kind # "START" /\ ~o.e.streaming
        BY <3>1, <1>1, <1>3, <1>5, <1>8, <1>9, <1>14 DEF IsStart, Encoders
      <4>2. \A j \in 1..Len(Pending') : ~IsStart(Pending'[j])
        BY <3>1, <1>14
      <4> QED BY <4>1, <4>2, <1>10 DEF StopComes
    <3>2. ASSUME NEW i \in 1..Len(Pending), Pending[i].kind = "STOP",
                 \A j \in (i + 1)..Len(Pending) : ~IsStart(Pending[j])
          PROVE  StopComes'
      <4>1. CASE i = 1
        <5>1. ~o.e.streaming
          BY <4>1, <3>2, <1>3, <1>8
        <5>2. \A j \in 1..Len(Pending') : ~IsStart(Pending'[j])
          BY <4>1, <3>2, <1>14
        <5> QED BY <5>1, <5>2, <1>10 DEF StopComes
      <4>2. CASE i > 1
        <5>1. i - 1 \in 1..Len(Pending') /\ (i - 1) + 1 = i
          BY <4>2, <1>14
        <5>2. Pending'[i - 1].kind = "STOP"
          BY <5>1, <3>2, <1>14
        <5>3. \A j \in ((i - 1) + 1)..Len(Pending') : ~IsStart(Pending'[j])
          <6>1. SUFFICES ASSUME NEW j \in ((i - 1) + 1)..Len(Pending')
                         PROVE  ~IsStart(Pending'[j])
            OBVIOUS
          <6>2. j \in 1..Len(Pending') /\ j + 1 \in (i + 1)..Len(Pending)
            BY <4>2, <1>14
          <6> QED BY <6>2, <3>2, <1>14
        <5> QED BY <5>1, <5>2, <5>3 DEF StopComes
      <4> QED BY <4>1, <4>2, <1>14
    <3> QED BY <2>1, <3>1, <3>2 DEF StopComes
  <2>3. AckComes'
    <3>1. CASE saw \/ run \in lost
      BY <3>1, <2>1, <1>12 DEF AckComes
    <3>2. CASE \E i \in 1..Len(InFlight) : InFlight[i].kind = "stopped"
      BY <3>2, <1>1, <1>13, AckStays DEF AckComes
    <3>3. ASSUME NEW i \in 1..Len(Pending), Pending[i] = [kind |-> "STOP", run |-> run]
          PROVE  AckComes'
      <4>1. CASE i > 1
        <5>1. i - 1 \in 1..Len(Pending') /\ (i - 1) + 1 = i
          BY <4>1, <1>14
        <5>2. Pending'[i - 1] = [kind |-> "STOP", run |-> run]
          BY <5>1, <3>3, <1>14
        <5> QED BY <5>1, <5>2, <2>1 DEF AckComes
      <4>2. CASE i = 1
        <5>1. c.kind = "STOP" /\ c.run = run
          BY <4>2, <3>3, <1>3
        <5>2. Len(o.bytes) >= 1 /\ o.bytes[Len(o.bytes)] = Byte("stopped", run)
          BY <5>1, <1>8 DEF EndsWith
        <5>3. CASE n < Len(o.bytes)
          <6>1. run \in lost'
            BY <5>2, <5>3, <1>11 DEF Byte
          <6> QED BY <6>1, <2>1 DEF AckComes
        <5>4. CASE n = Len(o.bytes)
          <6>1. Len(InFlight') = Len(InFlight) + Len(t)
                /\ InFlight'[Len(InFlight) + Len(t)] = t[Len(t)]
                /\ Len(InFlight) \in Nat /\ Len(t) >= 1
            <7>1. Len(t) \in 1..Len(t) /\ Len(InFlight) \in Nat
              BY <5>2, <5>4, <1>1, <1>13
            <7>2. /\ Len(InFlight \o t) = Len(InFlight) + Len(t)
                  /\ (InFlight \o t)[Len(InFlight) + Len(t)] = t[Len(t)]
              BY <7>1, <1>1, <1>13, Appended
            <7> QED BY <7>1, <7>2, <1>13
          <6>2. t[Len(t)].kind = "stopped"
            BY <5>2, <5>4, <1>13 DEF Byte
          <6>3. Len(InFlight) + Len(t) \in 1..Len(InFlight')
            BY <6>1, <1>13
          <6> QED BY <6>1, <6>2, <6>3 DEF AckComes
        <5> QED BY <5>3, <5>4, <1>13
      <4> QED BY <4>1, <4>2, <1>14
    <3> QED BY <2>1, <3>1, <3>2, <3>3 DEF AckComes
  <2> QED BY <2>2, <2>3
<1>18. ASSUME host' = "reading" PROVE Reading'
  <2>1. Reading /\ run' = run /\ dec' = dec
    BY <1>2, <1>18 DEF SessionInv, hostVars
  <2>2. /\ \A i \in 1..Len(Pending') : Pending'[i].run = run
        /\ c.run = run
    BY <2>1, <1>3, <1>14 DEF Reading
  <2>3. CASE Asked
    <3>1. /\ c.kind = "START" /\ ~enc.streaming /\ InFlight = <<>> /\ dec = Fresh
          /\ \A i \in 1..Len(Pending') : Pending'[i].kind = "STATS"
      BY <2>3, <1>3, <1>14 DEF Asked, IsStart
    <3>2. o.bytes = <<Byte("started", run)>> /\ o.e.streaming /\ o.e.run = run /\ ~o.e.open
      BY <3>1, <2>2, <1>7
    <3>3. pipe = <<>>
      <4> DEFINE front == ((tty \o urb) \o Packet) \o buf
      <4>1. front \in Seq(Bytes) /\ pipe \in Seq(Bytes) /\ front \o pipe = <<>>
        BY <3>1, <1>1, FrontType DEF UsbTypes, InFlight
      <4> HIDE DEF front
      <4>2. Len(front) + Len(pipe) = 0 /\ Len(front) \in Nat /\ Len(pipe) \in Nat
        BY <4>1, Appended
      <4>3. Len(pipe) = 0
        BY <4>2
      <4> QED BY <4>1, <4>3, EmptySeq
    <3>4. Len(o.bytes) = 1 /\ o.bytes # <<>> /\ o.bytes[1] = Byte("started", run)
      BY <3>2
    <3>5. n = 1 /\ t = o.bytes /\ lost' = lost
      BY <3>3, <3>4, <1>11, <1>13
    <3>6. InFlight' = o.bytes
      BY <3>1, <3>5, <1>13
    <3>7. Len(InFlight') = 1 /\ InFlight'[1] = Byte("started", run)
      BY <3>4, <3>6
    <3>8. Utters(FALSE, Out(o.e, <<Byte("started", run)>>), run)
      BY <3>2, <1>1, <1>10, ByteUtters DEF Data, Bodies
    <3>9. Framed(FALSE, InFlight', o.e.open)
      BY <3>2, <3>6, <3>8 DEF Utters, Out
    <3>10. dec.in = FALSE /\ dec.bad = FALSE
      BY <3>1 DEF Fresh
    <3>11. \A i \in 1..Len(InFlight') : InFlight'[i].run = run
      <4>1. \A i \in 1..Len(InFlight') : i = 1
        BY <3>7
      <4> QED BY <4>1, <3>7 DEF Byte
    <3>12. Len(InFlight') >= 1 /\ InFlight'[1].kind = "started"
      BY <3>7 DEF Byte
    <3>13. Granted'
      BY <2>1, <3>1, <3>2, <3>9, <3>10, <3>11, <3>12, <1>10 DEF Granted
    <3> QED BY <2>1, <2>2, <3>13 DEF Reading
  <2>4. CASE Granted
    <3>1. /\ c.kind = "STATS" /\ enc.streaming /\ enc.run = run
          /\ \A i \in 1..Len(Pending') : Pending'[i].kind = "STATS"
      BY <2>4, <1>3, <1>14 DEF Granted
    <3>2. Utters(enc.open, o, enc.run) /\ o.e.streaming /\ o.e.run = enc.run
      BY <3>1, <2>2, <1>1, <1>9 DEF Encoders
    <3>3. Granted'
      BY <2>4, <3>1, <3>2, <1>2, <1>10, GrantedSays
    <3> QED BY <2>1, <2>2, <3>3 DEF Reading
  <2> QED BY <2>1, <2>3, <2>4 DEF Reading
<1> QED BY <1>10, <1>12, <1>15, <1>16, <1>17, <1>18 DEF SessionInv

\* A command goes from the bus into the channel.
LEMMA Move ==
  ASSUME NEW s \in Seq(Cmds), NEW t \in Seq(Cmds), t # <<>>
  PROVE  Append(s, Head(t)) \o Tail(t) = s \o t
OBVIOUS

LEMMA RxCommandStep ==
  ASSUME IInv, RxCommand
  PROVE  IInv'
<1>1. /\ queue \in Seq(Cmds) /\ cmds \in Seq(Cmds) /\ cmds # <<>>
      /\ queue' = Append(queue, Head(cmds)) /\ cmds' = Tail(cmds)
      /\ Len(queue) < CMD_QUEUE_CAP /\ CMD_QUEUE_CAP \in Nat
      /\ UNCHANGED <<usbVars, hostVars, enc, pc, busy, idle, feeds, tells>>
  BY SessionConstants DEF IInv, TypeOK, RxCommand
<1>2. /\ Head(cmds) \in Cmds /\ cmds' \in Seq(Cmds)
      /\ queue' \in Seq(Cmds) /\ Len(queue') <= CMD_QUEUE_CAP
  BY <1>1
<1>3. TypeOK'
  BY <1>1, <1>2 DEF IInv, TypeOK, usbVars, hostVars
<1>4. PacketsEnd'
  BY <1>1 DEF IInv, PacketsEnd, usbVars
<1>5. Pending' = Pending
  BY <1>1, Move DEF Pending
<1>6. InFlight' = InFlight /\ lost' = lost
  BY <1>1 DEF InFlight, Packet, usbVars
<1>7. SessionInv'
  BY <1>1, <1>5, <1>6, QuietStep DEF IInv
<1> QED BY <1>3, <1>4, <1>7 DEF IInv

\* The transport's own steps.
LEMMA TransportStep ==
  ASSUME IInv, UsbTx \/ UsbRx
  PROVE  IInv'
<1>1. UNCHANGED <<hostVars, cmds, fwVars>> /\ (TxTask \/ UsbIn)
  BY DEF UsbTx, UsbRx
<1>2. UsbTypes /\ PacketsEnd
  BY TypeFacts DEF IInv
<1>3. UsbTypes' /\ PacketsEnd' /\ InFlight' = InFlight /\ lost' = lost
  BY <1>1, <1>2, TxStep, UsbInStep
<1>4. TypeOK'
  BY <1>1, <1>3 DEF IInv, TypeOK, UsbTypes, hostVars, fwVars
<1>5. Pending' = Pending /\ UNCHANGED <<hostVars, enc>>
  BY <1>1 DEF Pending, fwVars
<1>6. SessionInv'
  BY <1>3, <1>5, QuietStep DEF IInv
<1> QED BY <1>3, <1>4, <1>6 DEF IInv

\* A pass, or its yield, that says something.
LEMMA FirmwareSays ==
  ASSUME IInv, NEW o,
         Utters(enc.open, o, enc.run),
         o.e.streaming = enc.streaming, o.e.run = enc.run,
         ~enc.streaming => o.bytes = <<>> /\ o.e = enc,
         enc' = o.e, Push(o.bytes),
         UNCHANGED <<tx, buf, ep, urb, tty, hostVars, cmds, queue>>,
         pc' \in {"top", "yielded"}, busy' \in BOOLEAN, idle' \in BOOLEAN,
         feeds' \in 0..MaxFeeds, tells' \in 0..MaxTells
  PROVE  IInv'
<1>1. UsbTypes /\ o.e \in Encoders /\ o.bytes \in Seq(Bytes)
  BY TypeFacts DEF IInv, Utters
<1>2. UsbTypes' /\ (pipe' = <<>> => pipe = <<>>)
  BY <1>1, Pushed
<1>3. TypeOK'
  BY <1>1, <1>2 DEF IInv, TypeOK, UsbTypes, Encoders, hostVars
<1>4. PacketsEnd'
  BY <1>2 DEF IInv, PacketsEnd
<1>5. Pending' = Pending
  BY DEF Pending
<1>6. SessionInv'
  BY <1>5, SayStep DEF IInv
<1> QED BY <1>3, <1>4, <1>6 DEF IInv

LEMMA CapturePassStep ==
  ASSUME IInv, CapturePass
  PROVE  IInv'
<1>1. PICK b \in Bodies, fed \in BOOLEAN, due \in BOOLEAN, dropped \in BOOLEAN :
        LET o1 == IF fed THEN FeedSample(enc, b) ELSE Out(enc, <<>>)
            o2 == Joined(o1, Reports(o1.e, due, dropped, b))
        IN  /\ fed => feeds < MaxFeeds
            /\ fed \/ due \/ dropped => enc.streaming
            /\ due \/ dropped => tells < MaxTells
            /\ enc' = o2.e
            /\ Push(o2.bytes)
            /\ busy' = fed
            /\ feeds' = IF fed THEN feeds + 1 ELSE feeds
            /\ tells' = IF due \/ dropped THEN tells + 1 ELSE tells
  BY DEF CapturePass
<1> DEFINE o1 == IF fed THEN FeedSample(enc, b) ELSE Out(enc, <<>>)
           q == Reports(o1.e, due, dropped, b)
           o2 == Joined(o1, q)
<1>2. enc \in Encoders /\ enc.run \in 0..MaxRuns /\ enc.open \in BOOLEAN
  BY TypeFacts DEF IInv, Encoders
<1>3. Utters(enc.open, o1, enc.run) /\ o1.e.streaming = enc.streaming /\ o1.e.run = enc.run
  <2>1. CASE fed
    BY <2>1, <1>2, FeedSampleUtters
  <2>2. CASE ~fed
    BY <2>2, <1>2, SilenceUtters DEF Out
  <2> QED BY <2>1, <2>2
<1>4. ~fed => o1.e = enc /\ o1.bytes = <<>>
  BY DEF Out
<1> HIDE DEF o1
<1>5. o1.e \in Encoders
  BY <1>3 DEF Utters
<1>6. /\ Utters(o1.e.open, q, enc.run)
      /\ q.e.streaming = enc.streaming /\ q.e.run = enc.run
  BY <1>3, <1>5, ReportsUtters
<1>7. ~due /\ ~dropped => q.e = o1.e /\ q.bytes = <<>>
  <2>1. <<>> \o <<>> = <<>>
    OBVIOUS
  <2> QED BY <2>1 DEF Reports, Tick, Overrun, Joined, Out
<1> HIDE DEF q
<1>8. o2.e = q.e /\ o2.bytes = o1.bytes \o q.bytes
  BY DEF Joined, Out
<1>9. Utters(enc.open, o2, enc.run)
  BY <1>2, <1>3, <1>6, JoinedUtters
<1>10. /\ fed \/ due \/ dropped => enc.streaming
       /\ enc' = o2.e /\ Push(o2.bytes) /\ busy' = fed
  BY <1>1 DEF o1, q
<1>11. feeds' \in 0..MaxFeeds /\ tells' \in 0..MaxTells
  <2>1. feeds \in 0..MaxFeeds /\ tells \in 0..MaxTells /\ MaxFeeds \in Nat /\ MaxTells \in Nat
    BY SessionConstants DEF IInv, TypeOK
  <2>2. /\ fed => feeds < MaxFeeds
        /\ due \/ dropped => tells < MaxTells
        /\ feeds' = IF fed THEN feeds + 1 ELSE feeds
        /\ tells' = IF due \/ dropped THEN tells + 1 ELSE tells
    BY <1>1
  <2> QED BY <2>1, <2>2
<1>12. ~enc.streaming => o2.bytes = <<>> /\ o2.e = enc
  <2>1. <<>> \o <<>> = <<>>
    OBVIOUS
  <2>2. ~enc.streaming => ~fed /\ ~due /\ ~dropped
    BY <1>10
  <2> QED BY <2>1, <2>2, <1>4, <1>7, <1>8
<1>13. /\ UNCHANGED <<tx, buf, ep, urb, tty, hostVars, cmds, queue>>
       /\ pc' = "yielded" /\ idle' = idle /\ idle \in BOOLEAN
  BY DEF CapturePass, IInv, TypeOK
<1> HIDE DEF o2
<1> QED BY <1>6, <1>8, <1>9, <1>10, <1>11, <1>12, <1>13, FirmwareSays

LEMMA AfterYieldStep ==
  ASSUME IInv, AfterYield
  PROVE  IInv'
<1>1. /\ UNCHANGED <<tx, buf, ep, urb, tty, hostVars, cmds, queue, feeds>>
      /\ pc' = "top" /\ idle' = ~busy /\ busy' = FALSE
      /\ idle' \in BOOLEAN /\ busy' \in BOOLEAN
      /\ feeds' \in 0..MaxFeeds /\ tells \in 0..MaxTells
  BY DEF AfterYield, IInv, TypeOK
<1>2. enc \in Encoders
  BY TypeFacts DEF IInv
<1>3. CASE UNCHANGED <<enc, pipe, lost, tells>>
  <2>1. TypeOK' /\ PacketsEnd'
    BY <1>1, <1>3 DEF IInv, TypeOK, PacketsEnd, hostVars
  <2>2. InFlight' = InFlight /\ Pending' = Pending
    BY <1>1, <1>3 DEF InFlight, Packet, Pending
  <2>3. SessionInv'
    BY <1>1, <1>3, <2>2, QuietStep DEF IInv
  <2> QED BY <2>1, <2>3 DEF IInv
<1>4. ASSUME NEW b \in Bodies, enc.streaming, enc' = Flush(enc, b).e,
             Push(Flush(enc, b).bytes), UNCHANGED tells
      PROVE  IInv'
  <2>1. /\ Utters(enc.open, Flush(enc, b), enc.run)
        /\ Flush(enc, b).e = [enc EXCEPT !.open = FALSE, !.held = FALSE]
    BY <1>2, FlushUtters
  <2>2. Flush(enc, b).e.streaming = enc.streaming /\ Flush(enc, b).e.run = enc.run
    BY <2>1, <1>2 DEF Encoders
  <2> QED BY <1>1, <1>4, <2>1, <2>2, FirmwareSays
<1>5. ASSUME enc.streaming, tells < MaxTells, tells' = tells + 1,
             enc' = Tell(enc, "log", enc.run).e, Push(Tell(enc, "log", enc.run).bytes)
      PROVE  IInv'
  <2> DEFINE o == Tell(enc, "log", enc.run)
  <2>1. /\ Utters(enc.open, o, enc.run)
        /\ o.e = [enc EXCEPT !.open = FALSE]
    BY <1>2, TellUtters DEF Asides, Encoders
  <2>2. o.e.streaming = enc.streaming /\ o.e.run = enc.run
    BY <2>1, <1>2 DEF Encoders
  <2>3. tells' \in 0..MaxTells
    BY <1>1, <1>5, SessionConstants
  <2> QED BY <1>1, <1>5, <2>1, <2>2, <2>3, FirmwareSays
<1>6. tells # MaxTells => tells < MaxTells
  BY <1>1, SessionConstants
<1> QED BY <1>3, <1>4, <1>5, <1>6 DEF AfterYield

LEMMA TakeCommandInv ==
  ASSUME IInv, TakeCommand
  PROVE  IInv'
<1>1. SessionInv' /\ UsbTypes' /\ enc' \in Encoders /\ (pipe' = <<>> => pipe = <<>>)
  BY TakeCommandStep DEF IInv
<1>2. /\ queue \in Seq(Cmds) /\ queue # <<>> /\ queue' = Tail(queue) /\ pc' = "commands"
      /\ Len(queue) <= CMD_QUEUE_CAP /\ CMD_QUEUE_CAP \in Nat
      /\ UNCHANGED <<tx, buf, ep, urb, tty, hostVars, cmds, busy, idle, feeds, tells>>
  BY SessionConstants DEF IInv, TypeOK, TakeCommand
<1>3. queue' \in Seq(Cmds) /\ Len(queue') <= CMD_QUEUE_CAP
  BY <1>2
<1>4. TypeOK'
  BY <1>1, <1>2, <1>3 DEF IInv, TypeOK, UsbTypes, Encoders, hostVars
<1>5. PacketsEnd'
  BY <1>1, <1>2 DEF IInv, PacketsEnd
<1> QED BY <1>1, <1>4, <1>5 DEF IInv

\* A command sent is the last one pending.
LEMMA Sent ==
  ASSUME TypeOK, NEW kind \in {"START", "STOP", "STATS"}, run >= 1,
         Send(kind), queue' = queue
  PROVE  /\ cmds' \in Seq(Cmds) /\ Len(Pending) \in Nat
         /\ Len(Pending') = Len(Pending) + 1
         /\ \A i \in 1..Len(Pending) : Pending'[i] = Pending[i]
         /\ Pending'[Len(Pending) + 1] = [kind |-> kind, run |-> run]
<1> DEFINE c == [kind |-> kind, run |-> run]
<1>1. c \in Cmds /\ queue \in Seq(Cmds) /\ cmds \in Seq(Cmds) /\ cmds' = Append(cmds, c)
  BY DEF TypeOK, Cmds, Send
<1> HIDE DEF c
<1>2. cmds' \in Seq(Cmds) /\ Pending' = Append(Pending, c) /\ Pending \in Seq(Cmds)
  <2>1. queue \o Append(cmds, c) = Append(queue \o cmds, c)
    BY <1>1
  <2> QED BY <1>1, <2>1, ConcatProperties DEF Pending
<1>3. /\ Len(Pending') = Len(Pending) + 1 /\ Len(Pending) \in Nat
      /\ \A i \in 1..Len(Pending) : Pending'[i] = Pending[i]
      /\ Pending'[Len(Pending) + 1] = c
  BY <1>1, <1>2
<1> QED BY <1>2, <1>3 DEF c

LEMMA PokeStep ==
  ASSUME IInv, Poke
  PROVE  IInv'
<1>1. /\ UNCHANGED <<usbVars, hostVars, queue, enc, pc, busy, idle, feeds>>
      /\ Send("STATS") /\ tells < MaxTells /\ tells' = tells + 1 /\ host # "closed"
  BY DEF Poke, Open
<1>2. run >= 1 /\ run \in 0..MaxRuns /\ TypeOK /\ SessionInv
  BY <1>1 DEF IInv, SessionInv, HostFresh, TypeOK
<1>3. /\ cmds' \in Seq(Cmds) /\ Len(Pending) \in Nat /\ Len(Pending') = Len(Pending) + 1
      /\ \A i \in 1..Len(Pending) : Pending'[i] = Pending[i]
      /\ Pending'[Len(Pending) + 1] = [kind |-> "STATS", run |-> run]
  BY <1>1, <1>2, Sent
<1>4. tells' \in 0..MaxTells
  BY <1>1, <1>2, SessionConstants DEF TypeOK
<1>5. TypeOK' /\ PacketsEnd'
  BY <1>1, <1>2, <1>3, <1>4 DEF IInv, TypeOK, PacketsEnd, usbVars, hostVars
<1>6. InFlight' = InFlight /\ lost' = lost
  BY <1>1 DEF InFlight, Packet, usbVars
<1>7. StoppedIsEmpty' /\ HostFresh' /\ FreshStart' /\ OwnLossOnly'
  BY <1>1, <1>2, <1>6
     DEF SessionInv, StoppedIsEmpty, HostFresh, FreshStart, OwnLossOnly, hostVars
<1>8. ASSUME host' = "drain" PROVE StopComes' /\ AckComes'
  <2>1. StopComes /\ AckComes /\ saw' = saw /\ run' = run /\ enc' = enc
    BY <1>1, <1>2, <1>8 DEF SessionInv, hostVars
  <2>2. \A j \in 1..Len(Pending') : j \in 1..Len(Pending) \/ j = Len(Pending) + 1
    BY <1>3
  <2>3. StopComes'
    <3>1. CASE ~enc.streaming /\ \A j \in 1..Len(Pending) : ~IsStart(Pending[j])
      BY <3>1, <2>1, <2>2, <1>3 DEF StopComes, IsStart
    <3>2. ASSUME NEW i \in 1..Len(Pending), Pending[i].kind = "STOP",
                 \A j \in (i + 1)..Len(Pending) : ~IsStart(Pending[j])
          PROVE  StopComes'
      <4>1. i \in 1..Len(Pending') /\ Pending'[i].kind = "STOP"
        BY <1>3, <3>2
      <4>2. ASSUME NEW j \in (i + 1)..Len(Pending') PROVE ~IsStart(Pending'[j])
        <5>1. CASE j = Len(Pending) + 1
          BY <5>1, <1>3 DEF IsStart
        <5>2. CASE j # Len(Pending) + 1
          <6>1. j \in (i + 1)..Len(Pending) /\ j \in 1..Len(Pending)
            BY <5>2, <1>3
          <6> QED BY <6>1, <3>2, <1>3
        <5> QED BY <5>1, <5>2
      <4> QED BY <4>1, <4>2 DEF StopComes
    <3> QED BY <2>1, <3>1, <3>2 DEF StopComes
  <2>4. AckComes'
    <3>1. ASSUME NEW i \in 1..Len(Pending), Pending[i] = [kind |-> "STOP", run |-> run]
          PROVE  AckComes'
      <4>1. i \in 1..Len(Pending') /\ Pending'[i] = [kind |-> "STOP", run |-> run]
        BY <1>3, <3>1
      <4> QED BY <4>1, <2>1 DEF AckComes
    <3> QED BY <2>1, <3>1, <1>6 DEF AckComes
  <2> QED BY <2>3, <2>4
<1>9. ASSUME host' = "reading" PROVE Reading'
  <2>1. Reading /\ run' = run /\ dec' = dec /\ enc' = enc
    BY <1>1, <1>2, <1>9 DEF SessionInv, hostVars
  <2>2. \A j \in 1..Len(Pending') : j \in 1..Len(Pending) \/ j = Len(Pending) + 1
    BY <1>3
  <2>3. \A j \in 1..Len(Pending') : Pending'[j].run = run
    BY <2>1, <2>2, <1>3 DEF Reading
  <2>4. CASE Asked
    <3>1. Len(Pending') >= 1 /\ IsStart(Pending'[1])
      BY <2>4, <1>3 DEF Asked
    <3>2. ASSUME NEW j \in 2..Len(Pending') PROVE Pending'[j].kind = "STATS"
      <4>1. j \in 2..Len(Pending) \/ j = Len(Pending) + 1
        BY <1>3
      <4>2. j \in 2..Len(Pending) => j \in 1..Len(Pending)
        OBVIOUS
      <4> QED BY <4>1, <4>2, <2>4, <1>3 DEF Asked
    <3>3. Asked'
      BY <2>1, <2>4, <3>1, <3>2, <1>6 DEF Asked
    <3> QED BY <2>1, <2>3, <3>3 DEF Reading
  <2>5. CASE Granted
    <3>1. \A j \in 1..Len(Pending') : Pending'[j].kind = "STATS"
      BY <2>2, <2>5, <1>3 DEF Granted
    <3>2. Granted'
      BY <2>1, <2>5, <3>1, <1>6 DEF Granted
    <3> QED BY <2>1, <2>3, <3>2 DEF Reading
  <2> QED BY <2>1, <2>4, <2>5 DEF Reading
<1>10. SessionInv'
  BY <1>7, <1>8, <1>9 DEF SessionInv
<1> QED BY <1>5, <1>10 DEF IInv

\* Before its handshake and after its session the viewer is bound by little.
LEMMA HostOpenStep ==
  ASSUME IInv, HostOpen
  PROVE  IInv'
<1>1. /\ host = "closed" /\ host' = "stop" /\ run' = run + 1 /\ run < MaxRuns
      /\ UNCHANGED <<usbVars, saw, dec, cmds, fwVars>>
  BY DEF HostOpen
<1>2. dec = Fresh /\ run \in 0..MaxRuns
  BY <1>1 DEF IInv, SessionInv, HostFresh, TypeOK
<1>3. run' \in 0..MaxRuns /\ run' >= 1
  BY <1>1, <1>2, SessionConstants
<1>4. TypeOK' /\ PacketsEnd'
  BY <1>1, <1>3 DEF IInv, TypeOK, PacketsEnd, usbVars, fwVars
<1>5. SessionInv'
  BY <1>1, <1>2, <1>3
     DEF IInv, SessionInv, StoppedIsEmpty, HostFresh, FreshStart, OwnLossOnly, Fresh, fwVars
<1> QED BY <1>4, <1>5 DEF IInv

LEMMA HostStopStep ==
  ASSUME IInv, HostStop
  PROVE  IInv'
<1>1. /\ host = "stop" /\ host' = "drain" /\ saw' = FALSE /\ Send("STOP")
      /\ UNCHANGED <<usbVars, run, dec, fwVars>>
  BY DEF HostStop
<1>2. dec = Fresh /\ run >= 1 /\ TypeOK
  BY <1>1 DEF IInv, SessionInv, HostFresh
<1>3. /\ cmds' \in Seq(Cmds) /\ Len(Pending) \in Nat /\ Len(Pending') = Len(Pending) + 1
      /\ Pending'[Len(Pending) + 1] = [kind |-> "STOP", run |-> run]
  <2>1. queue' = queue
    BY <1>1 DEF fwVars
  <2> QED BY <1>1, <1>2, <2>1, Sent
<1>4. TypeOK' /\ PacketsEnd'
  <2>1. cmds' \in Seq(Cmds)
    BY <1>3
  <2>2. saw' \in BOOLEAN
    BY <1>1
  <2> QED BY <1>1, <2>1, <2>2 DEF IInv, TypeOK, PacketsEnd, usbVars, fwVars
<1>5. Len(Pending) + 1 \in 1..Len(Pending')
      /\ \A j \in ((Len(Pending) + 1) + 1)..Len(Pending') : FALSE
  BY <1>3
<1>6. StopComes'
  BY <1>3, <1>5 DEF StopComes
<1>7. AckComes'
  BY <1>1, <1>3, <1>5 DEF AckComes
<1>8. StoppedIsEmpty' /\ HostFresh' /\ FreshStart' /\ OwnLossOnly'
  BY <1>1, <1>2
     DEF IInv, SessionInv, StoppedIsEmpty, HostFresh, FreshStart, OwnLossOnly, fwVars
<1>9. SessionInv'
  BY <1>1, <1>6, <1>7, <1>8 DEF SessionInv
<1> QED BY <1>4, <1>9 DEF IInv

LEMMA HostExitStep ==
  ASSUME IInv, HostExit
  PROVE  IInv'
<1>1. /\ host' = "closed" /\ urb' = <<>> /\ tty' = <<>> /\ dec' = Fresh /\ saw' = FALSE
      /\ UNCHANGED <<pipe, lost, tx, buf, ep, run, cmds, fwVars>>
  BY DEF HostExit
<1>2. Fresh \in [in : BOOLEAN, bad : BOOLEAN, started : BOOLEAN, heard : SUBSET (0..MaxRuns)]
  BY DEF Fresh
<1>3. <<>> \in Seq(Bytes) /\ Len(<<>>) = 0 /\ URB \in Nat /\ URB > 0
      /\ PACKET \in Nat /\ PACKET > 0
  BY UsbConstants
<1>4. TypeOK'
  <2>1. urb' \in Seq(Bytes) /\ Len(urb') < URB /\ tty' \in Seq(Bytes)
    BY <1>1, <1>3
  <2>2. UsbTypes /\ HostTypes /\ FwTypes
    BY TypeParts DEF IInv
  <2>3. UsbTypes'
    BY <1>1, <2>1, <2>2 DEF UsbTypes
  <2>4. HostTypes'
    BY <1>1, <1>2, <2>2 DEF HostTypes
  <2>5. FwTypes'
    BY <1>1, <2>2, SameTypes
  <2> QED BY <2>3, <2>4, <2>5, TypeParts
<1>5. PacketsEnd'
  BY <1>1, <1>3 DEF IInv, PacketsEnd, fwVars
<1>6. SessionInv'
  BY <1>1
     DEF IInv, SessionInv, StoppedIsEmpty, HostFresh, FreshStart, OwnLossOnly, Fresh, fwVars
<1> QED BY <1>4, <1>5, <1>6 DEF IInv

\* What the viewer can read is the oldest of what is in flight.
LEMMA FirstOfFive ==
  ASSUME NEW a \in Seq(Bytes), NEW u \in Seq(Bytes), NEW p \in Seq(Bytes),
         NEW b \in Seq(Bytes), NEW q \in Seq(Bytes)
  PROVE  /\ (((a \o u) \o p) \o b) \o q = a \o (((u \o p) \o b) \o q)
         /\ ((u \o p) \o b) \o q \in Seq(Bytes)
<1> DEFINE up == u \o p
           c == up \o b
<1>1. up \in Seq(Bytes)
  OBVIOUS
<1>2. (a \o u) \o p = a \o up
  OBVIOUS
<1> HIDE DEF up
<1>3. c \in Seq(Bytes)
  BY <1>1
<1>4. (a \o up) \o b = a \o c
  BY <1>1
<1> HIDE DEF c
<1>5. (a \o c) \o q = a \o (c \o q)
  BY <1>3
<1>6. c \o q \in Seq(Bytes)
  BY <1>3
<1>7. ((a \o u) \o p) \o b = a \o c
  BY <1>2, <1>4, Zenon
<1>8. (((a \o u) \o p) \o b) \o q = a \o (c \o q)
  BY <1>5, <1>7, Zenon
<1> QED BY <1>6, <1>8, Zenon DEF up, c

\* All that is in flight behind the bytes the viewer can read.
Rest == ((urb \o Packet) \o buf) \o pipe

LEMMA TtyFirst ==
  ASSUME UsbTypes
  PROVE  /\ Rest \in Seq(Bytes)
         /\ InFlight = tty \o Rest
         /\ tty' \in Seq(Bytes) /\ UNCHANGED <<pipe, buf, ep, urb>> =>
              InFlight' = tty' \o Rest
<1>1. /\ urb \in Seq(Bytes) /\ Packet \in Seq(Bytes) /\ buf \in Seq(Bytes)
      /\ pipe \in Seq(Bytes) /\ tty \in Seq(Bytes)
  BY PacketType DEF UsbTypes
<1>2. Rest \in Seq(Bytes) /\ InFlight = tty \o Rest
  <2>1. /\ (((tty \o urb) \o Packet) \o buf) \o pipe = tty \o (((urb \o Packet) \o buf) \o pipe)
        /\ ((urb \o Packet) \o buf) \o pipe \in Seq(Bytes)
    BY <1>1, FirstOfFive, Zenon
  <2> QED BY <2>1, Zenon DEF Rest, InFlight
<1>3. ASSUME NEW a \in Seq(Bytes)
      PROVE  (((a \o urb) \o Packet) \o buf) \o pipe = a \o Rest
  <2>1. /\ (((a \o urb) \o Packet) \o buf) \o pipe = a \o (((urb \o Packet) \o buf) \o pipe)
        /\ ((urb \o Packet) \o buf) \o pipe \in Seq(Bytes)
    BY <1>1, FirstOfFive, Zenon
  <2> QED BY <2>1, Zenon DEF Rest
<1>4. ASSUME tty' \in Seq(Bytes), UNCHANGED <<pipe, buf, ep, urb>>
      PROVE  InFlight' = tty' \o Rest
  <2>1. InFlight' = (((tty' \o urb) \o Packet) \o buf) \o pipe
    BY <1>4 DEF InFlight, Packet
  <2> QED BY <1>3, <1>4, <2>1, Zenon
<1> QED BY <1>2, <1>4

LEMMA HostDrainStep ==
  ASSUME IInv, HostDrain
  PROVE  IInv'
<1>1. /\ host = "drain" /\ tty' = <<>>
      /\ saw' = (saw \/ \E i \in DOMAIN tty : IsFC(tty[i]))
      /\ UNCHANGED <<pipe, lost, tx, buf, ep, urb, host, run, dec, cmds, fwVars>>
  BY DEF HostDrain
<1>2. UsbTypes /\ tty \in Seq(Bytes) /\ saw \in BOOLEAN
  BY TypeFacts DEF IInv, TypeOK
<1>3. Rest \in Seq(Bytes) /\ InFlight = tty \o Rest /\ InFlight' = tty' \o Rest
  <2>1. tty' \in Seq(Bytes)
    BY <1>1
  <2> QED BY <1>1, <1>2, <2>1, TtyFirst
<1>4. InFlight' = Rest
  BY <1>1, <1>3
<1>5. TypeOK' /\ PacketsEnd'
  <2>1. <<>> \in Seq(Bytes) /\ saw' \in BOOLEAN
    BY <1>1, <1>2
  <2> QED BY <1>1, <2>1 DEF IInv, TypeOK, PacketsEnd, fwVars
<1>6. /\ StoppedIsEmpty' /\ HostFresh' /\ FreshStart' /\ OwnLossOnly'
      /\ StopComes' /\ Pending' = Pending /\ AckComes
  BY <1>1
     DEF IInv, SessionInv, StoppedIsEmpty, HostFresh, FreshStart, OwnLossOnly, StopComes,
         Pending, fwVars
<1>7. AckComes'
  <2>1. CASE saw \/ run \in lost \/ \E i \in 1..Len(Pending) :
                                      Pending[i] = [kind |-> "STOP", run |-> run]
    BY <2>1, <1>1, <1>6 DEF AckComes
  <2>2. ASSUME NEW i \in 1..Len(InFlight), InFlight[i].kind = "stopped"
        PROVE  AckComes'
    <3>1. CASE i \in 1..Len(tty)
      <4>1. InFlight[i] = tty[i] /\ i \in DOMAIN tty
        BY <3>1, <1>2, <1>3, Appended
      <4>2. saw'
        BY <4>1, <2>2, <1>1 DEF IsFC
      <4> QED BY <4>2 DEF AckComes
    <3>2. CASE i \notin 1..Len(tty)
      <4> DEFINE j == i - Len(tty)
      <4>1. j \in 1..Len(Rest) /\ i = Len(tty) + j
        BY <3>2, <1>2, <1>3, Appended
      <4>2. InFlight[i] = Rest[j]
        <5> HIDE DEF j
        <5> QED BY <4>1, <1>2, <1>3, Appended
      <4> QED BY <4>1, <4>2, <2>2, <1>4 DEF AckComes
    <3> QED BY <3>1, <3>2
  <2> QED BY <2>1, <2>2, <1>6 DEF AckComes
<1>8. SessionInv'
  BY <1>1, <1>6, <1>7 DEF SessionInv
<1> QED BY <1>5, <1>8 DEF IInv

\* Quiet, the old stream is over and nothing of it is left anywhere.
LEMMA HostQuietStep ==
  ASSUME IInv, HostQuiet
  PROVE  IInv'
<1>1. /\ host = "drain" /\ tty = <<>> /\ saw' = FALSE
      /\ cmds = <<>> /\ queue = <<>> /\ pipe = <<>> /\ tx = "read" /\ ep = <<>>
      /\ UNCHANGED <<usbVars, run, fwVars>>
  BY DEF HostQuiet, Quiescent, NothingToSend
<1>2. /\ UsbTypes /\ TypeOK /\ dec = Fresh /\ run >= 1 /\ run \in 0..MaxRuns
      /\ StopComes /\ AckComes
  BY <1>1, TypeFacts DEF IInv, SessionInv, HostFresh
<1>3. buf = <<>> /\ urb = <<>>
  BY <1>1 DEF IInv, PacketsEnd
<1>4. InFlight = <<>> /\ InFlight' = <<>>
  <2>1. (((<<>> \o <<>>) \o <<>>) \o <<>>) \o <<>> = <<>>
    OBVIOUS
  <2>2. InFlight = <<>>
    BY <1>1, <1>3, <2>1 DEF InFlight, Packet
  <2>3. InFlight' = InFlight
    BY <1>1 DEF InFlight, Packet, usbVars
  <2> QED BY <2>2, <2>3
<1>5. Pending = <<>> /\ Len(Pending) = 0 /\ Len(InFlight) = 0
  <2>1. <<>> \o <<>> = <<>>
    OBVIOUS
  <2> QED BY <1>1, <1>4, <2>1 DEF Pending
<1>6. ~enc.streaming
  BY <1>2, <1>5 DEF StopComes
<1>7. saw \/ run \in lost
  BY <1>2, <1>5 DEF AckComes
<1>8. PacketsEnd' /\ StoppedIsEmpty'
  BY <1>1 DEF IInv, SessionInv, PacketsEnd, StoppedIsEmpty, usbVars, fwVars
<1>9. CASE saw
  <2>1. host' = "reading" /\ dec' = Fresh /\ Send("START")
    BY <1>9 DEF HostQuiet
  <2>2. /\ cmds' \in Seq(Cmds) /\ Len(Pending') = 1
        /\ Pending'[1] = [kind |-> "START", run |-> run]
    <3>1. queue' = queue
      BY <1>1 DEF fwVars
    <3> QED BY <1>2, <1>5, <2>1, <3>1, Sent
  <2>3. TypeOK'
    <3>1. Fresh \in [in : BOOLEAN, bad : BOOLEAN, started : BOOLEAN, heard : SUBSET (0..MaxRuns)]
      BY DEF Fresh
    <3>2. HostTypes /\ FwTypes
      BY <1>2, TypeParts
    <3>3. HostTypes'
      BY <1>1, <2>1, <2>2, <3>1, <3>2 DEF HostTypes
    <3>4. FwTypes' /\ UsbTypes'
      BY <1>1, <1>2, <3>2, SameTypes
    <3> QED BY <3>3, <3>4, TypeParts
  <2>4. Asked'
    <3>1. \A i \in 2..Len(Pending') : FALSE
      BY <2>2
    <3> QED BY <1>1, <1>4, <1>6, <2>1, <2>2, <3>1 DEF Asked, IsStart, fwVars
  <2>5. \A i \in 1..Len(Pending') : Pending'[i].run = run
    <3>1. \A i \in 1..Len(Pending') : i = 1
      BY <2>2
    <3> QED BY <2>2, <3>1
  <2>6. Reading'
    BY <1>1, <2>4, <2>5 DEF Reading
  <2>7. HostFresh' /\ FreshStart' /\ OwnLossOnly'
    BY <1>1, <1>2, <2>1 DEF HostFresh, FreshStart, OwnLossOnly, Fresh
  <2>8. SessionInv'
    BY <1>8, <2>1, <2>6, <2>7 DEF SessionInv
  <2> QED BY <1>8, <2>3, <2>8 DEF IInv
<1>10. CASE ~saw
  <2>1. host' = "failed" /\ UNCHANGED <<cmds, dec>>
    BY <1>10 DEF HostQuiet
  <2>2. TypeOK'
    <3>1. HostTypes /\ FwTypes
      BY <1>2, TypeParts
    <3>2. HostTypes'
      BY <1>1, <2>1, <3>1 DEF HostTypes
    <3>3. FwTypes' /\ UsbTypes'
      BY <1>1, <1>2, <3>1, SameTypes
    <3> QED BY <3>2, <3>3, TypeParts
  <2>3. HostFresh' /\ FreshStart' /\ OwnLossOnly'
    BY <1>1, <1>2, <1>7, <1>10, <2>1
       DEF HostFresh, FreshStart, OwnLossOnly, Fresh, usbVars
  <2>4. SessionInv'
    BY <1>8, <2>1, <2>3 DEF SessionInv
  <2> QED BY <1>8, <2>2, <2>4 DEF IInv
<1> QED BY <1>9, <1>10

-----------------------------------------------------------------------------
(* The viewer reads. *)

Decoders == [in : BOOLEAN, bad : BOOLEAN, started : BOOLEAN, heard : SUBSET (0..MaxRuns)]

\* What a byte does to the decoder.
LEMMA DecodeFacts ==
  ASSUME NEW d \in Decoders, NEW b \in Bytes
  PROVE  /\ Decode(d, b) \in Decoders
         /\ Decode(d, b).heard = IF b.kind = "log" THEN d.heard ELSE d.heard \cup {b.run}
         /\ d.started => Decode(d, b).started
         /\ ~d.in /\ b.kind = "started" => Decode(d, b).started
         /\ ~d.bad /\ (b.kind \in Bodies \cup {"end"} <=> d.in) =>
              /\ ~Decode(d, b).bad
              /\ Decode(d, b).in <=> b.kind \in Bodies \cup {"head"}
<1> DEFINE h == [d EXCEPT !.heard = IF b.kind = "log" THEN @ ELSE @ \cup {b.run}]
<1>1. b.run \in 0..MaxRuns
  BY DEF Bytes
<1>2. /\ h \in Decoders /\ h.in = d.in /\ h.bad = d.bad /\ h.started = d.started
      /\ h.heard = IF b.kind = "log" THEN d.heard ELSE d.heard \cup {b.run}
  BY <1>1 DEF Decoders
<1> HIDE DEF h
<1>3. Decode(d, b) =
        IF d.in THEN [h EXCEPT !.in = b.kind # "end"]
        ELSE IF b.kind = "head" THEN [h EXCEPT !.in = TRUE]
        ELSE IF b.kind = "started" THEN [h EXCEPT !.started = TRUE]
        ELSE IF b.kind \in Bodies \cup {"end"} THEN [h EXCEPT !.bad = TRUE]
        ELSE h
  BY DEF Decode, h
<1>4. CASE d.in
  <2>1. Decode(d, b) = [h EXCEPT !.in = b.kind # "end"]
    BY <1>3, <1>4
  <2> QED BY <1>2, <1>4, <2>1 DEF Decoders, Bodies
<1>5. CASE ~d.in /\ b.kind = "head"
  <2>1. Decode(d, b) = [h EXCEPT !.in = TRUE]
    BY <1>3, <1>5
  <2> QED BY <1>2, <1>5, <2>1 DEF Decoders, Bodies
<1>6. CASE ~d.in /\ b.kind = "started"
  <2>1. Decode(d, b) = [h EXCEPT !.started = TRUE]
    BY <1>3, <1>6
  <2> QED BY <1>2, <1>6, <2>1 DEF Decoders, Bodies
<1>7. CASE ~d.in /\ b.kind \in Bodies \cup {"end"}
  <2>1. Decode(d, b) = [h EXCEPT !.bad = TRUE]
    BY <1>3, <1>7 DEF Bodies
  <2> QED BY <1>2, <1>7, <2>1 DEF Decoders, Bodies
<1>8. CASE ~d.in /\ b.kind \notin Bodies \cup {"end", "head", "started"}
  <2>1. Decode(d, b) = h
    BY <1>3, <1>8
  <2> QED BY <1>2, <1>8, <2>1 DEF Decoders
<1> QED BY <1>4, <1>5, <1>6, <1>7, <1>8

LEMMA HostReadStep ==
  ASSUME IInv, HostRead
  PROVE  IInv'
<1> DEFINE b == Head(tty)
<1>1. /\ host = "reading" /\ tty # <<>>
      /\ dec' = Decode(dec, b) /\ tty' = Tail(tty)
      /\ host' = IF dec'.bad THEN "desynced" ELSE "reading"
      /\ UNCHANGED <<pipe, lost, tx, buf, ep, urb, run, saw, cmds, fwVars>>
  BY DEF HostRead
<1>2. /\ UsbTypes /\ tty \in Seq(Bytes) /\ dec \in Decoders /\ enc \in Encoders
      /\ TypeOK /\ InFlight \in Seq(Bytes) /\ b \in Bytes /\ tty' \in Seq(Bytes)
  <2>1. TypeOK /\ UsbTypes /\ HostTypes /\ enc \in Encoders /\ InFlight \in Seq(Bytes)
    BY TypeFacts, TypeParts DEF IInv
  <2>2. tty \in Seq(Bytes) /\ dec \in Decoders
    BY <2>1 DEF UsbTypes, HostTypes, Decoders
  <2>3. b \in Bytes /\ tty' \in Seq(Bytes)
    BY <1>1, <2>2
  <2> QED BY <2>1, <2>2, <2>3
<1>3. /\ InFlight = tty \o Rest /\ InFlight' = tty' \o Rest /\ Rest \in Seq(Bytes)
  BY <1>1, <1>2, TtyFirst
<1>4. InFlight # <<>> /\ InFlight[1] = b /\ InFlight' = Tail(InFlight)
  BY <1>1, <1>2, <1>3
<1> HIDE DEF b
<1>5. Granted /\ \A i \in 1..Len(Pending) : Pending[i].run = run
  BY <1>1, <1>4 DEF IInv, SessionInv, Reading, Asked
<1>6. /\ Len(InFlight) \in Nat /\ Len(InFlight) >= 1 /\ Len(InFlight') = Len(InFlight) - 1
      /\ InFlight' \in Seq(Bytes)
      /\ \A i \in 1..Len(InFlight') : InFlight'[i] = InFlight[i + 1]
  BY <1>2, <1>4
<1>7. b.run = run
  BY <1>4, <1>5, <1>6 DEF Granted
<1>8. dec' \in Decoders
  BY <1>1, <1>2, DecodeFacts
<1>9. dec'.started
  <2>1. CASE dec.started
    BY <2>1, <1>1, <1>2, DecodeFacts
  <2>2. CASE ~dec.started
    <3>1. ~dec.in /\ b.kind = "started"
      BY <2>2, <1>4, <1>5 DEF Granted, Fresh
    <3> QED BY <3>1, <1>1, <1>2, DecodeFacts
  <2> QED BY <2>1, <2>2
<1>10. FreshStart'
  <2>1. dec'.heard \subseteq dec.heard \cup {run}
    BY <1>1, <1>2, <1>7, DecodeFacts
  <2>2. dec.heard \subseteq {run}
    BY DEF IInv, SessionInv, FreshStart
  <2> QED BY <1>1, <1>9, <2>1, <2>2 DEF FreshStart
<1>11. ASSUME run \notin lost
       PROVE  ~dec'.bad /\ Framed(dec'.in, InFlight', enc.open)
  <2>1. ~dec.bad /\ Framed(dec.in, InFlight, enc.open)
    BY <1>5, <1>11 DEF Granted
  <2>2. dec.in \in BOOLEAN /\ enc.open \in BOOLEAN
    BY <1>2 DEF Decoders, Encoders
  <2>3. /\ b.kind \in Bodies \cup {"end"} <=> dec.in
        /\ Framed(b.kind \in Bodies \cup {"head"}, InFlight', enc.open)
    BY <2>1, <2>2, <1>2, <1>4, FramedTail
  <2>4. ~dec'.bad /\ (dec'.in <=> b.kind \in Bodies \cup {"head"})
    BY <2>1, <2>3, <1>1, <1>2, DecodeFacts
  <2> QED BY <2>3, <2>4 DEF Framed, Inside
<1>12. TypeOK'
  BY <1>1, <1>2, <1>8 DEF TypeOK, Decoders, fwVars
<1>13. PacketsEnd' /\ StoppedIsEmpty' /\ Pending' = Pending /\ enc' = enc
  BY <1>1 DEF IInv, SessionInv, PacketsEnd, StoppedIsEmpty, Pending, fwVars
<1>14. HostFresh' /\ OwnLossOnly'
  BY <1>1, <1>11 DEF IInv, SessionInv, HostFresh, OwnLossOnly
<1>15. \A i \in 1..Len(InFlight') : InFlight'[i].run = run
  <2>1. \A i \in 1..Len(InFlight') : i + 1 \in 1..Len(InFlight)
    BY <1>6
  <2> QED BY <2>1, <1>5, <1>6 DEF Granted
<1>16. Granted'
  BY <1>1, <1>5, <1>9, <1>11, <1>13, <1>15 DEF Granted
<1>17. Reading'
  BY <1>1, <1>5, <1>13, <1>16 DEF Reading
<1>18. SessionInv'
  BY <1>1, <1>10, <1>13, <1>14, <1>17 DEF SessionInv
<1> QED BY <1>12, <1>13, <1>18 DEF IInv

-----------------------------------------------------------------------------
(* The theorems. *)

LEMMA InitInv == Init => IInv
<1> SUFFICES ASSUME Init PROVE IInv
  OBVIOUS
<1>1. UsbInit(<<Byte("log", 0)>>)
  BY DEF Init
<1>2. 0 \in 0..MaxRuns /\ 0 \in 0..MaxFeeds /\ 0 \in 0..MaxTells
  BY SessionConstants
<1>3. Byte("log", 0) \in Bytes
  BY <1>2 DEF Byte, Bytes
<1>4. pipe \in Seq(Bytes) /\ Len(pipe) = 1 /\ pipe # <<>>
  BY <1>1, <1>3 DEF UsbInit
<1>5. UsbTypes
  <2>1. <<>> \in Seq(Bytes) /\ <<>> \in Seq(Seq(Bytes)) /\ Len(<<>>) = 0
    OBVIOUS
  <2> QED BY <1>1, <1>4, <2>1, UsbConstants DEF UsbInit, UsbTypes
<1>a. TypeOK
  <2>1. <<>> \in Seq(Cmds) /\ Len(<<>>) = 0 /\ CMD_QUEUE_CAP \in Nat
    BY SessionConstants
  <2>2. Fresh \in [in : BOOLEAN, bad : BOOLEAN, started : BOOLEAN, heard : SUBSET (0..MaxRuns)]
    BY DEF Fresh
  <2>3. enc \in [streaming : BOOLEAN, open : BOOLEAN, held : BOOLEAN, run : 0..MaxRuns]
    BY <1>2 DEF Init
  <2>4. saw \in BOOLEAN /\ busy \in BOOLEAN /\ idle \in BOOLEAN
    BY DEF Init
  <2>5. /\ host = "closed" /\ run = 0 /\ dec = Fresh /\ cmds = <<>> /\ queue = <<>>
        /\ pc = "top" /\ feeds = 0 /\ tells = 0
    BY DEF Init
  <2> QED BY <1>2, <1>5, <2>1, <2>2, <2>3, <2>4, <2>5 DEF UsbTypes, TypeOK
<1>6. PacketsEnd
  BY <1>1, <1>4, UsbConstants DEF UsbInit, PacketsEnd
<1>7. SessionInv
  BY DEF Init, SessionInv, StoppedIsEmpty, HostFresh, FreshStart, OwnLossOnly, Fresh
<1> QED BY <1>a, <1>6, <1>7 DEF IInv

LEMMA NextInv == IInv /\ [Next]_vars => IInv'
<1> SUFFICES ASSUME IInv, [Next]_vars PROVE IInv'
  OBVIOUS
<1>1. CASE UNCHANGED vars
  <2>1. UNCHANGED <<usbVars, hostVars, cmds, fwVars>>
    BY <1>1 DEF vars
  <2>2. TypeOK' /\ PacketsEnd'
    BY <2>1 DEF IInv, TypeOK, PacketsEnd, usbVars, hostVars, fwVars
  <2>3. InFlight' = InFlight /\ Pending' = Pending /\ UNCHANGED <<hostVars, enc, lost>>
    BY <2>1 DEF InFlight, Packet, Pending, usbVars, fwVars
  <2>4. SessionInv'
    BY <2>3, QuietStep DEF IInv
  <2> QED BY <2>2, <2>4 DEF IInv
<1>2. CASE Firmware
  BY <1>2, RxCommandStep, TakeCommandInv, CapturePassStep, AfterYieldStep, TransportStep
     DEF Firmware, Capture
<1>3. CASE UsbRx
  BY <1>3, TransportStep
<1>4. CASE Host
  BY <1>4, HostOpenStep, HostStopStep, HostDrainStep, HostQuietStep, HostReadStep,
     HostExitStep DEF Host
<1>5. CASE Poke
  BY <1>5, PokeStep
<1> QED BY <1>1, <1>2, <1>3, <1>4, <1>5 DEF Next

LEMMA Invariance == Spec => []IInv
BY InitInv, NextInv, PTL DEF Spec

\* The pipe never holds more than its capacity, a packet never more than its
\* size, the command channel never more than its slots: Pipe::try_write and
\* CMD_QUEUE.send as PipeSink::push and rx_task use them.
THEOREM TypeCorrect == Spec => []TypeOK
BY Invariance, PTL DEF IInv

\* The handshake works, for any pipe, packet and read request and any number of
\* viewers that die at any time: a viewer decodes only what its own START or its
\* own commands caused, and STARTED before all of it (host main.rs 606-608).
THEOREM FreshStartAlways == Spec => []FreshStart
BY Invariance, PTL DEF IInv, SessionInv

\* A viewer fails its handshake or desyncs only if a byte of its own session was
\* dropped at the full pipe: earlier sessions' losses never reach it.
THEOREM OwnLossOnlyAlways == Spec => []OwnLossOnly
BY Invariance, PTL DEF IInv, SessionInv
=============================================================================
