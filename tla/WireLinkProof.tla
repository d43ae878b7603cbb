-------------------------- MODULE WireLinkProof --------------------------
(***************************************************************************)
(* Proofs about the encoder, and about the link it makes with a decoder,    *)
(* for every set of samples, MAX_RUN, MAX_REPEAT2_LEN < MAX_RUN, buffer,     *)
(* field widths, line and number of calls.                                  *)
(*                                                                         *)
(* The encoder is lossless and never desyncs its reader.  The argument     *)
(* follows its own structure: one lemma per token says what the reader     *)
(* makes of it, one per private function that it keeps the reader in step  *)
(* with the encoder's frame (Sound) and the deferred runs fit to be        *)
(* resolved, and how many samples it moves from the deferred runs to the   *)
(* wire.  The public methods then compose these.                           *)
(*                                                                         *)
(* The link is a FIFO.  A byte stream is seen as the tokens it was pushed  *)
(* as (Trace), and it leads from what was read before it to where the      *)
(* encoder's reader is (Flows).  What the calls push keeps it so; a parse  *)
(* of the front of such a stream, cut anywhere, is a frame after which the *)
(* rest still leads there, or nothing (FrontParses).  So a turn of drain,  *)
(* a drain, a round of feed and a feed keep it, and with them LinkInv.     *)
(* Statements about every position of a sequence are proved from the least *)
(* position that would break them (FromTo).                                *)
(***************************************************************************)
EXTENDS WireLink, SequenceTheorems, WellFoundedInduction, TLAPS

-----------------------------------------------------------------------------
(* What a receiver makes of one token. *)

\* Every token constructor yields a token; lengths that fit their field are
\* carried unchanged, and only the terminator is a zero length byte.
LEMMA TokenTypes ==
  /\ {BlockTag, Sentinel, Terminator, OverrunFrame} \subseteq Tokens
  /\ \A k \in SideBand : SideFrame(k) \in Tokens
  /\ \A x \in Samples : Word(x) \in Tokens
  /\ \A n \in 1..MAX_RUN, x \in Samples : RunFrame(n, x) \in Tokens
  /\ \A a, b \in Samples : Repeat2Tag(a, b) \in Tokens
  /\ \A n \in 1..MAX_REPEAT2_LEN : LenByte(n) = [kind |-> "len", n |-> n]
  /\ \A n \in 1..MAX_REPEAT2_LEN : LenByte(n) \in Tokens
  /\ Terminator = [kind |-> "len", n |-> 0]
<1>1. \A n \in 0..MAX_REPEAT2_LEN : n % (MAX_REPEAT2_LEN + 1) = n
  BY WireConstants
<1>2. /\ \A n \in 1..MAX_REPEAT2_LEN : LenByte(n) = [kind |-> "len", n |-> n]
      /\ Terminator = [kind |-> "len", n |-> 0]
  BY <1>1, WireConstants DEF LenByte, Terminator
<1>3. QED
  BY <1>2, WireConstants
  DEF Tokens, BlockTag, Sentinel, OverrunFrame, SideFrame, Word, RunFrame, Repeat2Tag

\* Copies of a sample are a sequence of items.
LEMMA RepeatType ==
  ASSUME NEW n \in Nat, NEW x \in Items
  PROVE  /\ Repeat(n, x) \in Seq(Items)
         /\ Len(Repeat(n, x)) = n
BY DEF Repeat

\* The tags that open a frame.
LEMMA ReadsOpening ==
  ASSUME NEW r \in Readers, r.open = "none"
  PROVE  /\ Read(r, BlockTag) = [r EXCEPT !.open = "block", !.prev = <<>>]
         /\ \A a, b \in Samples :
              Read(r, Repeat2Tag(a, b)) =
                [r EXCEPT !.open = "repeat2", !.a = a, !.b = b, !.nextB = FALSE,
                          !.canonical = @ /\ a # b]
BY DEF Read, BlockTag, Repeat2Tag, ReadBlock, ReadRepeat2

\* The frames that are one token.
LEMMA ReadsWhole ==
  ASSUME NEW r \in Readers, r.open = "none"
  PROVE  /\ \A k \in SideBand : Read(r, SideFrame(k)) = r
         /\ Read(r, OverrunFrame) = [r EXCEPT !.out = Append(@, Gap)]
         /\ \A n \in 1..MAX_RUN, x \in Samples :
              Read(r, RunFrame(n, x)) =
                [r EXCEPT !.out = @ \o Repeat(n, x), !.canonical = @ /\ n >= 2]
<1>1. \A k \in SideBand : k \notin {"block", "run", "repeat2", "overrun"}
  BY DEF SideBand
<1>2. QED
  BY <1>1 DEF Read, SideFrame, OverrunFrame, RunFrame, ReadRun

\* The fields inside a frame, and its end.
LEMMA ReadsBody ==
  ASSUME NEW r \in Readers
  PROVE  /\ r.open = "block" =>
              /\ Read(r, Sentinel) = [r EXCEPT !.open = "none"]
              /\ \A x \in Samples :
                   Read(r, Word(x)) = [r EXCEPT !.out = Append(@, x),
                                                !.canonical = @ /\ r.prev # <<x>>,
                                                !.prev = <<x>>]
         /\ r.open = "repeat2" =>
              /\ Read(r, Terminator) = [r EXCEPT !.open = "none"]
              /\ \A n \in 1..MAX_REPEAT2_LEN :
                   Read(r, LenByte(n)) =
                     [r EXCEPT !.out = @ \o Repeat(n, IF r.nextB THEN r.b ELSE r.a),
                               !.nextB = ~@]
<1>1. ASSUME r.open = "block"
      PROVE  /\ Read(r, Sentinel) = [r EXCEPT !.open = "none"]
             /\ \A x \in Samples :
                  Read(r, Word(x)) = [r EXCEPT !.out = Append(@, x),
                                               !.canonical = @ /\ r.prev # <<x>>,
                                               !.prev = <<x>>]
  BY <1>1 DEF Read, Sentinel, Word, ReadWord
<1>2. ASSUME r.open = "repeat2", NEW n \in 0..MAX_REPEAT2_LEN,
             NEW t, t = [kind |-> "len", n |-> n]
      PROVE  Read(r, t) = ReadLen(r, t) /\ t.n = n
  BY <1>2 DEF Read
<1>3. ASSUME r.open = "repeat2"
      PROVE  Read(r, Terminator) = [r EXCEPT !.open = "none"]
  <2>1. Terminator = [kind |-> "len", n |-> 0] /\ 0 \in 0..MAX_REPEAT2_LEN
    BY TokenTypes, WireConstants
  <2>2. Read(r, Terminator) = ReadLen(r, Terminator) /\ Terminator.n = 0
    BY <1>2, <1>3, <2>1
  <2> QED
    BY <2>2 DEF ReadLen
<1>4. ASSUME r.open = "repeat2", NEW n \in 1..MAX_REPEAT2_LEN
      PROVE  Read(r, LenByte(n)) =
               [r EXCEPT !.out = @ \o Repeat(n, IF r.nextB THEN r.b ELSE r.a),
                         !.nextB = ~@]
  <2>1. LenByte(n) = [kind |-> "len", n |-> n] /\ n \in 0..MAX_REPEAT2_LEN /\ n # 0
    BY <1>4, TokenTypes, WireConstants
  <2>2. Read(r, LenByte(n)) = ReadLen(r, LenByte(n)) /\ LenByte(n).n = n
    BY <1>2, <1>4, <2>1
  <2> QED
    BY <2>1, <2>2 DEF ReadLen
<1>5. QED
  BY <1>1, <1>3, <1>4

\* A REPEAT2 length adds its copies of the value whose turn it is.
LEMMA ReadsLen ==
  ASSUME NEW r \in Readers, r.open = "repeat2", NEW n \in 1..MAX_REPEAT2_LEN,
         NEW x \in Samples, x = IF r.nextB THEN r.b ELSE r.a
  PROVE  /\ Read(r, LenByte(n)) \in Readers
         /\ Read(r, LenByte(n)).open = "repeat2"
         /\ Read(r, LenByte(n)).a = r.a
         /\ Read(r, LenByte(n)).b = r.b
         /\ Read(r, LenByte(n)).nextB = ~r.nextB
         /\ Read(r, LenByte(n)).canonical = r.canonical
         /\ Read(r, LenByte(n)).out = r.out \o Repeat(n, x)
<1> DEFINE o == r.out \o Repeat(n, x)
<1>1. Read(r, LenByte(n)) = [r EXCEPT !.out = r.out \o Repeat(n, x), !.nextB = ~@]
  BY ReadsBody
<1>2. o \in Seq(Items)
  <2>1. r.out \in Seq(Items) /\ n \in Nat /\ x \in Items
    BY WireConstants DEF Readers, Items
  <2> QED
    BY <2>1, RepeatType, ConcatProperties
<1>3. Read(r, LenByte(n)) = [r EXCEPT !.out = o, !.nextB = ~@]
  BY <1>1
<1> HIDE DEF o
<1>4. QED
  BY <1>2, <1>3 DEF Readers, o

-----------------------------------------------------------------------------
(* The encoder's frame and the receiver's agree. *)

Sound(e) ==
  /\ e \in Encoders
  /\ e.reader.open = e.state.open
  /\ e.state.open = "repeat2" =>
       /\ e.reader.a = e.state.a
       /\ e.reader.b = e.state.b
       /\ e.reader.nextB = e.state.nextB
  /\ e.reader.canonical

\* The fields of an encoder in step with its receiver.
LEMMA SoundTypes ==
  ASSUME NEW e, Sound(e)
  PROVE  /\ e \in Encoders /\ e.run \in Runs /\ e.deferred \in Seq(Runs)
         /\ e.state \in States /\ e.reader \in Readers
         /\ e.reader.out \in Seq(Items)
BY DEF Sound, Encoders, Readers

\* The same pending runs.
Same(e, f) == f.run = e.run /\ f.deferred = e.deferred

\* Pushing a token and moving to a state changes the reader and the state.
LEMMA PushFields ==
  ASSUME NEW e \in Encoders, NEW t \in Tokens, Read(e.reader, t) \in Readers,
         NEW s \in States
  PROVE  /\ Push(e, t) \in Encoders
         /\ Same(e, Push(e, t))
         /\ Push(e, t).state = e.state
         /\ Push(e, t).reader = Read(e.reader, t)
         /\ [Push(e, t) EXCEPT !.state = s] \in Encoders
         /\ Same(e, [Push(e, t) EXCEPT !.state = s])
         /\ [Push(e, t) EXCEPT !.state = s].state = s
         /\ [Push(e, t) EXCEPT !.state = s].reader = Read(e.reader, t)
<1>1. Append(e.sink, t) \in Seq(Tokens)
  BY DEF Encoders
<1>2. QED
  BY <1>1 DEF Push, Encoders, Same

\* Closing the open frame leaves nothing open and moves no sample.
LEMMA GoIdleSound ==
  ASSUME NEW e, Sound(e)
  PROVE  /\ Sound(GoIdle(e))
         /\ GoIdle(e).state.open = "none"
         /\ Same(e, GoIdle(e))
         /\ GoIdle(e).reader.out = e.reader.out
<1>0. Idle \in States /\ Idle.open = "none"
  BY WireConstants DEF Idle, States
<1>1. CASE e.state.open = "none"
  BY <1>1 DEF GoIdle, Sound, Same
<1>2. CASE e.state.open # "none"
  <2> DEFINE t == IF e.state.open = "block" THEN Sentinel ELSE Terminator
             r == [e.reader EXCEPT !.open = "none"]
  <2>1. t \in Tokens /\ e.reader \in Readers /\ e \in Encoders
    BY TokenTypes DEF Sound, Encoders
  <2>2. e.state.open \in {"block", "repeat2"}
    BY <1>2 DEF Sound, Encoders, States
  <2>3. Read(e.reader, t) = r
    BY <2>1, <2>2, ReadsBody DEF Sound
  <2>4. r \in Readers /\ r.open = "none" /\ r.out = e.reader.out /\ r.canonical = e.reader.canonical
    BY <2>1 DEF Readers
  <2>5. GoIdle(e) = [Push(e, t) EXCEPT !.state = Idle]
    BY <1>2 DEF GoIdle
  <2> HIDE DEF t, r
  <2>6. /\ GoIdle(e) \in Encoders
        /\ Same(e, GoIdle(e))
        /\ GoIdle(e).state = Idle
        /\ GoIdle(e).reader = r
    BY <1>0, <2>1, <2>3, <2>4, <2>5, PushFields
  <2> QED
    BY <1>0, <2>4, <2>6 DEF Sound
<1>3. QED
  BY <1>1, <1>2

\* A RUN frame carries its whole run.
LEMMA EmitRunSound ==
  ASSUME NEW e, Sound(e), e.state.open = "none",
         NEW r \in Runs, r.len >= 2
  PROVE  /\ Sound(EmitRun(e, r))
         /\ EmitRun(e, r).state.open = "none"
         /\ Same(e, EmitRun(e, r))
         /\ EmitRun(e, r).reader.out = e.reader.out \o Repeat(r.len, r.sample)
<1> DEFINE t == RunFrame(r.len, r.sample)
           q == [e.reader EXCEPT !.out = @ \o Repeat(r.len, r.sample),
                                 !.canonical = @ /\ r.len >= 2]
<1>1. e \in Encoders /\ e.reader \in Readers /\ e.reader.open = "none"
  BY DEF Sound, Encoders
<1>2. r.len \in 1..MAX_RUN /\ r.sample \in Samples
  BY WireConstants DEF Runs
<1>3. t \in Tokens
  <2>1. \A n \in 1..MAX_RUN, x \in Samples : RunFrame(n, x) \in Tokens
    BY TokenTypes
  <2> QED
    BY <1>2, <2>1
<1>9. Read(e.reader, t) = q
  <2>1. \A n \in 1..MAX_RUN, x \in Samples :
          Read(e.reader, RunFrame(n, x)) =
            [e.reader EXCEPT !.out = @ \o Repeat(n, x), !.canonical = @ /\ n >= 2]
    BY <1>1, ReadsWhole
  <2> QED
    BY <1>2, <2>1
<1>4. Repeat(r.len, r.sample) \in Seq(Items)
  BY <1>2, RepeatType DEF Items
<1>5. e.reader.out \o Repeat(r.len, r.sample) \in Seq(Items)
  BY <1>1, <1>4, ConcatProperties DEF Readers
<1>6. /\ q \in Readers /\ q.open = "none"
      /\ q.out = e.reader.out \o Repeat(r.len, r.sample)
      /\ q.canonical
  BY <1>1, <1>5 DEF Readers, Sound
<1> HIDE DEF t, q
<1>7. /\ Push(e, t) \in Encoders /\ Same(e, Push(e, t))
      /\ Push(e, t).state = e.state /\ Push(e, t).reader = q
  BY <1>1, <1>3, <1>9, <1>6, PushFields, e.state \in States DEF Encoders
<1>8. EmitRun(e, r) = Push(e, t)
  BY DEF EmitRun, t
<1> QED
  BY <1>6, <1>7, <1>8 DEF Sound

\* A lone sample joins the open BLOCK or opens one; unless it repeats the
\* BLOCK's last sample the frame stays canonical.
LEMMA AppendBlockSound ==
  ASSUME NEW e, Sound(e), NEW x \in Samples,
         e.state.open = "block" => e.reader.prev # <<x>>
  PROVE  /\ Sound(AppendBlock(e, x))
         /\ AppendBlock(e, x).state.open = "block"
         /\ AppendBlock(e, x).reader.prev = <<x>>
         /\ Same(e, AppendBlock(e, x))
         /\ AppendBlock(e, x).reader.out = Append(e.reader.out, x)
<1> DEFINE f == IF e.state.open = "block" THEN e ELSE OpenBlock(e)
<1>1. /\ Sound(f) /\ f.state.open = "block" /\ f.reader.prev # <<x>>
      /\ Same(e, f) /\ f.reader.out = e.reader.out
  <2>1. CASE e.state.open = "block"
    BY <2>1 DEF Same
  <2>2. CASE e.state.open # "block"
    <3> DEFINE g == GoIdle(e)
               r == [g.reader EXCEPT !.open = "block", !.prev = <<>>]
    <3>1. Sound(g) /\ g.state.open = "none" /\ Same(e, g) /\ g.reader.out = e.reader.out
      BY GoIdleSound
    <3> HIDE DEF g
    <3>2. g \in Encoders /\ g.reader \in Readers /\ g.reader.open = "none"
      BY <3>1 DEF Sound, Encoders
    <3>3. BlockTag \in Tokens
      BY TokenTypes
    <3>9. Read(g.reader, BlockTag) = r
      BY <3>2, ReadsOpening
    <3>4. /\ r \in Readers /\ r.open = "block" /\ r.prev = <<>>
          /\ r.out = g.reader.out /\ r.canonical = g.reader.canonical
      <4>1. <<>> \in Seq(Samples)
        OBVIOUS
      <4> QED
        BY <3>2, <4>1 DEF Readers
    <3>5. BlockOpen \in States /\ BlockOpen.open = "block"
      BY WireConstants DEF BlockOpen, Idle, States
    <3>6. OpenBlock(e) = [Push(g, BlockTag) EXCEPT !.state = BlockOpen]
      BY DEF OpenBlock, g
    <3> HIDE DEF r
    <3>7. /\ OpenBlock(e) \in Encoders /\ Same(g, OpenBlock(e))
          /\ OpenBlock(e).state = BlockOpen /\ OpenBlock(e).reader = r
      BY <3>2, <3>3, <3>9, <3>4, <3>5, <3>6, PushFields
    <3>8. f = OpenBlock(e)
      BY <2>2
    <3>10. Same(e, OpenBlock(e)) /\ OpenBlock(e).reader.out = e.reader.out
      BY <3>1, <3>4, <3>7 DEF Same
    <3>11. Sound(OpenBlock(e)) /\ OpenBlock(e).state.open = "block"
      BY <3>1, <3>4, <3>5, <3>7 DEF Sound
    <3>12. OpenBlock(e).reader.prev # <<x>>
      <4>1. Len(<<x>>) # Len(<<>>)
        OBVIOUS
      <4> QED
        BY <3>4, <3>7, <4>1
    <3> QED
      BY <3>8, <3>10, <3>11, <3>12
  <2> QED
    BY <2>1, <2>2
<1> HIDE DEF f
<1> DEFINE q == [f.reader EXCEPT !.out = Append(@, x),
                                 !.canonical = @ /\ f.reader.prev # <<x>>,
                                 !.prev = <<x>>]
<1>2. f \in Encoders /\ f.reader \in Readers /\ f.reader.open = "block" /\ f.state \in States
  BY <1>1 DEF Sound, Encoders
<1>3. Word(x) \in Tokens
  BY TokenTypes
<1>4. Read(f.reader, Word(x)) = q
  BY <1>2, ReadsBody
<1>5. Append(f.reader.out, x) \in Seq(Items) /\ <<x>> \in Seq(Samples)
  BY <1>2 DEF Readers, Items
<1>6. /\ q \in Readers /\ q.open = "block" /\ q.prev = <<x>>
      /\ q.out = Append(f.reader.out, x) /\ q.canonical
  BY <1>1, <1>2, <1>5 DEF Readers, Sound
<1> HIDE DEF q
<1>7. /\ Push(f, Word(x)) \in Encoders /\ Same(f, Push(f, Word(x)))
      /\ Push(f, Word(x)).state = f.state /\ Push(f, Word(x)).reader = q
  BY <1>2, <1>3, <1>4, <1>6, PushFields
<1>8. AppendBlock(e, x) = Push(f, Word(x))
  BY DEF AppendBlock, f
<1> QED
  BY <1>1, <1>6, <1>7, <1>8 DEF Sound, Same

\* A run resolved on its own reaches the wire whole, and if it left a BLOCK
\* open then as that BLOCK's last sample.
LEMMA ResolveSingleSound ==
  ASSUME NEW e, Sound(e), NEW r \in Runs, r.len >= 1,
         e.state.open = "block" => e.reader.prev # <<r.sample>>
  PROVE  /\ Sound(ResolveSingle(e, r))
         /\ ResolveSingle(e, r).state.open \in {"none", "block"}
         /\ ResolveSingle(e, r).state.open = "block"
              => ResolveSingle(e, r).reader.prev = <<r.sample>>
         /\ Same(e, ResolveSingle(e, r))
         /\ ResolveSingle(e, r).reader.out
              = e.reader.out \o Repeat(r.len, r.sample)
<1>1. r.sample \in Samples /\ r.len \in Nat
  BY WireConstants DEF Runs
<1>2. CASE r.len = 1
  <2>1. ResolveSingle(e, r) = AppendBlock(e, r.sample)
    BY <1>2 DEF ResolveSingle
  <2>2. e.reader.out \in Seq(Items)
    BY DEF Sound, Encoders, Readers
  <2>3. Append(e.reader.out, r.sample) = e.reader.out \o Repeat(1, r.sample)
    BY <1>1, <2>2 DEF Repeat
  <2> DEFINE f == AppendBlock(e, r.sample)
  <2>4. /\ Sound(f) /\ f.state.open = "block" /\ f.reader.prev = <<r.sample>>
        /\ Same(e, f) /\ f.reader.out = Append(e.reader.out, r.sample)
    BY <1>1, AppendBlockSound
  <2> HIDE DEF f
  <2>5. ResolveSingle(e, r) = f
    BY <2>1 DEF f
  <2> QED
    BY <1>2, <2>3, <2>4, <2>5
<1>3. CASE r.len # 1
  <2> DEFINE g == GoIdle(e)
  <2>1. Sound(g) /\ g.state.open = "none" /\ Same(e, g) /\ g.reader.out = e.reader.out
    BY GoIdleSound
  <2>2. ResolveSingle(e, r) = EmitRun(g, r)
    BY <1>3 DEF ResolveSingle
  <2>3. r.len >= 2
    BY <1>1, <1>3
  <2> HIDE DEF g
  <2> DEFINE f == EmitRun(g, r)
  <2>4. /\ Sound(f) /\ f.state.open = "none" /\ Same(g, f)
        /\ f.reader.out = g.reader.out \o Repeat(r.len, r.sample)
    BY <2>1, <2>3, EmitRunSound
  <2> HIDE DEF f
  <2>5. ResolveSingle(e, r) = f
    BY <2>2 DEF f
  <2> QED
    BY <2>1, <2>4, <2>5 DEF Same
<1>4. QED
  BY <1>2, <1>3

-----------------------------------------------------------------------------
(* The deferral window. *)

Short == [sample : Samples, len : 1..MAX_REPEAT2_LEN]

\* A run stands for a sequence of items.
LEMMA RunSamples ==
  ASSUME NEW r \in Runs
  PROVE  Repeat(r.len, r.sample) \in Seq(Items)
<1>1. r.len \in Nat /\ r.sample \in Items
  BY WireConstants DEF Runs, Items
<1>2. QED
  BY <1>1, RepeatType

\* A deferred run is a run.
LEMMA ShortRuns == \A r \in Short : r \in Runs /\ r.len >= 1 /\ r.len <= MAX_REPEAT2_LEN
BY WireConstants DEF Short, Runs

\* A window of at most two runs is one of three shapes.
LEMMA WindowCases ==
  ASSUME NEW d \in Seq(Runs), Len(d) <= 2,
         \A i \in DOMAIN d : d[i].len \in 1..MAX_REPEAT2_LEN
  PROVE  \/ d = <<>>
         \/ \E a \in Short : d = <<a>>
         \/ \E a, b \in Short : d = <<a, b>>
<1>1. PICK n \in Nat : n = Len(d)
  OBVIOUS
<1>2. \A i \in 1..n : d[i] \in Short
  <2> SUFFICES ASSUME NEW i \in 1..n
               PROVE  d[i] \in Short
    OBVIOUS
  <2>1. d[i] \in Runs /\ d[i].len \in 1..MAX_REPEAT2_LEN
    BY <1>1
  <2> QED
    BY <2>1 DEF Runs, Short
<1>3. CASE n <= 0
  BY <1>1, <1>3, EmptySeq
<1>4. CASE n > 0 /\ n < 2
  <2>1. d[1] \in Short
    BY <1>2, <1>4
  <2>2. <<d[1]>> \in Seq(Short) /\ Len(<<d[1]>>) = 1 /\ <<d[1]>>[1] = d[1]
    BY <2>1
  <2>3. Len(d) = Len(<<d[1]>>) /\ \A i \in 1..Len(d) : i = 1
    BY <1>1, <1>4, <2>2
  <2>4. \A i \in 1..Len(d) : d[i] = <<d[1]>>[i]
    BY <2>2, <2>3
  <2>5. d \in Seq(Short)
    BY <1>1, <1>2
  <2>6. d = <<d[1]>>
    BY <2>2, <2>3, <2>4, <2>5, SeqEqual
  <2> QED
    BY <2>1, <2>6
<1>5. CASE n > 1
  <2>1. d[1] \in Short /\ d[2] \in Short
    BY <1>2, <1>5
  <2>2. d = <<d[1], d[2]>>
    BY <1>1, <1>5
  <2> QED
    BY <2>1, <2>2
<1>6. QED
  BY <1>1, <1>3, <1>4, <1>5

\* The samples of zero, one and two deferred runs.
LEMMA DeferredCases ==
  /\ Deferred(<<>>) = <<>>
  /\ \A a \in Runs : Deferred(<<a>>) = Repeat(a.len, a.sample)
  /\ \A a, b \in Runs :
       Deferred(<<a, b>>) = Repeat(a.len, a.sample) \o Repeat(b.len, b.sample)
<1>1. Deferred(<<>>) = <<>>
  <2>1. Held(<<>>, 1) = <<>> /\ Held(<<>>, 2) = <<>>
    BY DEF Held
  <2>2. <<>> \o <<>> = <<>>
    BY EmptySeq, ConcatEmptySeq
  <2> QED
    BY <2>1, <2>2 DEF Deferred
<1>2. ASSUME NEW a \in Runs
      PROVE  Deferred(<<a>>) = Repeat(a.len, a.sample)
  <2>1. Held(<<a>>, 1) = Repeat(a.len, a.sample) /\ Held(<<a>>, 2) = <<>>
    BY DEF Held
  <2>2. Repeat(a.len, a.sample) \o <<>> = Repeat(a.len, a.sample)
    BY RunSamples, ConcatEmptySeq
  <2> QED
    BY <2>1, <2>2 DEF Deferred
<1>3. ASSUME NEW a \in Runs, NEW b \in Runs
      PROVE  Deferred(<<a, b>>) = Repeat(a.len, a.sample) \o Repeat(b.len, b.sample)
  BY DEF Held, Deferred
<1>4. QED
  BY <1>1, <1>2, <1>3

\* The window's tail and its extension by a third run.
LEMMA WindowTails ==
  /\ \A a \in Short : Tail(<<a>>) = <<>> /\ Append(<<>>, a) = <<a>>
  /\ \A a, b \in Short : Tail(<<a, b>>) = <<b>> /\ Append(<<a>>, b) = <<a, b>>
<1>1. \A a \in Short : Tail(<<a>>) = <<>>
  OBVIOUS
<1>2. \A a \in Short : Append(<<>>, a) = <<a>>
  OBVIOUS
<1>3. \A a, b \in Short : Tail(<<a, b>>) = <<b>>
  OBVIOUS
<1>4. ASSUME NEW a \in Short, NEW b \in Short
      PROVE  Append(<<a>>, b) = <<a, b>>
  <2>1. <<a>> \in Seq(Short) /\ <<a, b>> \in Seq(Short)
    OBVIOUS
  <2>2. /\ Append(<<a>>, b) \in Seq(Short)
        /\ Len(Append(<<a>>, b)) = Len(<<a, b>>)
        /\ \A i \in 1..Len(Append(<<a>>, b)) : Append(<<a>>, b)[i] = <<a, b>>[i]
    OBVIOUS
  <2> QED
    BY <2>1, <2>2, SeqEqual
<1>5. QED
  BY <1>1, <1>2, <1>3, <1>4

\* The deferred runs may be resolved one by one: neighbours differ, the oldest
\* does not repeat the open BLOCK's last sample, and none is deferred while a
\* REPEAT2 is open.
FollowsBlock(e, a) == e.state.open = "block" => e.reader.prev # <<a.sample>>
DeferredOK(e) ==
  \/ /\ e.deferred = <<>>
     /\ e.state.open = "repeat2" => e.state.a # e.state.b
  \/ /\ e.state.open # "repeat2"
     /\ \/ \E a \in Short : e.deferred = <<a>> /\ FollowsBlock(e, a)
        \/ \E a, b \in Short : /\ e.deferred = <<a, b>>
                               /\ FollowsBlock(e, a)
                               /\ a.sample # b.sample

\* The deferred runs stand for a sequence of items.
LEMMA DeferredType ==
  ASSUME NEW e, DeferredOK(e)
  PROVE  Deferred(e.deferred) \in Seq(Items)
<1>1. ASSUME NEW a \in Short, e.deferred = <<a>>
      PROVE  Deferred(e.deferred) \in Seq(Items)
  <2>1. a \in Runs
    BY ShortRuns
  <2>2. Deferred(e.deferred) = Repeat(a.len, a.sample)
    BY <1>1, <2>1, DeferredCases
  <2> QED
    BY <2>1, <2>2, RunSamples
<1>2. ASSUME NEW a \in Short, NEW b \in Short, e.deferred = <<a, b>>
      PROVE  Deferred(e.deferred) \in Seq(Items)
  <2> DEFINE s == Repeat(a.len, a.sample)
             t == Repeat(b.len, b.sample)
  <2>1. a \in Runs /\ b \in Runs
    BY ShortRuns
  <2>2. Deferred(e.deferred) = s \o t
    BY <1>2, <2>1, DeferredCases
  <2>3. s \in Seq(Items) /\ t \in Seq(Items)
    BY <2>1, RunSamples
  <2> HIDE DEF s, t
  <2>4. s \o t \in Seq(Items)
    BY <2>3, ConcatProperties
  <2> QED
    BY <2>2, <2>4
<1>3. e.deferred = <<>> => Deferred(e.deferred) \in Seq(Items)
  BY DeferredCases, EmptySeq
<1>4. QED
  BY <1>1, <1>2, <1>3 DEF DeferredOK

\* What the wire says and the deferred runs add to it.
Said(e) == e.reader.out \o Deferred(e.deferred)

\* Resolving the oldest deferred run moves its samples to the wire.
LEMMA ResolveFirst ==
  ASSUME NEW e, Sound(e), NEW a \in Short, FollowsBlock(e, a),
         NEW d \in Seq(Runs), Tail(e.deferred) = d, e.deferred[1] = a
  PROVE  /\ Sound(ResolveOldest(e))
         /\ ResolveOldest(e).run = e.run
         /\ ResolveOldest(e).deferred = d
         /\ ResolveOldest(e).state.open \in {"none", "block"}
         /\ ResolveOldest(e).state.open = "block"
              => ResolveOldest(e).reader.prev = <<a.sample>>
         /\ ResolveOldest(e).reader.out = e.reader.out \o Repeat(a.len, a.sample)
<1> DEFINE s == ResolveSingle(e, a)
           f == ResolveOldest(e)
<1>1. a \in Runs /\ a.len >= 1
  BY ShortRuns
<1>2. e.state.open = "block" => e.reader.prev # <<a.sample>>
  BY DEF FollowsBlock
<1>3. /\ Sound(s) /\ s.state.open \in {"none", "block"}
      /\ s.state.open = "block" => s.reader.prev = <<a.sample>>
      /\ s.run = e.run /\ s.deferred = e.deferred
      /\ s.reader.out = e.reader.out \o Repeat(a.len, a.sample)
  BY <1>1, <1>2, ResolveSingleSound DEF Same
<1> HIDE DEF s
<1>4. f = [s EXCEPT !.deferred = Tail(@)]
  BY DEF ResolveOldest, s
<1>5. /\ f \in Encoders /\ f.run = e.run /\ f.deferred = d
      /\ f.state = s.state /\ f.reader = s.reader
  BY <1>3, <1>4 DEF Sound, Encoders
<1> HIDE DEF f
<1>6. Sound(f)
  BY <1>3, <1>5 DEF Sound
<1>7. QED
  BY <1>3, <1>5, <1>6 DEF f

\* With one deferred run the window becomes empty.
LEMMA ResolveOne ==
  ASSUME NEW e, Sound(e), NEW a \in Short, FollowsBlock(e, a), e.deferred = <<a>>
  PROVE  /\ Sound(ResolveOldest(e))
         /\ ResolveOldest(e).run = e.run
         /\ ResolveOldest(e).deferred = <<>>
         /\ ResolveOldest(e).state.open \in {"none", "block"}
         /\ ResolveOldest(e).reader.out = Said(e)
<1> DEFINE f == ResolveOldest(e)
<1>1. a \in Runs /\ <<>> \in Seq(Runs) /\ Tail(e.deferred) = <<>> /\ e.deferred[1] = a
  BY WindowTails, EmptySeq, ShortRuns
<1>2. /\ Sound(f) /\ f.run = e.run /\ f.deferred = <<>>
      /\ f.state.open \in {"none", "block"}
      /\ f.reader.out = e.reader.out \o Repeat(a.len, a.sample)
  BY <1>1, ResolveFirst
<1> HIDE DEF f
<1>3. Deferred(e.deferred) = Repeat(a.len, a.sample)
  BY <1>1, DeferredCases
<1>4. f.reader.out = Said(e)
  BY <1>2, <1>3 DEF Said
<1>5. QED
  BY <1>2, <1>4 DEF f

\* With two, the younger one is left, fit to be resolved next.
LEMMA ResolveTwo ==
  ASSUME NEW e, Sound(e), NEW a \in Short, NEW b \in Short, FollowsBlock(e, a),
         a.sample # b.sample, e.deferred = <<a, b>>
  PROVE  /\ Sound(ResolveOldest(e))
         /\ ResolveOldest(e).run = e.run
         /\ ResolveOldest(e).deferred = <<b>>
         /\ ResolveOldest(e).state.open \in {"none", "block"}
         /\ FollowsBlock(ResolveOldest(e), b)
         /\ Said(ResolveOldest(e)) = Said(e)
<1> DEFINE f == ResolveOldest(e)
<1>1. a \in Runs /\ b \in Runs
  BY ShortRuns
<1>2. <<b>> \in Seq(Runs) /\ Tail(e.deferred) = <<b>> /\ e.deferred[1] = a
  BY <1>1, WindowTails
<1>3. /\ Sound(f) /\ f.run = e.run /\ f.deferred = <<b>>
      /\ f.state.open \in {"none", "block"}
      /\ f.state.open = "block" => f.reader.prev = <<a.sample>>
      /\ f.reader.out = e.reader.out \o Repeat(a.len, a.sample)
  BY <1>2, ResolveFirst
<1> HIDE DEF f
<1>4. FollowsBlock(f, b)
  <2>1. <<a.sample>> # <<b.sample>>
    OBVIOUS
  <2> QED
    BY <1>3, <2>1 DEF FollowsBlock
<1>5. Said(f) = Said(e)
  <2> DEFINE o == e.reader.out
             s == Repeat(a.len, a.sample)
             t == Repeat(b.len, b.sample)
  <2>1. Deferred(f.deferred) = t /\ Deferred(e.deferred) = s \o t
    BY <1>1, <1>3, DeferredCases
  <2>2. s \in Seq(Items) /\ t \in Seq(Items) /\ o \in Seq(Items)
    BY <1>1, RunSamples, SoundTypes
  <2>3. Said(f) = (o \o s) \o t /\ Said(e) = o \o (s \o t)
    BY <1>3, <2>1 DEF Said
  <2> HIDE DEF o, s, t
  <2> QED
    BY SMTT(60), <2>2, <2>3, ConcatAssociative
<1>6. QED
  BY <1>3, <1>4, <1>5 DEF f

\* Draining the window empties it onto the wire.
LEMMA DrainDeferredSound ==
  ASSUME NEW e, Sound(e), DeferredOK(e)
  PROVE  /\ Sound(DrainDeferred(e))
         /\ DrainDeferred(e).run = e.run
         /\ DrainDeferred(e).deferred = <<>>
         /\ DrainDeferred(e).reader.out = Said(e)
<1> DEFINE f == ResolveOldest(e)
<1>1. CASE e.deferred = <<>>
  <2>1. DrainDeferred(e) = e
    BY <1>1 DEF DrainDeferred
  <2>2. e.reader.out \o <<>> = e.reader.out
    BY SoundTypes, ConcatEmptySeq
  <2>3. Said(e) = e.reader.out
    BY <1>1, <2>2, DeferredCases DEF Said
  <2> QED
    BY <1>1, <2>1, <2>3
<1>2. ASSUME NEW a \in Short, e.deferred = <<a>>, FollowsBlock(e, a)
      PROVE  /\ Sound(DrainDeferred(e))
             /\ DrainDeferred(e).run = e.run
             /\ DrainDeferred(e).deferred = <<>>
             /\ DrainDeferred(e).reader.out = Said(e)
  <2>1. /\ Sound(f) /\ f.run = e.run /\ f.deferred = <<>> /\ f.reader.out = Said(e)
    BY <1>2, ResolveOne
  <2>2. e.deferred # <<>>
    BY <1>2
  <2>3. DrainDeferred(e) = f
    BY <2>1, <2>2 DEF DrainDeferred
  <2> HIDE DEF f
  <2> QED
    BY <2>1, <2>3
<1>3. ASSUME NEW a \in Short, NEW b \in Short, e.deferred = <<a, b>>,
             FollowsBlock(e, a), a.sample # b.sample
      PROVE  /\ Sound(DrainDeferred(e))
             /\ DrainDeferred(e).run = e.run
             /\ DrainDeferred(e).deferred = <<>>
             /\ DrainDeferred(e).reader.out = Said(e)
  <2>1. /\ Sound(f) /\ f.run = e.run /\ f.deferred = <<b>>
        /\ FollowsBlock(f, b) /\ Said(f) = Said(e)
    BY <1>3, ResolveTwo
  <2>2. e.deferred # <<>> /\ <<b>> # <<>>
    BY <1>3
  <2>3. DrainDeferred(e) = ResolveOldest(f)
    BY <2>1, <2>2 DEF DrainDeferred
  <2> HIDE DEF f
  <2> DEFINE g == ResolveOldest(f)
  <2>4. /\ Sound(g) /\ g.run = f.run /\ g.deferred = <<>> /\ g.reader.out = Said(f)
    BY <2>1, ResolveOne
  <2> HIDE DEF g
  <2>5. DrainDeferred(e) = g
    BY <2>3 DEF g
  <2> QED
    BY <2>1, <2>4, <2>5
<1>4. QED
  BY <1>1, <1>2, <1>3 DEF DeferredOK

-----------------------------------------------------------------------------
(* Completing a run. *)

\* Between two runs: a frame that takes lone samples has deferred runs to close
\* it, so an open BLOCK is never left with an empty window.
Ready(e) ==
  /\ Sound(e)
  /\ DeferredOK(e)
  /\ e.state.open = "block" => e.deferred # <<>>

\* r may follow the deferred runs: it does not repeat the youngest.
MayFollow(e, r) ==
  /\ \A a \in Short : e.deferred = <<a>> => a.sample # r.sample
  /\ \A a, b \in Short : e.deferred = <<a, b>> => b.sample # r.sample

\* r was the last run deferred, if any is.
Youngest(e, r) ==
  \/ e.deferred = <<>>
  \/ \E a \in Short : e.deferred = <<a>> /\ a.sample = r.sample
  \/ \E a, b \in Short : e.deferred = <<a, b>> /\ b.sample = r.sample

\* A confirmed alternation a, b, c opens a REPEAT2 that carries all three.
LEMMA Repeat2StartSound ==
  ASSUME NEW e, Sound(e), NEW a \in Short, NEW b \in Short, NEW c \in Short,
         a.sample = c.sample, a.sample # b.sample, e.deferred = <<a, b>>
  PROVE  /\ Ready(Repeat2Start(e, a, b, c))
         /\ Repeat2Start(e, a, b, c).run = e.run
         /\ Repeat2Start(e, a, b, c).deferred = <<>>
         /\ Said(Repeat2Start(e, a, b, c))
              = Said(e) \o Repeat(c.len, c.sample)
<1> DEFINE g  == GoIdle(e)
           A  == Repeat(a.len, a.sample)
           B  == Repeat(b.len, b.sample)
           C  == Repeat(c.len, c.sample)
           r0 == [g.reader EXCEPT !.open = "repeat2", !.a = a.sample,
                                  !.b = b.sample, !.nextB = FALSE,
                                  !.canonical = @ /\ a.sample # b.sample]
           r1 == Read(r0, LenByte(a.len))
           r2 == Read(r1, LenByte(b.len))
           r3 == Read(r2, LenByte(c.len))
           h0 == Push(g, Repeat2Tag(a.sample, b.sample))
           h1 == Push(h0, LenByte(a.len))
           h2 == Push(h1, LenByte(b.len))
           h3 == Push(h2, LenByte(c.len))
           f  == Repeat2Start(e, a, b, c)
<1>1. /\ Sound(g) /\ g.state.open = "none" /\ Same(e, g)
      /\ g.reader.out = e.reader.out
  BY GoIdleSound
<1> HIDE DEF g
<1>2. g \in Encoders /\ g.reader \in Readers /\ g.reader.open = "none"
      /\ g.reader.canonical /\ g.state \in States
  BY <1>1, SoundTypes DEF Sound
<1>3. /\ A \in Seq(Items) /\ B \in Seq(Items) /\ C \in Seq(Items)
      /\ e.reader.out \in Seq(Items)
  BY ShortRuns, RunSamples, SoundTypes
<1>4. /\ a.sample \in Samples /\ b.sample \in Samples /\ c.sample = a.sample
      /\ a.len \in 1..MAX_REPEAT2_LEN /\ b.len \in 1..MAX_REPEAT2_LEN
      /\ c.len \in 1..MAX_REPEAT2_LEN
  BY DEF Short
<1>5. /\ Repeat2Tag(a.sample, b.sample) \in Tokens /\ LenByte(a.len) \in Tokens
      /\ LenByte(b.len) \in Tokens /\ LenByte(c.len) \in Tokens
  BY <1>4, TokenTypes
<1>6. /\ Read(g.reader, Repeat2Tag(a.sample, b.sample)) = r0
      /\ r0 \in Readers /\ r0.open = "repeat2" /\ r0.a = a.sample /\ r0.b = b.sample
      /\ r0.nextB = FALSE /\ r0.canonical /\ r0.out = e.reader.out
  <2>1. Read(g.reader, Repeat2Tag(a.sample, b.sample)) = r0
    <3>1. \A p, q \in Samples :
            Read(g.reader, Repeat2Tag(p, q)) =
              [g.reader EXCEPT !.open = "repeat2", !.a = p, !.b = q,
                               !.nextB = FALSE, !.canonical = @ /\ p # q]
      BY <1>2, ReadsOpening
    <3> QED
      BY <1>4, <3>1
  <2> QED
    BY <1>1, <1>2, <1>4, <2>1 DEF Readers
<1> HIDE DEF A, B, C
<1> HIDE DEF r0
<1>7. /\ r1 \in Readers /\ r1.open = "repeat2" /\ r1.a = a.sample /\ r1.b = b.sample
      /\ r1.nextB = TRUE /\ r1.canonical /\ r1.out = e.reader.out \o A
  <2>1. a.sample = IF r0.nextB THEN r0.b ELSE r0.a
    BY <1>6
  <2>2. /\ r1 \in Readers /\ r1.open = "repeat2" /\ r1.a = r0.a /\ r1.b = r0.b
        /\ r1.nextB = ~r0.nextB /\ r1.canonical = r0.canonical
        /\ r1.out = r0.out \o Repeat(a.len, a.sample)
    <3>1. /\ r0 \in Readers /\ r0.open = "repeat2" /\ a.len \in 1..MAX_REPEAT2_LEN
          /\ a.sample \in Samples
      BY <1>4, <1>6
    <3> QED
      BY <2>1, <3>1, ReadsLen
  <2>3. r1.nextB = TRUE
    BY <1>6, <2>2
  <2> QED
    BY <1>6, <2>2, <2>3 DEF A
<1> HIDE DEF r1
<1>8. /\ r2 \in Readers /\ r2.open = "repeat2" /\ r2.a = a.sample /\ r2.b = b.sample
      /\ r2.nextB = FALSE /\ r2.canonical /\ r2.out = (e.reader.out \o A) \o B
  <2>1. b.sample = IF r1.nextB THEN r1.b ELSE r1.a
    BY <1>7
  <2>2. /\ r2 \in Readers /\ r2.open = "repeat2" /\ r2.a = r1.a /\ r2.b = r1.b
        /\ r2.nextB = ~r1.nextB /\ r2.canonical = r1.canonical
        /\ r2.out = r1.out \o Repeat(b.len, b.sample)
    <3>1. /\ r1 \in Readers /\ r1.open = "repeat2" /\ b.len \in 1..MAX_REPEAT2_LEN
          /\ b.sample \in Samples
      BY <1>4, <1>7
    <3> QED
      BY <2>1, <3>1, ReadsLen
  <2>3. r2.nextB = FALSE
    BY <1>7, <2>2
  <2> QED
    BY <1>7, <2>2, <2>3 DEF B
<1> HIDE DEF r2
<1>9. /\ r3 \in Readers /\ r3.open = "repeat2" /\ r3.a = a.sample /\ r3.b = b.sample
      /\ r3.nextB = TRUE /\ r3.canonical /\ r3.out = ((e.reader.out \o A) \o B) \o C
  <2>1. a.sample = IF r2.nextB THEN r2.b ELSE r2.a
    BY <1>8
  <2>2. /\ r3 \in Readers /\ r3.open = "repeat2" /\ r3.a = r2.a /\ r3.b = r2.b
        /\ r3.nextB = ~r2.nextB /\ r3.canonical = r2.canonical
        /\ r3.out = r2.out \o Repeat(c.len, a.sample)
    <3>1. /\ r2 \in Readers /\ r2.open = "repeat2" /\ c.len \in 1..MAX_REPEAT2_LEN
          /\ a.sample \in Samples
      BY <1>4, <1>8
    <3> QED
      BY <2>1, <3>1, ReadsLen
  <2>3. r3.nextB = TRUE
    BY <1>8, <2>2
  <2> QED
    BY <1>8, <2>2, <2>3 DEF C
<1> HIDE DEF r3
<1>10. h0 \in Encoders /\ h0.reader = r0 /\ h0.run = e.run
  BY <1>1, <1>2, <1>5, <1>6, PushFields DEF Same
<1> HIDE DEF h0
<1>11. h1 \in Encoders /\ h1.reader = r1 /\ h1.run = e.run
  BY <1>2, <1>5, <1>7, <1>10, PushFields DEF Same, r1
<1> HIDE DEF h1
<1>12. h2 \in Encoders /\ h2.reader = r2 /\ h2.run = e.run
  BY <1>2, <1>5, <1>8, <1>11, PushFields DEF Same, r2
<1> HIDE DEF h2
<1>13. h3 \in Encoders /\ h3.reader = r3 /\ h3.run = e.run
  BY <1>2, <1>5, <1>9, <1>12, PushFields DEF Same, r3
<1>14. f = [h3 EXCEPT !.deferred = <<>>, !.state = Repeat2Open(a.sample, b.sample, TRUE)]
  BY DEF Repeat2Start, h0, h1, h2, g
<1> HIDE DEF h3
<1>15. Repeat2Open(a.sample, b.sample, TRUE) \in States
  BY <1>4 DEF Repeat2Open, States
<1>16. /\ f \in Encoders /\ f.run = e.run /\ f.deferred = <<>> /\ f.reader = r3
       /\ f.state = Repeat2Open(a.sample, b.sample, TRUE)
  <2>1. <<>> \in Seq(Runs)
    BY EmptySeq
  <2> QED
    BY <1>13, <1>14, <1>15, <2>1 DEF Encoders
<1> HIDE DEF f
<1>17. Ready(f)
  <2>1. /\ f.state.open = "repeat2" /\ f.state.a = a.sample
        /\ f.state.b = b.sample /\ f.state.nextB = TRUE
    BY <1>16 DEF Repeat2Open
  <2>2. Sound(f)
    BY <1>9, <1>16, <2>1 DEF Sound
  <2> QED
    BY <1>16, <2>1, <2>2 DEF Ready, DeferredOK
<1>18. Said(f) = Said(e) \o C
  <2> DEFINE o == e.reader.out
  <2>1. Deferred(e.deferred) = A \o B
    BY DeferredCases, ShortRuns DEF A, B
  <2>2. (o \o A) \o B = o \o (A \o B)
    <3>1. o \in Seq(Items)
      BY <1>3
    <3> HIDE DEF o
    <3> QED
      BY SMTT(60), <1>3, <3>1, ConcatAssociative
  <2>3. f.reader.out = Said(e) \o C
    BY <1>9, <1>16, <2>1, <2>2 DEF Said
  <2>4. Said(f) = f.reader.out
    BY <1>16, <1>17, DeferredCases, SoundTypes, ConcatEmptySeq DEF Said, Ready
  <2> QED
    BY <2>3, <2>4
<1>19. QED
  BY <1>16, <1>17, <1>18 DEF f, C

\* A run that enters the window is deferred, resolved with it or opens a
\* REPEAT2; either way it follows what was said.
LEMMA WindowSound ==
  ASSUME NEW e, Ready(e), e.state.open # "repeat2",
         NEW r \in Runs, r.len >= 1, MayFollow(e, r)
  PROVE  /\ Ready(Window(e, r))
         /\ Window(e, r).run = e.run
         /\ Said(Window(e, r)) = Said(e) \o Repeat(r.len, r.sample)
         /\ Youngest(Window(e, r), r)
         /\ r.len > MAX_REPEAT2_LEN => Window(e, r).deferred = <<>>
<1> DEFINE f == Window(e, r)
           x == Repeat(r.len, r.sample)
<1>1. Sound(e) /\ DeferredOK(e) /\ e.deferred \in Seq(Runs)
  BY SoundTypes DEF Ready
<1>2. x \in Seq(Items) /\ e.reader.out \in Seq(Items)
  BY <1>1, RunSamples, SoundTypes
<1>3. CASE r.len > MAX_REPEAT2_LEN
  <2> DEFINE g == DrainDeferred(e)
             h == GoIdle(g)
  <2>1. Sound(g) /\ g.run = e.run /\ g.deferred = <<>> /\ g.reader.out = Said(e)
    BY <1>1, DrainDeferredSound
  <2> HIDE DEF g
  <2>2. /\ Sound(h) /\ h.state.open = "none" /\ h.run = e.run /\ h.deferred = <<>>
        /\ h.reader.out = Said(e)
    BY <2>1, GoIdleSound DEF Same
  <2>3. f = EmitRun(h, r)
    BY <1>3 DEF Window, g
  <2> HIDE DEF h
  <2>4. r.len >= 2
    BY <1>3, WireConstants DEF Runs
  <2> HIDE DEF f
  <2>5. /\ Sound(f) /\ f.state.open = "none" /\ f.run = e.run /\ f.deferred = <<>>
        /\ f.reader.out = Said(e) \o x
    <3> DEFINE k == EmitRun(h, r)
    <3>1. Sound(k) /\ k.state.open = "none" /\ Same(h, k) /\ k.reader.out = h.reader.out \o x
      BY <2>2, <2>4, EmitRunSound
    <3> HIDE DEF k
    <3>2. f = k
      BY <2>3 DEF k
    <3> QED
      BY <2>2, <3>1, <3>2 DEF Same
  <2> HIDE DEF x
  <2>6. Said(f) = f.reader.out
    BY ZenonT(60), <2>5, DeferredCases, SoundTypes, ConcatEmptySeq DEF Said
  <2>7. Ready(f) /\ Youngest(f, r)
    BY <2>5 DEF Ready, DeferredOK, Youngest
  <2> QED
    BY <2>5, <2>6, <2>7 DEF f, x
<1>4. CASE r.len <= MAX_REPEAT2_LEN
  <2>0. r \in Short
    BY <1>4 DEF Runs, Short
  <2>1. ASSUME e.deferred = <<>>
        PROVE  Ready(f) /\ f.run = e.run /\ Said(f) = Said(e) \o x /\ Youngest(f, r)
    <3>1. Len(e.deferred) < 2 /\ ~(r.len > MAX_REPEAT2_LEN)
      BY <2>1, <1>4, WireConstants DEF Runs
    <3>2. f = [e EXCEPT !.deferred = Append(@, r)] /\ Append(e.deferred, r) = <<r>>
      BY <2>0, <2>1, <3>1, WindowTails DEF Window
    <3>a. <<r>> \in Seq(Runs)
      OBVIOUS
    <3>3. /\ f \in Encoders /\ f.run = e.run /\ f.deferred = <<r>>
          /\ f.state = e.state /\ f.reader = e.reader
      BY <1>1, <3>2, <3>a DEF Sound, Encoders
    <3> HIDE DEF f
    <3>4. Sound(f)
      BY <1>1, <3>3 DEF Sound
    <3>5. e.state.open # "block"
      BY <2>1 DEF Ready
    <3>6. <<r>> # <<>>
      OBVIOUS
    <3>7. Ready(f) /\ Youngest(f, r)
      BY <2>0, <3>3, <3>4, <3>5, <3>6 DEF Ready, DeferredOK, FollowsBlock, Youngest
    <3>8. Said(f) = e.reader.out \o x /\ Said(e) = e.reader.out
      BY <1>2, <2>1, <3>3, DeferredCases, ConcatEmptySeq DEF Said
    <3> QED
      BY <3>3, <3>7, <3>8
  <2>2. ASSUME NEW a \in Short, e.deferred = <<a>>, FollowsBlock(e, a)
        PROVE  Ready(f) /\ f.run = e.run /\ Said(f) = Said(e) \o x /\ Youngest(f, r)
    <3>1. Len(e.deferred) < 2 /\ ~(r.len > MAX_REPEAT2_LEN)
      BY <2>2, <1>4, WireConstants DEF Runs
    <3>2. f = [e EXCEPT !.deferred = Append(@, r)] /\ Append(e.deferred, r) = <<a, r>>
      BY <2>0, <2>2, <3>1, WindowTails DEF Window
    <3>a. <<a, r>> \in Seq(Runs) /\ a \in Runs
      BY <2>0, ShortRuns
    <3>3. /\ f \in Encoders /\ f.run = e.run /\ f.deferred = <<a, r>>
          /\ f.state = e.state /\ f.reader = e.reader
      BY <1>1, <3>2, <3>a DEF Sound, Encoders
    <3> HIDE DEF f
    <3>4. Sound(f)
      BY <1>1, <3>3 DEF Sound
    <3>5. a.sample # r.sample
      BY <2>2 DEF MayFollow
    <3>6. <<a, r>> # <<>>
      OBVIOUS
    <3>7. Ready(f)
      BY <2>0, <2>2, <3>3, <3>4, <3>5, <3>6 DEF Ready, DeferredOK, FollowsBlock
    <3>8. Youngest(f, r)
      BY <2>0, <3>3 DEF Youngest
    <3> DEFINE o == e.reader.out
               y == Repeat(a.len, a.sample)
    <3>9. Said(f) = o \o (y \o x) /\ Said(e) = o \o y
      BY <2>2, <3>3, <3>a, DeferredCases DEF Said
    <3>10. y \in Seq(Items) /\ o \in Seq(Items)
      BY <1>2, <3>a, RunSamples
    <3> HIDE DEF o, y, x
    <3>12. (o \o y) \o x = o \o (y \o x)
      BY <1>2, <3>10, ConcatAssociative
    <3>11. Said(f) = Said(e) \o x
      BY <3>9, <3>12
    <3> QED
      BY <3>3, <3>7, <3>8, <3>11 DEF x
  <2>3. ASSUME NEW a \in Short, NEW b \in Short, e.deferred = <<a, b>>,
               FollowsBlock(e, a), a.sample # b.sample
        PROVE  Ready(f) /\ f.run = e.run /\ Said(f) = Said(e) \o x /\ Youngest(f, r)
    <3>1. ~(Len(e.deferred) < 2) /\ ~(r.len > MAX_REPEAT2_LEN) /\ e.deferred[1] = a
          /\ e.deferred[2] = b
      BY <2>3, <1>4, WireConstants DEF Runs
    <3>2. b.sample # r.sample
      BY <2>3 DEF MayFollow
    <3>3. CASE a.sample = r.sample
      <4>1. f = Repeat2Start(e, a, b, r)
        BY <3>1, <3>3 DEF Window
      <4> HIDE DEF f
      <4>2. Ready(f) /\ f.run = e.run /\ f.deferred = <<>> /\ Said(f) = Said(e) \o x
        BY <1>1, <2>0, <2>3, <3>3, <4>1, Repeat2StartSound
      <4> QED
        BY <4>2 DEF Youngest
    <3>4. CASE a.sample # r.sample
      <4> DEFINE g == ResolveOldest(e)
      <4>1. f = [g EXCEPT !.deferred = Append(@, r)]
        BY <3>1, <3>4 DEF Window
      <4>2. /\ Sound(g) /\ g.run = e.run /\ g.deferred = <<b>>
            /\ g.state.open \in {"none", "block"} /\ FollowsBlock(g, b)
            /\ Said(g) = Said(e)
        BY <1>1, <2>3, ResolveTwo
      <4> HIDE DEF g
      <4>3. Append(g.deferred, r) = <<b, r>>
        BY <2>0, <4>2, WindowTails
      <4>4. <<b, r>> \in Seq(Runs) /\ b \in Runs
        BY <2>0, ShortRuns
      <4>5. /\ f \in Encoders /\ f.run = e.run /\ f.deferred = <<b, r>>
            /\ f.state = g.state /\ f.reader = g.reader
        BY <4>1, <4>2, <4>3, <4>4 DEF Sound, Encoders
      <4> HIDE DEF f
      <4>6. Sound(f)
        BY <4>2, <4>5 DEF Sound
      <4>7. <<b, r>> # <<>>
        OBVIOUS
      <4>8. Ready(f)
        BY <2>0, <3>2, <4>2, <4>5, <4>6, <4>7 DEF Ready, DeferredOK, FollowsBlock
      <4>9. Youngest(f, r)
        BY <2>0, <4>5 DEF Youngest
      <4> DEFINE o == g.reader.out
                 y == Repeat(b.len, b.sample)
      <4>10. Said(f) = o \o (y \o x) /\ Said(g) = o \o y
        BY <4>2, <4>4, <4>5, DeferredCases DEF Said
      <4>11. y \in Seq(Items) /\ o \in Seq(Items)
        BY <4>2, <4>4, RunSamples, SoundTypes
      <4> HIDE DEF o, y, x
      <4>12. (o \o y) \o x = o \o (y \o x)
        BY SMTT(60), <1>2, <4>11, ConcatAssociative
      <4>13. Said(f) = Said(g) \o x
        BY <4>10, <4>12
      <4> QED
        BY <4>2, <4>5, <4>8, <4>9, <4>13 DEF x
    <3> QED
      BY <3>3, <3>4
  <2>4. Ready(f) /\ f.run = e.run /\ Said(f) = Said(e) \o x /\ Youngest(f, r)
    BY <1>1, <2>1, <2>2, <2>3 DEF DeferredOK
  <2> QED
    BY <1>4, <2>4, WireConstants DEF Runs
<1>5. QED
  BY <1>3, <1>4, WireConstants DEF Runs

\* A matching run extends an open REPEAT2 by its length.
LEMMA ExtendSound ==
  ASSUME NEW e, Sound(e), DeferredOK(e), NEW r \in Runs, r.len >= 1, Extends(e, r)
  PROVE  LET f == [Push(e, LenByte(r.len)) EXCEPT !.state.nextB = ~@]
         IN  /\ Ready(f)
             /\ f.run = e.run
             /\ f.deferred = <<>>
             /\ Said(f) = Said(e) \o Repeat(r.len, r.sample)
<1> DEFINE g == Push(e, LenByte(r.len))
           q == Read(e.reader, LenByte(r.len))
           st == [e.state EXCEPT !.nextB = ~@]
           f == [g EXCEPT !.state = st]
           x == Repeat(r.len, r.sample)
<1>1. e.state.open = "repeat2" /\ e.deferred = <<>> /\ e.state.a # e.state.b
  <2>1. e.state.open = "repeat2"
    BY DEF Extends
  <2> QED
    BY <2>1 DEF DeferredOK
<1>2. r.len \in 1..MAX_REPEAT2_LEN /\ r.sample \in Samples
  BY WireConstants DEF Extends, Runs
<1>3. /\ e \in Encoders /\ e.reader \in Readers /\ e.state \in States
      /\ e.reader.open = "repeat2" /\ e.reader.canonical
      /\ r.sample = IF e.reader.nextB THEN e.reader.b ELSE e.reader.a
  BY <1>1, SoundTypes DEF Sound, Extends
<1>4. /\ q \in Readers /\ q.open = "repeat2" /\ q.a = e.reader.a /\ q.b = e.reader.b
      /\ q.nextB = ~e.reader.nextB /\ q.canonical = e.reader.canonical
      /\ q.out = e.reader.out \o x
  <2>1. /\ e.reader \in Readers /\ e.reader.open = "repeat2"
        /\ r.sample = IF e.reader.nextB THEN e.reader.b ELSE e.reader.a
    BY <1>3
  <2> DEFINE rd == e.reader
             n == r.len
             v == r.sample
  <2>2. /\ rd \in Readers /\ rd.open = "repeat2" /\ n \in 1..MAX_REPEAT2_LEN
        /\ v \in Samples /\ v = IF rd.nextB THEN rd.b ELSE rd.a
    BY <1>2, <2>1
  <2> HIDE DEF rd, n, v
  <2> DEFINE w == Read(rd, LenByte(n))
  <2>3. w \in Readers /\ w.open = "repeat2" /\ w.a = rd.a /\ w.b = rd.b
    BY <2>2, ReadsLen
  <2>4. w.nextB = ~rd.nextB
    BY <2>2, ReadsLen
  <2>5. w.canonical = rd.canonical
    BY <2>2, ReadsLen
  <2>6. w.out = rd.out \o Repeat(n, v)
    <3>1. w = [rd EXCEPT !.out = @ \o Repeat(n, IF rd.nextB THEN rd.b ELSE rd.a),
                         !.nextB = ~@]
      BY <2>2, ReadsBody
    <3>2. Repeat(n, IF rd.nextB THEN rd.b ELSE rd.a) = Repeat(n, v)
      BY <2>2
    <3>3. w.out = rd.out \o Repeat(n, IF rd.nextB THEN rd.b ELSE rd.a)
      BY <2>2, <3>1 DEF Readers
    <3> QED
      BY <3>2, <3>3
  <2> QED
    BY <2>3, <2>4, <2>5, <2>6 DEF rd, n, v
<1>5. LenByte(r.len) \in Tokens
  BY <1>2, TokenTypes
<1> HIDE DEF q
<1>6. st \in States /\ st.open = "repeat2" /\ st.a = e.state.a /\ st.b = e.state.b
      /\ st.nextB = ~e.state.nextB
  BY <1>1, <1>3 DEF States
<1> HIDE DEF st, x
<1>7. g \in Encoders /\ g.reader = q /\ g.state = e.state /\ g.run = e.run
      /\ g.deferred = <<>>
  BY <1>1, <1>3, <1>4, <1>5, PushFields DEF Same, q
<1> HIDE DEF g
<1>8. f \in Encoders /\ f.reader = q /\ f.state = st /\ f.run = e.run /\ f.deferred = <<>>
  BY <1>6, <1>7 DEF Encoders
<1>9. [Push(e, LenByte(r.len)) EXCEPT !.state.nextB = ~@] = f
  BY <1>7 DEF g, st
<1> HIDE DEF f
<1>10. f.state.nextB = f.reader.nextB
  BY <1>1, <1>4, <1>6, <1>8 DEF Sound
<1>11. f.reader.canonical
  BY <1>3, <1>4, <1>8
<1>12. Ready(f)
  BY <1>1, <1>3, <1>4, <1>6, <1>8, <1>10, <1>11 DEF Ready, DeferredOK, Sound
<1>13. Said(f) = Said(e) \o x
  <2>1. Said(e) = e.reader.out
    BY <1>1, DeferredCases, SoundTypes, ConcatEmptySeq DEF Said
  <2>2. Said(f) = f.reader.out
    BY <1>8, <1>12, DeferredCases, SoundTypes, ConcatEmptySeq DEF Said, Ready
  <2> QED
    BY <1>4, <1>8, <2>1, <2>2
<1>14. QED
  BY <1>8, <1>9, <1>12, <1>13 DEF x

\* A run in progress fits behind the deferred ones, and there is one whenever
\* runs are deferred.
RunOK(e) ==
  /\ e.run \in Runs
  /\ e.run.len > 0 => MayFollow(e, e.run)
  /\ e.run.len = 0 => e.deferred = <<>>

\* Completing the run in progress says it, after everything said before.
LEMMA CompleteRunSound ==
  ASSUME NEW e, Ready(e), RunOK(e)
  PROVE  /\ Ready(CompleteRun(e))
         /\ CompleteRun(e).run.len = 0
         /\ CompleteRun(e).run \in Runs
         /\ Said(CompleteRun(e)) = e.reader.out \o Pending(e)
         /\ Youngest(CompleteRun(e), e.run)
         /\ e.run.len > MAX_REPEAT2_LEN => CompleteRun(e).deferred = <<>>
<1> DEFINE r == e.run
           x == Repeat(r.len, r.sample)
           e0 == [e EXCEPT !.run = NoRun]
           f == CompleteRun(e)
<1>1. r \in Runs /\ x \in Seq(Items) /\ Sound(e) /\ DeferredOK(e)
  BY RunSamples DEF Ready, RunOK
<1>2. e.reader.out \o Pending(e) = Said(e) \o x
  <2> DEFINE o == e.reader.out
             d == Deferred(e.deferred)
  <2>1. o \in Seq(Items)
    BY <1>1, SoundTypes
  <2>2. d \in Seq(Items)
    BY <1>1, DeferredType
  <2>3. o \o Pending(e) = o \o (d \o x) /\ Said(e) \o x = (o \o d) \o x
    BY DEF Pending, Said
  <2> HIDE DEF o, d, x
  <2>4. (o \o d) \o x = o \o (d \o x)
    BY SMTT(60), <1>1, <2>1, <2>2, ConcatAssociative
  <2> QED
    BY <2>3, <2>4 DEF o, x
<1>3. CASE r.len = 0
  <2>1. f = e /\ e.deferred = <<>>
    BY <1>3 DEF CompleteRun, RunOK
  <2>2. x = <<>>
    BY <1>3, <1>1, RepeatType DEF Repeat
  <2>3. Said(e) \in Seq(Items)
    <3>1. Said(e) = e.reader.out
      BY <2>1, <1>1, DeferredCases, SoundTypes, ConcatEmptySeq DEF Said
    <3> QED
      BY <1>1, <3>1, SoundTypes
  <2>4. Said(e) \o x = Said(e)
    BY <2>2, <2>3, ConcatEmptySeq
  <2> HIDE DEF f, x
  <2> QED
    BY <1>1, <1>2, <1>3, <2>1, <2>4, WireConstants DEF Youngest, f
<1>4. CASE r.len # 0
  <2>1. r.len >= 1 /\ MayFollow(e, r)
    BY <1>1, <1>4 DEF RunOK, Runs
  <2>2. NoRun \in Runs /\ NoRun.len = 0
    BY WireConstants DEF NoRun, Runs
  <2>3. /\ e0 \in Encoders /\ e0.run = NoRun /\ e0.deferred = e.deferred
        /\ e0.state = e.state /\ e0.reader = e.reader
    <3>1. e \in Encoders
      BY <1>1, SoundTypes
    <3> HIDE DEF x, f, r
    <3>2. e0 \in Encoders
      BY <2>2, <3>1 DEF Encoders
    <3>3. e0.run = NoRun /\ e0.deferred = e.deferred
      BY <3>1 DEF Encoders
    <3>4. e0.state = e.state /\ e0.reader = e.reader
      BY <3>1 DEF Encoders
    <3> QED
      BY <3>2, <3>3, <3>4
  <2>4. f = IF Extends(e, r)
            THEN [Push(e0, LenByte(r.len)) EXCEPT !.state.nextB = ~@]
            ELSE Window(IF e.state.open = "repeat2" THEN GoIdle(e0) ELSE e0, r)
    <3>1. Extends(e0, r) = Extends(e, r)
      BY <2>3 DEF Extends
    <3> QED
      BY <1>4, <2>3, <3>1 DEF CompleteRun
  <2> HIDE DEF e0
  <2>5. Sound(e0) /\ DeferredOK(e0) /\ MayFollow(e0, r) /\ Said(e0) = Said(e)
    BY <1>1, <2>1, <2>3 DEF Sound, DeferredOK, FollowsBlock, MayFollow, Said
  <2>6. CASE Extends(e, r)
    <3>1. Extends(e0, r)
      BY <2>3, <2>6 DEF Extends
    <3> HIDE DEF f
    <3> DEFINE k == [Push(e0, LenByte(r.len)) EXCEPT !.state.nextB = ~@]
    <3>3. Ready(k) /\ k.run = e0.run /\ k.deferred = <<>> /\ Said(k) = Said(e0) \o x
      BY <1>1, <2>1, <2>5, <3>1, ExtendSound
    <3>4. f = k
      BY <2>4, <2>6
    <3> HIDE DEF k
    <3>2. Ready(f) /\ f.run = NoRun /\ f.deferred = <<>> /\ Said(f) = Said(e) \o x
      BY <2>3, <2>5, <3>3, <3>4
    <3> QED
      BY <1>2, <2>2, <3>2 DEF Youngest, f
  <2>7. CASE ~Extends(e, r)
    <3> DEFINE g == IF e.state.open = "repeat2" THEN GoIdle(e0) ELSE e0
    <3>1. /\ Ready(g) /\ g.state.open # "repeat2" /\ g.run = NoRun
          /\ MayFollow(g, r) /\ Said(g) = Said(e)
      <4>1. CASE e.state.open = "repeat2"
        <5> DEFINE h == GoIdle(e0)
        <5>1. /\ Sound(h) /\ h.state.open = "none" /\ Same(e0, h)
              /\ h.reader.out = e0.reader.out
          BY <2>5, GoIdleSound
        <5> HIDE DEF h
        <5>2. h.deferred = <<>> /\ h.deferred = e0.deferred /\ h.run = NoRun
          BY <2>3, <2>5, <4>1, <5>1 DEF DeferredOK, Same
        <5>3. Ready(h) /\ MayFollow(h, r)
          BY <2>5, <5>1, <5>2 DEF Ready, DeferredOK, MayFollow
        <5>4. Said(h) = Said(e)
          BY <2>5, <5>1, <5>2 DEF Said
        <5>5. g = h
          BY <4>1 DEF h
        <5> HIDE DEF g
        <5> QED
          BY <5>1, <5>2, <5>3, <5>4, <5>5
      <4>2. CASE e.state.open # "repeat2"
        <5>1. g = e0
          BY <4>2
        <5> HIDE DEF g
        <5>2. Ready(e0)
          BY <2>3, <2>5 DEF Ready
        <5> QED
          BY <2>3, <2>5, <4>2, <5>1, <5>2
      <4> QED
        BY <4>1, <4>2
    <3>2. f = Window(g, r)
      BY <2>4, <2>7
    <3> HIDE DEF f, g
    <3>3. /\ Ready(f) /\ f.run = NoRun /\ Said(f) = Said(e) \o x /\ Youngest(f, r)
          /\ r.len > MAX_REPEAT2_LEN => f.deferred = <<>>
      BY <1>1, <2>1, <3>1, <3>2, WindowSound
    <3> QED
      BY <1>2, <2>2, <3>3 DEF f
  <2> QED
    BY <2>6, <2>7
<1>5. QED
  BY <1>3, <1>4

-----------------------------------------------------------------------------
(* The public methods keep the encoder's invariant. *)

EncOK(e) ==
  /\ Ready(e)
  /\ RunOK(e)
  /\ e.run.len < MAX_RUN

Meaning(e) == e.reader.out \o Pending(e)

\* Nothing open, nothing pending.
Quiet(e) ==
  /\ e.state.open = "none"
  /\ e.deferred = <<>>
  /\ e.run.len = 0

\* An encoder with nothing pending means what it has said.
LEMMA QuietMeaning ==
  ASSUME NEW e, Sound(e), e.deferred = <<>>, e.run.len = 0
  PROVE  /\ Pending(e) = <<>>
         /\ Meaning(e) = e.reader.out
         /\ Said(e) = e.reader.out
<1>1. \A x : Repeat(0, x) = <<>>
  BY DEF Repeat
<1>2. <<>> \o <<>> = <<>> /\ Deferred(<<>>) = <<>>
  BY EmptySeq, ConcatEmptySeq, DeferredCases
<1>3. Pending(e) = <<>>
  BY <1>1, <1>2 DEF Pending
<1>4. e.reader.out \o <<>> = e.reader.out
  BY SoundTypes, ConcatEmptySeq
<1>5. QED
  BY <1>2, <1>3, <1>4 DEF Meaning, Said

\* Meaning is what was said followed by the run in progress.
LEMMA MeaningSaid ==
  ASSUME NEW e, Ready(e), e.run \in Runs
  PROVE  /\ Meaning(e) = Said(e) \o Repeat(e.run.len, e.run.sample)
         /\ Said(e) \in Seq(Items)
<1> DEFINE o == e.reader.out
           d == Deferred(e.deferred)
           x == Repeat(e.run.len, e.run.sample)
<1>1. Sound(e) /\ DeferredOK(e)
  BY DEF Ready
<1>2. o \in Seq(Items) /\ x \in Seq(Items)
  BY <1>1, SoundTypes, RunSamples
<1>3. d \in Seq(Items)
  BY <1>1, DeferredType
<1>4. Meaning(e) = o \o (d \o x) /\ Said(e) = o \o d
  BY DEF Meaning, Pending, Said
<1> HIDE DEF o, d, x
<1>5. (o \o d) \o x = o \o (d \o x) /\ o \o d \in Seq(Items)
  BY SMTT(60), <1>2, <1>3, ConcatAssociative, ConcatProperties
<1>6. QED
  BY <1>4, <1>5 DEF x

\* Feeding a sample appends it to the encoder's meaning.
LEMMA FeedSound ==
  ASSUME NEW e, EncOK(e), NEW x \in Samples
  PROVE  /\ EncOK(Feed(e, x))
         /\ Meaning(Feed(e, x)) = Append(Meaning(e), x)
<1> DEFINE f == Feed(e, x)
           r == e.run
<1>1. Ready(e) /\ RunOK(e) /\ r \in Runs /\ Sound(e) /\ DeferredOK(e)
      /\ r.len \in Nat /\ r.len < MAX_RUN /\ r.sample \in Samples
  BY WireConstants DEF EncOK, RunOK, Runs, Ready
<1>2. x \in Items
  BY DEF Items
<1>3. \A s \in Seq(Items) : Append(s, x) = s \o <<x>> /\ <<x>> \in Seq(Items)
  BY <1>2, AppendIsConcat
<1>4. CASE r.len > 0 /\ r.sample = x
  <2> DEFINE r1 == [sample |-> x, len |-> r.len + 1]
             e1 == [e EXCEPT !.run = r1]
  <2>1. r1 \in Runs /\ r1.len > 0 /\ r1.sample = x
    BY <1>1, WireConstants DEF Runs
  <2>2. [e EXCEPT !.run.len = @ + 1] = e1
    <3>1. [r EXCEPT !.len = @ + 1] = r1
      BY <1>1, <1>4 DEF Runs
    <3> QED
      BY <1>1, <3>1, SoundTypes DEF Encoders
  <2>3. /\ e1 \in Encoders /\ e1.run = r1 /\ e1.deferred = e.deferred
        /\ e1.state = e.state /\ e1.reader = e.reader
    BY <1>1, <2>1, SoundTypes DEF Encoders
  <2>4. f = IF e1.run.len = MAX_RUN THEN CompleteRun(e1) ELSE e1
    BY <1>4, <2>2 DEF Feed
  <2> HIDE DEF e1
  <2>5. Ready(e1) /\ Said(e1) = Said(e)
    BY <1>1, <2>3 DEF Ready, Sound, DeferredOK, FollowsBlock, Said
  <2>6. RunOK(e1)
    BY <1>1, <1>4, <2>1, <2>3 DEF RunOK, MayFollow
  <2>7. Meaning(e1) = Append(Meaning(e), x)
    <3> DEFINE s == Repeat(r.len, x)
               w == Said(e)
    <3>1. /\ Meaning(e1) = w \o Repeat(r1.len, x) /\ Meaning(e) = w \o s
          /\ w \in Seq(Items)
      BY <1>1, <1>4, <2>1, <2>3, <2>5, MeaningSaid
    <3>2. s \in Seq(Items) /\ Repeat(r1.len, x) = s \o <<x>>
      <4>1. s \in Seq(Items) /\ Len(s) = r.len /\ <<x>> \in Seq(Items)
        BY <1>1, <1>2, RepeatType
      <4>2. Repeat(r1.len, x) \in Seq(Items) /\ Len(Repeat(r1.len, x)) = r.len + 1
        <5>1. r1.len = r.len + 1 /\ r.len + 1 \in Nat
          BY <1>1
        <5>2. /\ Repeat(r.len + 1, x) \in Seq(Items)
              /\ Len(Repeat(r.len + 1, x)) = r.len + 1
          BY <1>2, <5>1, RepeatType
        <5> QED
          BY <5>1, <5>2
      <4>3. s \o <<x>> \in Seq(Items) /\ Len(s \o <<x>>) = r.len + 1
        BY <1>1, <4>1, ConcatProperties
      <4>4. \A i \in 1..(r.len + 1) : (s \o <<x>>)[i] = x /\ Repeat(r1.len, x)[i] = x
        BY <1>1, <4>1, ConcatProperties DEF Repeat
      <4> HIDE DEF s
      <4> QED
        BY <4>1, <4>2, <4>3, <4>4, SeqEqual
    <3> HIDE DEF s, w
    <3>3. (w \o s) \o <<x>> = w \o (s \o <<x>>) /\ w \o s \in Seq(Items)
      BY SMTT(60), <1>3, <3>1, <3>2, ConcatAssociative, ConcatProperties
    <3> QED
      BY <1>3, <3>1, <3>2, <3>3
  <2>8. CASE e1.run.len = MAX_RUN
    <3> HIDE DEF f
    <3>1. f = CompleteRun(e1)
      BY <2>4, <2>8
    <3>2. e1.run.len > MAX_REPEAT2_LEN
      BY <2>8, WireConstants
    <3>3. /\ Ready(f) /\ f.run.len = 0 /\ f.run \in Runs /\ f.deferred = <<>>
          /\ Said(f) = Meaning(e1)
      BY <2>5, <2>6, <3>1, <3>2, CompleteRunSound DEF Meaning
    <3>4. Meaning(f) = Said(f)
      BY <3>3, QuietMeaning DEF Ready
    <3>5. EncOK(f)
      BY <3>3, WireConstants DEF EncOK, RunOK
    <3> QED
      BY <2>7, <3>3, <3>4, <3>5 DEF f
  <2>9. CASE e1.run.len # MAX_RUN
    <3> HIDE DEF f
    <3>1. f = e1
      BY <2>4, <2>9
    <3>2. EncOK(e1)
      BY <1>1, <2>1, <2>3, <2>5, <2>6, <2>9, WireConstants DEF EncOK, Runs
    <3> QED
      BY <2>7, <3>1, <3>2 DEF f
  <2> QED
    BY <2>8, <2>9
<1>5. CASE ~(r.len > 0 /\ r.sample = x)
  <2> DEFINE c == CompleteRun(e)
             r1 == [sample |-> x, len |-> 1]
  <2>1. /\ Ready(c) /\ Said(c) = Meaning(e) /\ Youngest(c, r)
    BY <1>1, CompleteRunSound DEF Meaning
  <2>2. r.len = 0 => c.deferred = <<>>
    BY <1>1 DEF CompleteRun, RunOK
  <2> HIDE DEF c
  <2>3. r1 \in Runs /\ r1.len = 1 /\ r1.sample = x /\ r1.len < MAX_RUN
    BY WireConstants DEF Runs
  <2>4. f = [c EXCEPT !.run = r1]
    BY <1>5 DEF Feed, c
  <2>5. /\ f \in Encoders /\ f.run = r1 /\ f.deferred = c.deferred
        /\ f.state = c.state /\ f.reader = c.reader
    BY <2>1, <2>3, <2>4, SoundTypes DEF Encoders, Ready
  <2> HIDE DEF f, r1
  <2>6. Ready(f) /\ Said(f) = Said(c)
    BY ZenonT(60), <2>1, <2>5 DEF Ready, Sound, DeferredOK, FollowsBlock, Said
  <2>7. MayFollow(f, f.run)
    <3>1. r.len # 0 => x # r.sample
      BY <1>1, <1>5
    <3>2. ASSUME NEW a \in Short, f.deferred = <<a>>
          PROVE  a.sample # x
      <4>1. <<a>> # <<>> /\ (\A p, q : <<p, q>> # <<a>>) /\ (\A p : <<p>> = <<a>> => p = a)
        OBVIOUS
      <4> QED
        BY <2>1, <2>2, <2>5, <3>1, <3>2, <4>1 DEF Youngest
    <3>3. ASSUME NEW a \in Short, NEW b \in Short, f.deferred = <<a, b>>
          PROVE  b.sample # x
      <4>1. /\ <<a, b>> # <<>> /\ (\A p : <<p>> # <<a, b>>)
            /\ \A p, q : <<p, q>> = <<a, b>> => q = b
        OBVIOUS
      <4> QED
        BY <2>1, <2>2, <2>5, <3>1, <3>3, <4>1 DEF Youngest
    <3> QED
      BY <2>3, <2>5, <3>2, <3>3 DEF MayFollow
  <2>8. EncOK(f)
    BY <2>3, <2>5, <2>6, <2>7 DEF EncOK, RunOK
  <2>9. Repeat(1, x) = <<x>>
    BY DEF Repeat
  <2>10. Meaning(f) = Said(c) \o <<x>> /\ Said(c) \in Seq(Items)
    BY <2>3, <2>5, <2>6, <2>9, MeaningSaid
  <2> QED
    BY <1>3, <2>1, <2>8, <2>10 DEF f
<1>6. QED
  BY <1>4, <1>5

\* Flushing says everything and leaves nothing pending or open.
LEMMA FlushSound ==
  ASSUME NEW e, EncOK(e)
  PROVE  /\ EncOK(Flush(e)) /\ Quiet(Flush(e))
         /\ Flush(e).reader.out = Meaning(e)
         /\ Meaning(Flush(e)) = Meaning(e)
<1> DEFINE c == CompleteRun(e)
           d == DrainDeferred(c)
           f == GoIdle(d)
<1>1. Ready(c) /\ c.run.len = 0 /\ c.run \in Runs /\ Said(c) = Meaning(e)
  BY CompleteRunSound DEF EncOK, Meaning
<1> HIDE DEF c
<1>2. /\ Sound(d) /\ d.run = c.run /\ d.deferred = <<>> /\ d.reader.out = Meaning(e)
  BY <1>1, DrainDeferredSound DEF Ready
<1> HIDE DEF d
<1>3. /\ Sound(f) /\ f.state.open = "none" /\ f.run = c.run /\ f.deferred = <<>>
      /\ f.reader.out = Meaning(e)
  BY <1>2, GoIdleSound DEF Same
<1>4. Flush(e) = f
  BY DEF Flush, c, d
<1> HIDE DEF f
<1>5. Quiet(f)
  BY <1>1, <1>3 DEF Quiet
<1>6. EncOK(f)
  BY <1>1, <1>3, WireConstants DEF EncOK, RunOK, Ready, DeferredOK
<1>7. Meaning(f) = f.reader.out
  BY <1>1, <1>3, QuietMeaning
<1>8. QED
  BY <1>3, <1>4, <1>5, <1>6, <1>7

\* What an encoder means depends on its reader and its pending runs alone.
LEMMA SameMeaning ==
  ASSUME NEW e, NEW f, Same(e, f), f.reader.out = e.reader.out
  PROVE  Meaning(f) = Meaning(e)
BY DEF Same, Meaning, Pending

\* With no frame open, the pending runs of a sound encoder stay resolvable.
LEMMA IdleOK ==
  ASSUME NEW e, EncOK(e), NEW f, Sound(f), f.state.open = "none", Same(e, f)
  PROVE  EncOK(f)
<1>1. DeferredOK(f)
  BY DEF EncOK, Ready, DeferredOK, FollowsBlock, Same
<1>2. RunOK(f) /\ f.run.len < MAX_RUN
  BY DEF EncOK, RunOK, MayFollow, Same
<1>3. QED
  BY <1>1, <1>2 DEF EncOK, Ready

\* Side-band frames close the open frame and leave pending runs alone.
LEMMA SideSound ==
  ASSUME NEW e, EncOK(e), NEW k \in SideBand
  PROVE  /\ EncOK(Side(e, k))
         /\ Meaning(Side(e, k)) = Meaning(e)
         /\ Quiet(e) => Quiet(Side(e, k))
<1> DEFINE g == GoIdle(e)
           t == SideFrame(k)
           f == Push(g, t)
<1>1. /\ Sound(g) /\ g.state.open = "none" /\ Same(e, g)
      /\ g.reader.out = e.reader.out
  BY GoIdleSound DEF EncOK, Ready
<1> HIDE DEF g
<1>2. g \in Encoders /\ g.reader \in Readers /\ g.state \in States
      /\ g.reader.open = "none"
  BY <1>1, SoundTypes DEF Sound
<1>3. t \in Tokens
  BY TokenTypes
<1>4. Read(g.reader, t) = g.reader
  BY <1>2, ReadsWhole
<1>5. f \in Encoders /\ Same(g, f) /\ f.state = g.state /\ f.reader = g.reader
  BY <1>2, <1>3, <1>4, PushFields
<1>6. Side(e, k) = f
  BY DEF Side, g
<1> HIDE DEF f
<1>7. Sound(f) /\ f.state.open = "none" /\ Same(e, f) /\ f.reader.out = e.reader.out
  BY <1>1, <1>5 DEF Sound, Same
<1>8. EncOK(f) /\ Meaning(f) = Meaning(e)
  BY <1>7, IdleOK, SameMeaning
<1>9. Quiet(e) => Quiet(f)
  BY <1>7 DEF Quiet, Same
<1>10. QED
  BY <1>6, <1>8, <1>9

\* An OVERRUN marks the point where everything fed so far ends.
LEMMA OverrunSound ==
  ASSUME NEW e, EncOK(e)
  PROVE  /\ EncOK(Overrun(e))
         /\ Meaning(Overrun(e)) = Append(Meaning(e), Gap)
<1> DEFINE g == Flush(e)
           f == Push(g, OverrunFrame)
           q == [g.reader EXCEPT !.out = Append(@, Gap)]
<1>1. EncOK(g) /\ Quiet(g) /\ g.reader.out = Meaning(e)
  BY FlushSound
<1> HIDE DEF g
<1>2. /\ Sound(g) /\ g \in Encoders /\ g.reader \in Readers /\ g.state \in States
      /\ g.reader.out \in Seq(Items) /\ g.reader.open = "none"
  BY <1>1, SoundTypes DEF EncOK, Ready, Quiet, Sound
<1>3. OverrunFrame \in Tokens
  BY TokenTypes
<1>4. Read(g.reader, OverrunFrame) = q
  BY <1>2, ReadsWhole
<1>5. Append(g.reader.out, Gap) \in Seq(Items)
  BY <1>2 DEF Items
<1>6. /\ q \in Readers /\ q.open = "none" /\ q.out = Append(g.reader.out, Gap)
      /\ q.canonical = g.reader.canonical
  BY <1>2, <1>5 DEF Readers
<1> HIDE DEF q
<1>7. f \in Encoders /\ Same(g, f) /\ f.state = g.state /\ f.reader = q
  BY <1>2, <1>3, <1>4, <1>6, PushFields
<1>8. Overrun(e) = f
  BY DEF Overrun, g
<1> HIDE DEF f
<1>9. Sound(f) /\ f.state.open = "none"
  BY <1>1, <1>2, <1>6, <1>7 DEF Sound, Quiet
<1>10. EncOK(f)
  BY <1>1, <1>7, <1>9, IdleOK
<1>11. f.deferred = <<>> /\ f.run.len = 0
  BY <1>1, <1>7 DEF Quiet, Same
<1>12. Meaning(f) = f.reader.out
  BY <1>9, <1>11, QuietMeaning
<1>13. QED
  BY <1>1, <1>6, <1>7, <1>8, <1>10, <1>12

\* Resetting an encoder with nothing pending changes nothing that matters.
LEMMA ResetSound ==
  ASSUME NEW e, EncOK(e), Quiet(e)
  PROVE  EncOK(Reset(e)) /\ Quiet(Reset(e)) /\ Meaning(Reset(e)) = Meaning(e)
<1> DEFINE f == Reset(e)
<1>1. /\ Idle \in States /\ Idle.open = "none" /\ NoRun \in Runs /\ NoRun.len = 0
      /\ <<>> \in Seq(Runs)
  BY WireConstants, EmptySeq DEF Idle, States, NoRun, Runs
<1>2. e \in Encoders /\ Sound(e)
  BY SoundTypes DEF EncOK, Ready
<1>3. /\ f \in Encoders /\ f.run = NoRun /\ f.deferred = <<>> /\ f.state = Idle
      /\ f.reader = e.reader
  BY <1>1, <1>2 DEF Reset, Encoders
<1> HIDE DEF f
<1>4. Sound(f) /\ Quiet(f)
  BY <1>1, <1>2, <1>3 DEF Sound, Quiet
<1>5. EncOK(f)
  BY <1>1, <1>3, <1>4, WireConstants DEF EncOK, RunOK, Ready, DeferredOK
<1>6. Meaning(f) = f.reader.out /\ Meaning(e) = e.reader.out
  BY <1>2, <1>4, QuietMeaning DEF Quiet
<1>7. QED
  BY <1>3, <1>4, <1>5, <1>6 DEF f

\* What the sink holds does not matter to what the encoder does next.
LEMMA CalledOK ==
  ASSUME EncOK(enc)
  PROVE  /\ EncOK(Called) /\ Meaning(Called) = Meaning(enc)
         /\ Quiet(enc) => Quiet(Called)
<1> DEFINE f == Called
<1>1. <<>> \in Seq(Tokens) /\ enc \in Encoders
  BY EmptySeq, SoundTypes DEF EncOK, Ready
<1>2. /\ f \in Encoders /\ f.run = enc.run /\ f.deferred = enc.deferred
      /\ f.state = enc.state /\ f.reader = enc.reader
  BY <1>1 DEF Called, Encoders
<1> HIDE DEF f
<1>3. EncOK(f)
  BY <1>2 DEF EncOK, Ready, RunOK, MayFollow, Sound, DeferredOK, FollowsBlock
<1>4. Meaning(f) = Meaning(enc) /\ (Quiet(enc) => Quiet(f))
  BY <1>2, SameMeaning DEF Same, Quiet
<1>5. QED
  BY <1>3, <1>4 DEF f

-----------------------------------------------------------------------------
(* The inductive invariant and what follows from it. *)

IInv ==
  /\ EncOK(enc)
  /\ Meaning(enc) = fed
  /\ fed \in Seq(Items)
  /\ streaming \in BOOLEAN
  /\ ~streaming => Quiet(enc)

LEMMA InitIInv == Init => IInv
<1> SUFFICES ASSUME Init
             PROVE  IInv
  OBVIOUS
<1>1. /\ enc = NewEncoder /\ fed = <<>> /\ streaming = FALSE
  BY DEF Init
<1>2. /\ NoRun \in Runs /\ NoRun.len = 0 /\ NoRun.len < MAX_RUN
      /\ Idle \in States /\ Idle.open = "none"
  BY WireConstants DEF NoRun, Runs, Idle, States
<1>3. <<>> \in Seq(Runs) /\ <<>> \in Seq(Tokens) /\ <<>> \in Seq(Items) /\ <<>> \in Seq(Samples)
  BY EmptySeq
<1>4. NewReader \in Readers
  BY <1>3, WireConstants DEF NewReader, Readers
<1>5. NewReader.open = "none" /\ NewReader.canonical /\ NewReader.out = <<>>
  BY DEF NewReader
<1>6. /\ enc \in Encoders /\ enc.run = NoRun /\ enc.deferred = <<>>
      /\ enc.state = Idle /\ enc.reader = NewReader
  BY <1>1, <1>2, <1>3, <1>4 DEF NewEncoder, Encoders
<1>7. Sound(enc) /\ Quiet(enc)
  BY <1>2, <1>5, <1>6 DEF Sound, Quiet
<1>8. EncOK(enc)
  BY <1>2, <1>6, <1>7 DEF EncOK, RunOK, Ready, DeferredOK
<1>9. Meaning(enc) = <<>>
  BY <1>2, <1>5, <1>6, <1>7, QuietMeaning
<1>10. QED
  BY <1>1, <1>3, <1>7, <1>8, <1>9 DEF IInv

LEMMA NextIInv == IInv /\ [Next]_vars => IInv'
<1> SUFFICES ASSUME IInv, [Next]_vars
             PROVE  IInv'
  OBVIOUS
<1> DEFINE c == Called
<1>1. EncOK(c) /\ Meaning(c) = fed /\ fed \in Seq(Items)
  BY CalledOK DEF IInv
<1>2. ~streaming => Quiet(c)
  BY CalledOK DEF IInv
<1>3. ASSUME NEW e, enc' = e, EncOK(e), Meaning(e) = fed', fed' \in Seq(Items),
             streaming' \in BOOLEAN, ~streaming' => Quiet(e)
      PROVE  IInv'
  <2>1. EncOK(enc)'
    BY SMTT(60), <1>3 DEF EncOK, Ready, RunOK, MayFollow, Sound, DeferredOK, FollowsBlock
  <2>2. Meaning(enc)' = fed'
    BY <1>3 DEF Meaning, Pending
  <2>3. (~streaming => Quiet(enc))'
    BY <1>3 DEF Quiet
  <2> QED
    BY <1>3, <2>1, <2>2, <2>3 DEF IInv
<1> HIDE DEF c
<1>4. ASSUME NEW x \in Samples, FeedSample(x)
      PROVE  IInv'
  <2>1. enc' = Feed(c, x) /\ fed' = Append(fed, x) /\ streaming' = TRUE
    BY <1>4 DEF FeedSample, c, IInv
  <2>2. EncOK(Feed(c, x)) /\ Meaning(Feed(c, x)) = fed'
    BY <1>1, <2>1, FeedSound
  <2>3. fed' \in Seq(Items)
    BY <1>1, <2>1 DEF Items
  <2> QED
    BY <1>3, <2>1, <2>2, <2>3
<1>5. CASE MarkOverrun
  <2>1. enc' = Overrun(c) /\ fed' = Append(fed, Gap) /\ streaming' = TRUE
    BY <1>5 DEF MarkOverrun, c, IInv
  <2>2. EncOK(Overrun(c)) /\ Meaning(Overrun(c)) = fed'
    BY <1>1, <2>1, OverrunSound
  <2>3. fed' \in Seq(Items)
    BY <1>1, <2>1 DEF Items
  <2> QED
    BY <1>3, <2>1, <2>2, <2>3
<1>6. CASE IdleFlush
  <2>1. enc' = Flush(c) /\ fed' = fed /\ streaming' = TRUE
    BY <1>6 DEF IdleFlush, c, IInv
  <2>2. EncOK(Flush(c)) /\ Meaning(Flush(c)) = fed'
    BY <1>1, <2>1, FlushSound
  <2> QED
    BY <1>1, <1>3, <2>1, <2>2
<1>7. ASSUME NEW k \in {"tick", "log"}, Telemetry(k)
      PROVE  IInv'
  <2>1. enc' = Side(c, k) /\ fed' = fed /\ streaming' = streaming /\ streaming \in BOOLEAN
    BY <1>7 DEF Telemetry, c, IInv
  <2>2. k \in SideBand
    BY DEF SideBand
  <2>3. /\ EncOK(Side(c, k)) /\ Meaning(Side(c, k)) = fed'
        /\ Quiet(c) => Quiet(Side(c, k))
    BY <1>1, <2>1, <2>2, SideSound
  <2> QED
    BY <1>1, <1>2, <1>3, <2>1, <2>3
<1>8. CASE Start
  <2> DEFINE g == IF streaming THEN c ELSE Reset(c)
  <2>1. enc' = Side(g, "started") /\ fed' = fed /\ streaming' = TRUE
    BY <1>8 DEF Start, c
  <2>2. EncOK(g) /\ Meaning(g) = fed
    BY <1>1, <1>2, ResetSound
  <2> HIDE DEF g
  <2>3. EncOK(Side(g, "started")) /\ Meaning(Side(g, "started")) = fed'
    BY <2>1, <2>2, SideSound DEF SideBand
  <2> QED
    BY <1>1, <1>3, <2>1, <2>3
<1>9. CASE Stop
  <2> DEFINE g == IF streaming THEN Flush(c) ELSE c
  <2>1. enc' = Side(g, "stopped") /\ fed' = fed /\ streaming' = FALSE
    BY <1>9 DEF Stop, c
  <2>2. EncOK(g) /\ Meaning(g) = fed /\ Quiet(g)
    BY <1>1, <1>2, FlushSound
  <2> HIDE DEF g
  <2>3. /\ EncOK(Side(g, "stopped")) /\ Meaning(Side(g, "stopped")) = fed'
        /\ Quiet(Side(g, "stopped"))
    BY <2>1, <2>2, SideSound DEF SideBand
  <2> QED
    BY <1>1, <1>3, <2>1, <2>3
<1>10. CASE UNCHANGED vars
  <2>1. enc' = enc /\ fed' = fed /\ streaming' = streaming
    BY <1>10 DEF vars
  <2> QED
    BY <1>3, <2>1 DEF IInv
<1>11. QED
  BY <1>4, <1>5, <1>6, <1>7, <1>8, <1>9, <1>10 DEF Next

\* The inductive invariant holds in every reachable state.
THEOREM Inductive == Spec => []IInv
<1>1. QED
  BY InitIInv, NextIInv, PTL DEF Spec

LEMMA IInvTypeOK == IInv => TypeOK
<1> SUFFICES ASSUME IInv
             PROVE  TypeOK
  OBVIOUS
<1>1. enc \in Encoders /\ DeferredOK(enc)
  BY SoundTypes DEF IInv, EncOK, Ready
<1>2. ASSUME NEW a \in Short, enc.deferred = <<a>>
      PROVE  /\ Len(enc.deferred) <= 2
             /\ \A i \in DOMAIN enc.deferred : enc.deferred[i].len \in 1..MAX_REPEAT2_LEN
  BY <1>2 DEF Short
<1>3. ASSUME NEW a \in Short, NEW b \in Short, enc.deferred = <<a, b>>
      PROVE  /\ Len(enc.deferred) <= 2
             /\ \A i \in DOMAIN enc.deferred : enc.deferred[i].len \in 1..MAX_REPEAT2_LEN
  BY <1>3 DEF Short
<1>4. ASSUME enc.deferred = <<>>
      PROVE  /\ Len(enc.deferred) <= 2
             /\ \A i \in DOMAIN enc.deferred : enc.deferred[i].len \in 1..MAX_REPEAT2_LEN
  BY <1>4
<1>5. /\ Len(enc.deferred) <= 2
      /\ \A i \in DOMAIN enc.deferred : enc.deferred[i].len \in 1..MAX_REPEAT2_LEN
  BY <1>1, <1>2, <1>3, <1>4 DEF DeferredOK
<1>6. QED
  BY <1>1, <1>5 DEF TypeOK, IInv

\* The encoder's counters and buffers keep their ranges: no run outgrows u16,
\* no deferred run outgrows its length byte, and at most two are deferred
\* (encoder.rs 92-108, 187-204).
THEOREM TypeCorrect == Spec => []TypeOK
<1>1. QED
  BY Inductive, IInvTypeOK, PTL

\* What is on the wire and what the encoder holds back are together exactly
\* the samples fed and the gaps marked, in order (encoder.rs 122-292, 333-347).
THEOREM LosslessAlways == Spec => []Lossless
<1>1. IInv => Lossless
  BY DEF IInv, Meaning, Lossless
<1>2. QED
  BY <1>1, Inductive, PTL

\* No reader of the stream ever meets a field its open frame cannot hold: no
\* length wraps to a terminator, no tag lands inside a frame (encoder.rs 253-300).
THEOREM NeverDesyncsAlways == Spec => []NeverDesyncs
<1>1. IInv => NeverDesyncs
  BY DEF IInv, EncOK, Ready, Sound, Encoders, States, NeverDesyncs
<1>2. QED
  BY <1>1, Inductive, PTL

\* Every frame keeps wire_protocol.md's rules for it (encoder.rs 149-269).
THEOREM CanonicalAlways == Spec => []Canonical
<1>1. IInv => Canonical
  BY DEF IInv, EncOK, Ready, Sound, Canonical
<1>2. QED
  BY <1>1, Inductive, PTL

\* After the STOPPED ack nothing is held back, so the reset of the next START
\* forgets no sample (encoder.rs 110-120, the firmware's command loop).
THEOREM StoppedIsFlushedAlways == Spec => []StoppedIsFlushed
<1>1. IInv => StoppedIsFlushed
  <2> SUFFICES ASSUME IInv, ~streaming
               PROVE  Pending(enc) = <<>> /\ enc.reader.open = "none"
    BY DEF StoppedIsFlushed
  <2>1. Quiet(enc) /\ Sound(enc)
    BY DEF IInv, EncOK, Ready
  <2> QED
    BY <2>1, QuietMeaning DEF Quiet, Sound
<1>2. QED
  BY <1>1, Inductive, PTL

-----------------------------------------------------------------------------
(* Induction over the positions of a sequence, from the least number.       *)

\* A set of numbers that is not empty has a least one.
LEMMA LeastNumber ==
  ASSUME NEW T \in SUBSET Nat, T # {}
  PROVE  \E m \in T : \A k \in T : m <= k
<1>1. PICK m \in T : \A k \in T : ~(<<k, m>> \in OpToRel(<, Nat))
  BY NatLessThanWellFounded, WFMin
<1>2. ASSUME NEW k \in T PROVE m <= k
  <2>1. m \in Nat /\ k \in Nat
    OBVIOUS
  <2>2. ~(k < m)
    <3>1. k < m => <<k, m>> \in OpToRel(<, Nat)
      BY <2>1, Zenon DEF OpToRel
    <3>. QED BY <1>1, <3>1
  <2>. QED BY <2>1, <2>2
<1>. QED BY <1>2

\* What holds at m and is handed on from each number to the next holds up to n.
LEMMA FromTo ==
  ASSUME NEW m \in Nat, NEW n \in Nat, NEW P, m \in P,
         \A i \in m..(n - 1) : i \in P => i + 1 \in P
  PROVE  \A i \in m..n : i \in P
<1> DEFINE Bad == {i \in m..n : i \notin P}
<1> SUFFICES ASSUME Bad # {} PROVE FALSE
  OBVIOUS
<1>1. Bad \in SUBSET Nat
  OBVIOUS
<1>2. PICK b \in Bad : \A y \in Bad : b <= y
  BY <1>1, LeastNumber
<1>3. b \in m..n /\ b \notin P /\ b # m
  BY <1>2
<1>4. b - 1 \in m..(n - 1) /\ b - 1 \in m..n
  BY <1>3
<1>5. b - 1 \in P
  BY <1>2, <1>4
<1>6. (b - 1) + 1 = b
  BY <1>3
<1>. QED BY <1>3, <1>4, <1>5, <1>6

\* A concatenation, piece by piece.
LEMMA Flatten ==
  ASSUME NEW A, NEW ss \in Seq(Seq(A))
  PROVE  \E f \in [0..Len(ss) -> Seq(A)] :
           /\ f[0] = <<>> /\ f[Len(ss)] = FlattenSeq(ss)
           /\ \A i \in 1..Len(ss) : f[i] = f[i - 1] \o ss[i]
<1> DEFINE n == Len(ss)
           Flat(m, g) == g = [i \in 1..m |-> IF i = 1 THEN ss[i] ELSE g[i - 1] \o ss[i]]
           Good(m) == \E g \in [1..m -> Seq(A)] : Flat(m, g)
<1>1. n \in Nat /\ \A i \in 1..n : ss[i] \in Seq(A)
  OBVIOUS
<1>2. CASE n = 0
  <2>1. FlattenSeq(ss) = <<>>
    BY <1>2 DEF FlattenSeq
  <2> DEFINE f == [i \in 0..n |-> <<>>]
  <2>2. f \in [0..n -> Seq(A)] /\ f[0] = <<>> /\ f[n] = <<>> /\ \A i \in 1..n : FALSE
    BY <1>2
  <2> HIDE DEF f
  <2>. QED BY <2>1, <2>2
<1>3. CASE n > 0
  <2>1. Good(1)
    <3>1. [i \in 1..1 |-> ss[i]] \in [1..1 -> Seq(A)] /\ Flat(1, [i \in 1..1 |-> ss[i]])
      BY <1>1, <1>3
    <3>. QED BY <3>1
  <2>2. ASSUME NEW m \in 1..(n - 1), Good(m) PROVE Good(m + 1)
    <3>1. PICK g \in [1..m -> Seq(A)] : Flat(m, g)
      BY <2>2
    <3> DEFINE h == [i \in 1..(m + 1) |-> IF i <= m THEN g[i] ELSE g[m] \o ss[m + 1]]
    <3>9. \A i \in 1..m : g[i] = IF i = 1 THEN ss[i] ELSE g[i - 1] \o ss[i]
      BY <3>1
    <3>2. m \in Nat /\ m >= 1 /\ m \in 1..m /\ m + 1 \in 1..n
      BY <1>1, <2>2
    <3>3. h \in [1..(m + 1) -> Seq(A)]
      <4>1. g[m] \o ss[m + 1] \in Seq(A)
        BY <1>1, <3>2
      <4>. QED BY <3>2, <4>1
    <3>4. \A i \in 1..(m + 1) : h[i] = IF i = 1 THEN ss[i] ELSE h[i - 1] \o ss[i]
      <4> SUFFICES ASSUME NEW i \in 1..(m + 1)
                   PROVE  h[i] = IF i = 1 THEN ss[i] ELSE h[i - 1] \o ss[i]
        OBVIOUS
      <4>1. CASE i <= m
        <5>0. i \in 1..m
          BY <3>2, <4>1
        <5>1. g[i] = IF i = 1 THEN ss[i] ELSE g[i - 1] \o ss[i]
          BY <3>9, <5>0
        <5>2. i # 1 => i - 1 \in 1..(m + 1) /\ i - 1 <= m
          BY <3>2, <4>1
        <5>. QED BY <4>1, <5>1, <5>2
      <4>2. CASE ~(i <= m)
        <5>1. i = m + 1 /\ i # 1 /\ i - 1 = m
          BY <3>2, <4>2
        <5>2. h[i] = g[m] \o ss[m + 1] /\ h[i - 1] = g[m]
          BY <3>2, <5>1
        <5>. QED BY <5>1, <5>2
      <4>. QED BY <4>1, <4>2
    <3>5. Flat(m + 1, h)
      BY <3>3, <3>4
    <3>. QED BY <3>3, <3>5
  <2> HIDE DEF Good
  <2>3. Good(n)
    <3> DEFINE P == {m \in Nat : Good(m)}
    <3>1. 1 \in P /\ \A i \in 1..(n - 1) : i \in P => i + 1 \in P
      BY <1>1, <2>1, <2>2
    <3> HIDE DEF P
    <3>2. \A i \in 1..n : i \in P
      BY <1>1, <3>1, FromTo
    <3>3. n \in 1..n
      BY <1>1, <1>3
    <3>. QED BY <3>2, <3>3 DEF P
  <2> DEFINE flatten == CHOOSE g : Flat(n, g)
  <2>4. Flat(n, flatten) /\ \E g \in [1..n -> Seq(A)] : Flat(n, g)
    BY <2>3 DEF Good
  <2>5. FlattenSeq(ss) = flatten[n]
    BY <1>3 DEF FlattenSeq
  <2> HIDE DEF flatten
  <2>6. \A i \in 1..n : flatten[i] = IF i = 1 THEN ss[i] ELSE flatten[i - 1] \o ss[i]
    BY <2>4
  <2>7. \A i \in 1..n : flatten[i] \in Seq(A)
    <3> DEFINE P == {i \in Nat : flatten[i] \in Seq(A)}
    <3>1. 1 \in P
      BY <1>1, <1>3, <2>6
    <3>2. ASSUME NEW i \in 1..(n - 1), i \in P PROVE i + 1 \in P
      <4>1. i + 1 \in 1..n /\ i + 1 # 1 /\ (i + 1) - 1 = i
        BY <1>1, <3>2
      <4>2. flatten[i + 1] = flatten[i] \o ss[i + 1]
        BY <2>6, <4>1
      <4>3. flatten[i + 1] \in Seq(A)
        BY <1>1, <3>2, <4>1, <4>2
      <4>. QED BY <4>1, <4>3
    <3> HIDE DEF P
    <3>3. \A i \in 1..n : i \in P
      BY <1>1, <3>1, <3>2, FromTo
    <3>. QED BY <3>3 DEF P
  <2> DEFINE f == [i \in 0..n |-> IF i = 0 THEN <<>> ELSE flatten[i]]
  <2>8. f \in [0..n -> Seq(A)] /\ f[0] = <<>> /\ f[n] = FlattenSeq(ss)
    BY <1>1, <1>3, <2>5, <2>7
  <2>9. ASSUME NEW i \in 1..n PROVE f[i] = f[i - 1] \o ss[i]
    <3>1. CASE i = 1
      <4>1. 1 \in 1..n /\ 1 \in 0..n /\ 0 \in 0..n /\ i - 1 = 0
        BY <1>1, <1>3, <3>1
      <4>2. flatten[1] = ss[1] /\ ss[1] \in Seq(A)
        BY <1>1, <2>6, <4>1
      <4>3. <<>> \o ss[1] = ss[1]
        BY <4>2
      <4>. QED BY <3>1, <4>1, <4>2, <4>3
    <3>2. CASE i # 1
      <4>1. i - 1 \in 0..n /\ i - 1 # 0 /\ i \in 0..n /\ i # 0
        BY <1>1, <3>2
      <4>. QED BY <2>6, <3>2, <4>1
    <3>. QED BY <3>1, <3>2
  <2> HIDE DEF f
  <2>. QED BY <2>8, <2>9
<1>4. n = 0 \/ n > 0
  BY <1>1
<1>. QED BY <1>2, <1>3, <1>4

-----------------------------------------------------------------------------
(* The bytes of a token. *)

\* The kinds of token.
TokenKinds ==
  {"block", "word", "sentinel", "run", "repeat2", "len", "overrun",
   "tick", "log", "started", "stopped"}

\* The fields a byte can belong to, and what they can hold.
Fields == {"tag", "word", "sentinel", "byte", "half", "tick", "count", "text"}
Values == Samples \cup Nat \cup TokenKinds
ByteSet == [kind : Fields, val : Values, at : Nat]

\* n bytes of which the first is the first byte of a field.
Starts(s, n, k, v) ==
  /\ s \in Seq(ByteSet) /\ Len(s) = n
  /\ s[1].kind = k /\ s[1].val = v /\ s[1].at = 1

\* The kinds of fields and tokens by name.
LEMMA Names ==
  /\ \A k \in {"tag", "word", "sentinel", "byte", "half", "tick", "count", "text"} : k \in Fields
  /\ \A k \in TokenKinds : k \in Values
  /\ \A k \in {"run", "repeat2", "log", "tick", "overrun", "block", "started", "stopped"} :
       k \in TokenKinds
  /\ 0 \in Values
  /\ 1 \in Nat \ {0}
BY DEF Fields, Values, TokenKinds

\* A field is as long as its width and says what it is.
LEMMA FieldStarts ==
  ASSUME NEW k \in Fields, NEW v \in Values, NEW w \in Nat \ {0}
  PROVE  Starts(Field(k, v, w), w, k, v)
<1>1. \A i \in 1..w : [kind |-> k, val |-> v, at |-> i] \in ByteSet
  BY DEF ByteSet
<1>. QED BY <1>1 DEF Field, Starts

\* Behind a tag of one byte the next field begins.
LEMMA StartsTag ==
  ASSUME NEW s, NEW k, NEW v, Starts(s, 1, k, v),
         NEW t, NEW n \in Nat \ {0}, NEW l, NEW u, Starts(t, n, l, u)
  PROVE  Starts(s \o t, 1 + n, k, v) /\ (s \o t)[2] = t[1]
<1>1. s \in Seq(ByteSet) /\ Len(s) = 1 /\ t \in Seq(ByteSet) /\ Len(t) = n
  BY DEF Starts
<1>2. s \o t \in Seq(ByteSet) /\ Len(s \o t) = Len(s) + Len(t)
  BY <1>1, ConcatProperties
<1>3. \A i \in 1..(Len(s) + Len(t)) : (s \o t)[i] = IF i <= Len(s) THEN s[i] ELSE t[i - Len(s)]
  BY <1>1, ConcatProperties
<1>4. 1 \in 1..(1 + n) /\ 2 \in 1..(1 + n) /\ ~(2 <= 1) /\ 2 - 1 = 1
  OBVIOUS
<1>5. Len(s \o t) = 1 + n /\ (s \o t)[1] = s[1] /\ (s \o t)[2] = t[1]
  BY <1>1, <1>2, <1>3, <1>4
<1>. QED BY <1>2, <1>5 DEF Starts

\* What the decoder looks at in the bytes of a token.
Layout(t) ==
  CASE t.kind = "word"     -> Starts(Bytes(t), WORD, "word", t.val)
    [] t.kind = "sentinel" -> Starts(Bytes(t), WORD, "sentinel", 0)
    [] t.kind = "len"      -> Starts(Bytes(t), 1, "byte", t.n)
    [] t.kind = "run"      -> /\ Starts(Bytes(t), 1 + HALF + WORD, "tag", "run")
                              /\ Bytes(t)[2].val = t.n /\ Bytes(t)[2 + HALF].val = t.val
    [] t.kind = "repeat2"  -> /\ Starts(Bytes(t), 1 + WORD + WORD, "tag", "repeat2")
                              /\ Bytes(t)[2].val = t.a /\ Bytes(t)[2 + WORD].val = t.b
    [] t.kind = "tick"     -> Starts(Bytes(t), 1 + TICK, "tag", "tick")
    [] t.kind = "overrun"  -> Starts(Bytes(t), 1 + WORD, "tag", "overrun")
    [] t.kind = "log"      -> /\ Starts(Bytes(t), 3, "tag", "log")
                              /\ Bytes(t)[2].kind = "text" /\ Bytes(t)[3] = Nul
    [] t.kind \in {"block", "started", "stopped"} -> Starts(Bytes(t), 1, "tag", t.kind)

\* The bytes of every token, as the decoder's parsers look at them.
LEMMA ByteLayout ==
  ASSUME NEW t \in Tokens
  PROVE  Layout(t)
<1> USE DecoderConstants
<1>1. CASE t.kind = "word"
  <2>1. t.val \in Values
    BY <1>1 DEF Tokens, SideBand, Values
  <2>2. Bytes(t) = Field("word", t.val, WORD)
    BY <1>1 DEF Bytes
  <2>3. Starts(Field("word", t.val, WORD), WORD, "word", t.val)
    BY <2>1, FieldStarts, Names
  <2>. QED BY <1>1, <2>2, <2>3 DEF Layout
<1>2. CASE t.kind = "sentinel"
  <2>1. Bytes(t) = Field("sentinel", 0, WORD)
    BY <1>2 DEF Bytes
  <2>2. Starts(Field("sentinel", 0, WORD), WORD, "sentinel", 0)
    BY FieldStarts, Names
  <2>. QED BY <1>2, <2>1, <2>2 DEF Layout
<1>3. CASE t.kind = "len"
  <2>1. t.n \in Values
    BY <1>3, WireConstants DEF Tokens, SideBand, Values
  <2>2. Bytes(t) = Field("byte", t.n, 1)
    BY <1>3 DEF Bytes, Byte
  <2>3. Starts(Field("byte", t.n, 1), 1, "byte", t.n)
    BY <2>1, FieldStarts, Names
  <2>. QED BY <1>3, <2>2, <2>3 DEF Layout
<1>4. CASE t.kind \in {"block", "started", "stopped"}
  <2>1. Bytes(t) = Field("tag", t.kind, 1)
    BY <1>4 DEF Bytes, TagByte
  <2>2. t.kind \in Values
    BY <1>4, Names
  <2>3. Starts(Field("tag", t.kind, 1), 1, "tag", t.kind)
    BY <2>2, FieldStarts, Names
  <2>. QED BY <1>4, <2>1, <2>3 DEF Layout
<1>5. CASE t.kind = "run"
  <2>1. t.n \in Values /\ t.val \in Values
    BY <1>5, WireConstants DEF Tokens, SideBand, Values
  <2> DEFINE a == Field("tag", "run", 1)
             b == Field("half", t.n, HALF)
             c == Field("word", t.val, WORD)
  <2>2. Bytes(t) = (a \o b) \o c
    BY <1>5 DEF Bytes, TagByte
  <2>3. Starts(a, 1, "tag", "run") /\ Starts(b, HALF, "half", t.n) /\ Starts(c, WORD, "word", t.val)
    BY <2>1, FieldStarts, Names
  <2> HIDE DEF a, b, c
  <2>4. Starts(a \o b, 1 + HALF, "tag", "run") /\ (a \o b)[2] = b[1]
    BY <2>3, StartsTag
  <2>5. 1 + HALF \in Nat \ {0} /\ 2 \in 1..(1 + HALF) /\ (1 + HALF) + 1 = 2 + HALF
    OBVIOUS
  <2>6. /\ Starts((a \o b) \o c, (1 + HALF) + WORD, "tag", "run")
        /\ ((a \o b) \o c)[2] = (a \o b)[2] /\ ((a \o b) \o c)[(1 + HALF) + 1] = c[1]
    <3> DEFINE ab == a \o b
               s == ab \o c
    <3> HIDE DEF ab, s
    <3>1. /\ ab \in Seq(ByteSet) /\ Len(ab) = 1 + HALF
          /\ ab[1].kind = "tag" /\ ab[1].val = "run" /\ ab[1].at = 1
      BY <2>4 DEF Starts, ab
    <3>2. c \in Seq(ByteSet) /\ Len(c) = WORD
      BY <2>3 DEF Starts
    <3>3. /\ s \in Seq(ByteSet) /\ Len(s) = (1 + HALF) + WORD
          /\ \A i \in 1..((1 + HALF) + WORD) :
               s[i] = IF i <= 1 + HALF THEN ab[i] ELSE c[i - (1 + HALF)]
      <4>1. /\ s \in Seq(ByteSet) /\ Len(s) = Len(ab) + Len(c)
            /\ \A i \in 1..(Len(ab) + Len(c)) : s[i] = IF i <= Len(ab) THEN ab[i] ELSE c[i - Len(ab)]
        BY <3>1, <3>2, ConcatProperties, Zenon DEF s
      <4>2. Len(ab) = 1 + HALF /\ Len(c) = WORD
        BY <3>1, <3>2
      <4>. QED BY <4>1, <4>2, Zenon
    <3>4. s[1] = ab[1] /\ s[2] = ab[2]
      BY <2>5, <3>3
    <3>5. s[(1 + HALF) + 1] = c[1]
      <4>1. /\ (1 + HALF) + 1 \in 1..((1 + HALF) + WORD) /\ ~((1 + HALF) + 1 <= 1 + HALF)
            /\ ((1 + HALF) + 1) - (1 + HALF) = 1
        BY <2>5, WireConstants
      <4>. QED BY <3>3, <4>1
    <3>6. Starts(s, (1 + HALF) + WORD, "tag", "run")
      BY <3>1, <3>3, <3>4 DEF Starts
    <3>. QED BY <3>4, <3>5, <3>6 DEF s, ab
  <2>7. b[1].val = t.n /\ c[1].val = t.val
    BY <2>3 DEF Starts
  <2>. QED BY <1>5, <2>2, <2>4, <2>5, <2>6, <2>7 DEF Layout
<1>6. CASE t.kind = "repeat2"
  <2>1. t.a \in Values /\ t.b \in Values
    BY <1>6 DEF Tokens, SideBand, Values
  <2> DEFINE a == Field("tag", "repeat2", 1)
             b == Field("word", t.a, WORD)
             c == Field("word", t.b, WORD)
  <2>2. Bytes(t) = (a \o b) \o c
    BY <1>6 DEF Bytes, TagByte
  <2>3. Starts(a, 1, "tag", "repeat2") /\ Starts(b, WORD, "word", t.a) /\ Starts(c, WORD, "word", t.b)
    BY <2>1, FieldStarts, Names
  <2> HIDE DEF a, b, c
  <2>4. Starts(a \o b, 1 + WORD, "tag", "repeat2") /\ (a \o b)[2] = b[1]
    BY <2>3, StartsTag
  <2>5. 1 + WORD \in Nat \ {0} /\ 2 \in 1..(1 + WORD) /\ (1 + WORD) + 1 = 2 + WORD
    OBVIOUS
  <2>6. /\ Starts((a \o b) \o c, (1 + WORD) + WORD, "tag", "repeat2")
        /\ ((a \o b) \o c)[2] = (a \o b)[2] /\ ((a \o b) \o c)[(1 + WORD) + 1] = c[1]
    BY <2>3, <2>4, <2>5 DEF Starts
  <2>7. b[1].val = t.a /\ c[1].val = t.b
    BY <2>3 DEF Starts
  <2>. QED BY <1>6, <2>2, <2>4, <2>5, <2>6, <2>7 DEF Layout
<1>7. CASE t.kind = "tick"
  <2>1. Bytes(t) = Field("tag", "tick", 1) \o Field("tick", 0, TICK)
    BY <1>7 DEF Bytes, TagByte
  <2>2. Starts(Field("tag", "tick", 1), 1, "tag", "tick") /\ Starts(Field("tick", 0, TICK), TICK, "tick", 0)
    BY FieldStarts, Names
  <2>. QED BY <1>7, <2>1, <2>2, StartsTag DEF Layout
<1>8. CASE t.kind = "overrun"
  <2>1. Bytes(t) = Field("tag", "overrun", 1) \o Field("count", 0, WORD)
    BY <1>8 DEF Bytes, TagByte
  <2>2. Starts(Field("tag", "overrun", 1), 1, "tag", "overrun") /\ Starts(Field("count", 0, WORD), WORD, "count", 0)
    BY FieldStarts, Names
  <2>. QED BY <1>8, <2>1, <2>2, StartsTag DEF Layout
<1>9. CASE t.kind = "log"
  <2> DEFINE a == Field("tag", "log", 1)
             b == Field("text", 0, 1)
             c == Field("byte", 0, 1)
  <2>1. Bytes(t) = (a \o b) \o c /\ Nul = c[1]
    BY <1>9 DEF Bytes, TagByte, Byte, Nul
  <2>2. Starts(a, 1, "tag", "log") /\ Starts(b, 1, "text", 0) /\ Starts(c, 1, "byte", 0)
    BY FieldStarts, Names
  <2> HIDE DEF a, b, c
  <2>3. 1 + 1 = 2 /\ 2 + 1 = 3 /\ 2 \in Nat \ {0} /\ 2 \in 1..2
    OBVIOUS
  <2>4. Starts(a \o b, 2, "tag", "log") /\ (a \o b)[2] = b[1]
    BY <2>2, <2>3, StartsTag, Names
  <2>5. /\ Starts((a \o b) \o c, 3, "tag", "log")
        /\ ((a \o b) \o c)[2] = (a \o b)[2] /\ ((a \o b) \o c)[3] = c[1]
    BY <2>2, <2>3, <2>4 DEF Starts
  <2>6. b[1].kind = "text"
    BY <2>2 DEF Starts
  <2>. QED BY <1>9, <2>1, <2>4, <2>5, <2>6 DEF Layout
<1>10. t.kind \in TokenKinds
  BY DEF Tokens, SideBand, TokenKinds
<1>. QED
  BY <1>1, <1>2, <1>3, <1>4, <1>5, <1>6, <1>7, <1>8, <1>9, <1>10 DEF TokenKinds

\* Every token takes a byte at least.
LEMMA BytesType ==
  ASSUME NEW t \in Tokens
  PROVE  /\ t.kind \in TokenKinds
         /\ Bytes(t) \in Seq(ByteSet) /\ Len(Bytes(t)) \in Nat \ {0}
<1>1. t.kind \in TokenKinds
  BY DEF Tokens, SideBand, TokenKinds
<1>2. \E n \in Nat \ {0} : \E k, v : Starts(Bytes(t), n, k, v)
  <2>1. \A a, b \in Nat \ {0} : a + b \in Nat \ {0}
    OBVIOUS
  <2>2. 1 \in Nat \ {0} /\ 3 \in Nat \ {0}
    OBVIOUS
  <2>3. Layout(t)
    BY ByteLayout
  <2>. QED BY <1>1, <2>1, <2>2, <2>3, DecoderConstants DEF Layout, TokenKinds
<1>. QED BY <1>1, <1>2 DEF Starts

-----------------------------------------------------------------------------
(* A byte stream as the tokens it was made of. *)

\* A reader stays one.
LEMMA ReadType ==
  ASSUME NEW r \in Readers, NEW t \in Tokens
  PROVE  Read(r, t) \in Readers
<1>1. r.out \in Seq(Items) /\ r.open \in {"none", "block", "repeat2", "desync"}
  BY DEF Readers
<1>2. [r EXCEPT !.open = "desync"] \in Readers
  BY DEF Readers
<1>3. CASE r.open = "none"
  <2>1. CASE t.kind = "block"
    <3>1. <<>> \in Seq(Samples)
      OBVIOUS
    <3>. QED BY <1>3, <2>1, <3>1 DEF Read, ReadBlock, Readers
  <2>2. CASE t.kind = "run"
    <3>1. t.n \in Nat /\ t.val \in Items
      BY <2>2, WireConstants DEF Tokens, SideBand, Items
    <3> DEFINE o == r.out \o Repeat(t.n, t.val)
    <3>2. o \in Seq(Items)
      BY <1>1, <3>1, RepeatType, ConcatProperties
    <3>3. Read(r, t) = [r EXCEPT !.out = o, !.canonical = @ /\ t.n >= 2]
      BY <1>3, <2>2 DEF Read, ReadRun
    <3> HIDE DEF o
    <3>. QED BY <3>2, <3>3 DEF Readers
  <2>3. CASE t.kind = "repeat2"
    <3>1. t.a \in Samples /\ t.b \in Samples
      BY <2>3 DEF Tokens, SideBand
    <3>. QED BY <1>3, <2>3, <3>1 DEF Read, ReadRepeat2, Readers
  <2>4. CASE t.kind = "overrun"
    <3>1. Append(r.out, Gap) \in Seq(Items)
      BY <1>1 DEF Items
    <3>. QED BY <1>3, <2>4, <3>1 DEF Read, Readers
  <2>5. CASE t.kind \notin {"block", "run", "repeat2", "overrun"}
    BY <1>2, <1>3, <2>5 DEF Read
  <2>. QED BY <2>1, <2>2, <2>3, <2>4, <2>5
<1>4. CASE r.open = "block" /\ t.kind = "word"
  <2>1. t.val \in Samples
    BY <1>4 DEF Tokens, SideBand
  <2>2. Append(r.out, t.val) \in Seq(Items) /\ <<t.val>> \in Seq(Samples)
    BY <1>1, <2>1 DEF Items
  <2>. QED BY <1>4, <2>1, <2>2 DEF Read, ReadWord, Readers
<1>5. CASE r.open = "repeat2" /\ t.kind = "len"
  <2>1. t.n \in Nat
    BY <1>5, WireConstants DEF Tokens, SideBand
  <2> DEFINE x == IF r.nextB THEN r.b ELSE r.a
             o == r.out \o Repeat(t.n, x)
  <2>2. x \in Items
    BY DEF Readers, Items
  <2>3. o \in Seq(Items)
    BY <1>1, <2>1, <2>2, RepeatType, ConcatProperties
  <2>4. Read(r, t) = IF t.n = 0 THEN [r EXCEPT !.open = "none"]
                     ELSE [r EXCEPT !.out = o, !.nextB = ~@]
    BY <1>5 DEF Read, ReadLen
  <2> HIDE DEF o
  <2>. QED BY <2>3, <2>4 DEF Readers
<1>6. CASE r.open # "none" /\ ~(r.open = "block" /\ t.kind = "word")
           /\ ~(r.open = "repeat2" /\ t.kind = "len")
  BY <1>2, <1>6 DEF Read, Readers
<1>. QED BY <1>3, <1>4, <1>5, <1>6

\* A reader that has desynced stays so.
LEMMA DesyncedForGood ==
  ASSUME NEW r \in Readers, r.open = "desync", NEW t \in Tokens
  PROVE  Read(r, t).open = "desync"
BY DEF Read, Readers

\* The reader after a token has said all it had said before it.
LEMMA ReadGrows ==
  ASSUME NEW r \in Readers, NEW t \in Tokens
  PROVE  \E x \in Seq(Items) : Read(r, t).out = r.out \o x
<1>1. r.out \in Seq(Items) /\ r.open \in {"none", "block", "repeat2", "desync"}
  BY DEF Readers
<1>2. r.out \o <<>> = r.out /\ <<>> \in Seq(Items)
  BY <1>1, ConcatEmptySeq
<1>3. ASSUME NEW y \in Items
      PROVE  <<y>> \in Seq(Items) /\ r.out \o <<y>> = Append(r.out, y)
  BY <1>1
<1>4. CASE r.open = "none" /\ t.kind = "run"
  <2>1. t.n \in Nat /\ t.val \in Items
    BY <1>4, WireConstants DEF Tokens, SideBand, Items
  <2>2. Read(r, t).out = r.out \o Repeat(t.n, t.val)
    BY <1>4 DEF Read, ReadRun, Readers
  <2>. QED BY <2>1, <2>2, RepeatType
<1>5. CASE r.open = "none" /\ t.kind = "overrun"
  <2>1. Read(r, t).out = Append(r.out, Gap) /\ Gap \in Items
    BY <1>5 DEF Read, Readers, Items
  <2>. QED BY <1>3, <2>1
<1>6. CASE r.open = "block" /\ t.kind = "word"
  <2>1. Read(r, t).out = Append(r.out, t.val) /\ t.val \in Items
    BY <1>6 DEF Read, ReadWord, Readers, Items, Tokens, SideBand
  <2>. QED BY <1>3, <2>1
<1>7. CASE r.open = "repeat2" /\ t.kind = "len" /\ t.n # 0
  <2>1. t.n \in Nat
    BY <1>7, WireConstants DEF Tokens, SideBand
  <2> DEFINE x == IF r.nextB THEN r.b ELSE r.a
  <2>2. x \in Items
    BY DEF Readers, Items
  <2>3. Read(r, t).out = r.out \o Repeat(t.n, x)
    BY <1>7 DEF Read, ReadLen, Readers
  <2> HIDE DEF x
  <2>. QED BY <2>1, <2>2, <2>3, RepeatType
<1>8. CASE ~(r.open = "none" /\ t.kind = "run") /\ ~(r.open = "none" /\ t.kind = "overrun")
           /\ ~(r.open = "block" /\ t.kind = "word")
           /\ ~(r.open = "repeat2" /\ t.kind = "len" /\ t.n # 0)
  <2>1. Read(r, t).out = r.out
    BY <1>1, <1>8 DEF Read, ReadBlock, ReadRepeat2, ReadLen, Readers
  <2>. QED BY <1>2, <2>1
<1>. QED BY <1>4, <1>5, <1>6, <1>7, <1>8

\* S is the bytes of the n tokens toks, the i-th from position ps[i - 1] + 1 to
\* ps[i], and rs[i] is the reader after i of them.
Trace(S, n, toks, rs, ps) ==
  /\ S \in Seq(ByteSet) /\ n \in Nat
  /\ toks \in [1..n -> Tokens] /\ rs \in [0..n -> Readers] /\ ps \in [0..n -> Nat]
  /\ ps[0] = 0 /\ ps[n] = Len(S)
  /\ \A i \in 1..n :
       /\ rs[i] = Read(rs[i - 1], toks[i])
       /\ ps[i] = ps[i - 1] + Len(Bytes(toks[i]))
       /\ \A k \in 1..Len(Bytes(toks[i])) : S[ps[i - 1] + k] = Bytes(toks[i])[k]

\* S starts between two frames, at a point where the reader had said `out`, and
\* leads it to rd.
Flows(S, out, rd) ==
  \E n, toks, rs, ps :
    Trace(S, n, toks, rs, ps) /\ rs[0].open = "none" /\ rs[0].out = out /\ rs[n] = rd

LEMMA Suffix ==
  ASSUME NEW A, NEW s \in Seq(A), NEW p \in 0..Len(s)
  PROVE  /\ SubSeq(s, p + 1, Len(s)) \in Seq(A)
         /\ Len(SubSeq(s, p + 1, Len(s))) = Len(s) - p
         /\ \A k \in 1..(Len(s) - p) : SubSeq(s, p + 1, Len(s))[k] = s[p + k]
OBVIOUS

LEMMA ItemsAssociative ==
  \A a, b, c \in Seq(Items) : (a \o b) \o c = a \o (b \o c)
BY ConcatAssociative

\* Every token takes a byte at least, so positions grow with the tokens.
LEMMA TraceRises ==
  ASSUME NEW S, NEW n, NEW toks, NEW rs, NEW ps, Trace(S, n, toks, rs, ps),
         NEW i \in 0..n, NEW j \in i..n
  PROVE  ps[i] \in Nat /\ ps[j] \in Nat /\ ps[i] + (j - i) <= ps[j]
<1>1. n \in Nat /\ ps \in [0..n -> Nat] /\ toks \in [1..n -> Tokens]
  BY DEF Trace
<1> DEFINE P == {l \in 0..n : ps[i] + (l - i) <= ps[l]}
<1>2. i \in P
  BY <1>1
<1>3. ASSUME NEW m \in i..(n - 1), m \in P PROVE m + 1 \in P
  <2>1. m + 1 \in 1..n /\ (m + 1) - 1 = m
    BY <1>1
  <2>2. ps[m + 1] = ps[m] + Len(Bytes(toks[m + 1]))
    BY <2>1 DEF Trace
  <2>3. Len(Bytes(toks[m + 1])) \in Nat \ {0}
    BY <1>1, <2>1, BytesType
  <2>4. ps[i] + (m - i) <= ps[m] /\ ps[i] \in Nat /\ ps[m] \in Nat /\ m \in Int /\ i \in Int
    BY <1>1, <1>3
  <2>5. ps[i] + ((m + 1) - i) <= ps[m + 1]
    BY <2>2, <2>3, <2>4
  <2>6. m + 1 \in 0..n
    BY <2>1
  <2>. QED BY <2>5, <2>6
<1> HIDE DEF P
<1>4. \A m \in i..n : m \in P
  <2>1. i \in Nat
    OBVIOUS
  <2>. QED BY <1>1, <1>2, <1>3, <2>1, FromTo
<1>. QED BY <1>1, <1>4 DEF P

\* Between frames nothing leads where one is.
LEMMA FlowsEmpty ==
  ASSUME NEW r \in Readers, r.open = "none"
  PROVE  Flows(<<>>, r.out, r)
<1> DEFINE rs == [i \in 0..0 |-> r]
           ps == [i \in 0..0 |-> 0]
           toks == [i \in 1..0 |-> BlockTag]
<1>1. /\ toks \in [1..0 -> Tokens] /\ rs \in [0..0 -> Readers] /\ ps \in [0..0 -> Nat]
      /\ rs[0] = r /\ ps[0] = 0
  OBVIOUS
<1>2. <<>> \in Seq(ByteSet) /\ Len(<<>>) = 0 /\ 1..0 = {}
  OBVIOUS
<1> HIDE DEF rs, ps, toks
<1>3. Trace(<<>>, 0, toks, rs, ps)
  BY <1>1, <1>2 DEF Trace
<1>. QED BY <1>1, <1>3 DEF Flows

\* A token pushed behind a stream leads to where the reader is after it.
LEMMA FlowsOn ==
  ASSUME NEW S, NEW out, NEW rd, Flows(S, out, rd), NEW t \in Tokens
  PROVE  Flows(S \o Bytes(t), out, Read(rd, t))
<1>1. PICK n, toks, rs, ps :
        Trace(S, n, toks, rs, ps) /\ rs[0].open = "none" /\ rs[0].out = out /\ rs[n] = rd
  BY DEF Flows
<1> DEFINE b == Bytes(t)
           T == S \o b
           toks2 == [i \in 1..(n + 1) |-> IF i <= n THEN toks[i] ELSE t]
           rs2 == [i \in 0..(n + 1) |-> IF i <= n THEN rs[i] ELSE Read(rd, t)]
           ps2 == [i \in 0..(n + 1) |-> IF i <= n THEN ps[i] ELSE Len(S) + Len(b)]
<1>2. /\ S \in Seq(ByteSet) /\ n \in Nat
      /\ toks \in [1..n -> Tokens] /\ rs \in [0..n -> Readers] /\ ps \in [0..n -> Nat]
      /\ ps[0] = 0 /\ ps[n] = Len(S)
  BY <1>1 DEF Trace
<1>3. b \in Seq(ByteSet) /\ Len(b) \in Nat \ {0} /\ rd \in Readers /\ Read(rd, t) \in Readers
  BY <1>1, <1>2, BytesType, ReadType
<1> HIDE DEF b
<1>4. T \in Seq(ByteSet) /\ Len(T) = Len(S) + Len(b)
  BY <1>2, <1>3, ConcatProperties
<1>9. \A i \in 1..Len(S) : T[i] = IF i <= Len(S) THEN S[i] ELSE b[i - Len(S)]
  <2>1. \A i \in 1..(Len(S) + Len(b)) : T[i] = IF i <= Len(S) THEN S[i] ELSE b[i - Len(S)]
    BY <1>2, <1>3, ConcatProperties
  <2>. QED BY <1>2, <1>3, <2>1
<1>5. /\ toks2 \in [1..(n + 1) -> Tokens] /\ rs2 \in [0..(n + 1) -> Readers]
      /\ ps2 \in [0..(n + 1) -> Nat]
  <2>1. toks2 \in [1..(n + 1) -> Tokens]
    BY <1>2
  <2>2. rs2 \in [0..(n + 1) -> Readers]
    BY <1>2, <1>3
  <2>3. ps2 \in [0..(n + 1) -> Nat]
    BY <1>2, <1>3
  <2>. QED BY <2>1, <2>2, <2>3
<1>6. ps2[0] = 0 /\ ps2[n + 1] = Len(T) /\ rs2[0] = rs[0] /\ rs2[n + 1] = Read(rd, t)
  BY <1>2, <1>4
<1>7. ASSUME NEW i \in 1..(n + 1)
      PROVE  /\ rs2[i] = Read(rs2[i - 1], toks2[i])
             /\ ps2[i] = ps2[i - 1] + Len(Bytes(toks2[i]))
             /\ \A k \in 1..Len(Bytes(toks2[i])) : T[ps2[i - 1] + k] = Bytes(toks2[i])[k]
  <2>1. CASE i <= n
    <3>1. i \in 1..n /\ i - 1 \in 0..n
      BY <1>2, <2>1
    <3>2. toks2[i] = toks[i] /\ rs2[i] = rs[i] /\ ps2[i] = ps[i] /\ rs2[i - 1] = rs[i - 1] /\ ps2[i - 1] = ps[i - 1]
      BY <1>2, <2>1, <3>1
    <3>3. /\ rs[i] = Read(rs[i - 1], toks[i])
          /\ ps[i] = ps[i - 1] + Len(Bytes(toks[i]))
          /\ \A k \in 1..Len(Bytes(toks[i])) : S[ps[i - 1] + k] = Bytes(toks[i])[k]
      BY <1>1, <3>1 DEF Trace
    <3>4. ps[i] <= Len(S)
      <4>1. i \in 0..n /\ n \in i..n
        BY <1>2, <3>1
      <4>2. ps[i] + (n - i) <= ps[n] /\ ps[i] \in Nat
        BY <1>1, <4>1, TraceRises
      <4>. QED BY <1>2, <4>1, <4>2
    <3>5. Len(Bytes(toks[i])) \in Nat /\ ps[i - 1] \in Nat
      BY <1>2, <3>1, BytesType
    <3>6. ASSUME NEW k \in 1..Len(Bytes(toks[i]))
          PROVE  T[ps[i - 1] + k] = S[ps[i - 1] + k]
      <4>1. ps[i - 1] + k \in 1..Len(S)
        BY <1>2, <3>3, <3>4, <3>5
      <4>2. T[ps[i - 1] + k] = IF ps[i - 1] + k <= Len(S) THEN S[ps[i - 1] + k]
                               ELSE b[ps[i - 1] + k - Len(S)]
        BY <1>9, <4>1
      <4>. QED BY <4>1, <4>2
    <3>7. rs2[i] = Read(rs2[i - 1], toks2[i]) /\ ps2[i] = ps2[i - 1] + Len(Bytes(toks2[i]))
      BY <3>2, <3>3, Zenon
    <3>8. \A k \in 1..Len(Bytes(toks[i])) : T[ps[i - 1] + k] = Bytes(toks[i])[k]
      BY <3>3, <3>6, Zenon
    <3>. QED BY <3>2, <3>7, <3>8, Zenon
  <2>2. CASE i = n + 1
    <3>1. toks2[i] = t /\ rs2[i] = Read(rd, t) /\ ps2[i] = Len(S) + Len(b)
          /\ rs2[i - 1] = rd /\ ps2[i - 1] = Len(S)
      BY <1>1, <1>2, <2>2
    <3>2. ASSUME NEW k \in 1..Len(b) PROVE T[Len(S) + k] = b[k]
      <4>1. Len(S) \in Nat /\ Len(S) + k \in 1..(Len(S) + Len(b)) /\ ~(Len(S) + k <= Len(S))
            /\ (Len(S) + k) - Len(S) = k
        BY <1>2, <1>3
      <4>. QED BY <1>2, <1>3, <4>1, ConcatProperties
    <3>3. Bytes(toks2[i]) = b
      BY <3>1 DEF b
    <3> HIDE DEF toks2, rs2, ps2, T
    <3>4. ASSUME NEW k \in 1..Len(Bytes(toks2[i]))
          PROVE  T[ps2[i - 1] + k] = Bytes(toks2[i])[k]
      <4>1. k \in 1..Len(b)
        BY <3>3
      <4>2. T[Len(S) + k] = b[k]
        BY <3>2, <4>1
      <4>. QED BY <3>1, <3>3, <4>2
    <3>5. rs2[i] = Read(rs2[i - 1], toks2[i]) /\ ps2[i] = ps2[i - 1] + Len(Bytes(toks2[i]))
      BY <3>1, <3>3
    <3>. QED BY <3>4, <3>5
  <2> HIDE DEF T, toks2, rs2, ps2
  <2>3. i <= n \/ i = n + 1
    BY <1>2
  <2>. QED BY <2>1, <2>2, <2>3
<1> HIDE DEF T, toks2, rs2, ps2
<1>8. Trace(T, n + 1, toks2, rs2, ps2)
  BY <1>2, <1>4, <1>5, <1>6, <1>7 DEF Trace
<1>. QED BY <1>1, <1>6, <1>8 DEF Flows, T, b
\* No token undoes a desync, and none takes back what was said.
LEMMA TraceSane ==
  ASSUME NEW S, NEW n, NEW toks, NEW rs, NEW ps, Trace(S, n, toks, rs, ps),
         rs[n].open # "desync", NEW i \in 0..n
  PROVE  rs[i].open # "desync"
<1> SUFFICES ASSUME rs[i].open = "desync" PROVE FALSE
  OBVIOUS
<1>1. n \in Nat /\ toks \in [1..n -> Tokens] /\ rs \in [0..n -> Readers]
  BY DEF Trace
<1> DEFINE P == {l \in 0..n : rs[l].open = "desync"}
<1>2. i \in P
  OBVIOUS
<1>3. ASSUME NEW m \in i..(n - 1), m \in P PROVE m + 1 \in P
  <2>1. m + 1 \in 1..n /\ (m + 1) - 1 = m /\ m \in 0..n /\ m + 1 \in 0..n
    BY <1>1
  <2>2. rs[m + 1] = Read(rs[m], toks[m + 1])
    BY <2>1 DEF Trace
  <2>. QED BY <1>1, <1>3, <2>1, <2>2, DesyncedForGood
<1> HIDE DEF P
<1>4. \A m \in i..n : m \in P
  <2>1. i \in Nat
    OBVIOUS
  <2>. QED BY <1>1, <1>2, <1>3, <2>1, FromTo
<1>5. n \in P
  BY <1>1, <1>4
<1>. QED BY <1>5 DEF P

Grows(r, rd) == \E x \in Seq(Items) : rd.out = r.out \o x

\* What was read at the front is a prefix of what was read later.
LEMMA TraceGrows ==
  ASSUME NEW S, NEW n, NEW toks, NEW rs, NEW ps, Trace(S, n, toks, rs, ps), NEW j \in 0..n
  PROVE  Grows(rs[0], rs[j])
<1>1. n \in Nat /\ toks \in [1..n -> Tokens] /\ rs \in [0..n -> Readers]
  BY DEF Trace
<1> DEFINE P == {l \in 0..n : \E x \in Seq(Items) : rs[l].out = rs[0].out \o x}
<1>0. rs[0].out \in Seq(Items) /\ 0 \in 0..n
  BY <1>1 DEF Readers
<1>2. 0 \in P
  <2>1. rs[0].out \o <<>> = rs[0].out /\ <<>> \in Seq(Items)
    BY <1>0, ConcatEmptySeq
  <2>. QED BY <1>0, <2>1
<1>3. ASSUME NEW m \in 0..(n - 1), m \in P PROVE m + 1 \in P
  <2>1. m + 1 \in 1..n /\ (m + 1) - 1 = m /\ m \in 0..n /\ m + 1 \in 0..n
    BY <1>1
  <2>2. rs[m + 1] = Read(rs[m], toks[m + 1]) /\ rs[m] \in Readers /\ toks[m + 1] \in Tokens
    BY <1>1, <2>1 DEF Trace
  <2>3. PICK x \in Seq(Items) : rs[m].out = rs[0].out \o x
    BY <1>3
  <2>4. PICK y \in Seq(Items) : rs[m + 1].out = rs[m].out \o y
    BY <2>2, ReadGrows
  <2>5. x \o y \in Seq(Items)
    BY ConcatProperties
  <2>6. (rs[0].out \o x) \o y = rs[0].out \o (x \o y)
    BY <1>0, ItemsAssociative
  <2>. QED BY <2>1, <2>3, <2>4, <2>5, <2>6
<1> HIDE DEF P
<1>4. \A m \in 0..n : m \in P
  BY <1>1, <1>2, <1>3, FromTo
<1>5. j \in P
  BY <1>1, <1>4
<1>. QED BY <1>5 DEF P, Grows

\* A stream leads only to what begins with what was read before it.
LEMMA FlowsGrow ==
  ASSUME NEW S, NEW out, NEW rd, Flows(S, out, rd)
  PROVE  /\ S \in Seq(ByteSet) /\ rd \in Readers /\ out \in Seq(Items)
         /\ \E x \in Seq(Items) : rd.out = out \o x
<1>1. PICK n, toks, rs, ps :
        Trace(S, n, toks, rs, ps) /\ rs[0].open = "none" /\ rs[0].out = out /\ rs[n] = rd
  BY DEF Flows
<1>2. S \in Seq(ByteSet) /\ n \in Nat /\ rs \in [0..n -> Readers] /\ 0 \in 0..n /\ n \in 0..n
  BY <1>1 DEF Trace
<1>3. rs[0] \in Readers /\ rs[0].out \in Seq(Items) /\ rs[n] \in Readers
  BY <1>2 DEF Readers
<1>0. Trace(S, n, toks, rs, ps)
  BY <1>1
<1>4. PICK x \in Seq(Items) : rs[n].out = rs[0].out \o x
  <2>1. Grows(rs[0], rs[n])
    BY <1>0, <1>2, TraceGrows
  <2>. QED BY <2>1 DEF Grows
<1>5. rd.out = out \o x
  BY <1>1, <1>4
<1>. QED BY <1>1, <1>2, <1>3, <1>5

\* The stream from the j-th token on.
LEMMA TraceDrop ==
  ASSUME NEW S, NEW n, NEW toks, NEW rs, NEW ps, Trace(S, n, toks, rs, ps),
         NEW j \in 0..n, rs[j].open = "none"
  PROVE  Flows(SubSeq(S, ps[j] + 1, Len(S)), rs[j].out, rs[n])
<1> DEFINE T == SubSeq(S, ps[j] + 1, Len(S))
           m == n - j
           toks2 == [i \in 1..m |-> toks[i + j]]
           rs2 == [i \in 0..m |-> rs[i + j]]
           ps2 == [i \in 0..m |-> ps[i + j] - ps[j]]
<1>1. /\ S \in Seq(ByteSet) /\ n \in Nat
      /\ toks \in [1..n -> Tokens] /\ rs \in [0..n -> Readers] /\ ps \in [0..n -> Nat]
      /\ ps[0] = 0 /\ ps[n] = Len(S)
  BY DEF Trace
<1>2. m \in Nat /\ ps[j] \in Nat /\ ps[j] <= Len(S)
  <2>1. n \in j..n /\ m \in Nat
    BY <1>1
  <2>2. ps[j] \in Nat /\ ps[j] + (n - j) <= ps[n]
    BY <2>1, TraceRises
  <2>. QED BY <1>1, <2>1, <2>2
<1>3. /\ T \in Seq(ByteSet) /\ Len(T) = Len(S) - ps[j]
      /\ \A k \in 1..(Len(S) - ps[j]) : T[k] = S[ps[j] + k]
  <2>1. ps[j] \in 0..Len(S)
    BY <1>1, <1>2
  <2>. QED BY <1>1, <2>1, Suffix
<1> HIDE DEF T
<1>4. \A i \in 1..m : i + j \in 1..n /\ (i + j) - 1 = (i - 1) + j /\ i - 1 \in 0..m
  BY <1>1, <1>2
<1>5. \A i \in 0..m : i + j \in 0..n /\ i + j \in j..n
  BY <1>1, <1>2
<1>6. \A i \in 0..m : ps[j] <= ps[i + j] /\ ps[i + j] \in Nat
  <2> SUFFICES ASSUME NEW i \in 0..m
               PROVE  ps[j] <= ps[i + j] /\ ps[i + j] \in Nat
    OBVIOUS
  <2>1. i + j \in j..n
    BY <1>5
  <2>2. ps[j] \in Nat /\ ps[i + j] \in Nat /\ ps[j] + ((i + j) - j) <= ps[i + j]
    BY <2>1, TraceRises
  <2>. QED BY <1>1, <1>2, <2>2
<1>7. toks2 \in [1..m -> Tokens] /\ rs2 \in [0..m -> Readers] /\ ps2 \in [0..m -> Nat]
  <2>1. toks2 \in [1..m -> Tokens] /\ rs2 \in [0..m -> Readers]
    BY <1>1, <1>4, <1>5
  <2>2. \A i \in 0..m : ps[i + j] - ps[j] \in Nat
    BY <1>2, <1>6
  <2>3. ps2 \in [0..m -> Nat]
    BY <2>2
  <2>. QED BY <2>1, <2>3
<1>8. ps2[0] = 0 /\ ps2[m] = Len(T) /\ rs2[0] = rs[j] /\ rs2[m] = rs[n]
  <2>1. 0 \in 0..m /\ m \in 0..m /\ 0 + j = j /\ m + j = n
    BY <1>1, <1>2
  <2>. QED BY <1>1, <1>2, <1>3, <2>1
<1>9. ASSUME NEW i \in 1..m
      PROVE  /\ rs2[i] = Read(rs2[i - 1], toks2[i])
             /\ ps2[i] = ps2[i - 1] + Len(Bytes(toks2[i]))
             /\ \A k \in 1..Len(Bytes(toks2[i])) : T[ps2[i - 1] + k] = Bytes(toks2[i])[k]
  <2>1. i + j \in 1..n /\ (i + j) - 1 = (i - 1) + j /\ i - 1 \in 0..m /\ i \in 0..m
    BY <1>4
  <2>2. /\ rs[i + j] = Read(rs[(i - 1) + j], toks[i + j])
        /\ ps[i + j] = ps[(i - 1) + j] + Len(Bytes(toks[i + j]))
        /\ \A k \in 1..Len(Bytes(toks[i + j])) : S[ps[(i - 1) + j] + k] = Bytes(toks[i + j])[k]
    BY <2>1 DEF Trace
  <2>3. /\ toks2[i] = toks[i + j] /\ rs2[i] = rs[i + j] /\ rs2[i - 1] = rs[(i - 1) + j]
        /\ ps2[i] = ps[i + j] - ps[j] /\ ps2[i - 1] = ps[(i - 1) + j] - ps[j]
    BY <2>1
  <2> HIDE DEF toks2, rs2, ps2
  <2>4. Len(Bytes(toks[i + j])) \in Nat /\ ps[(i - 1) + j] \in Nat /\ ps[j] <= ps[(i - 1) + j] /\ ps[i + j] <= Len(S)
    <3>1. toks[i + j] \in Tokens
      BY <1>1, <2>1
    <3>2. i + j \in 0..n /\ n \in (i + j)..n
      BY <1>1, <2>1
    <3>3. ps[i + j] + (n - (i + j)) <= ps[n] /\ ps[i + j] \in Nat
      BY <3>2, TraceRises
    <3>4. ps[i + j] <= Len(S)
      BY <1>1, <3>2, <3>3
    <3>. QED BY <1>6, <2>1, <3>1, <3>4, BytesType
  <2>5. ps2[i] = ps2[i - 1] + Len(Bytes(toks2[i]))
    BY <1>2, <2>2, <2>3, <2>4
  <2>7. ps[(i - 1) + j] + Len(Bytes(toks[i + j])) <= Len(S) /\ Len(S) \in Nat
    <3>1. ps[i + j] = ps[(i - 1) + j] + Len(Bytes(toks[i + j]))
      BY <2>2
    <3>. QED BY <1>1, <2>4, <3>1
  <2>6. ASSUME NEW k \in 1..Len(Bytes(toks2[i]))
        PROVE  T[ps2[i - 1] + k] = Bytes(toks2[i])[k]
    <3>1. k \in 1..Len(Bytes(toks[i + j]))
      BY <2>3
    <3>2. ps2[i - 1] + k \in 1..(Len(S) - ps[j]) /\ ps[j] + (ps2[i - 1] + k) = ps[(i - 1) + j] + k
      <4>1. ps2[i - 1] = ps[(i - 1) + j] - ps[j]
        BY <2>3
      <4>3. /\ ps[(i - 1) + j] \in Nat /\ ps[j] \in Nat /\ Len(Bytes(toks[i + j])) \in Nat
            /\ ps[j] <= ps[(i - 1) + j]
        BY <1>2, <2>4
      <4>4. PICK a \in Nat, c \in Nat, l \in Nat, x \in Nat :
              /\ a = ps[(i - 1) + j] /\ c = ps[j] /\ l = Len(Bytes(toks[i + j])) /\ x = Len(S)
              /\ c <= a /\ a + l <= x
        BY <2>7, <4>3
      <4>5. k \in 1..l /\ ps2[i - 1] = a - c
        BY <3>1, <4>1, <4>4
      <4>6. (a - c) + k \in 1..(x - c) /\ c + ((a - c) + k) = a + k
        <5>1. c <= a /\ a + l <= x
          BY <4>4
        <5>2. k \in 1..l
          BY <4>5
        <5>. QED BY <5>1, <5>2
      <4>7. ps2[i - 1] + k = (a - c) + k /\ x - c = Len(S) - ps[j]
        BY <4>4, <4>5
      <4>8. ps[j] + (ps2[i - 1] + k) = c + ((a - c) + k)
        BY <4>4, <4>5
      <4>9. ps[(i - 1) + j] + k = a + k
        BY <4>4
      <4>. QED BY <4>6, <4>7, <4>8, <4>9
    <3>3. T[ps2[i - 1] + k] = S[ps[j] + (ps2[i - 1] + k)]
      BY <1>3, <3>2
    <3>4. S[ps[(i - 1) + j] + k] = Bytes(toks[i + j])[k]
      BY <2>2, <3>1
    <3>. QED BY <2>3, <3>2, <3>3, <3>4
  <2>. QED BY <2>2, <2>3, <2>5, <2>6
<1> HIDE DEF T, m, toks2, rs2, ps2
<1>10. Trace(T, m, toks2, rs2, ps2)
  BY <1>2, <1>3, <1>7, <1>8, <1>9 DEF Trace
<1>. QED BY <1>8, <1>10 DEF Flows, T

-----------------------------------------------------------------------------
(* What a call pushes is what the reader read. *)

\* The reader followed the sink token by token, starting as r.
Followed(sink, r, rd) ==
  \E T, U : \E rs \in [0..Len(sink) -> U] :
    /\ sink \in Seq(T)
    /\ rs[0] = r /\ rs[Len(sink)] = rd
    /\ \A i \in 1..Len(sink) : rs[i] = Read(rs[i - 1], sink[i])

\* The sink of a call is what the reader has followed since it was r.
Chained(e, r) ==
  /\ \E A, B, C, D, F : e \in [run : A, deferred : B, state : C, sink : D, reader : F]
  /\ Followed(e.sink, r, e.reader)

\* A push is read at once.
LEMMA FollowedOn ==
  ASSUME NEW sink, NEW r, NEW rd, Followed(sink, r, rd), NEW t
  PROVE  Followed(Append(sink, t), r, Read(rd, t))
<1>0. PICK T, U : \E rs \in [0..Len(sink) -> U] :
        /\ sink \in Seq(T)
        /\ rs[0] = r /\ rs[Len(sink)] = rd
        /\ \A i \in 1..Len(sink) : rs[i] = Read(rs[i - 1], sink[i])
  BY DEF Followed
<1>1. PICK rs \in [0..Len(sink) -> U] :
        /\ sink \in Seq(T)
        /\ rs[0] = r /\ rs[Len(sink)] = rd
        /\ \A i \in 1..Len(sink) : rs[i] = Read(rs[i - 1], sink[i])
  BY <1>0
<1> DEFINE T2 == T \cup {t}
           U2 == U \cup {Read(rd, t)}
           sink2 == Append(sink, t)
           rs2 == [i \in 0..(Len(sink) + 1) |-> IF i <= Len(sink) THEN rs[i] ELSE Read(rd, t)]
<1>2. sink \in Seq(T2) /\ t \in T2 /\ Len(sink) \in Nat
  BY <1>1
<1>3. /\ sink2 \in Seq(T2) /\ Len(sink2) = Len(sink) + 1
      /\ sink2[Len(sink) + 1] = t /\ \A i \in 1..Len(sink) : sink2[i] = sink[i]
  BY <1>2, AppendProperties
<1>4. rs2 \in [0..(Len(sink) + 1) -> U2]
  BY <1>2
<1>5. rs2[0] = r /\ rs2[Len(sink) + 1] = Read(rd, t)
  BY <1>1, <1>2
<1>6. ASSUME NEW i \in 1..(Len(sink) + 1) PROVE rs2[i] = Read(rs2[i - 1], sink2[i])
  <2>1. CASE i <= Len(sink)
    <3>1. i \in 1..Len(sink) /\ i - 1 <= Len(sink) /\ i - 1 \in 0..(Len(sink) + 1) /\ i \in 0..(Len(sink) + 1)
      BY <1>2, <2>1
    <3>2. rs2[i] = rs[i] /\ rs2[i - 1] = rs[i - 1] /\ sink2[i] = sink[i]
      BY <1>3, <2>1, <3>1
    <3>. QED BY <1>1, <3>1, <3>2
  <2>2. CASE i = Len(sink) + 1
    <3>1. i - 1 = Len(sink) /\ i - 1 \in 0..(Len(sink) + 1)
      BY <1>2, <2>2
    <3>2. rs2[i - 1] = rd
      BY <1>1, <1>2, <3>1
    <3>. QED BY <1>3, <1>5, <2>2, <3>2
  <2>. QED BY <1>2, <2>1, <2>2
<1> HIDE DEF T2, U2, sink2, rs2
<1>7. /\ rs2 \in [0..Len(sink2) -> U2] /\ rs2[Len(sink2)] = Read(rd, t)
      /\ \A i \in 1..Len(sink2) : rs2[i] = Read(rs2[i - 1], sink2[i])
  BY <1>3, <1>4, <1>5, <1>6
<1>9. PICK rr : rr = Read(rd, t)
  OBVIOUS
<1>10. /\ rs2 \in [0..Len(sink2) -> U2] /\ sink2 \in Seq(T2)
       /\ rs2[0] = r /\ rs2[Len(sink2)] = rr
       /\ \A i \in 1..Len(sink2) : rs2[i] = Read(rs2[i - 1], sink2[i])
  BY <1>3, <1>5, <1>7, <1>9
<1>11. Followed(sink2, r, rr)
  <2>1. \E q \in [0..Len(sink2) -> U2] :
          /\ sink2 \in Seq(T2)
          /\ q[0] = r /\ q[Len(sink2)] = rr
          /\ \A i \in 1..Len(sink2) : q[i] = Read(q[i - 1], sink2[i])
    BY <1>10, Zenon
  <2>. QED BY <2>1 DEF Followed
<1>8. Followed(sink2, r, Read(rd, t))
  BY <1>9, <1>11
<1>. QED BY <1>8 DEF sink2

\* Every function of the encoder pushes only by Push (encoder.rs 122-292).
LEMMA ChainPush ==
  ASSUME NEW e, NEW r, Chained(e, r), NEW t
  PROVE  Chained(Push(e, t), r)
<1>1. PICK A, B, C, D, F : e \in [run : A, deferred : B, state : C, sink : D, reader : F]
  BY DEF Chained
<1> DEFINE D2 == D \cup {Append(e.sink, t)}
           F2 == F \cup {Read(e.reader, t)}
<1>2. /\ Push(e, t) \in [run : A, deferred : B, state : C, sink : D2, reader : F2]
      /\ Push(e, t).sink = Append(e.sink, t) /\ Push(e, t).reader = Read(e.reader, t)
  BY <1>1 DEF Push
<1>3. Followed(Append(e.sink, t), r, Read(e.reader, t))
  <2>1. Followed(e.sink, r, e.reader)
    BY DEF Chained
  <2>. QED BY <2>1, FollowedOn
<1> HIDE DEF D2, F2
<1>. QED BY <1>2, <1>3 DEF Chained

\* The other fields do not matter.
LEMMA ChainKeeps ==
  ASSUME NEW e, NEW r, Chained(e, r), NEW x, NEW y
  PROVE  /\ Chained([e EXCEPT !.run = x], r)
         /\ Chained([e EXCEPT !.run.len = @ + 1], r)
         /\ Chained([e EXCEPT !.deferred = x], r)
         /\ Chained([e EXCEPT !.state = x], r)
         /\ Chained([e EXCEPT !.state.nextB = ~@], r)
         /\ Chained([e EXCEPT !.deferred = x, !.state = y], r)
         /\ Chained([e EXCEPT !.run = x, !.deferred = <<>>, !.state = y], r)
<1>1. PICK A, B, C, D, F : e \in [run : A, deferred : B, state : C, sink : D, reader : F]
  BY DEF Chained
<1>2. Followed(e.sink, r, e.reader)
  BY DEF Chained
<1>3. ASSUME NEW g, NEW G, NEW H, NEW K, g \in [run : G, deferred : H, state : K, sink : D, reader : F],
             g.sink = e.sink, g.reader = e.reader
      PROVE  Chained(g, r)
  BY <1>2, <1>3 DEF Chained
<1>4. Chained([e EXCEPT !.run = x], r)
  <2>1. /\ [e EXCEPT !.run = x] \in [run : {x}, deferred : B, state : C, sink : D, reader : F]
        /\ [e EXCEPT !.run = x].sink = e.sink /\ [e EXCEPT !.run = x].reader = e.reader
    BY <1>1
  <2>. QED BY <1>3, <2>1
<1>5. Chained([e EXCEPT !.run.len = @ + 1], r)
  <2> DEFINE g == [e EXCEPT !.run.len = @ + 1]
             a == [e.run EXCEPT !.len = @ + 1]
  <2>1. /\ g \in [run : {a}, deferred : B, state : C, sink : D, reader : F]
        /\ g.sink = e.sink /\ g.reader = e.reader
    BY <1>1
  <2> HIDE DEF g
  <2>2. Chained(g, r)
    BY <1>3, <2>1
  <2>. QED BY <2>2 DEF g
<1>6. Chained([e EXCEPT !.deferred = x], r)
  <2>1. /\ [e EXCEPT !.deferred = x] \in [run : A, deferred : {x}, state : C, sink : D, reader : F]
        /\ [e EXCEPT !.deferred = x].sink = e.sink /\ [e EXCEPT !.deferred = x].reader = e.reader
    BY <1>1
  <2>. QED BY <1>3, <2>1
<1>7. Chained([e EXCEPT !.state = x], r)
  <2>1. /\ [e EXCEPT !.state = x] \in [run : A, deferred : B, state : {x}, sink : D, reader : F]
        /\ [e EXCEPT !.state = x].sink = e.sink /\ [e EXCEPT !.state = x].reader = e.reader
    BY <1>1
  <2>. QED BY <1>3, <2>1
<1>8. Chained([e EXCEPT !.state.nextB = ~@], r)
  <2> DEFINE g == [e EXCEPT !.state.nextB = ~@]
             c == [e.state EXCEPT !.nextB = ~@]
  <2>1. /\ g \in [run : A, deferred : B, state : {c}, sink : D, reader : F]
        /\ g.sink = e.sink /\ g.reader = e.reader
    BY <1>1
  <2> HIDE DEF g
  <2>2. Chained(g, r)
    BY <1>3, <2>1
  <2>. QED BY <2>2 DEF g
<1>9. Chained([e EXCEPT !.deferred = x, !.state = y], r)
  <2> DEFINE g == [e EXCEPT !.deferred = x, !.state = y]
  <2>1. /\ g \in [run : A, deferred : {x}, state : {y}, sink : D, reader : F]
        /\ g.sink = e.sink /\ g.reader = e.reader
    BY <1>1
  <2> HIDE DEF g
  <2>2. Chained(g, r)
    BY <1>3, <2>1
  <2>. QED BY <2>2 DEF g
<1>10. Chained([e EXCEPT !.run = x, !.deferred = <<>>, !.state = y], r)
  <2> DEFINE g == [e EXCEPT !.run = x, !.deferred = <<>>, !.state = y]
  <2>1. /\ g \in [run : {x}, deferred : {<<>>}, state : {y}, sink : D, reader : F]
        /\ g.sink = e.sink /\ g.reader = e.reader
    BY <1>1
  <2> HIDE DEF g
  <2>2. Chained(g, r)
    BY <1>3, <2>1
  <2>. QED BY <2>2 DEF g
<1>. QED BY <1>4, <1>5, <1>6, <1>7, <1>8, <1>9, <1>10

LEMMA ChainGoIdle ==
  ASSUME NEW e, NEW r, Chained(e, r)
  PROVE  Chained(GoIdle(e), r)
BY ChainPush, ChainKeeps DEF GoIdle

LEMMA ChainResolveSingle ==
  ASSUME NEW e, NEW r, Chained(e, r), NEW q
  PROVE  Chained(ResolveSingle(e, q), r) /\ Chained(EmitRun(GoIdle(e), q), r)
<1>1. Chained(OpenBlock(e), r)
  BY ChainGoIdle, ChainPush, ChainKeeps DEF OpenBlock
<1>2. Chained(AppendBlock(e, q.sample), r)
  BY <1>1, ChainPush DEF AppendBlock
<1>3. Chained(EmitRun(GoIdle(e), q), r)
  BY ChainGoIdle, ChainPush DEF EmitRun
<1>. QED BY <1>2, <1>3 DEF ResolveSingle

LEMMA ChainResolveOldest ==
  ASSUME NEW e, NEW r, Chained(e, r)
  PROVE  Chained(ResolveOldest(e), r)
BY ChainResolveSingle, ChainKeeps DEF ResolveOldest

LEMMA ChainDrainDeferred ==
  ASSUME NEW e, NEW r, Chained(e, r)
  PROVE  Chained(DrainDeferred(e), r)
<1>1. Chained(ResolveOldest(e), r) /\ Chained(ResolveOldest(ResolveOldest(e)), r)
  BY ChainResolveOldest
<1>. QED BY <1>1 DEF DrainDeferred

LEMMA ChainWindow ==
  ASSUME NEW e, NEW r, Chained(e, r), NEW q
  PROVE  Chained(Window(e, q), r)
<1>1. Chained(Repeat2Start(e, e.deferred[1], e.deferred[2], q), r)
  <2> DEFINE a == e.deferred[1]
             b == e.deferred[2]
             h == Push(GoIdle(e), Repeat2Tag(a.sample, b.sample))
             l == Push(Push(Push(h, LenByte(a.len)), LenByte(b.len)), LenByte(q.len))
  <2>1. Chained(l, r)
    BY ChainGoIdle, ChainPush
  <2>2. Repeat2Start(e, a, b, q) =
          [l EXCEPT !.deferred = <<>>, !.state = Repeat2Open(a.sample, b.sample, TRUE)]
    BY DEF Repeat2Start
  <2> HIDE DEF l
  <2>3. \A x, y : Chained([l EXCEPT !.deferred = x, !.state = y], r)
    BY <2>1, ChainKeeps
  <2> DEFINE y == Repeat2Open(a.sample, b.sample, TRUE)
  <2>4. Chained([l EXCEPT !.deferred = <<>>, !.state = y], r)
    BY <2>3
  <2>. QED BY <2>2, <2>4
<1>2. Chained(EmitRun(GoIdle(DrainDeferred(e)), q), r)
  BY ChainDrainDeferred, ChainResolveSingle
<1>3. Chained([e EXCEPT !.deferred = Append(@, q)], r)
  BY ChainKeeps
<1>4. Chained([ResolveOldest(e) EXCEPT !.deferred = Append(@, q)], r)
  BY ChainResolveOldest, ChainKeeps
<1>. QED BY <1>1, <1>2, <1>3, <1>4 DEF Window

LEMMA ChainCompleteRun ==
  ASSUME NEW e0, NEW r, Chained(e0, r)
  PROVE  Chained(CompleteRun(e0), r)
<1> DEFINE q == e0.run
           e == [e0 EXCEPT !.run = NoRun]
<1>1. Chained(e, r)
  BY ChainKeeps
<1>2. CompleteRun(e0) =
        IF q.len = 0 THEN e0
        ELSE IF Extends(e, q) THEN [Push(e, LenByte(q.len)) EXCEPT !.state.nextB = ~@]
        ELSE Window(IF e.state.open = "repeat2" THEN GoIdle(e) ELSE e, q)
  BY DEF CompleteRun
<1> HIDE DEF e, q
<1>3. Chained([Push(e, LenByte(q.len)) EXCEPT !.state.nextB = ~@], r)
  BY <1>1, ChainPush, ChainKeeps
<1>4. Chained(Window(IF e.state.open = "repeat2" THEN GoIdle(e) ELSE e, q), r)
  BY <1>1, ChainGoIdle, ChainWindow
<1>. QED BY <1>2, <1>3, <1>4

LEMMA ChainCalls ==
  ASSUME NEW e, NEW r, Chained(e, r)
  PROVE  /\ \A x : Chained(Feed(e, x), r)
         /\ Chained(Flush(e), r)
         /\ Chained(Reset(e), r)
         /\ \A k : Chained(Side(e, k), r)
         /\ Chained(Overrun(e), r)
<1>1. ASSUME NEW x PROVE Chained(Feed(e, x), r)
  <2> DEFINE longer == [e EXCEPT !.run.len = @ + 1]
  <2>1. Chained(longer, r)
    BY ChainKeeps
  <2>2. Chained(CompleteRun(longer), r)
    BY <2>1, ChainCompleteRun
  <2>3. Chained([CompleteRun(e) EXCEPT !.run = [sample |-> x, len |-> 1]], r)
    BY ChainCompleteRun, ChainKeeps
  <2>4. Feed(e, x) =
          IF e.run.len > 0 /\ e.run.sample = x
          THEN IF longer.run.len = MAX_RUN THEN CompleteRun(longer) ELSE longer
          ELSE [CompleteRun(e) EXCEPT !.run = [sample |-> x, len |-> 1]]
    BY DEF Feed
  <2> HIDE DEF longer
  <2>. QED BY <2>1, <2>2, <2>3, <2>4
<1>2. Chained(Flush(e), r)
  BY ChainCompleteRun, ChainDrainDeferred, ChainGoIdle DEF Flush
<1>3. Chained(Reset(e), r)
  BY ChainKeeps DEF Reset
<1>4. ASSUME NEW k PROVE Chained(Side(e, k), r)
  BY ChainGoIdle, ChainPush DEF Side
<1>5. Chained(Overrun(e), r)
  BY <1>2, ChainPush DEF Overrun
<1>. QED BY <1>1, <1>2, <1>3, <1>4, <1>5

\* One call of the capture loop.
LEMMA ChainNext ==
  ASSUME enc \in Encoders, Next
  PROVE  Followed(enc'.sink, enc.reader, enc'.reader)
<1>1. Chained(Called, enc.reader)
  <2>1. /\ Called \in [run : Runs, deferred : Seq(Runs), state : States, sink : {<<>>}, reader : Readers]
        /\ Called.sink = <<>> /\ Called.reader = enc.reader
    BY DEF Called, Encoders
  <2>2. Followed(<<>>, enc.reader, enc.reader)
    <3> DEFINE rs == [i \in 0..0 |-> enc.reader]
    <3>1. /\ <<>> \in Seq({}) /\ Len(<<>>) = 0 /\ 1..0 = {}
          /\ rs \in [0..0 -> {enc.reader}] /\ rs[0] = enc.reader
      OBVIOUS
    <3> HIDE DEF rs
    <3>. QED BY <3>1 DEF Followed
  <2>. QED BY <2>1, <2>2 DEF Chained
<1>2. ASSUME NEW e, enc' = e, Chained(e, enc.reader)
      PROVE  Followed(enc'.sink, enc.reader, enc'.reader)
  BY <1>2 DEF Chained
<1>3. Chained(Reset(Called), enc.reader) /\ Chained(Flush(Called), enc.reader)
  BY <1>1, ChainCalls
<1>4. ASSUME NEW x \in Samples, FeedSample(x) PROVE Chained(enc', enc.reader)
  BY <1>1, <1>4, ChainCalls DEF FeedSample
<1>5. ASSUME MarkOverrun PROVE Chained(enc', enc.reader)
  BY <1>1, <1>5, ChainCalls DEF MarkOverrun
<1>6. ASSUME IdleFlush PROVE Chained(enc', enc.reader)
  BY <1>1, <1>6, ChainCalls DEF IdleFlush
<1>7. ASSUME NEW k \in {"tick", "log"}, Telemetry(k) PROVE Chained(enc', enc.reader)
  BY <1>1, <1>7, ChainCalls DEF Telemetry
<1>8. ASSUME Start PROVE Chained(enc', enc.reader)
  BY <1>1, <1>3, <1>8, ChainCalls DEF Start
<1>9. ASSUME Stop PROVE Chained(enc', enc.reader)
  BY <1>1, <1>3, <1>9, ChainCalls DEF Stop
<1>. QED BY <1>2, <1>4, <1>5, <1>6, <1>7, <1>8, <1>9 DEF Next

\* A call's bytes lead the reader from where it was to where it is.
LEMMA FlowsThrough ==
  ASSUME NEW S, NEW out, NEW rd, Flows(S, out, rd),
         NEW sink \in Seq(Tokens), NEW rd2, Followed(sink, rd, rd2)
  PROVE  LET pushed == FlattenSeq([i \in DOMAIN sink |-> Bytes(sink[i])])
         IN  pushed \in Seq(ByteSet) /\ Flows(S \o pushed, out, rd2)
<1> DEFINE ss == [i \in DOMAIN sink |-> Bytes(sink[i])]
<1>1. PICK T, U : \E rs \in [0..Len(sink) -> U] :
        /\ sink \in Seq(T)
        /\ rs[0] = rd /\ rs[Len(sink)] = rd2
        /\ \A i \in 1..Len(sink) : rs[i] = Read(rs[i - 1], sink[i])
  BY DEF Followed
<1>2. PICK rs \in [0..Len(sink) -> U] :
        /\ rs[0] = rd /\ rs[Len(sink)] = rd2
        /\ \A i \in 1..Len(sink) : rs[i] = Read(rs[i - 1], sink[i])
  BY <1>1
<1>3. PICK n \in Nat : n = Len(sink)
  OBVIOUS
<1>4. \A i \in 1..n : sink[i] \in Tokens
  BY <1>3
<1>5. \A i \in 1..n : Bytes(sink[i]) \in Seq(ByteSet)
  BY <1>4, BytesType
<1>6. ss \in Seq(Seq(ByteSet)) /\ Len(ss) = n /\ \A i \in 1..n : ss[i] = Bytes(sink[i])
  <2>1. ss = [i \in 1..n |-> Bytes(sink[i])]
    BY <1>3
  <2>. QED BY <1>5, <2>1
<1> HIDE DEF ss
<1>7. PICK f \in [0..Len(ss) -> Seq(ByteSet)] :
        /\ f[0] = <<>> /\ f[Len(ss)] = FlattenSeq(ss)
        /\ \A i \in 1..Len(ss) : f[i] = f[i - 1] \o ss[i]
  BY <1>6, Flatten
<1>8. S \in Seq(ByteSet)
  BY FlowsGrow
<1> DEFINE P == {i \in 0..n : Flows(S \o f[i], out, rs[i])}
<1>9. 0 \in P
  <2>1. S \o <<>> = S /\ 0 \in 0..n
    BY <1>3, <1>8, ConcatEmptySeq
  <2>. QED BY <1>2, <1>7, <2>1
<1>10. ASSUME NEW i \in 0..(n - 1), i \in P PROVE i + 1 \in P
  <2>1. i + 1 \in 1..n /\ (i + 1) - 1 = i /\ i \in 0..n /\ i + 1 \in 0..n
    BY <1>3
  <2>2. Flows((S \o f[i]) \o Bytes(sink[i + 1]), out, Read(rs[i], sink[i + 1]))
    BY <1>4, <1>10, <2>1, FlowsOn
  <2>3. rs[i + 1] = Read(rs[i], sink[i + 1])
    BY <1>2, <1>3, <2>1
  <2>4. f[i + 1] = f[i] \o Bytes(sink[i + 1]) /\ f[i] \in Seq(ByteSet)
    BY <1>6, <1>7, <2>1
  <2>5. (S \o f[i]) \o Bytes(sink[i + 1]) = S \o (f[i] \o Bytes(sink[i + 1]))
    <3>1. \A a, b, c \in Seq(ByteSet) : (a \o b) \o c = a \o (b \o c)
      BY ConcatAssociative
    <3>. QED BY <1>5, <1>8, <2>1, <2>4, <3>1
  <2>. QED BY <2>1, <2>2, <2>3, <2>4, <2>5
<1> HIDE DEF P
<1>11. n \in P
  <2>1. \A i \in 0..n : i \in P
    BY <1>3, <1>9, <1>10, FromTo
  <2>. QED BY <2>1
<1>12. f[n] = FlattenSeq(ss) /\ f[n] \in Seq(ByteSet) /\ rs[n] = rd2
  BY <1>2, <1>3, <1>6, <1>7
<1>13. FlattenSeq(ss) \in Seq(ByteSet) /\ Flows(S \o FlattenSeq(ss), out, rd2)
  BY <1>11, <1>12 DEF P
<1>. QED BY <1>13 DEF ss

-----------------------------------------------------------------------------
(* The decoder's parsers, on a buffer whose bytes are known. *)

\* The least of a set.
LEMMA MinIs ==
  ASSUME NEW T \in SUBSET Int, NEW m \in T, \A k \in T : m <= k
  PROVE  Min(T) = m
<1>1. Min(T) \in T /\ \A k \in T : Min(T) <= k
  BY DEF Min
<1>2. Min(T) \in Int /\ m \in Int /\ Min(T) <= m /\ m <= Min(T)
  BY <1>1
<1> HIDE DEF Min
<1>. QED BY <1>2

\* Multiples of a width, in order.
LEMMA Times ==
  ASSUME NEW w \in Nat \ {0}, NEW i \in Nat
  PROVE  /\ i * w \in Nat /\ (i + 1) * w = i * w + w /\ i <= i * w
         /\ \A k \in Nat : i <= k => i * w <= k * w
<1>1. i * w \in Nat /\ (i + 1) * w = i * w + w
  OBVIOUS
<1>2. i <= i * w
  <2>1. i * (w - 1) \in Nat /\ i * w = i * (w - 1) + i
    OBVIOUS
  <2>. QED BY <2>1
<1>3. ASSUME NEW k \in Nat, i <= k PROVE i * w <= k * w
  <2>1. k - i \in Nat /\ (k - i) * w \in Nat /\ k * w = i * w + (k - i) * w
    BY <1>3
  <2>. QED BY <1>1, <2>1
<1>. QED BY <1>1, <1>2, <1>3

\* Words up to a sentinel.
WordsAre(b, m, v) ==
  \A i \in 1..m : 2 + (i - 1) * WORD <= Len(b) =>
    b[2 + (i - 1) * WORD].kind = "word" /\ b[2 + (i - 1) * WORD].val = v[i]

LEMMA BlockParses ==
  ASSUME NEW b \in Seq(ByteSet), NEW m \in Nat, NEW v, WordsAre(b, m, v)
  PROVE  /\ Len(b) < 1 + (m + 1) * WORD => ParseBlock(b) = NeedMore
         /\ Len(b) >= 1 + (m + 1) * WORD /\ b[2 + m * WORD].kind = "sentinel" =>
              ParseBlock(b) = Consumed(1 + (m + 1) * WORD, [i \in 1..m |-> v[i]])
<1> USE DEF WordsAre
<1> DEFINE first(i) == 2 + (i - 1) * WORD
           words == {i \in 1..Len(b) : 1 + i * WORD <= Len(b)}
           ends == {i \in words : b[first(i)].kind = "sentinel"}
<1>1. ParseBlock(b) =
        IF ends = {} THEN NeedMore
        ELSE Consumed(1 + Min(ends) * WORD, [i \in 1..(Min(ends) - 1) |-> b[first(i)].val])
  BY DEF ParseBlock
<1>2. WORD \in Nat \ {0} /\ Len(b) \in Nat
  BY DecoderConstants
<1>3. ASSUME NEW i \in Nat \ {0}
      PROVE  /\ i - 1 \in Nat /\ first(i) \in Nat \ {0}
             /\ 1 + i * WORD = first(i) + WORD - 1
  <2>1. i - 1 \in Nat /\ (i - 1) + 1 = i
    OBVIOUS
  <2>2. (i - 1) * WORD \in Nat /\ i * WORD = (i - 1) * WORD + WORD
    BY <1>2, <2>1, Times
  <2>. QED BY <1>2, <2>1, <2>2
<1>4. ASSUME NEW i \in words, i <= m PROVE i \notin ends
  <2>1. i \in 1..m /\ i \in Nat \ {0} /\ 1 + i * WORD <= Len(b)
    BY <1>4
  <2>2. first(i) <= Len(b)
    BY <1>2, <1>3, <2>1
  <2>3. b[first(i)].kind = "word"
    BY <2>1, <2>2
  <2>. QED BY <2>3
<1>5. ASSUME Len(b) < 1 + (m + 1) * WORD PROVE ends = {}
  <2> SUFFICES ASSUME NEW i \in words PROVE i \notin ends
    OBVIOUS
  <2>1. CASE i <= m
    BY <1>4, <2>1
  <2>2. CASE ~(i <= m)
    <3>1. i \in Nat /\ m + 1 \in Nat /\ m + 1 <= i
      BY <2>2
    <3>2. (m + 1) * WORD <= i * WORD /\ (m + 1) * WORD \in Nat /\ i * WORD \in Nat
      BY <1>2, <3>1, Times
    <3>3. 1 + i * WORD <= Len(b)
      OBVIOUS
    <3>4. PICK x \in Nat, y \in Nat : x = (m + 1) * WORD /\ y = i * WORD
      BY <3>2
    <3>5. x <= y /\ 1 + y <= Len(b) /\ Len(b) < 1 + x
      BY <1>5, <3>2, <3>3, <3>4
    <3>. QED BY <1>2, <3>5
  <2>. QED BY <2>1, <2>2
<1>6. ASSUME Len(b) >= 1 + (m + 1) * WORD, b[2 + m * WORD].kind = "sentinel"
      PROVE  ParseBlock(b) = Consumed(1 + (m + 1) * WORD, [i \in 1..m |-> v[i]])
  <2>1. m + 1 \in ends
    <3>0. m + 1 \in Nat /\ (m + 1) - 1 = m
      OBVIOUS
    <3>1. m + 1 <= (m + 1) * WORD /\ (m + 1) * WORD \in Nat
      BY <1>2, <3>0, Times
    <3>2. m + 1 \in words
      BY <1>2, <1>6, <3>0, <3>1
    <3>3. first(m + 1) = 2 + m * WORD
      BY <3>0
    <3>. QED BY <1>6, <3>2, <3>3
  <2>2. \A k \in ends : m + 1 <= k /\ k \in Int
    <3> SUFFICES ASSUME NEW k \in ends PROVE m + 1 <= k /\ k \in Int
      OBVIOUS
    <3>1. k \in words /\ k \in Nat
      OBVIOUS
    <3>2. ~(k <= m)
      BY <1>4, <3>1
    <3>. QED BY <3>1, <3>2
  <2> HIDE DEF ends
  <2>3. Min(ends) = m + 1
    BY <2>1, <2>2, MinIs
  <2>4. ParseBlock(b) = Consumed(1 + (m + 1) * WORD, [i \in 1..((m + 1) - 1) |-> b[first(i)].val])
    BY <1>1, <2>1, <2>3
  <2>5. (m + 1) - 1 = m
    OBVIOUS
  <2>6. ASSUME NEW i \in 1..m PROVE b[first(i)].val = v[i]
    <3>1. i \in Nat \ {0} /\ i <= m + 1 /\ m + 1 \in Nat /\ i \in Nat
      OBVIOUS
    <3>2. i * WORD <= (m + 1) * WORD /\ i * WORD \in Nat /\ (m + 1) * WORD \in Nat
      BY <1>2, <3>1, Times
    <3>3. first(i) <= Len(b)
      <4>1. first(i) \in Nat \ {0} /\ 1 + i * WORD = first(i) + WORD - 1
        BY <1>3, <3>1
      <4>2. PICK x \in Nat, y \in Nat, z \in Nat : x = (m + 1) * WORD /\ y = i * WORD /\ z = first(i)
        BY <3>2, <4>1
      <4>3. y <= x /\ 1 + y = z + WORD - 1 /\ 1 + x <= Len(b)
        BY <1>6, <3>2, <4>1, <4>2
      <4>4. z <= Len(b)
        BY <1>2, <4>3
      <4>. QED BY <4>2, <4>4
    <3>. QED BY <3>3
  <2> HIDE DEF first
  <2>7. [i \in 1..((m + 1) - 1) |-> b[first(i)].val] = [i \in 1..m |-> v[i]]
    BY <2>5, <2>6
  <2>. QED BY <2>4, <2>7
<1> HIDE DEF ends
<1>. QED BY <1>1, <1>5, <1>6

\* What the length bytes v stand for: runs of x and y in turn.
Runs2(v, m, x, y) == [i \in 1..m |-> Repeat(v[i], IF i % 2 = 1 THEN x ELSE y)]

\* Length bytes up to a zero.
LEMMA Repeat2Parses ==
  ASSUME NEW b \in Seq(ByteSet), NEW m \in Nat, NEW v, NEW body, body = 2 + 2 * WORD,
         \A i \in 1..m : body + i - 1 <= Len(b) =>
           b[body + i - 1] # Nul /\ b[body + i - 1].val = v[i]
  PROVE  /\ Len(b) < body + m => ParseRepeat2(b) = NeedMore
         /\ Len(b) >= body + m /\ b[body + m] = Nul =>
              ParseRepeat2(b) =
                Consumed(body + m, FlattenSeq(Runs2(v, m, b[2].val, b[2 + WORD].val)))
<1> DEFINE zeros == Zeros(b, body)
           lens == SubSeq(b, body, Min(zeros) - 1)
           value(i) == IF i % 2 = 1 THEN b[2].val ELSE b[2 + WORD].val
<1>1. ParseRepeat2(b) =
        IF Len(b) < body - 1 \/ zeros = {} THEN NeedMore
        ELSE Consumed(Min(zeros), FlattenSeq([i \in DOMAIN lens |-> Repeat(lens[i].val, value(i))]))
  BY DEF ParseRepeat2
<1>2. WORD \in Nat \ {0} /\ Len(b) \in Nat /\ body \in Nat \ {0}
  BY DecoderConstants
<1>3. ASSUME NEW j \in zeros PROVE j \in Int /\ body + m <= j /\ j <= Len(b)
  <2>1. j \in body..Len(b) /\ b[j] = Nul
    BY DEF Zeros
  <2>2. ASSUME j < body + m PROVE FALSE
    <3>1. PICK i \in 1..m : body + i - 1 = j
      <4>1. j - body + 1 \in 1..m /\ body + (j - body + 1) - 1 = j
        BY <1>2, <2>1, <2>2
      <4>. QED BY <4>1
    <3>2. b[j] # Nul
      <4>1. body + i - 1 <= Len(b)
        BY <2>1, <3>1
      <4>2. b[body + i - 1] # Nul
        BY <4>1
      <4>. QED BY <3>1, <4>2
    <3>. QED BY <2>1, <3>2
  <2>. QED BY <1>2, <2>1, <2>2
<1>4. ASSUME Len(b) < body + m PROVE zeros = {}
  BY <1>2, <1>3, <1>4
<1>5. ASSUME Len(b) >= body + m, b[body + m] = Nul
      PROVE  ParseRepeat2(b) = Consumed(body + m, FlattenSeq(Runs2(v, m, b[2].val, b[2 + WORD].val)))
  <2>1. body + m \in zeros
    BY <1>2, <1>5 DEF Zeros
  <2>2. zeros \in SUBSET Int /\ \A k \in zeros : body + m <= k
    BY <1>3
  <2> HIDE DEF zeros
  <2>3. Min(zeros) = body + m
    BY <2>1, <2>2, MinIs
  <2>4. DOMAIN lens = 1..m /\ \A i \in 1..m : lens[i] = b[body + i - 1]
    <3>2. PICK h \in Int : h = body + m - 1
      BY <1>2
    <3>1. lens = SubSeq(b, body, h)
      <4>1. Min(zeros) - 1 = h
        BY <1>2, <2>3, <3>2
      <4>. QED BY <4>1, Zenon
    <3>3. body \in Int /\ \A i \in body..h : b[i] \in ByteSet
      BY <1>2, <1>5, <3>2
    <3>4. /\ SubSeq(b, body, h) \in Seq(ByteSet)
          /\ Len(SubSeq(b, body, h)) = IF body <= h THEN h - body + 1 ELSE 0
          /\ \A i \in 1..(h - body + 1) : SubSeq(b, body, h)[i] = b[body + i - 1]
      BY <3>3, SubSeqProperties
    <3>5. h - body + 1 = m /\ (~(body <= h) => m = 0)
      BY <1>2, <3>2
    <3>6. Len(SubSeq(b, body, h)) = m /\ lens = SubSeq(b, body, h)
      BY <1>2, <3>1, <3>4, <3>5
    <3> HIDE DEF lens
    <3>7. DOMAIN lens = 1..m
      BY <3>4, <3>6
    <3>8. \A i \in 1..m : lens[i] = b[body + i - 1]
      BY <3>4, <3>5, <3>6
    <3>. QED BY <3>7, <3>8
  <2>5. ASSUME NEW i \in 1..m PROVE lens[i].val = v[i]
    <3>1. body + i - 1 <= Len(b)
      BY <1>2, <1>5
    <3>. QED BY <2>4, <3>1
  <2>6. ParseRepeat2(b) = Consumed(Min(zeros), FlattenSeq([i \in DOMAIN lens |-> Repeat(lens[i].val, value(i))]))
    <3>1. ~(Len(b) < body - 1)
      BY <1>2, <1>5
    <3>. QED BY <1>1, <2>1, <3>1
  <2> HIDE DEF lens, value
  <2>7. [i \in DOMAIN lens |-> Repeat(lens[i].val, value(i))] = [i \in 1..m |-> Repeat(v[i], value(i))]
    BY <2>4, <2>5
  <2>8. Runs2(v, m, b[2].val, b[2 + WORD].val) = [i \in 1..m |-> Repeat(v[i], value(i))]
    BY Zenon DEF Runs2, value
  <2>. QED BY <2>3, <2>6, <2>7, <2>8
<1> HIDE DEF zeros
<1>. QED BY <1>1, <1>4, <1>5

-----------------------------------------------------------------------------
(* The front of a stream, cut anywhere. *)

\* What a parse of the first q bytes of the stream S may be: nothing yet, or a
\* frame after which the rest of the stream still leads to rd.
FrontOK(S, q, out, rd, p) ==
  /\ p.bad = FALSE /\ p.n \in 0..q
  /\ p.n = 0 => p = NeedMore
  /\ p.n > 0 => /\ Flows(SubSeq(S, p.n + 1, Len(S)), out \o p.items, rd)
                /\ Len(out) <= Len(out \o p.items)
  /\ q = Len(S) /\ q > 0 /\ rd.open = "none" => p.n > 0

\* A frame that ends with token j is consumed if all of it is there.
LEMMA FrontEnds ==
  ASSUME NEW S, NEW n, NEW toks, NEW rs, NEW ps, Trace(S, n, toks, rs, ps),
         NEW q \in 0..Len(S), NEW j \in 1..n, rs[j].open = "none",
         NEW items, rs[j].out = rs[0].out \o items,
         NEW p, p = IF ps[j] <= q THEN Consumed(ps[j], items) ELSE NeedMore
  PROVE  FrontOK(S, q, rs[0].out, rs[n], p)
<1>1. /\ S \in Seq(ByteSet) /\ n \in Nat /\ ps \in [0..n -> Nat]
      /\ ps[0] = 0 /\ ps[n] = Len(S)
  BY DEF Trace
<1>2. 0 \in 0..n /\ j \in 0..n /\ n \in j..n
  BY <1>1
<1>3. ps[j] \in Nat /\ ps[j] <= Len(S) /\ ps[j] > 0
  <2>1. ps[0] + (j - 0) <= ps[j]
    BY <1>1, <1>2, TraceRises
  <2>2. ps[j] + (n - j) <= ps[n]
    BY <1>2, TraceRises
  <2>. QED BY <1>1, <1>2, <2>1, <2>2
<1>4. Flows(SubSeq(S, ps[j] + 1, Len(S)), rs[j].out, rs[n])
  BY <1>2, TraceDrop
<1>5. CASE ps[j] <= q
  <2>1. p.n = ps[j] /\ p.items = items /\ p.bad = FALSE
    BY <1>5 DEF Consumed
  <2>2. Len(rs[0].out) <= Len(rs[j].out)
    <3>1. PICK x \in Seq(Items) : rs[j].out = rs[0].out \o x
      <4>1. Grows(rs[0], rs[j])
        BY <1>2, TraceGrows
      <4>. QED BY <4>1 DEF Grows
    <3>2. rs[0].out \in Seq(Items)
      <4>1. rs[0] \in Readers
        BY <1>2 DEF Trace
      <4>. QED BY <4>1 DEF Readers
    <3>3. Len(rs[0].out \o x) = Len(rs[0].out) + Len(x)
      BY <3>2, ConcatProperties
    <3>. QED BY <3>1, <3>2, <3>3
  <2>3. Len(rs[0].out) <= Len(rs[0].out \o p.items)
    BY <2>1, <2>2
  <2>4. Flows(SubSeq(S, p.n + 1, Len(S)), rs[0].out \o p.items, rs[n])
    BY <1>4, <2>1
  <2>5. p.n \in 0..q /\ p.n > 0 /\ p.n # 0
    BY <1>1, <1>3, <1>5, <2>1
  <2>. QED BY <2>1, <2>3, <2>4, <2>5 DEF FrontOK
<1>6. CASE ~(ps[j] <= q)
  <2>1. p = NeedMore /\ p.n = 0 /\ p.bad = FALSE
    BY <1>6 DEF NeedMore
  <2>2. q # Len(S)
    BY <1>1, <1>3, <1>6
  <2>3. ~(p.n > 0) /\ p.n \in 0..q
    BY <1>1, <2>1
  <2>. QED BY <2>1, <2>2, <2>3 DEF FrontOK
<1>. QED BY <1>5, <1>6

\* In an open frame the decoder may wait.
LEMMA FrontOpen ==
  ASSUME NEW S, NEW out, NEW rd, rd.open # "none", NEW q \in Nat
  PROVE  FrontOK(S, q, out, rd, NeedMore)
BY DEF FrontOK, NeedMore

LEMMA Prefix ==
  ASSUME NEW S \in Seq(ByteSet), NEW q \in 0..Len(S)
  PROVE  /\ SubSeq(S, 1, q) \in Seq(ByteSet) /\ Len(SubSeq(S, 1, q)) = q
         /\ \A i \in 1..q : SubSeq(S, 1, q)[i] = S[i]
OBVIOUS

\* The first token, and its bytes.
LEMMA TraceFirst ==
  ASSUME NEW S, NEW n, NEW toks, NEW rs, NEW ps, Trace(S, n, toks, rs, ps),
         rs[0].open = "none", rs[n].open # "desync", Len(S) > 0
  PROVE  /\ 1 \in 1..n /\ toks[1] \in Tokens /\ rs[0] \in Readers
         /\ rs[1] = Read(rs[0], toks[1]) /\ rs[1] \in Readers
         /\ ps[1] = Len(Bytes(toks[1])) /\ ps[1] <= Len(S)
         /\ \A k \in 1..ps[1] : S[k] = Bytes(toks[1])[k]
         /\ toks[1].kind \in {"block", "run", "repeat2", "tick", "log", "started", "stopped", "overrun"}
<1>1. /\ S \in Seq(ByteSet) /\ n \in Nat /\ toks \in [1..n -> Tokens]
      /\ rs \in [0..n -> Readers] /\ ps \in [0..n -> Nat] /\ ps[0] = 0 /\ ps[n] = Len(S)
  BY DEF Trace
<1>2. 1 \in 1..n /\ 1 \in 0..n /\ 0 \in 0..n /\ 1 - 1 = 0 /\ n \in 1..n
  <2>1. n # 0
    BY <1>1
  <2>. QED BY <1>1, <2>1
<1>3. /\ rs[1] = Read(rs[0], toks[1]) /\ ps[1] = ps[0] + Len(Bytes(toks[1]))
      /\ \A k \in 1..Len(Bytes(toks[1])) : S[ps[0] + k] = Bytes(toks[1])[k]
  BY <1>2 DEF Trace
<1>4. toks[1] \in Tokens /\ rs[0] \in Readers /\ rs[1] \in Readers /\ Len(Bytes(toks[1])) \in Nat
  BY <1>1, <1>2, BytesType
<1>5. ps[1] = Len(Bytes(toks[1])) /\ \A k \in 1..ps[1] : S[k] = Bytes(toks[1])[k]
  <2>1. ps[1] = Len(Bytes(toks[1]))
    BY <1>1, <1>3, <1>4
  <2>2. ASSUME NEW k \in 1..ps[1] PROVE S[k] = Bytes(toks[1])[k]
    <3>1. ps[0] + k = k
      BY <1>1, <1>2
    <3>. QED BY <1>3, <2>1, <3>1
  <2>. QED BY <2>1, <2>2
<1>6. ps[1] <= Len(S)
  <2>1. ps[1] + (n - 1) <= ps[n] /\ ps[1] \in Nat
    BY <1>2, TraceRises
  <2>. QED BY <1>1, <1>2, <2>1
<1>7. rs[1].open # "desync"
  BY <1>2, TraceSane
<1>8. toks[1].kind \in {"block", "run", "repeat2", "tick", "log", "started", "stopped", "overrun"}
  <2>1. toks[1].kind \in TokenKinds
    BY <1>4, BytesType
  <2>. QED BY <1>3, <1>4, <1>7, <2>1 DEF Read, SideBand, TokenKinds, Readers
<1>. QED BY <1>2, <1>3, <1>4, <1>5, <1>6, <1>8

\* The frames that are one token.
LEMMA FrontSingle ==
  ASSUME NEW S, NEW n, NEW toks, NEW rs, NEW ps, Trace(S, n, toks, rs, ps),
         rs[0].open = "none", rs[n].open # "desync", NEW q \in 1..Len(S),
         toks[1].kind \in {"run", "tick", "log", "started", "stopped", "overrun"}
  PROVE  FrontOK(S, q, rs[0].out, rs[n], ParseOne(SubSeq(S, 1, q)))
<1> DEFINE t == toks[1]
           B == Bytes(t)
           b == SubSeq(S, 1, q)
           r == rs[0]
<1>1. S \in Seq(ByteSet) /\ Len(S) > 0 /\ Len(S) \in Nat /\ q \in 0..Len(S) /\ q \in Nat
  BY DEF Trace
<1>2. /\ 1 \in 1..n /\ t \in Tokens /\ r \in Readers /\ rs[1] = Read(r, t)
      /\ ps[1] = Len(B) /\ \A k \in 1..ps[1] : S[k] = B[k]
  BY <1>1, TraceFirst
<1>3. b \in Seq(ByteSet) /\ Len(b) = q /\ \A i \in 1..q : b[i] = S[i]
  BY <1>1, Prefix
<1>4. Layout(t)
  BY <1>2, ByteLayout
<1>5. r.out \in Seq(Items) /\ r.out \o <<>> = r.out
  <2>1. r.out \in Seq(Items)
    BY <1>2 DEF Readers
  <2>. QED BY <2>1, ConcatEmptySeq
<1>6. \A k \in 1..ps[1] : k <= q => b[k] = B[k]
  BY <1>1, <1>2, <1>3
<1> HIDE DEF B, b, r, t
<1>7. ASSUME NEW items, rs[1].open = "none", rs[1].out = r.out \o items,
             ParseOne(b) = IF ps[1] <= q THEN Consumed(ps[1], items) ELSE NeedMore
      PROVE  FrontOK(S, q, rs[0].out, rs[n], ParseOne(SubSeq(S, 1, q)))
  <2>1. rs[1].out = rs[0].out \o items
    BY <1>7 DEF r
  <2>2. FrontOK(S, q, rs[0].out, rs[n], ParseOne(b))
    BY <1>1, <1>2, <1>7, <2>1, FrontEnds
  <2>. QED BY <2>2 DEF b
<1>8. b # <<>> /\ (ps[1] >= 1 => b[1] = B[1])
  BY <1>1, <1>3, <1>6, TraceFirst, BytesType
<1>9. CASE t.kind = "run"
  <2>1. /\ Len(B) = 1 + HALF + WORD /\ B[1].kind = "tag" /\ B[1].val = "run"
        /\ B[2].val = t.n /\ B[2 + HALF].val = t.val
    BY <1>4, <1>9 DEF Layout, Starts, B
  <2>2. HALF \in Nat \ {0} /\ WORD \in Nat \ {0}
    BY DecoderConstants
  <2>3. ParseOne(b) = IF Len(b) < 1 + HALF + WORD THEN NeedMore
                      ELSE Consumed(1 + HALF + WORD, Repeat(b[2].val, b[2 + HALF].val))
    BY <1>2, <1>8, <2>1, <2>2 DEF ParseOne
  <2>4. ASSUME ps[1] <= q PROVE b[2].val = t.n /\ b[2 + HALF].val = t.val
    BY <1>1, <1>2, <1>6, <2>1, <2>2, <2>4
  <2>5. rs[1].open = "none" /\ rs[1].out = r.out \o Repeat(t.n, t.val)
    BY <1>2, <1>9 DEF Read, ReadRun, Readers, r
  <2>6. ParseOne(b) = IF ps[1] <= q THEN Consumed(ps[1], Repeat(t.n, t.val)) ELSE NeedMore
    BY <1>1, <1>2, <1>3, <2>1, <2>2, <2>3, <2>4
  <2>. QED BY <1>7, <2>5, <2>6
<1>10. CASE t.kind \in {"tick", "started", "stopped", "overrun"}
  <2> DEFINE items == IF t.kind = "overrun" THEN <<Gap>> ELSE <<>>
  <2>1. B[1].kind = "tag" /\ B[1].val = t.kind /\ Len(B) >= 1 /\ Len(B) \in Nat
    <3>1. B[1].kind = "tag" /\ B[1].val = t.kind
      BY <1>4, <1>10 DEF Layout, Starts, B
    <3>2. Len(B) \in Nat \ {0}
      BY <1>2, BytesType DEF B
    <3>. QED BY <3>1, <3>2
  <2>2. ParseOne(b) = Fixed(b, Len(B), items)
    <3>1. CASE t.kind = "tick"
      <4>1. Len(B) = 1 + TICK
        BY <1>4, <3>1 DEF Layout, Starts, B
      <4>. QED BY <1>2, <1>8, <2>1, <3>1, <4>1 DEF ParseOne
    <3>2. CASE t.kind = "overrun"
      <4>1. Len(B) = 1 + WORD
        BY <1>4, <3>2 DEF Layout, Starts, B
      <4>. QED BY <1>2, <1>8, <2>1, <3>2, <4>1 DEF ParseOne
    <3>3. CASE t.kind \in {"started", "stopped"}
      <4>1. Len(B) = 1
        BY <1>4, <3>3 DEF Layout, Starts, B
      <4>. QED BY <1>2, <1>8, <2>1, <3>3, <4>1 DEF ParseOne
    <3>. QED BY <1>10, <3>1, <3>2, <3>3
  <2>3. rs[1].open = "none" /\ rs[1].out = r.out \o items
    <3>1. CASE t.kind = "overrun"
      <4>1. rs[1].open = "none" /\ rs[1].out = Append(r.out, Gap)
        BY <1>2, <3>1 DEF Read, Readers, r
      <4>2. Append(r.out, Gap) = r.out \o <<Gap>>
        BY <1>5
      <4>. QED BY <3>1, <4>1, <4>2
    <3>2. CASE t.kind # "overrun"
      <4>1. rs[1] = r
        BY <1>2, <1>10, <3>2 DEF Read, SideBand, r
      <4>2. r.open = "none"
        BY DEF r
      <4>. QED BY <1>5, <3>2, <4>1, <4>2
    <3>. QED BY <3>1, <3>2
  <2> HIDE DEF items
  <2>4. ParseOne(b) = IF ps[1] <= q THEN Consumed(ps[1], items) ELSE NeedMore
    <3>1. ParseOne(b) = IF q < Len(B) THEN NeedMore ELSE Consumed(Len(B), items)
      BY <1>3, <2>2 DEF Fixed
    <3>2. ps[1] = Len(B) /\ (q < Len(B) <=> ~(ps[1] <= q))
      BY <1>1, <1>2, <2>1
    <3>. QED BY <3>1, <3>2
  <2>. QED BY <1>7, <2>3, <2>4
<1>11. CASE t.kind = "log"
  <2>1. /\ Len(B) = 3 /\ B[1].kind = "tag" /\ B[1].val = "log"
        /\ B[2].kind = "text" /\ B[3] = Nul
    BY <1>4, <1>11 DEF Layout, Starts, B
  <2>2. B[2] # Nul
    BY <2>1 DEF Nul, Byte, Field
  <2>3. ParseOne(b) = ParseLog(b)
    BY <1>2, <1>8, <2>1 DEF ParseOne
  <2> DEFINE zeros == Zeros(b, 2)
  <2>4. zeros = {j \in 2..q : b[j] = Nul}
    BY <1>3 DEF Zeros
  <2>5. 2 \notin zeros
    BY <1>2, <1>6, <2>1, <2>2, <2>4
  <2>6. ParseLog(b) = IF ps[1] <= q THEN Consumed(ps[1], <<>>) ELSE NeedMore
    <3>1. CASE q >= 3
      <4>1. 3 \in zeros
        BY <1>1, <1>2, <1>6, <2>1, <2>4, <3>1
      <4>2. zeros \in SUBSET Int /\ \A k \in zeros : 3 <= k
        BY <1>1, <2>4, <2>5
      <4> HIDE DEF zeros
      <4>3. Min(zeros) = 3
        BY <4>1, <4>2, MinIs
      <4>. QED BY <1>1, <1>2, <2>1, <3>1, <4>1, <4>3 DEF ParseLog, zeros
    <3>2. CASE ~(q >= 3)
      <4>1. zeros = {}
        BY <1>1, <2>4, <2>5, <3>2
      <4>. QED BY <1>1, <1>2, <2>1, <3>2, <4>1 DEF ParseLog
    <3>. QED BY <3>1, <3>2
  <2>7. rs[1].open = "none" /\ rs[1].out = r.out \o <<>>
    <3>1. rs[1] = r
      BY <1>2, <1>11 DEF Read, SideBand, r
    <3>2. r.open = "none"
      BY DEF r
    <3>. QED BY <1>5, <3>1, <3>2
  <2>. QED BY <1>7, <2>3, <2>6, <2>7
<1>12. t.kind \in {"run", "tick", "log", "started", "stopped", "overrun"}
  BY DEF t
<1>. QED BY <1>9, <1>10, <1>11, <1>12

LEMMA AppendConcat ==
  ASSUME NEW s \in Seq(Items), NEW v \in Seq(Items), NEW x \in Items
  PROVE  Append(s \o v, x) = s \o Append(v, x)
<1>1. <<x>> \in Seq(Items) /\ s \o v \in Seq(Items)
  BY ConcatProperties
<1>2. Append(s \o v, x) = (s \o v) \o <<x>> /\ Append(v, x) = v \o <<x>>
  BY <1>1, AppendIsConcat
<1>. QED BY <1>1, <1>2, ItemsAssociative

\* After m tokens, all words but the first.
InBlock(toks, rs, ps, m) ==
  /\ rs[m].open = "block" /\ ps[m] = 1 + (m - 1) * WORD
  /\ rs[m].out = rs[0].out \o [k \in 1..(m - 1) |-> toks[k + 1].val]

\* A BLOCK frame: its tag, its words, and perhaps its sentinel.
LEMMA BlockTrace ==
  ASSUME NEW S, NEW n, NEW toks, NEW rs, NEW ps, Trace(S, n, toks, rs, ps),
         rs[0].open = "none", rs[n].open # "desync", Len(S) > 0, toks[1].kind = "block",
         NEW m \in 1..n, \A i \in 2..m : toks[i].kind = "word"
  PROVE  InBlock(toks, rs, ps, m)
<1>1. /\ S \in Seq(ByteSet) /\ n \in Nat /\ toks \in [1..n -> Tokens]
      /\ rs \in [0..n -> Readers] /\ ps \in [0..n -> Nat]
  BY DEF Trace
<1>2. /\ 1 \in 1..n /\ toks[1] \in Tokens /\ rs[0] \in Readers /\ rs[1] = Read(rs[0], toks[1])
      /\ ps[1] = Len(Bytes(toks[1]))
  BY TraceFirst
<1>3. WORD \in Nat \ {0}
  BY DecoderConstants
<1> DEFINE vals(l) == [k \in 1..(l - 1) |-> toks[k + 1].val]
           P == {l \in 1..m : rs[l].open = "block" /\ ps[l] = 1 + (l - 1) * WORD
                              /\ rs[l].out = rs[0].out \o vals(l)}
<1>4. rs[0].out \in Seq(Items)
  BY <1>2 DEF Readers
<1>5. ASSUME NEW l \in 1..m PROVE vals(l) \in Seq(Items) /\ Len(vals(l)) = l - 1
  <2>1. \A k \in 1..(l - 1) : toks[k + 1].val \in Items
    <3> SUFFICES ASSUME NEW k \in 1..(l - 1) PROVE toks[k + 1].val \in Items
      OBVIOUS
    <3>1. k + 1 \in 2..m /\ k + 1 \in 1..n
      BY <1>1
    <3>2. toks[k + 1].kind = "word" /\ toks[k + 1] \in Tokens
      BY <1>1, <3>1
    <3>. QED BY <3>2 DEF Tokens, SideBand, Items
  <2>2. l - 1 \in Nat
    BY <1>1
  <2>. QED BY <2>1, <2>2
<1>6. 1 \in P
  <2>1. rs[1].open = "block" /\ rs[1].out = rs[0].out
    BY <1>2 DEF Read, ReadBlock, Readers
  <2>2. ps[1] = 1
    <3>1. Layout(toks[1])
      BY <1>2, ByteLayout
    <3>. QED BY <1>2, <3>1 DEF Layout, Starts
  <2>3. 1 \in 1..m /\ (1 - 1) * WORD = 0
    BY <1>1, <1>3
  <2>4. vals(1) = <<>>
    BY <1>5, <2>3
  <2>5. rs[0].out \o <<>> = rs[0].out
    BY <1>4, ConcatEmptySeq
  <2>6. ps[1] = 1 + (1 - 1) * WORD
    BY <2>2, <2>3
  <2>7. rs[1].out = rs[0].out \o vals(1)
    BY <2>1, <2>4, <2>5
  <2> HIDE DEF vals
  <2>. QED BY <2>1, <2>3, <2>6, <2>7
<1>7. ASSUME NEW l \in 1..(m - 1), l \in P PROVE l + 1 \in P
  <2>1. l + 1 \in 2..m /\ l + 1 \in 1..n /\ l + 1 \in 1..m /\ (l + 1) - 1 = l /\ l \in 0..n /\ l \in 1..m
        /\ l \in Nat /\ l - 1 \in Nat /\ (l - 1) + 1 = l
    BY <1>1
  <2> DEFINE t == toks[l + 1]
  <2>2. t \in Tokens /\ t.kind = "word" /\ rs[l] \in Readers /\ ps[l] \in Nat
    BY <1>1, <2>1
  <2>3. rs[l + 1] = Read(rs[l], t) /\ ps[l + 1] = ps[l] + Len(Bytes(t))
    BY <2>1 DEF Trace
  <2>4. Len(Bytes(t)) = WORD
    <3>1. Layout(t)
      BY <2>2, ByteLayout
    <3>. QED BY <2>2, <3>1 DEF Layout, Starts
  <2> HIDE DEF t
  <2>5. rs[l].open = "block" /\ ps[l] = 1 + (l - 1) * WORD /\ rs[l].out = rs[0].out \o vals(l)
    BY <1>7
  <2>6. rs[l + 1].open = "block" /\ rs[l + 1].out = Append(rs[l].out, t.val)
    BY <2>2, <2>3, <2>5 DEF Read, ReadWord, Readers
  <2>7. ps[l + 1] = 1 + l * WORD
    <3>1. ((l - 1) + 1) * WORD = (l - 1) * WORD + WORD /\ (l - 1) * WORD \in Nat
      BY <1>3, <2>1, Times
    <3>. QED BY <1>3, <2>1, <2>3, <2>4, <2>5, <3>1
  <2>8. vals(l + 1) = Append(vals(l), t.val)
    <3>1. vals(l) \in Seq(Items) /\ Len(vals(l)) = l - 1 /\ vals(l + 1) \in Seq(Items) /\ Len(vals(l + 1)) = l
      BY <1>5, <2>1
    <3>2. ASSUME NEW k \in 1..l PROVE vals(l + 1)[k] = Append(vals(l), t.val)[k]
      <4>1. vals(l + 1)[k] = toks[k + 1].val
        BY <2>1
      <4>2. CASE k = l
        <5>1. Append(vals(l), t.val)[k] = t.val
          BY <2>1, <3>1, <4>2
        <5>. QED BY <4>1, <4>2, <5>1 DEF t
      <4>3. CASE k # l
        <5>1. k \in 1..(l - 1)
          BY <2>1, <4>3
        <5>2. Append(vals(l), t.val)[k] = vals(l)[k]
          BY <3>1, <5>1
        <5>. QED BY <4>1, <5>1, <5>2
      <4>. QED BY <4>2, <4>3
    <3> HIDE DEF vals
    <3>3. Len(Append(vals(l), t.val)) = l /\ Append(vals(l), t.val) \in Seq(Items \cup {t.val}) /\ vals(l + 1) \in Seq(Items \cup {t.val})
      BY <2>1, <3>1
    <3>. QED BY <3>1, <3>2, <3>3, SeqEqual
  <2>9. rs[l + 1].out = rs[0].out \o vals(l + 1)
    <3>1. vals(l) \in Seq(Items)
      BY <1>5, <2>1
    <3>2. t.val \in Items
      BY <2>2 DEF Tokens, SideBand, Items
    <3> HIDE DEF vals
    <3>3. Append(rs[0].out \o vals(l), t.val) = rs[0].out \o Append(vals(l), t.val)
      BY <1>4, <3>1, <3>2, AppendConcat
    <3>. QED BY <2>5, <2>6, <2>8, <3>3
  <2> HIDE DEF vals
  <2>. QED BY <2>1, <2>6, <2>7, <2>9
<1> HIDE DEF P
<1>8. m \in P
  <2>1. \A l \in 1..m : l \in P
    <3>1. 1 \in Nat /\ m \in Nat
      BY <1>1
    <3>. QED BY <1>6, <1>7, <3>1, FromTo
  <2>. QED BY <1>1, <2>1
<1>. QED BY <1>8 DEF P, InBlock

\* A BLOCK at the front is consumed with its sentinel, or waited for.
LEMMA FrontBlock ==
  ASSUME NEW S, NEW n, NEW toks, NEW rs, NEW ps, Trace(S, n, toks, rs, ps),
         rs[0].open = "none", rs[n].open # "desync", NEW q \in 1..Len(S),
         toks[1].kind = "block"
  PROVE  FrontOK(S, q, rs[0].out, rs[n], ParseOne(SubSeq(S, 1, q)))
<1> DEFINE b == SubSeq(S, 1, q)
<1>1. /\ S \in Seq(ByteSet) /\ Len(S) > 0 /\ Len(S) \in Nat /\ q \in 0..Len(S) /\ q \in Nat
      /\ n \in Nat /\ toks \in [1..n -> Tokens] /\ rs \in [0..n -> Readers] /\ ps \in [0..n -> Nat]
      /\ ps[n] = Len(S)
  BY DEF Trace
<1>2. /\ 1 \in 1..n /\ ps[1] = Len(Bytes(toks[1])) /\ \A k \in 1..ps[1] : S[k] = Bytes(toks[1])[k]
  BY <1>1, TraceFirst
<1>3. b \in Seq(ByteSet) /\ Len(b) = q /\ \A i \in 1..q : b[i] = S[i]
  BY <1>1, Prefix
<1>4. WORD \in Nat \ {0}
  BY DecoderConstants
<1> HIDE DEF b
<1>5. ParseOne(b) = ParseBlock(b)
  <2>1. Layout(toks[1])
    BY <1>1, <1>2, ByteLayout
  <2>2. ps[1] = 1 /\ S[1].kind = "tag" /\ S[1].val = "block"
    BY <1>2, <2>1 DEF Layout, Starts
  <2>3. b # <<>> /\ b[1].kind = "tag" /\ b[1].val = "block"
    BY <1>1, <1>3, <2>2
  <2>. QED BY <2>3 DEF ParseOne
\* The bytes of the m-th word, and of what follows the words.
<1>6. ASSUME NEW m \in Nat, m + 1 \in 1..n, \A i \in 2..(m + 1) : toks[i].kind = "word"
      PROVE  /\ rs[m + 1].open = "block" /\ ps[m + 1] = 1 + m * WORD
             /\ rs[m + 1].out = rs[0].out \o [k \in 1..m |-> toks[k + 1].val]
  <2>1. PICK h \in 1..n : h = m + 1
    BY <1>6
  <2>2. h - 1 = m /\ \A i \in 2..h : toks[i].kind = "word"
    BY <1>6, <2>1
  <2>3. InBlock(toks, rs, ps, h)
    BY <1>1, <2>2, BlockTrace
  <2>. QED BY <2>1, <2>2, <2>3 DEF InBlock
<1>7. ASSUME NEW m \in Nat, m + 1 \in 1..n, \A i \in 2..(m + 1) : toks[i].kind = "word",
             NEW i \in 1..m, 2 + (i - 1) * WORD <= Len(b)
      PROVE  b[2 + (i - 1) * WORD].kind = "word" /\ b[2 + (i - 1) * WORD].val = toks[i + 1].val
  <2>1. /\ i - 1 \in Nat /\ (i - 1) + 1 = i /\ i \in 1..n /\ i + 1 \in 1..n /\ (i + 1) - 1 = i
        /\ i + 1 \in 2..(m + 1)
    BY <1>1, <1>7
  <2>2. \A l \in 2..((i - 1) + 1) : toks[l].kind = "word"
    <3>1. \A l \in 2..i : l \in 2..(m + 1)
      BY <1>1
    <3>. QED BY <1>7, <2>1, <3>1
  <2>3. ps[i] = 1 + (i - 1) * WORD /\ (i - 1) * WORD \in Nat
    BY <1>4, <1>6, <2>1, <2>2, Times
  <2>4. Starts(Bytes(toks[i + 1]), WORD, "word", toks[i + 1].val)
    <3>1. Layout(toks[i + 1]) /\ toks[i + 1].kind = "word"
      BY <1>1, <1>7, <2>1, ByteLayout
    <3>. QED BY <3>1 DEF Layout
  <2>5. S[ps[i] + 1] = Bytes(toks[i + 1])[1]
    <3>1. \A k \in 1..Len(Bytes(toks[i + 1])) : S[ps[i] + k] = Bytes(toks[i + 1])[k]
      BY <2>1 DEF Trace
    <3>2. 1 \in 1..Len(Bytes(toks[i + 1]))
      BY <1>4, <2>4 DEF Starts
    <3>. QED BY <3>1, <3>2
  <2>6. ps[i] + 1 = 2 + (i - 1) * WORD /\ 2 + (i - 1) * WORD \in 1..q
    <3>1. PICK z \in Nat : z = (i - 1) * WORD
      BY <2>3
    <3>2. ps[i] = 1 + z /\ 2 + z <= q /\ q \in Nat
      BY <1>1, <1>3, <1>7, <2>3, <3>1, Zenon
    <3>3. ps[i] + 1 = 2 + z /\ 2 + z \in 1..q
      BY <3>2
    <3>. QED BY <3>1, <3>3, Zenon
  <2>7. b[2 + (i - 1) * WORD] = Bytes(toks[i + 1])[1]
    BY <1>3, <2>5, <2>6
  <2>. QED BY <2>4, <2>7 DEF Starts
<1> DEFINE T == {i \in 2..n : toks[i].kind # "word"}
<1>8. CASE T = {}
  <2>1. PICK m \in Nat : n = m + 1
    <3>1. n - 1 \in Nat /\ n = (n - 1) + 1
      BY <1>1, <1>2
    <3>. QED BY <3>1
  <2>2. m + 1 \in 1..n /\ \A i \in 2..(m + 1) : toks[i].kind = "word"
    BY <1>1, <1>2, <1>8, <2>1
  <2>3. rs[n].open = "block" /\ ps[n] = 1 + m * WORD
    BY <1>6, <2>1, <2>2
  <2>4. Len(b) < 1 + (m + 1) * WORD
    <3>1. (m + 1) * WORD = m * WORD + WORD /\ m * WORD \in Nat
      BY <1>4, Times
    <3>. QED BY <1>1, <1>3, <1>4, <2>3, <3>1
  <2> DEFINE v == [k \in 1..m |-> toks[k + 1].val]
  <2>5. \A i \in 1..m : 2 + (i - 1) * WORD <= Len(b) =>
           b[2 + (i - 1) * WORD].kind = "word" /\ b[2 + (i - 1) * WORD].val = v[i]
    BY <1>7, <2>2
  <2> HIDE DEF v
  <2>6. ParseBlock(b) = NeedMore
    <3>1. Len(b) < 1 + (m + 1) * WORD => ParseBlock(b) = NeedMore
      <4>1. WordsAre(b, m, v)
        BY <2>5, Zenon DEF WordsAre
      <4>. QED BY <1>3, <4>1, BlockParses, Zenon
    <3>. QED BY <2>4, <3>1, Zenon
  <2>7. FrontOK(S, q, rs[0].out, rs[n], ParseOne(b))
    BY <1>1, <1>5, <2>3, <2>6, FrontOpen
  <2>. QED BY <2>7 DEF b
<1>9. CASE T # {}
  <2>1. PICK j \in T : \A k \in T : j <= k
    <3>1. T \in SUBSET Nat
      BY <1>1
    <3>. QED BY <1>9, <3>1, LeastNumber
  <2>2. PICK m \in Nat : j = m + 2
    <3>1. j - 2 \in Nat /\ j = (j - 2) + 2
      BY <1>1
    <3>. QED BY <3>1
  <2>3. m + 1 \in 1..n /\ j \in 1..n /\ j - 1 = m + 1 /\ m + 1 \in 0..n /\ j \in 0..n
    BY <1>1, <2>2
  <2>4. \A i \in 2..(m + 1) : toks[i].kind = "word"
    <3> SUFFICES ASSUME NEW i \in 2..(m + 1), toks[i].kind # "word" PROVE FALSE
      OBVIOUS
    <3>1. i \in T /\ i < j
      BY <1>1, <2>2, <2>3
    <3>. QED BY <1>1, <2>1, <3>1
  <2> DEFINE v == [k \in 1..m |-> toks[k + 1].val]
  <2>5. rs[m + 1].open = "block" /\ ps[m + 1] = 1 + m * WORD /\ rs[m + 1].out = rs[0].out \o v
    BY <1>6, <2>3, <2>4
  <2>6. /\ rs[j] = Read(rs[m + 1], toks[j]) /\ ps[j] = ps[m + 1] + Len(Bytes(toks[j]))
        /\ \A k \in 1..Len(Bytes(toks[j])) : S[ps[m + 1] + k] = Bytes(toks[j])[k]
    BY <2>3 DEF Trace
  <2>7. rs[j].open # "desync"
    BY <2>3, TraceSane
  <2>8. toks[j] \in Tokens /\ toks[j].kind # "word" /\ rs[m + 1] \in Readers
    BY <1>1, <2>3
  <2> HIDE DEF T, v
  <2>9. toks[j].kind = "sentinel" /\ rs[j].open = "none" /\ rs[j].out = rs[0].out \o v
    <3>1. toks[j].kind = "sentinel"
      BY <2>5, <2>6, <2>7, <2>8 DEF Read, Readers
    <3>. QED BY <2>5, <2>6, <2>8, <3>1 DEF Read, Readers
  <2>10. Starts(Bytes(toks[j]), WORD, "sentinel", 0)
    <3>1. Layout(toks[j])
      BY <2>8, ByteLayout
    <3>. QED BY <2>9, <3>1 DEF Layout
  <2>11. /\ ps[j] = 1 + (m + 1) * WORD /\ ps[m + 1] + 1 = 2 + m * WORD
         /\ 2 + m * WORD <= 1 + (m + 1) * WORD /\ 2 + m * WORD \in Nat \ {0} /\ ps[j] \in Nat
    <3>1. (m + 1) * WORD = m * WORD + WORD /\ m * WORD \in Nat
      BY <1>4, Times
    <3>2. Len(Bytes(toks[j])) = WORD
      BY <2>10 DEF Starts
    <3>. QED BY <1>4, <2>5, <2>6, <3>1, <3>2
  <2>12. S[2 + m * WORD].kind = "sentinel"
    <3>1. 1 \in 1..Len(Bytes(toks[j])) /\ Bytes(toks[j])[1].kind = "sentinel"
      BY <1>4, <2>10 DEF Starts
    <3>2. S[ps[m + 1] + 1] = Bytes(toks[j])[1]
      BY <2>6, <3>1
    <3>. QED BY <2>11, <3>1, <3>2
  <2>13. \A i \in 1..m : 2 + (i - 1) * WORD <= Len(b) =>
           b[2 + (i - 1) * WORD].kind = "word" /\ b[2 + (i - 1) * WORD].val = v[i]
    BY <1>7, <2>3, <2>4 DEF v
  <2>14. [i \in 1..m |-> v[i]] = v
    BY DEF v
  <2>15. ParseBlock(b) = IF ps[j] <= q THEN Consumed(ps[j], v) ELSE NeedMore
    <3>0. WordsAre(b, m, v) /\ b \in Seq(ByteSet) /\ m \in Nat
      <4>1. WordsAre(b, m, v)
        BY <2>13, Zenon DEF WordsAre
      <4>. QED BY <1>3, <4>1, Zenon
    <3>1. CASE ps[j] <= q
      <4>1. 2 + m * WORD \in 1..q
        BY <1>1, <2>11, <3>1
      <4>2. Len(b) >= 1 + (m + 1) * WORD /\ b[2 + m * WORD].kind = "sentinel"
        <5>1. b[2 + m * WORD] = S[2 + m * WORD]
          BY <1>3, <4>1
        <5>2. Len(b) >= ps[j]
          BY <1>3, <3>1
        <5>. QED BY <2>11, <2>12, <5>1, <5>2
      <4>3. ParseBlock(b) = Consumed(1 + (m + 1) * WORD, [i \in 1..m |-> v[i]])
        BY <3>0, <4>2, BlockParses, Zenon
      <4>. QED BY <2>11, <2>14, <3>1, <4>3
    <3>2. CASE ~(ps[j] <= q)
      <4>1. Len(b) < 1 + (m + 1) * WORD
        <5>1. q < ps[j]
          BY <1>1, <2>11, <3>2
        <5>. QED BY <1>3, <2>11, <5>1
      <4>3. ParseBlock(b) = NeedMore
        BY <3>0, <4>1, BlockParses, Zenon
      <4>. QED BY <3>2, <4>3
    <3>. QED BY <3>1, <3>2
  <2>16. FrontOK(S, q, rs[0].out, rs[n], ParseOne(b))
    BY <1>1, <1>5, <2>3, <2>9, <2>15, FrontEnds
  <2>. QED BY <2>16 DEF b
<1>. QED BY <1>8, <1>9

\* What m length bytes after a REPEAT2 tag stand for.
Alternating(toks, m) ==
  [k \in 1..m |-> Repeat(toks[k + 1].n, IF k % 2 = 1 THEN toks[1].a ELSE toks[1].b)]

\* A REPEAT2 frame: its tag, its length bytes, and perhaps its terminator.
InRepeat2(toks, rs, ps, m) ==
  /\ rs[m + 1].open = "repeat2"
  /\ rs[m + 1].out = rs[0].out \o FlattenSeq(Alternating(toks, m))
  /\ \A i \in 0..m : ps[i + 1] = ps[1] + i

\* A REPEAT2 is open as long as its length bytes are not zero, and reads as they say.
LEMMA Repeat2Trace ==
  ASSUME NEW S, NEW n, NEW toks, NEW rs, NEW ps, Trace(S, n, toks, rs, ps),
         rs[0].open = "none", rs[n].open # "desync", Len(S) > 0, toks[1].kind = "repeat2",
         NEW m \in Nat, m + 1 <= n,
         \A i \in 1..m : toks[i + 1].kind = "len" /\ toks[i + 1].n # 0
  PROVE  InRepeat2(toks, rs, ps, m)
<1>1. /\ S \in Seq(ByteSet) /\ n \in Nat /\ toks \in [1..n -> Tokens]
      /\ rs \in [0..n -> Readers] /\ ps \in [0..n -> Nat]
  BY DEF Trace
<1>2. /\ 1 \in 1..n /\ toks[1] \in Tokens /\ rs[0] \in Readers /\ rs[1] = Read(rs[0], toks[1])
  BY TraceFirst
<1>3. toks[1].a \in Items /\ toks[1].b \in Items
  BY <1>2 DEF Tokens, SideBand, Items
<1>4. ASSUME NEW i \in 1..m
      PROVE  i + 1 \in 1..n /\ toks[i + 1] \in Tokens /\ toks[i + 1].n \in Nat
  <2>1. i + 1 \in 1..n
    BY <1>1
  <2>2. toks[i + 1] \in Tokens /\ toks[i + 1].kind = "len"
    BY <1>1, <2>1
  <2>. QED BY <2>1, <2>2, WireConstants DEF Tokens, SideBand
<1> DEFINE ss == Alternating(toks, m)
           value(k) == IF k % 2 = 1 THEN toks[1].a ELSE toks[1].b
<1>5. /\ ss \in Seq(Seq(Items)) /\ Len(ss) = m
      /\ \A k \in 1..m : ss[k] = Repeat(toks[k + 1].n, value(k)) /\ ss[k] \in Seq(Items)
  <2>1. ss = [k \in 1..m |-> Repeat(toks[k + 1].n, value(k))]
    BY DEF Alternating
  <2>2. \A k \in 1..m : Repeat(toks[k + 1].n, value(k)) \in Seq(Items)
    <3> SUFFICES ASSUME NEW k \in 1..m PROVE Repeat(toks[k + 1].n, value(k)) \in Seq(Items)
      OBVIOUS
    <3>1. value(k) \in Items
      BY <1>3
    <3>. QED BY <1>4, <3>1, RepeatType
  <2> HIDE DEF ss, value
  <2>. QED BY <2>1, <2>2
<1> HIDE DEF ss
<1>6. PICK f \in [0..Len(ss) -> Seq(Items)] :
        /\ f[0] = <<>> /\ f[Len(ss)] = FlattenSeq(ss)
        /\ \A i \in 1..Len(ss) : f[i] = f[i - 1] \o ss[i]
  BY <1>5, Flatten
<1>7. rs[0].out \in Seq(Items)
  BY <1>2 DEF Readers
<1> DEFINE P == {l \in 0..m :
                   /\ rs[l + 1].open = "repeat2"
                   /\ rs[l + 1].a = toks[1].a /\ rs[l + 1].b = toks[1].b
                   /\ rs[l + 1].nextB <=> l % 2 = 1
                   /\ ps[l + 1] = ps[1] + l
                   /\ rs[l + 1].out = rs[0].out \o f[l]}
<1>8. 0 \in P
  <2>1. /\ rs[1].open = "repeat2" /\ rs[1].out = rs[0].out
        /\ rs[1].a = toks[1].a /\ rs[1].b = toks[1].b /\ rs[1].nextB = FALSE
    BY <1>2 DEF Read, ReadRepeat2, Readers
  <2>2. rs[0].out \o f[0] = rs[0].out
    BY <1>6, <1>7, ConcatEmptySeq
  <2>3. 0 \in 0..m /\ 0 + 1 = 1 /\ ~(0 % 2 = 1)
    OBVIOUS
  <2>4. ps[1] = ps[1] + 0
    BY <1>1, <1>2
  <2>. QED BY <2>1, <2>2, <2>3, <2>4
<1>9. ASSUME NEW l \in 0..(m - 1), l \in P PROVE l + 1 \in P
  <2> DEFINE t == toks[l + 2]
             r == rs[l + 1]
             x == IF r.nextB THEN r.b ELSE r.a
  <2>1. /\ l + 2 \in 1..n /\ (l + 2) - 1 = l + 1 /\ (l + 1) + 1 = l + 2 /\ l + 1 \in 0..n
        /\ l + 1 \in 1..m /\ l + 1 \in 0..m /\ l \in 0..m /\ (l + 1) - 1 = l /\ 1 \in 0..n
    BY <1>1
  <2>2. t \in Tokens /\ t.kind = "len" /\ t.n # 0 /\ t.n \in Nat /\ r \in Readers
    BY <1>1, <1>4, <2>1
  <2>3. rs[l + 2] = Read(r, t) /\ ps[l + 2] = ps[l + 1] + Len(Bytes(t))
    BY <2>1 DEF Trace
  <2>4. Len(Bytes(t)) = 1
    <3>1. Layout(t)
      BY <2>2, ByteLayout
    <3>. QED BY <2>2, <3>1 DEF Layout, Starts
  <2>5. /\ r.open = "repeat2" /\ r.a = toks[1].a /\ r.b = toks[1].b
        /\ r.nextB <=> l % 2 = 1
        /\ ps[l + 1] = ps[1] + l /\ r.out = rs[0].out \o f[l]
    BY <1>9
  <2> HIDE DEF t, r
  <2>6. rs[l + 2] = [r EXCEPT !.out = @ \o Repeat(t.n, x), !.nextB = ~@]
    BY <2>2, <2>3, <2>5 DEF Read, ReadLen
  <2>7. /\ rs[l + 2].open = "repeat2" /\ rs[l + 2].a = toks[1].a /\ rs[l + 2].b = toks[1].b
        /\ rs[l + 2].nextB = ~r.nextB /\ rs[l + 2].out = r.out \o Repeat(t.n, x)
    <3> HIDE DEF x
    <3>. QED BY <2>2, <2>5, <2>6 DEF Readers
  <2>8. ((l + 1) % 2 = 1) <=> ~(l % 2 = 1)
    BY <2>1
  <2>9. x = value(l + 1)
    BY <2>5, <2>8
  <2>10. ss[l + 1] = Repeat(t.n, x) /\ Repeat(t.n, x) \in Seq(Items)
    <3>1. ss[l + 1] = Repeat(toks[(l + 1) + 1].n, value(l + 1)) /\ ss[l + 1] \in Seq(Items)
      BY <1>5, <2>1
    <3>. QED BY <2>1, <2>9, <3>1 DEF t
  <2>11. f[l + 1] = f[l] \o Repeat(t.n, x) /\ f[l] \in Seq(Items)
    BY <1>5, <1>6, <2>1, <2>10
  <2> HIDE DEF x
  <2>12. rs[l + 2].out = rs[0].out \o f[l + 1]
    <3>1. PICK o \in Seq(Items), g \in Seq(Items), y \in Seq(Items) :
            o = rs[0].out /\ g = f[l] /\ y = Repeat(t.n, x)
      BY <1>7, <2>10, <2>11
    <3>2. (o \o g) \o y = o \o (g \o y)
      BY ItemsAssociative
    <3>3. rs[l + 2].out = (o \o g) \o y
      <4>1. r.out = o \o g
        BY <2>5, <3>1
      <4>. QED BY <2>7, <3>1, <4>1
    <3>4. f[l + 1] = g \o y
      BY <2>11, <3>1
    <3>. QED BY <3>1, <3>2, <3>3, <3>4
  <2>13. ps[l + 2] = ps[1] + (l + 1)
    <3>1. PICK u \in Nat : u = ps[1]
      BY <1>1, <2>1
    <3>2. ps[l + 1] = u + l /\ ps[l + 2] = ps[l + 1] + 1
      BY <2>3, <2>4, <2>5, <3>1
    <3>3. l \in Nat
      OBVIOUS
    <3>. QED BY <3>1, <3>2, <3>3
  <2>14. rs[l + 2].nextB <=> (l + 1) % 2 = 1
    <3>1. r.nextB \in BOOLEAN
      BY <2>2 DEF Readers
    <3>. QED BY <2>5, <2>7, <2>8, <3>1
  <2>. QED BY <2>1, <2>7, <2>12, <2>13, <2>14
<1> HIDE DEF P
<1>10. \A l \in 0..m : l \in P
  BY <1>8, <1>9, FromTo
<1>11. rs[m + 1].open = "repeat2" /\ rs[m + 1].out = rs[0].out \o f[m]
  <2>1. m \in P
    BY <1>10
  <2>. QED BY <2>1 DEF P
<1>12. \A i \in 0..m : ps[i + 1] = ps[1] + i
  BY <1>10 DEF P
<1>13. f[m] = FlattenSeq(Alternating(toks, m))
  BY <1>5, <1>6 DEF ss
<1>. QED BY <1>11, <1>12, <1>13 DEF InRepeat2

\* A REPEAT2 at the front is consumed with its terminator, or waited for.
LEMMA FrontRepeat2 ==
  ASSUME NEW S, NEW n, NEW toks, NEW rs, NEW ps, Trace(S, n, toks, rs, ps),
         rs[0].open = "none", rs[n].open # "desync", NEW q \in 1..Len(S),
         toks[1].kind = "repeat2"
  PROVE  FrontOK(S, q, rs[0].out, rs[n], ParseOne(SubSeq(S, 1, q)))
<1> DEFINE b == SubSeq(S, 1, q)
<1>1. /\ S \in Seq(ByteSet) /\ Len(S) > 0 /\ Len(S) \in Nat /\ q \in 0..Len(S) /\ q \in Nat
      /\ n \in Nat /\ toks \in [1..n -> Tokens] /\ rs \in [0..n -> Readers] /\ ps \in [0..n -> Nat]
      /\ ps[n] = Len(S)
  BY DEF Trace
<1>2. /\ 1 \in 1..n /\ ps[1] = Len(Bytes(toks[1])) /\ \A k \in 1..ps[1] : S[k] = Bytes(toks[1])[k]
  BY <1>1, TraceFirst
<1>3. b \in Seq(ByteSet) /\ Len(b) = q /\ \A i \in 1..q : b[i] = S[i]
  BY <1>1, Prefix
<1>4. WORD \in Nat \ {0}
  BY DecoderConstants
<1>5. PICK body \in Nat : body = 2 + 2 * WORD
  BY <1>4
<1>6. /\ ps[1] = body - 1 /\ S[1].kind = "tag" /\ S[1].val = "repeat2"
      /\ S[2].val = toks[1].a /\ S[2 + WORD].val = toks[1].b
  <2>1. Layout(toks[1])
    BY <1>1, <1>2, ByteLayout
  <2>2. /\ Len(Bytes(toks[1])) = 1 + WORD + WORD
        /\ Bytes(toks[1])[1].kind = "tag" /\ Bytes(toks[1])[1].val = "repeat2"
        /\ Bytes(toks[1])[2].val = toks[1].a /\ Bytes(toks[1])[2 + WORD].val = toks[1].b
    BY <2>1 DEF Layout, Starts
  <2>3. 1 + WORD + WORD = body - 1 /\ 1 \in 1..(body - 1) /\ 2 \in 1..(body - 1) /\ 2 + WORD \in 1..(body - 1)
    BY <1>4, <1>5
  <2>. QED BY <1>2, <2>2, <2>3
<1> HIDE DEF b
<1>7. ParseOne(b) = ParseRepeat2(b)
  <2>0. 1 \in 1..q
    BY <1>1
  <2>1. b # <<>> /\ b[1].kind = "tag" /\ b[1].val = "repeat2"
    BY <1>3, <1>6, <2>0
  <2>. QED BY <2>1 DEF ParseOne
\* The length bytes.
<1>8. ASSUME NEW m \in Nat, m + 1 <= n,
             \A i \in 1..m : toks[i + 1].kind = "len" /\ toks[i + 1].n # 0
      PROVE  /\ InRepeat2(toks, rs, ps, m)
             /\ \A i \in 1..m : body + i - 1 <= Len(b) =>
                  b[body + i - 1] # Nul /\ b[body + i - 1].val = toks[i + 1].n
  <2>1. InRepeat2(toks, rs, ps, m)
    BY <1>1, <1>8, Repeat2Trace
  <2>2. ASSUME NEW i \in 1..m, body + i - 1 <= Len(b)
        PROVE  b[body + i - 1] # Nul /\ b[body + i - 1].val = toks[i + 1].n
    <3>1. i - 1 \in 0..m /\ (i - 1) + 1 = i /\ i + 1 \in 1..n /\ (i + 1) - 1 = i
      BY <1>1, <1>8
    <3>2. ps[i] = ps[1] + (i - 1)
      BY <2>1, <3>1 DEF InRepeat2
    <3>3. Starts(Bytes(toks[i + 1]), 1, "byte", toks[i + 1].n)
      <4>1. Layout(toks[i + 1]) /\ toks[i + 1].kind = "len"
        BY <1>1, <1>8, <3>1, ByteLayout
      <4>. QED BY <4>1 DEF Layout
    <3>4. S[ps[i] + 1] = Bytes(toks[i + 1])[1]
      <4>1. \A k \in 1..Len(Bytes(toks[i + 1])) : S[ps[i] + k] = Bytes(toks[i + 1])[k]
        BY <3>1 DEF Trace
      <4>2. 1 \in 1..Len(Bytes(toks[i + 1]))
        BY <3>3 DEF Starts
      <4>. QED BY <4>1, <4>2
    <3>5. ps[i] + 1 = body + i - 1 /\ body + i - 1 \in 1..q
      BY <1>1, <1>3, <1>4, <1>5, <1>6, <2>2, <3>2
    <3>6. b[body + i - 1] = Bytes(toks[i + 1])[1]
      BY <1>3, <3>4, <3>5
    <3>7. b[body + i - 1].val = toks[i + 1].n
      BY <3>3, <3>6 DEF Starts
    <3>8. Nul.val = 0
      BY DEF Nul, Byte, Field
    <3>. QED BY <1>8, <3>7, <3>8
  <2>. QED BY <2>1, <2>2
<1> DEFINE T == {i \in 2..n : ~(toks[i].kind = "len" /\ toks[i].n # 0)}
<1>9. CASE T = {}
  <2>1. PICK m \in Nat : n = m + 1
    <3>1. n - 1 \in Nat /\ n = (n - 1) + 1
      BY <1>1, <1>2
    <3>. QED BY <3>1
  <2>2. ASSUME NEW i \in 1..m PROVE toks[i + 1].kind = "len" /\ toks[i + 1].n # 0
    <3>1. i + 1 \in 2..n
      BY <2>1
    <3>. QED BY <1>9, <3>1
  <2> DEFINE v == [k \in 1..m |-> toks[k + 1].n]
  <2>3. InRepeat2(toks, rs, ps, m)
    BY <1>8, <2>1, <2>2
  <2>4. \A i \in 1..m : body + i - 1 <= Len(b) =>
           b[body + i - 1] # Nul /\ b[body + i - 1].val = v[i]
    BY <1>8, <2>1, <2>2
  <2>5. rs[n].open = "repeat2" /\ ps[n] = ps[1] + m
    <3>1. m \in 0..m
      OBVIOUS
    <3>. QED BY <2>1, <2>3, <3>1 DEF InRepeat2
  <2>6. Len(b) < body + m
    BY <1>1, <1>3, <1>6, <2>5
  <2> HIDE DEF v
  <2>7. ParseRepeat2(b) = NeedMore
    BY <1>3, <1>5, <2>4, <2>6, Repeat2Parses
  <2>8. FrontOK(S, q, rs[0].out, rs[n], ParseOne(b))
    BY <1>1, <1>7, <2>5, <2>7, FrontOpen
  <2>. QED BY <2>8 DEF b
<1>10. CASE T # {}
  <2>1. PICK j \in T : \A k \in T : j <= k
    <3>1. T \in SUBSET Nat
      BY <1>1
    <3>. QED BY <1>10, <3>1, LeastNumber
  <2>2. PICK m \in Nat : j = m + 2
    <3>1. j - 2 \in Nat /\ j = (j - 2) + 2
      BY <1>1
    <3>. QED BY <3>1
  <2>3. m + 1 <= n /\ j \in 1..n /\ j - 1 = m + 1 /\ m + 1 \in 0..n /\ j \in 0..n
    BY <1>1, <2>2
  <2>4. ASSUME NEW i \in 1..m PROVE toks[i + 1].kind = "len" /\ toks[i + 1].n # 0
    <3> SUFFICES ASSUME ~(toks[i + 1].kind = "len" /\ toks[i + 1].n # 0) PROVE FALSE
      OBVIOUS
    <3>1. i + 1 \in T /\ i + 1 < j
      BY <1>1, <2>2, <2>3
    <3>. QED BY <1>1, <2>1, <3>1
  <2> DEFINE v == [k \in 1..m |-> toks[k + 1].n]
  <2>5. /\ rs[m + 1].open = "repeat2" /\ ps[m + 1] = ps[1] + m
        /\ rs[m + 1].out = rs[0].out \o FlattenSeq(Alternating(toks, m))
    <3>1. InRepeat2(toks, rs, ps, m) /\ m \in 0..m
      BY <1>8, <2>3, <2>4
    <3>. QED BY <3>1 DEF InRepeat2
  <2>6. /\ rs[j] = Read(rs[m + 1], toks[j]) /\ ps[j] = ps[m + 1] + Len(Bytes(toks[j]))
        /\ \A k \in 1..Len(Bytes(toks[j])) : S[ps[m + 1] + k] = Bytes(toks[j])[k]
    BY <2>3 DEF Trace
  <2>7. rs[j].open # "desync"
    BY <2>3, TraceSane
  <2>8. toks[j] \in Tokens /\ rs[m + 1] \in Readers /\ ~(toks[j].kind = "len" /\ toks[j].n # 0)
    BY <1>1, <2>3
  <2> HIDE DEF T, v
  <2>9. /\ toks[j].kind = "len" /\ toks[j].n = 0
        /\ rs[j].open = "none" /\ rs[j].out = rs[m + 1].out
    <3>1. toks[j].kind = "len"
      BY <2>5, <2>6, <2>7, <2>8 DEF Read, Readers
    <3>2. rs[j] = [rs[m + 1] EXCEPT !.open = "none"]
      BY <2>5, <2>6, <2>8, <3>1 DEF Read, ReadLen
    <3>. QED BY <2>8, <3>1, <3>2 DEF Readers
  <2>10. Len(Bytes(toks[j])) = 1 /\ Bytes(toks[j])[1] = Nul
    <3>1. Bytes(toks[j]) = Byte(0)
      BY <2>9 DEF Bytes
    <3>2. Len(Byte(0)) = 1
      BY DEF Byte, Field
    <3>. QED BY <3>1, <3>2 DEF Nul
  <2>11. ps[j] = body + m /\ S[body + m] = Nul /\ ps[j] \in Nat
    <3>1. ps[m + 1] = body - 1 + m /\ ps[m + 1] + 1 = body + m
      BY <1>4, <1>5, <1>6, <2>5
    <3>2. 1 \in 1..Len(Bytes(toks[j]))
      BY <2>10
    <3>3. S[ps[m + 1] + 1] = Nul
      BY <2>6, <2>10, <3>2
    <3>. QED BY <2>6, <2>10, <3>1, <3>3
  <2>12. \A i \in 1..m : body + i - 1 <= Len(b) =>
           b[body + i - 1] # Nul /\ b[body + i - 1].val = v[i]
    BY <1>8, <2>3, <2>4 DEF v
  <2> DEFINE items == FlattenSeq(Alternating(toks, m))
  <2>13. ParseRepeat2(b) = IF ps[j] <= q THEN Consumed(ps[j], items) ELSE NeedMore
    <3>1. CASE ps[j] <= q
      <4>1. body + m \in 1..q /\ 2 \in 1..q /\ 2 + WORD \in 1..q
        BY <1>1, <1>4, <1>5, <2>11, <3>1
      <4>2. Len(b) >= body + m /\ b[body + m] = Nul
        BY <1>3, <2>11, <3>1, <4>1
      <4>3. ParseRepeat2(b) =
              Consumed(body + m, FlattenSeq(Runs2(v, m, b[2].val, b[2 + WORD].val)))
        <5>1. \A i \in 1..m : body + i - 1 <= Len(b) =>
                 b[body + i - 1] # Nul /\ b[body + i - 1].val = v[i]
          BY <2>12
        <5>2. b \in Seq(ByteSet) /\ m \in Nat /\ body = 2 + 2 * WORD
          BY <1>3, <1>5
        <5>3. Len(b) >= body + m /\ b[body + m] = Nul =>
                ParseRepeat2(b) = Consumed(body + m, FlattenSeq(Runs2(v, m, b[2].val, b[2 + WORD].val)))
          BY <5>1, <5>2, Repeat2Parses, Zenon
        <5>. QED BY <4>2, <5>3
      <4>4. b[2].val = toks[1].a /\ b[2 + WORD].val = toks[1].b
        BY <1>3, <1>6, <4>1
      <4>5. Runs2(v, m, b[2].val, b[2 + WORD].val) = Alternating(toks, m)
        BY <4>4 DEF Alternating, Runs2, v
      <4>. QED BY <2>11, <3>1, <4>3, <4>5
    <3>2. CASE ~(ps[j] <= q)
      <4>1. Len(b) < body + m
        BY <1>1, <1>3, <2>11, <3>2
      <4>2. ParseRepeat2(b) = NeedMore
        BY <1>3, <1>5, <2>12, <4>1, Repeat2Parses
      <4>. QED BY <3>2, <4>2
    <3>. QED BY <3>1, <3>2
  <2> HIDE DEF items
  <2>14. rs[j].out = rs[0].out \o items
    BY <2>5, <2>9 DEF items
  <2>15. FrontOK(S, q, rs[0].out, rs[n], ParseOne(b))
    BY <1>1, <1>7, <2>3, <2>9, <2>13, <2>14, FrontEnds
  <2>. QED BY <2>15 DEF b
<1>. QED BY <1>9, <1>10

\* Whatever part of the stream is there, a parse of it is right.
LEMMA FrontParses ==
  ASSUME NEW S, NEW out, NEW rd, Flows(S, out, rd), rd.open # "desync", NEW q \in 0..Len(S)
  PROVE  FrontOK(S, q, out, rd, ParseOne(SubSeq(S, 1, q)))
<1> DEFINE p == ParseOne(SubSeq(S, 1, q))
<1> HIDE DEF p
<1> SUFFICES FrontOK(S, q, out, rd, p)
  BY DEF p
<1>1. PICK n, toks, rs, ps :
        Trace(S, n, toks, rs, ps) /\ rs[0].open = "none" /\ rs[0].out = out /\ rs[n] = rd
  BY Zenon DEF Flows
<1>0. Trace(S, n, toks, rs, ps)
  BY <1>1
<1>2. S \in Seq(ByteSet) /\ Len(S) \in Nat
  BY <1>1 DEF Trace
<1>3. CASE q = 0
  <2>1. SubSeq(S, 1, q) = <<>>
    BY <1>2, <1>3
  <2>2. p = NeedMore
    BY <2>1 DEF ParseOne, p
  <2>. QED BY <1>3, <2>2 DEF FrontOK, NeedMore
<1>4. CASE q # 0
  <2>1. q \in 1..Len(S) /\ Len(S) > 0
    BY <1>2, <1>4
  <2>2. toks[1].kind \in {"block", "run", "repeat2", "tick", "log", "started", "stopped", "overrun"}
    BY <1>0, <1>1, <2>1, TraceFirst
  <2>3. rs[0].open = "none" /\ rs[n].open # "desync"
    BY <1>1
  <2>4. FrontOK(S, q, rs[0].out, rs[n], p)
    <3>1. CASE toks[1].kind = "block"
      BY <1>0, <2>1, <2>3, <3>1, FrontBlock DEF p
    <3>2. CASE toks[1].kind = "repeat2"
      BY <1>0, <2>1, <2>3, <3>2, FrontRepeat2 DEF p
    <3>3. CASE toks[1].kind \in {"run", "tick", "log", "started", "stopped", "overrun"}
      BY <1>0, <2>1, <2>3, <3>3, FrontSingle DEF p
    <3>. QED BY <2>2, <3>1, <3>2, <3>3
  <2>. QED BY <1>1, <2>4
<1>. QED BY <1>3, <1>4

-----------------------------------------------------------------------------
(* The decoder on such a stream. *)

\* A step taken again and again, within the set of states it stays in.
Iterates(f, A, a, g, n) ==
  f \in [0..n -> A] /\ f[0] = a /\ \A i \in 1..n : f[i] = g[f[i - 1]]

\* A step can be taken any number of times.
LEMMA Iterated ==
  ASSUME NEW A, NEW a \in A, NEW g \in [A -> A], NEW n \in Nat
  PROVE  \E f : Iterates(f, A, a, g, n)
<1> DEFINE Iter(f, m) == f \in [0..m -> A] /\ f[0] = a /\ \A i \in 1..m : f[i] = g[f[i - 1]]
           P == {m \in Nat : \E f : Iter(f, m)}
<1>1. 0 \in P
  <2> DEFINE f == [i \in 0..0 |-> a]
  <2>1. Iter(f, 0)
    OBVIOUS
  <2>. QED BY <2>1
<1>2. ASSUME NEW m \in 0..(n - 1), m \in P PROVE m + 1 \in P
  <2>1. PICK f : Iter(f, m)
    BY <1>2
  <2> DEFINE h == [i \in 0..(m + 1) |-> IF i <= m THEN f[i] ELSE g[f[m]]]
  <2>2. m \in Nat /\ m \in 0..m /\ 0 \in 0..m
    OBVIOUS
  <2>3. f \in [0..m -> A] /\ f[m] \in A /\ g[f[m]] \in A
    BY <2>1, <2>2
  <2>4. h \in [0..(m + 1) -> A] /\ h[0] = a
    BY <2>1, <2>2, <2>3
  <2>5. ASSUME NEW i \in 1..(m + 1) PROVE h[i] = g[h[i - 1]]
    <3>1. CASE i <= m
      <4>1. i \in 1..m /\ i - 1 \in 0..m /\ i - 1 <= m /\ i \in 0..(m + 1) /\ i - 1 \in 0..(m + 1)
        BY <2>2, <3>1
      <4>2. h[i] = f[i] /\ h[i - 1] = f[i - 1]
        BY <3>1, <4>1
      <4>. QED BY <2>1, <4>1, <4>2
    <3>2. CASE ~(i <= m)
      <4>1. i = m + 1 /\ i - 1 = m /\ i \in 0..(m + 1) /\ m \in 0..(m + 1)
        BY <2>2, <3>2
      <4>2. h[i] = g[f[m]] /\ h[i - 1] = f[m]
        BY <2>2, <3>2, <4>1
      <4>. QED BY <4>2
    <3>. QED BY <3>1, <3>2
  <2> HIDE DEF h
  <2>6. Iter(h, m + 1)
    BY <2>4, <2>5
  <2>. QED BY <2>2, <2>6
<1>3. n \in P
  <2> HIDE DEF P
  <2>1. \A m \in 0..n : m \in P
    BY <1>1, <1>2, FromTo
  <2>. QED BY <2>1
<1>. QED BY <1>3 DEF Iterates

\* What is left of s after k of its elements.
Rest(s, k) == SubSeq(s, k + 1, Len(s))

LEMMA RestType ==
  ASSUME NEW s \in Seq(ByteSet), NEW k \in 0..Len(s)
  PROVE  /\ Rest(s, k) \in Seq(ByteSet) /\ Len(Rest(s, k)) = Len(s) - k
         /\ \A i \in 1..(Len(s) - k) : Rest(s, k)[i] = s[k + i]
BY Suffix DEF Rest

LEMMA SameBytes ==
  ASSUME NEW s \in Seq(ByteSet), NEW t \in Seq(ByteSet), Len(s) = Len(t),
         \A i \in 1..Len(s) : s[i] = t[i]
  PROVE  s = t
BY SeqEqual

LEMMA RestRest ==
  ASSUME NEW s \in Seq(ByteSet), NEW k \in 0..Len(s), NEW j \in 0..(Len(s) - k)
  PROVE  Rest(Rest(s, k), j) = Rest(s, k + j)
<1>1. Rest(s, k) \in Seq(ByteSet) /\ Len(Rest(s, k)) = Len(s) - k
      /\ \A i \in 1..(Len(s) - k) : Rest(s, k)[i] = s[k + i]
  BY RestType
<1>2. k + j \in 0..Len(s) /\ j \in 0..Len(Rest(s, k)) /\ Len(s) \in Nat /\ k \in Nat /\ j \in Nat
  BY <1>1
<1>3. /\ Rest(Rest(s, k), j) \in Seq(ByteSet) /\ Len(Rest(Rest(s, k), j)) = Len(Rest(s, k)) - j
      /\ \A i \in 1..(Len(Rest(s, k)) - j) : Rest(Rest(s, k), j)[i] = Rest(s, k)[j + i]
  BY <1>1, <1>2, RestType
<1>4. /\ Rest(s, k + j) \in Seq(ByteSet) /\ Len(Rest(s, k + j)) = Len(s) - (k + j)
      /\ \A i \in 1..(Len(s) - (k + j)) : Rest(s, k + j)[i] = s[(k + j) + i]
  BY <1>2, RestType
<1>5. Len(Rest(Rest(s, k), j)) = Len(s) - (k + j)
  BY <1>1, <1>2, <1>3
<1>6. ASSUME NEW i \in 1..(Len(s) - (k + j)) PROVE Rest(Rest(s, k), j)[i] = Rest(s, k + j)[i]
  <2>1. j + i \in 1..(Len(s) - k) /\ k + (j + i) = (k + j) + i
    BY <1>2
  <2>2. Rest(Rest(s, k), j)[i] = Rest(s, k)[j + i]
    BY <1>1, <1>2, <1>3
  <2>3. Rest(s, k)[j + i] = s[k + (j + i)]
    BY <1>1, <2>1
  <2>4. Rest(s, k + j)[i] = s[(k + j) + i]
    BY <1>4
  <2>. QED BY <2>1, <2>2, <2>3, <2>4
<1>. QED BY <1>3, <1>4, <1>5, <1>6, SameBytes

LEMMA RestConcat ==
  ASSUME NEW s \in Seq(ByteSet), NEW t \in Seq(ByteSet), NEW k \in 0..Len(s)
  PROVE  /\ s \o t \in Seq(ByteSet) /\ Len(s \o t) = Len(s) + Len(t)
         /\ Rest(s \o t, k) = Rest(s, k) \o t
         /\ SubSeq(Rest(s \o t, k), 1, Len(s) - k) = Rest(s, k)
<1>1. /\ s \o t \in Seq(ByteSet) /\ Len(s \o t) = Len(s) + Len(t) /\ Len(s) \in Nat /\ Len(t) \in Nat
      /\ \A i \in 1..(Len(s) + Len(t)) : (s \o t)[i] = IF i <= Len(s) THEN s[i] ELSE t[i - Len(s)]
  BY ConcatProperties
<1>2. k \in 0..Len(s \o t) /\ k \in Nat
  BY <1>1
<1>3. /\ Rest(s, k) \in Seq(ByteSet) /\ Len(Rest(s, k)) = Len(s) - k
      /\ \A i \in 1..(Len(s) - k) : Rest(s, k)[i] = s[k + i]
  BY RestType
<1>4. /\ Rest(s \o t, k) \in Seq(ByteSet) /\ Len(Rest(s \o t, k)) = Len(s) + Len(t) - k
      /\ \A i \in 1..(Len(s) + Len(t) - k) : Rest(s \o t, k)[i] = (s \o t)[k + i]
  <2>1. /\ Rest(s \o t, k) \in Seq(ByteSet) /\ Len(Rest(s \o t, k)) = Len(s \o t) - k
        /\ \A i \in 1..(Len(s \o t) - k) : Rest(s \o t, k)[i] = (s \o t)[k + i]
    BY <1>1, <1>2, RestType
  <2>2. Len(s \o t) - k = Len(s) + Len(t) - k
    BY <1>1
  <2>. QED BY <2>1, <2>2
<1>5. /\ Rest(s, k) \o t \in Seq(ByteSet) /\ Len(Rest(s, k) \o t) = (Len(s) - k) + Len(t)
      /\ \A i \in 1..((Len(s) - k) + Len(t)) :
           (Rest(s, k) \o t)[i] = IF i <= Len(s) - k THEN Rest(s, k)[i] ELSE t[i - (Len(s) - k)]
  <2> DEFINE r == Rest(s, k)
  <2>1. r \in Seq(ByteSet) /\ Len(r) = Len(s) - k
    BY <1>3
  <2> HIDE DEF r
  <2>2. /\ r \o t \in Seq(ByteSet) /\ Len(r \o t) = Len(r) + Len(t)
        /\ \A i \in 1..(Len(r) + Len(t)) : (r \o t)[i] = IF i <= Len(r) THEN r[i] ELSE t[i - Len(r)]
    BY <2>1, ConcatProperties
  <2>3. /\ r \o t \in Seq(ByteSet) /\ Len(r \o t) = (Len(s) - k) + Len(t)
        /\ \A i \in 1..((Len(s) - k) + Len(t)) :
             (r \o t)[i] = IF i <= Len(s) - k THEN r[i] ELSE t[i - (Len(s) - k)]
    BY <2>1, <2>2
  <2>. QED BY <2>3 DEF r
<1>6. Rest(s \o t, k) = Rest(s, k) \o t
  <2>1. ASSUME NEW i \in 1..(Len(s) + Len(t) - k) PROVE Rest(s \o t, k)[i] = (Rest(s, k) \o t)[i]
    <3>1. /\ k + i \in 1..(Len(s) + Len(t)) /\ i \in 1..((Len(s) - k) + Len(t))
          /\ (k + i <= Len(s) <=> i <= Len(s) - k) /\ (k + i) - Len(s) = i - (Len(s) - k)
      BY <1>1, <1>2
    <3>2. Rest(s \o t, k)[i] = IF k + i <= Len(s) THEN s[k + i] ELSE t[(k + i) - Len(s)]
      BY <1>1, <1>4, <3>1
    <3>3. (Rest(s, k) \o t)[i] = IF i <= Len(s) - k THEN Rest(s, k)[i] ELSE t[i - (Len(s) - k)]
      BY <1>5, <3>1
    <3>4. i <= Len(s) - k => Rest(s, k)[i] = s[k + i]
      BY <1>1, <1>2, <1>3
    <3>. QED BY <3>1, <3>2, <3>3, <3>4
  <2>2. Len(Rest(s \o t, k)) = Len(Rest(s, k) \o t)
    BY <1>1, <1>2, <1>4, <1>5
  <2>. QED BY <1>4, <1>5, <2>1, <2>2, SameBytes
<1>7. SubSeq(Rest(s \o t, k), 1, Len(s) - k) = Rest(s, k)
  <2>1. Len(s) - k \in 0..Len(Rest(s \o t, k))
    BY <1>1, <1>2, <1>4
  <2>2. /\ SubSeq(Rest(s \o t, k), 1, Len(s) - k) \in Seq(ByteSet)
        /\ Len(SubSeq(Rest(s \o t, k), 1, Len(s) - k)) = Len(s) - k
        /\ \A i \in 1..(Len(s) - k) : SubSeq(Rest(s \o t, k), 1, Len(s) - k)[i] = Rest(s \o t, k)[i]
    BY <1>4, <2>1, Prefix
  <2>3. ASSUME NEW i \in 1..(Len(s) - k) PROVE Rest(s \o t, k)[i] = Rest(s, k)[i]
    <3>1. k + i \in 1..(Len(s) + Len(t)) /\ k + i <= Len(s) /\ i \in 1..(Len(s) + Len(t) - k)
      BY <1>1, <1>2
    <3>. QED BY <1>1, <1>3, <1>4, <3>1
  <2>. QED BY <1>3, <2>2, <2>3, SameBytes
<1>. QED BY <1>1, <1>6, <1>7

LEMMA RestAll ==
  ASSUME NEW s \in Seq(ByteSet)
  PROVE  Rest(s, 0) = s /\ Rest(s, Len(s)) = <<>>
<1>1. 0 \in 0..Len(s) /\ Len(s) \in 0..Len(s) /\ Len(s) \in Nat
  OBVIOUS
<1>2. Rest(s, 0) = s
  <2>1. Rest(s, 0) \in Seq(ByteSet) /\ Len(Rest(s, 0)) = Len(s) - 0
        /\ \A i \in 1..(Len(s) - 0) : Rest(s, 0)[i] = s[0 + i]
    BY <1>1, RestType
  <2>2. Len(s) - 0 = Len(s) /\ \A i \in 1..Len(s) : 0 + i = i
    BY <1>1
  <2>. QED BY <2>1, <2>2, SameBytes
<1>3. Rest(s, Len(s)) = <<>>
  <2>1. Rest(s, Len(s)) \in Seq(ByteSet) /\ Len(Rest(s, Len(s))) = Len(s) - Len(s)
    BY <1>1, RestType
  <2>2. Len(s) - Len(s) = 0
    BY <1>1
  <2>. QED BY <2>1, <2>2
<1>. QED BY <1>2, <1>3

\* Between two turns of drain's loop over buf, with tail still to come.
TurnStates(buf) ==
  [k : 0..Len(buf), got : Seq(Items), over : BOOLEAN, bad : {FALSE}]

Turning(buf, tail, rd, s) ==
  /\ s \in TurnStates(buf)
  /\ Flows(Rest(buf \o tail, s.k), s.got, rd)
  /\ s.over => ParseOne(Rest(buf, s.k)) = NeedMore
  /\ ParseOne(buf) = NeedMore => s.k = 0

\* A turn of drain's loop, which leaves the loop or consumes a byte at least.
LEMMA TurnKeeps ==
  ASSUME NEW buf \in Seq(ByteSet), NEW tail \in Seq(ByteSet), NEW rd, rd.open # "desync",
         NEW s, Turning(buf, tail, rd, s)
  PROVE  /\ Turning(buf, tail, rd, Turn(buf, s))
         /\ ~Turn(buf, s).over => Turn(buf, s).k > s.k
         /\ Len(s.got) <= Len(Turn(buf, s).got)
<1>1. s \in TurnStates(buf)
  BY DEF Turning
<1>2. s.k \in 0..Len(buf) /\ s.over \in BOOLEAN /\ s.got \in Seq(Items)
  BY <1>1 DEF TurnStates
<1>3. PICK k \in Nat, l \in Nat, m \in Nat : k = s.k /\ l = Len(buf) /\ m = Len(tail) /\ k <= l
  BY <1>2
<1>4. k \in 0..Len(buf) /\ k \in 0..l
  BY <1>3
<1>5. CASE s.over
  <2>1. Turn(buf, s) = s
    BY <1>5 DEF Turn
  <2>2. Len(s.got) <= Len(s.got)
    BY <1>2
  <2>. QED BY <1>5, <2>1, <2>2
<1>6. CASE ~s.over
  <2> DEFINE p == ParseOne(Rest(buf, k))
             R == Rest(buf \o tail, k)
             q == l - k
             S == [k |-> k + p.n, got |-> s.got \o p.items, over |-> p.n = 0, bad |-> p.bad]
  <2>1. Turn(buf, s) = S
    BY <1>3, <1>6 DEF Turn, Rest
  <2>2. buf \o tail \in Seq(ByteSet) /\ Len(buf \o tail) = l + m /\ SubSeq(R, 1, q) = Rest(buf, k)
    <3>1. /\ buf \o tail \in Seq(ByteSet) /\ Len(buf \o tail) = Len(buf) + Len(tail)
          /\ SubSeq(Rest(buf \o tail, k), 1, Len(buf) - k) = Rest(buf, k)
      BY <1>4, RestConcat
    <3>. QED BY <1>3, <3>1
  <2>3. k \in 0..Len(buf \o tail) /\ q \in Nat
    BY <1>3, <2>2
  <2>4. R \in Seq(ByteSet) /\ Len(R) = l + m - k
    <3>1. R \in Seq(ByteSet) /\ Len(R) = Len(buf \o tail) - k
      BY <2>2, <2>3, RestType
    <3>. QED BY <2>2, <3>1
  <2>5. Flows(R, s.got, rd)
    BY <1>3 DEF Turning
  <2>6. q \in 0..Len(R)
    BY <1>3, <2>4
  <2> HIDE DEF R, q
  <2>7. FrontOK(R, q, s.got, rd, ParseOne(SubSeq(R, 1, q)))
    BY <2>5, <2>6, FrontParses
  <2>8. FrontOK(R, q, s.got, rd, p)
    BY <2>2, <2>7
  <2> HIDE DEF p
  <2>9. /\ p.bad = FALSE /\ p.n \in 0..q /\ (p.n = 0 => p = NeedMore)
        /\ (p.n > 0 => Flows(Rest(R, p.n), s.got \o p.items, rd))
        /\ (p.n > 0 => Len(s.got) <= Len(s.got \o p.items))
    BY <2>8 DEF FrontOK, Rest
  <2>10. q = l - k
    BY DEF q
  <2>11. PICK n \in Nat : n = p.n /\ n <= q
    BY <2>3, <2>9
  <2>12. n + k \in 0..l /\ k + n \in 0..l /\ n \in 0..(l + m - k)
    <3>1. n <= l - k
      BY <2>10, <2>11
    <3>2. n \in Nat
      OBVIOUS
    <3>. QED BY <1>3, <3>1, <3>2
  <2>13. /\ s.got \o p.items \in Seq(Items) /\ Flows(Rest(buf \o tail, k + n), s.got \o p.items, rd)
         /\ Len(s.got) <= Len(s.got \o p.items)
    <3>1. CASE n = 0
      <4>1. p.items = <<>>
        BY <2>9, <2>11, <3>1 DEF NeedMore
      <4>2. s.got \o p.items = s.got
        BY <1>2, <4>1, ConcatEmptySeq
      <4>3. k + n = k
        BY <3>1
      <4>4. Flows(Rest(buf \o tail, k), s.got, rd)
        BY <2>5 DEF R
      <4>5. Len(s.got) <= Len(s.got)
        BY <1>2
      <4>. QED BY <1>2, <4>2, <4>3, <4>4, <4>5
    <3>2. CASE n # 0
      <4>1. Flows(Rest(R, n), s.got \o p.items, rd)
        BY <2>9, <2>11, <3>2
      <4>2. s.got \o p.items \in Seq(Items)
        BY <4>1, FlowsGrow
      <4>3. n \in 0..(Len(buf \o tail) - k)
        BY <2>2, <2>12
      <4>4. Rest(R, n) = Rest(buf \o tail, k + n)
        BY <2>2, <2>3, <4>3, RestRest DEF R
      <4>5. Len(s.got) <= Len(s.got \o p.items)
        <5>1. p.n > 0
          BY <2>11, <3>2
        <5>. QED BY <2>9, <5>1
      <4>. QED BY <4>1, <4>2, <4>4, <4>5
    <3>. QED BY <3>1, <3>2
  <2>14. /\ S.k = k + n /\ S.got = s.got \o p.items /\ S.bad = FALSE /\ (S.over <=> n = 0)
         /\ S.over \in BOOLEAN
    BY <2>9, <2>11
  <2>15. S \in TurnStates(buf)
    BY <1>3, <2>9, <2>11, <2>12, <2>13 DEF TurnStates
  <2> HIDE DEF S
  <2>16. S.over => ParseOne(Rest(buf, S.k)) = NeedMore
    <3>1. SUFFICES ASSUME n = 0 PROVE ParseOne(Rest(buf, k + n)) = NeedMore
      BY <2>14
    <3>2. k + n = k /\ p = NeedMore
      BY <2>9, <2>11, <3>1
    <3>. QED BY <3>2 DEF p
  <2>17. ParseOne(buf) = NeedMore => S.k = 0
    <3> SUFFICES ASSUME ParseOne(buf) = NeedMore PROVE k + n = 0
      BY <2>14
    <3>1. k = 0
      BY <1>3 DEF Turning
    <3>2. Rest(buf, k) = buf
      BY <3>1, RestAll
    <3>3. n = 0
      BY <2>11, <3>2 DEF p, NeedMore
    <3>. QED BY <3>1, <3>3
  <2>18. Turning(buf, tail, rd, S)
    BY <2>13, <2>14, <2>15, <2>16, <2>17 DEF Turning
  <2>19. ~S.over => S.k > s.k
    BY <1>3, <2>14
  <2>20. Len(s.got) <= Len(S.got)
    BY <2>13, <2>14
  <2>. QED BY <2>1, <2>18, <2>19, <2>20
<1>. QED BY <1>2, <1>5, <1>6

Decoders == [buf : Seq(ByteSet), bad : BOOLEAN, got : Seq(Items)]

\* Drain emits frames as long as there are any: what stays in the buffer is no
\* whole frame, and with what is still to come it leads where it did.
LEMMA DrainKeeps ==
  ASSUME NEW d \in Decoders, NEW tail \in Seq(ByteSet), NEW rd, rd.open # "desync",
         Flows(d.buf \o tail, d.got, rd)
  PROVE  \E k \in 0..Len(d.buf), got \in Seq(Items) :
           /\ Drain(d) = [buf |-> Rest(d.buf, k), bad |-> FALSE, got |-> got]
           /\ Flows(Rest(d.buf, k) \o tail, got, rd)
           /\ ParseOne(Rest(d.buf, k)) = NeedMore
           /\ ParseOne(d.buf) = NeedMore => k = 0
           /\ Len(d.got) <= Len(got)
<1> DEFINE L == Len(d.buf)
           a == [k |-> 0, got |-> d.got, over |-> FALSE, bad |-> FALSE]
           A == {s \in TurnStates(d.buf) : Turning(d.buf, tail, rd, s)}
           g == [s \in A |-> Turn(d.buf, s)]
           Eq(t) == t = [i \in 0..L |-> IF i = 0 THEN a ELSE Turn(d.buf, t[i - 1])]
           turn == CHOOSE t : Eq(t)
<1>1. d.buf \in Seq(ByteSet) /\ d.got \in Seq(Items) /\ L \in Nat
  BY DEF Decoders
<1>2. a \in A
  <2>1. a \in TurnStates(d.buf)
    BY <1>1 DEF TurnStates
  <2>2. d.buf \o tail \in Seq(ByteSet)
    BY <1>1, ConcatProperties
  <2>3. Rest(d.buf \o tail, 0) = d.buf \o tail
    BY <2>2, RestAll
  <2>4. a.k = 0 /\ a.got = d.got /\ a.over = FALSE
    OBVIOUS
  <2> HIDE DEF a
  <2>5. Turning(d.buf, tail, rd, a)
    BY <2>1, <2>3, <2>4 DEF Turning
  <2>. QED BY <2>1, <2>5
<1>3. g \in [A -> A]
  <2>1. ASSUME NEW s \in A PROVE Turn(d.buf, s) \in A
    <3>1. Turning(d.buf, tail, rd, Turn(d.buf, s))
      BY <1>1, TurnKeeps
    <3>. QED BY <3>1 DEF Turning
  <2> HIDE DEF A
  <2>. QED BY <2>1
<1>4. \E t : Eq(t)
  <2> HIDE DEF a, A, L
  <2>0. PICK f : Iterates(f, A, a, g, L)
    <3>1. L \in Nat /\ a \in A /\ g \in [A -> A]
      BY <1>1, <1>2, <1>3
    <3> HIDE DEF g, Eq, turn
    <3>. QED BY <3>1, Iterated
  <2>1. f \in [0..L -> A] /\ f[0] = a /\ \A i \in 1..L : f[i] = g[f[i - 1]]
    <3> HIDE DEF g, Eq, turn
    <3>. QED BY <2>0 DEF Iterates
  <2>2. ASSUME NEW i \in 0..L PROVE f[i] = IF i = 0 THEN a ELSE Turn(d.buf, f[i - 1])
    <3>1. CASE i = 0
      BY <2>1, <3>1
    <3>2. CASE i # 0
      <4>1. i \in 1..L /\ i - 1 \in 0..L
        BY <1>1, <3>2
      <4>2. f[i - 1] \in A /\ f[i] = g[f[i - 1]]
        BY <2>1, <4>1
      <4>. QED BY <3>2, <4>2
    <3>. QED BY <3>1, <3>2
  <2>3. Eq(f)
    BY <2>1, <2>2
  <2>. QED BY <2>3
<1>5. Eq(turn)
  BY <1>4
<1>6. Drained(d) = turn[L]
  BY DEF Drained
<1> HIDE DEF turn
<1>7. turn[0] = a /\ \A i \in 1..L : turn[i] = Turn(d.buf, turn[i - 1])
  <2> HIDE DEF a, A, L
  <2>1. \A i \in 0..L : turn[i] = IF i = 0 THEN a ELSE Turn(d.buf, turn[i - 1])
    BY <1>5
  <2>2. 0 \in 0..L /\ \A i \in 1..L : i \in 0..L /\ i # 0
    BY <1>1
  <2>. QED BY <2>1, <2>2
<1> DEFINE P == {i \in 0..L : Turning(d.buf, tail, rd, turn[i]) /\ (~turn[i].over => turn[i].k >= i)
                          /\ Len(d.got) <= Len(turn[i].got)}
<1>8. 0 \in P
  <2>1. turn[0].got = d.got /\ Len(d.got) <= Len(d.got)
    BY <1>1, <1>7
  <2>. QED BY <1>1, <1>2, <1>7, <2>1
<1>9. ASSUME NEW i \in 0..(L - 1), i \in P PROVE i + 1 \in P
  <2>1. i + 1 \in 1..L /\ (i + 1) - 1 = i /\ i + 1 \in 0..L
    BY <1>1
  <2>2. turn[i + 1] = Turn(d.buf, turn[i])
    BY <1>7, <2>1
  <2>3. Turning(d.buf, tail, rd, turn[i]) /\ (~turn[i].over => turn[i].k >= i)
    BY <1>9
  <2>4. /\ Turning(d.buf, tail, rd, turn[i + 1])
        /\ ~turn[i + 1].over => turn[i + 1].k > turn[i].k
        /\ Len(turn[i].got) <= Len(turn[i + 1].got)
    BY <1>1, <2>2, <2>3, TurnKeeps
  <2>5. turn[i].over => turn[i + 1].over
    BY <2>2 DEF Turn
  <2>6. turn[i].k \in Nat /\ turn[i + 1].k \in Nat
    <3>1. turn[i] \in TurnStates(d.buf) /\ turn[i + 1] \in TurnStates(d.buf)
      BY <2>3, <2>4 DEF Turning
    <3>2. \A s \in TurnStates(d.buf) : s.k \in Nat
      BY <1>1 DEF TurnStates
    <3>. QED BY <3>1, <3>2
  <2>7. ASSUME ~turn[i + 1].over PROVE turn[i + 1].k >= i + 1
    <3>1. turn[i].k >= i /\ turn[i + 1].k > turn[i].k
      BY <2>3, <2>4, <2>5, <2>7
    <3>. QED BY <2>6, <3>1
  <2>8. Len(d.got) <= Len(turn[i + 1].got)
    <3>1. turn[i] \in TurnStates(d.buf) /\ turn[i + 1] \in TurnStates(d.buf)
      BY <2>3, <2>4 DEF Turning
    <3>2. \A s \in TurnStates(d.buf) : s.got \in Seq(Items)
      BY DEF TurnStates
    <3>3. Len(d.got) \in Nat /\ Len(turn[i].got) \in Nat /\ Len(turn[i + 1].got) \in Nat
      BY <1>1, <3>1, <3>2
    <3>4. Len(d.got) <= Len(turn[i].got)
      BY <1>9
    <3>5. PICK x \in Nat, y \in Nat, z \in Nat :
            x = Len(d.got) /\ y = Len(turn[i].got) /\ z = Len(turn[i + 1].got)
      BY <3>3, Zenon
    <3>6. x <= y /\ y <= z
      BY <2>4, <3>4, <3>5, Zenon
    <3>7. x <= z
      BY <3>6
    <3>. QED BY <3>5, <3>7, Zenon
  <2>. QED BY <2>1, <2>4, <2>7, <2>8
<1> HIDE DEF P
<1>10. L \in P
  <2>1. \A i \in 0..L : i \in P
    <3> HIDE DEF L
    <3>. QED BY <1>1, <1>8, <1>9, FromTo
  <2>. QED BY <1>1, <2>1
<1> DEFINE e == turn[L]
<1>11. Turning(d.buf, tail, rd, e) /\ (~e.over => e.k >= L) /\ Len(d.got) <= Len(e.got)
  BY <1>10 DEF P
<1> HIDE DEF e
<1>12. e.k \in 0..Len(d.buf) /\ e.got \in Seq(Items) /\ e.bad = FALSE /\ e.over \in BOOLEAN
  BY <1>11 DEF Turning, TurnStates
<1>13. ParseOne(Rest(d.buf, e.k)) = NeedMore
  <2>1. CASE e.over
    BY <1>11, <2>1 DEF Turning
  <2>2. CASE ~e.over
    <3>1. e.k = Len(d.buf)
      BY <1>1, <1>11, <1>12, <2>2
    <3>2. Rest(d.buf, e.k) = <<>>
      BY <1>1, <3>1, RestAll
    <3>. QED BY <3>2 DEF ParseOne
  <2>. QED BY <1>12, <2>1, <2>2
<1>14. Flows(Rest(d.buf, e.k) \o tail, e.got, rd)
  <2>1. Rest(d.buf \o tail, e.k) = Rest(d.buf, e.k) \o tail
    BY <1>1, <1>12, RestConcat
  <2>. QED BY <1>11, <2>1 DEF Turning
<1>15. ParseOne(d.buf) = NeedMore => e.k = 0
  BY <1>11 DEF Turning
<1>16. Drain(d) = [buf |-> Rest(d.buf, e.k), bad |-> FALSE, got |-> e.got]
  BY <1>6, <1>12 DEF Drain, Rest, e
<1>. QED BY <1>11, <1>12, <1>13, <1>14, <1>15, <1>16

LEMMA BytesAssociative ==
  \A a, b, c \in Seq(ByteSet) : (a \o b) \o c = a \o (b \o c)
BY ConcatAssociative

\* p is what the stream has between u and v bytes.
IsPiece(S, u, v, p) ==
  /\ p \in Seq(ByteSet) /\ Len(p) = v - u
  /\ Rest(S, v) \in Seq(ByteSet) /\ p \o Rest(S, v) = Rest(S, u)

\* The bytes u + 1 to v of a chunk of n, and what of the stream follows them.
LEMMA Piece ==
  ASSUME NEW S \in Seq(ByteSet), NEW n \in 0..Len(S), NEW u \in 0..n, NEW v \in u..n, NEW p,
         p = SubSeq(SubSeq(S, 1, n), u + 1, v)
  PROVE  IsPiece(S, u, v, p)
<1>1. PICK l \in Nat : l = Len(S)
  OBVIOUS
<1>2. n \in Nat /\ u \in Nat /\ v \in Nat /\ u <= v /\ v <= n /\ n <= l
  BY <1>1
<1>3. u \in 0..Len(S) /\ v \in 0..Len(S)
  BY <1>1, <1>2
<1>4. /\ Rest(S, u) \in Seq(ByteSet) /\ Len(Rest(S, u)) = l - u
      /\ \A i \in 1..(l - u) : Rest(S, u)[i] = S[u + i]
  BY <1>1, <1>3, RestType
<1>5. /\ Rest(S, v) \in Seq(ByteSet) /\ Len(Rest(S, v)) = l - v
      /\ \A i \in 1..(l - v) : Rest(S, v)[i] = S[v + i]
  BY <1>1, <1>3, RestType
<1>6. /\ SubSeq(S, 1, n) \in Seq(ByteSet) /\ Len(SubSeq(S, 1, n)) = n
      /\ \A i \in 1..n : SubSeq(S, 1, n)[i] = S[i]
  BY Prefix
<1>7. p \in Seq(ByteSet) /\ Len(p) = v - u /\ \A i \in 1..(v - u) : p[i] = S[u + i]
  <2> DEFINE c == SubSeq(S, 1, n)
  <2>1. c \in Seq(ByteSet) /\ Len(c) = n /\ \A i \in 1..n : c[i] = S[i]
    BY <1>6
  <2>2. p = SubSeq(c, u + 1, v)
    OBVIOUS
  <2> HIDE DEF c
  <2>3. p \in Seq(ByteSet) /\ Len(p) = v - u /\ \A i \in 1..(v - u) : p[i] = c[u + i]
    <3>1. u + 1 \in Int /\ v \in Int /\ \A i \in (u + 1)..v : c[i] \in ByteSet
      <4>1. ASSUME NEW i \in (u + 1)..v PROVE c[i] \in ByteSet
        <5>1. i \in 1..Len(c)
          BY <1>2, <2>1
        <5>. QED BY <2>1, <5>1
      <4>. QED BY <1>2, <4>1
    <3>2. PICK h \in Int : h = u + 1
      BY <3>1
    <3>3. \A i \in h..v : c[i] \in ByteSet
      BY <3>1, <3>2
    <3>4. /\ SubSeq(c, h, v) \in Seq(ByteSet)
          /\ Len(SubSeq(c, h, v)) = IF h <= v THEN v - h + 1 ELSE 0
          /\ \A i \in 1..(v - h + 1) : SubSeq(c, h, v)[i] = c[h + i - 1]
      BY <3>1, <3>2, <3>3, SubSeqProperties
    <3>5. v - h + 1 = v - u /\ (~(h <= v) => v - u = 0) /\ \A i \in 1..(v - u) : h + i - 1 = u + i
      BY <1>2, <3>2
    <3>6. p = SubSeq(c, h, v)
      BY <2>2, <3>2
    <3>7. Len(p) = v - u
      BY <3>4, <3>5, <3>6
    <3>8. \A i \in 1..(v - u) : p[i] = c[u + i]
      BY <3>4, <3>5, <3>6
    <3>. QED BY <3>4, <3>6, <3>7, <3>8
  <2>4. \A i \in 1..(v - u) : u + i \in 1..n
    BY <1>2
  <2>. QED BY <2>1, <2>3, <2>4
<1>8. /\ p \o Rest(S, v) \in Seq(ByteSet) /\ Len(p \o Rest(S, v)) = Len(p) + Len(Rest(S, v))
      /\ \A i \in 1..(Len(p) + Len(Rest(S, v))) :
           (p \o Rest(S, v))[i] = IF i <= Len(p) THEN p[i] ELSE Rest(S, v)[i - Len(p)]
  <2>1. p \in Seq(ByteSet) /\ Rest(S, v) \in Seq(ByteSet)
    BY <1>5, <1>7
  <2> DEFINE R == Rest(S, v)
  <2> HIDE DEF R
  <2>2. R \in Seq(ByteSet)
    BY <2>1 DEF R
  <2>3. /\ p \o R \in Seq(ByteSet) /\ Len(p \o R) = Len(p) + Len(R)
        /\ \A i \in 1..(Len(p) + Len(R)) : (p \o R)[i] = IF i <= Len(p) THEN p[i] ELSE R[i - Len(p)]
    BY <2>1, <2>2, ConcatProperties
  <2>. QED BY <2>3 DEF R
<1>9. Len(p) + Len(Rest(S, v)) = l - u
  BY <1>2, <1>5, <1>7
<1>10. ASSUME NEW i \in 1..(l - u) PROVE (p \o Rest(S, v))[i] = Rest(S, u)[i]
  <2>1. (p \o Rest(S, v))[i] = IF i <= Len(p) THEN p[i] ELSE Rest(S, v)[i - Len(p)]
    BY <1>8, <1>9
  <2>2. CASE i <= v - u
    <3>1. i \in 1..(v - u)
      BY <1>2, <2>2
    <3>. QED BY <1>4, <1>7, <2>1, <2>2, <3>1
  <2>3. CASE ~(i <= v - u)
    <3>1. i - (v - u) \in 1..(l - v) /\ v + (i - (v - u)) = u + i
      BY <1>2, <2>3
    <3>2. (p \o Rest(S, v))[i] = Rest(S, v)[i - (v - u)]
      BY <1>7, <2>1, <2>3
    <3>3. Rest(S, v)[i - (v - u)] = S[v + (i - (v - u))]
      BY <1>5, <3>1
    <3>. QED BY <1>4, <3>1, <3>2, <3>3
  <2>. QED BY <2>2, <2>3
<1>11. p \o Rest(S, v) = Rest(S, u)
  BY <1>4, <1>8, <1>9, <1>10, SameBytes
<1>. QED BY <1>5, <1>7, <1>11 DEF IsPiece

\* Between two rounds of feed's loop over the first n bytes of S.
Rounds(S, n, rd, s) ==
  /\ s \in [dec : Decoders, used : 0..n]
  /\ Len(s.dec.buf) <= BUF_CAP /\ ParseOne(s.dec.buf) = NeedMore
  /\ s.dec.bad => Len(s.dec.buf) = BUF_CAP
  /\ Flows(s.dec.buf \o Rest(S, s.used), s.dec.got, rd)

\* A round of feed's loop, which ends it or takes a byte at least.
LEMMA RoundKeeps ==
  ASSUME NEW S \in Seq(ByteSet), NEW n \in 0..Len(S), NEW rd, rd.open # "desync",
         NEW s, Rounds(S, n, rd, s), NEW t, t = Round(s, SubSeq(S, 1, n))
  PROVE  /\ Rounds(S, n, rd, t)
         /\ ~t.dec.bad /\ t.used # n => t.used > s.used
         /\ Len(s.dec.got) <= Len(t.dec.got)
<1> DEFINE input == SubSeq(S, 1, n)
<1>1. s \in [dec : Decoders, used : 0..n] /\ s.dec \in Decoders /\ s.used \in 0..n
  BY DEF Rounds
<1>2. s.dec.buf \in Seq(ByteSet) /\ s.dec.got \in Seq(Items) /\ s.dec.bad \in BOOLEAN
  BY <1>1 DEF Decoders
<1>3. Len(input) = n /\ n \in Nat
  BY Prefix
<1>4. CASE s.dec.bad \/ s.used = n
  <2>1. t = s
    BY <1>3, <1>4 DEF Round
  <2>2. Len(s.dec.got) <= Len(s.dec.got)
    BY <1>2
  <2>. QED BY <1>4, <2>1, <2>2
<1>5. CASE ~(s.dec.bad \/ s.used = n)
  <2>1. t = TopUp(s, input)
    BY <1>3, <1>5 DEF Round
  <2>2. PICK u \in Nat, l \in Nat : u = s.used /\ l = Len(s.dec.buf) /\ u < n /\ l <= BUF_CAP
    BY <1>1, <1>2, <1>3, <1>5 DEF Rounds
  <2>3. PICK take \in Nat : /\ take = Min({BUF_CAP - l, n - u})
                            /\ take <= BUF_CAP - l /\ take <= n - u /\ (take = 0 => l = BUF_CAP)
    <3>0. PICK c \in Nat : c = BUF_CAP
      BY DecoderConstants
    <3>1. c - l \in Nat /\ n - u \in Nat \ {0} /\ BUF_CAP - l = c - l
      BY <1>3, <2>2, <3>0
    <3>2. PICK a \in Nat, b \in Nat \ {0} : a = BUF_CAP - l /\ b = n - u
      BY <3>1
    <3>3. CASE a <= b
      <4>1. {a, b} \in SUBSET Int /\ a \in {a, b} /\ \A k \in {a, b} : a <= k
        BY <3>3
      <4>2. Min({a, b}) = a
        BY <4>1, MinIs
      <4>3. a <= BUF_CAP - l /\ a <= n - u /\ (a = 0 => l = BUF_CAP)
        BY <2>2, <3>0, <3>2, <3>3
      <4>. QED BY <3>2, <4>2, <4>3
    <3>4. CASE ~(a <= b)
      <4>1. {a, b} \in SUBSET Int /\ b \in {a, b} /\ \A k \in {a, b} : b <= k
        BY <3>4
      <4>2. Min({a, b}) = b
        BY <4>1, MinIs
      <4>3. b <= BUF_CAP - l /\ b <= n - u /\ b # 0
        BY <3>2, <3>4
      <4>. QED BY <3>2, <4>2, <4>3
    <3>. QED BY <3>3, <3>4
  <2>4. PICK v \in Nat : v = u + take /\ v \in u..n /\ u \in 0..n /\ v \in 0..n
    BY <1>3, <2>2, <2>3
  <2> DEFINE p == SubSeq(input, u + 1, v)
             d == [s.dec EXCEPT !.buf = @ \o p]
             e == Drain(d)
             stuck == ~e.bad /\ v < n /\ Len(e.buf) = BUF_CAP
  <2>5. t = [dec |-> [e EXCEPT !.bad = @ \/ stuck], used |-> v]
    <3> HIDE DEF input
    <3>. QED BY <1>3, <2>1, <2>2, <2>3, <2>4 DEF TopUp
  <2>6. /\ p \in Seq(ByteSet) /\ Len(p) = v - u
        /\ Rest(S, v) \in Seq(ByteSet) /\ p \o Rest(S, v) = Rest(S, u)
    <3>1. p = SubSeq(SubSeq(S, 1, n), u + 1, v)
      OBVIOUS
    <3> HIDE DEF p, input
    <3>2. IsPiece(S, u, v, p)
      BY <2>4, <3>1, Piece
    <3>. QED BY <3>2 DEF IsPiece
  <2> HIDE DEF input, p
  <2>7. /\ d \in Decoders /\ d.buf = s.dec.buf \o p /\ d.got = s.dec.got
        /\ Len(d.buf) = l + take
    <3>1. s.dec.buf \o p \in Seq(ByteSet) /\ Len(s.dec.buf \o p) = Len(s.dec.buf) + Len(p)
      BY <1>2, <2>6, ConcatProperties
    <3>2. Len(s.dec.buf) + Len(p) = l + take
      <4>1. v - u = take
        BY <2>4
      <4>. QED BY <2>2, <2>6, <4>1
    <3>. QED BY <1>1, <3>1, <3>2 DEF Decoders
  <2>8. d.buf \o Rest(S, v) = s.dec.buf \o Rest(S, s.used)
    <3>1. (s.dec.buf \o p) \o Rest(S, v) = s.dec.buf \o (p \o Rest(S, v))
      BY <1>2, <2>6, BytesAssociative
    <3>. QED BY <2>2, <2>6, <2>7, <3>1
  <2>9. Flows(d.buf \o Rest(S, v), d.got, rd)
    BY <2>7, <2>8 DEF Rounds
  <2> HIDE DEF d
  <2>10. PICK k \in 0..Len(d.buf), got \in Seq(Items) :
           /\ e = [buf |-> Rest(d.buf, k), bad |-> FALSE, got |-> got]
           /\ Flows(Rest(d.buf, k) \o Rest(S, v), got, rd)
           /\ ParseOne(Rest(d.buf, k)) = NeedMore
           /\ ParseOne(d.buf) = NeedMore => k = 0
           /\ Len(d.got) <= Len(got)
    BY <2>6, <2>7, <2>9, DrainKeeps
  <2> HIDE DEF e
  <2> DEFINE r == Rest(d.buf, k)
  <2>11. r \in Seq(ByteSet) /\ Len(r) = l + take - k /\ k \in Nat
    <3>1. d.buf \in Seq(ByteSet)
      BY <2>7 DEF Decoders
    <3>2. r \in Seq(ByteSet) /\ Len(r) = Len(d.buf) - k
      BY <3>1, RestType
    <3>. QED BY <2>7, <3>2
  <2>12. e = [buf |-> r, bad |-> FALSE, got |-> got]
    BY <2>10
  <2>13. ParseOne(r) = NeedMore /\ Flows(r \o Rest(S, v), got, rd)
    BY <2>10
  <2> HIDE DEF r
  <2>14. PICK w \in BOOLEAN : /\ w <=> (v < n /\ Len(r) = BUF_CAP)
                              /\ t = [dec |-> [buf |-> r, bad |-> w, got |-> got], used |-> v]
    <3>1. e.bad = FALSE /\ e.buf = r
      BY <2>12
    <3>2. stuck \in BOOLEAN /\ (stuck <=> (v < n /\ Len(r) = BUF_CAP))
      BY <3>1
    <3> HIDE DEF stuck
    <3>3. [e EXCEPT !.bad = @ \/ stuck] = [buf |-> r, bad |-> (FALSE \/ stuck), got |-> got]
      BY <2>12
    <3>4. (FALSE \/ stuck) = stuck
      BY <3>2
    <3>. QED BY <2>5, <3>2, <3>3, <3>4
  <2>15. t.dec \in Decoders /\ t.used \in 0..n /\ t \in [dec : Decoders, used : 0..n]
    <3>1. t.dec = [buf |-> r, bad |-> w, got |-> got]
      BY <2>14
    <3>2. t.dec \in Decoders
      BY <2>11, <3>1 DEF Decoders
    <3>. QED BY <2>4, <2>14, <3>2
  <2>16. t.dec.buf = r /\ t.dec.got = got /\ t.used = v /\ (t.dec.bad <=> v < n /\ Len(r) = BUF_CAP)
    BY <2>14
  <2>17. Len(r) <= BUF_CAP
    <3>1. BUF_CAP \in Nat
      BY DecoderConstants
    <3>2. take <= BUF_CAP - l
      BY <2>3
    <3>. QED BY <2>2, <2>11, <3>1, <3>2
  <2>18. Rounds(S, n, rd, t)
    BY <2>13, <2>15, <2>16, <2>17 DEF Rounds
  <2>19. ASSUME ~t.dec.bad, t.used # n PROVE t.used > s.used
    <3>1. v < n
      BY <1>3, <2>4, <2>16, <2>19
    <3>2. ASSUME take = 0 PROVE FALSE
      <4>1. p = <<>>
        BY <2>4, <2>6, <3>2
      <4>2. d.buf = s.dec.buf
        BY <1>2, <2>7, <4>1, ConcatEmptySeq
      <4>3. k = 0
        BY <2>10, <4>2 DEF Rounds
      <4>4. Len(r) = BUF_CAP
        BY <2>3, <2>11, <3>2, <4>3
      <4>. QED BY <2>16, <2>19, <3>1, <4>4
    <3>. QED BY <2>2, <2>3, <2>4, <2>16, <3>2
  <2>20. Len(s.dec.got) <= Len(t.dec.got)
    BY <2>7, <2>10, <2>16
  <2>. QED BY <2>18, <2>19, <2>20
<1>. QED BY <1>4, <1>5

\* A decoder whose buffer and whatever is still to come lead where the reader
\* is, until it reports a frame that does not fit.
Receiver(d, tail, rd) ==
  /\ d \in Decoders /\ Len(d.buf) <= BUF_CAP /\ ParseOne(d.buf) = NeedMore
  /\ d.bad => Len(d.buf) = BUF_CAP
  /\ ~d.bad => Flows(d.buf \o tail, d.got, rd)
  /\ \E x \in Seq(Items) : rd.out = d.got \o x

\* A feed of the next n bytes.
LEMMA ReceiveKeeps ==
  ASSUME NEW S \in Seq(ByteSet), NEW n \in 0..Len(S), NEW rd, rd.open # "desync",
         NEW d, Receiver(d, S, rd), ~d.bad, NEW e, e = Receive(d, SubSeq(S, 1, n))
  PROVE  Receiver(e, Rest(S, n), rd) /\ Len(d.got) <= Len(e.got)
<1> DEFINE input == SubSeq(S, 1, n)
           a == [dec |-> d, used |-> 0]
           A == {s \in [dec : Decoders, used : 0..n] : Rounds(S, n, rd, s)}
           g == [s \in A |-> Round(s, input)]
           Eq(t) == t = [i \in 0..n |-> IF i = 0 THEN a ELSE Round(t[i - 1], input)]
           round == CHOOSE t : Eq(t)
<1>1. d \in Decoders /\ d.buf \in Seq(ByteSet) /\ d.got \in Seq(Items) /\ n \in Nat
  BY DEF Receiver, Decoders
<1>2. a \in A
  <2>1. a.dec = d /\ a.used = 0 /\ a \in [dec : Decoders, used : 0..n]
    BY <1>1
  <2>2. Rest(S, 0) = S
    BY RestAll
  <2> HIDE DEF a
  <2>3. Rounds(S, n, rd, a)
    BY <2>1, <2>2 DEF Rounds, Receiver
  <2>. QED BY <2>1, <2>3
<1>3. g \in [A -> A]
  <2>1. ASSUME NEW s \in A PROVE Round(s, input) \in A
    <3>1. Rounds(S, n, rd, Round(s, input))
      BY RoundKeeps
    <3>. QED BY <3>1 DEF Rounds
  <2> HIDE DEF A
  <2>. QED BY <2>1
<1>4. \E t : Eq(t)
  <2> HIDE DEF a, A, input
  <2>0. PICK f : Iterates(f, A, a, g, n)
    <3>1. n \in Nat /\ a \in A /\ g \in [A -> A]
      BY <1>1, <1>2, <1>3
    <3> HIDE DEF g, Eq, round
    <3>. QED BY <3>1, Iterated
  <2>1. f \in [0..n -> A] /\ f[0] = a /\ \A i \in 1..n : f[i] = g[f[i - 1]]
    <3> HIDE DEF g, Eq, round
    <3>. QED BY <2>0 DEF Iterates
  <2>2. ASSUME NEW i \in 0..n PROVE f[i] = IF i = 0 THEN a ELSE Round(f[i - 1], input)
    <3>1. CASE i = 0
      BY <2>1, <3>1
    <3>2. CASE i # 0
      <4>1. i \in 1..n /\ i - 1 \in 0..n
        BY <1>1, <3>2
      <4>2. f[i - 1] \in A /\ f[i] = g[f[i - 1]]
        BY <2>1, <4>1
      <4>. QED BY <3>2, <4>2
    <3>. QED BY <3>1, <3>2
  <2>3. Eq(f)
    BY <2>1, <2>2
  <2>. QED BY <2>3
<1>5. Eq(round)
  BY <1>4
<1>6. e = round[n].dec
  <2>1. Len(input) = n
    BY Prefix
  <2>. QED BY <2>1 DEF Receive
<1> HIDE DEF round
<1>7. round[0] = a /\ \A i \in 1..n : round[i] = Round(round[i - 1], input)
  <2> HIDE DEF a, A, input
  <2>1. \A i \in 0..n : round[i] = IF i = 0 THEN a ELSE Round(round[i - 1], input)
    BY <1>5
  <2>2. 0 \in 0..n /\ \A i \in 1..n : i \in 0..n /\ i # 0
    BY <1>1
  <2>. QED BY <2>1, <2>2
<1> DEFINE P == {i \in 0..n : /\ Rounds(S, n, rd, round[i])
                              /\ ~round[i].dec.bad /\ round[i].used # n => round[i].used >= i
                              /\ Len(d.got) <= Len(round[i].dec.got)}
<1>8. 0 \in P
  <2>1. round[0].dec = d /\ round[0].used = 0 /\ Len(d.got) <= Len(d.got)
    BY <1>1, <1>7
  <2>2. 0 \in 0..n
    BY <1>1
  <2>3. Rounds(S, n, rd, round[0])
    BY <1>2, <1>7
  <2>. QED BY <2>1, <2>2, <2>3
<1>9. ASSUME NEW i \in 0..(n - 1), i \in P PROVE i + 1 \in P
  <2>1. i + 1 \in 1..n /\ (i + 1) - 1 = i /\ i + 1 \in 0..n
    BY <1>1
  <2> DEFINE s == round[i]
             t == round[i + 1]
  <2>2. t = Round(s, SubSeq(S, 1, n))
    BY <1>7, <2>1
  <2>3. /\ Rounds(S, n, rd, s) /\ (~s.dec.bad /\ s.used # n => s.used >= i)
        /\ Len(d.got) <= Len(s.dec.got)
    BY <1>9
  <2> HIDE DEF s, t
  <2>4. /\ Rounds(S, n, rd, t) /\ (~t.dec.bad /\ t.used # n => t.used > s.used)
        /\ Len(s.dec.got) <= Len(t.dec.got)
    BY <2>2, <2>3, RoundKeeps
  <2>5. s \in [dec : Decoders, used : 0..n] /\ t \in [dec : Decoders, used : 0..n]
    BY <2>3, <2>4 DEF Rounds
  <2>6. /\ s.used \in Nat /\ t.used \in Nat /\ s.used <= n
        /\ s.dec.got \in Seq(Items) /\ t.dec.got \in Seq(Items)
    BY <1>1, <2>5 DEF Decoders
  <2>7. ASSUME ~t.dec.bad, t.used # n PROVE t.used >= i + 1
    <3>1. ~s.dec.bad /\ s.used # n
      <4>1. s.dec.bad \/ s.used = n => t = s
        <5>1. Len(SubSeq(S, 1, n)) = n
          BY Prefix
        <5>. QED BY <2>2, <5>1 DEF Round
      <4>. QED BY <2>7, <4>1
    <3>. QED BY <2>3, <2>4, <2>6, <2>7, <3>1
  <2>8. Len(d.got) <= Len(t.dec.got)
    <3>1. Len(d.got) \in Nat /\ Len(s.dec.got) \in Nat /\ Len(t.dec.got) \in Nat
      BY <1>1, <2>6
    <3>. QED BY <2>3, <2>4, <3>1
  <2>. QED BY <2>1, <2>4, <2>7, <2>8 DEF t
<1> HIDE DEF P
<1>10. n \in P
  <2>1. \A i \in 0..n : i \in P
    BY <1>1, <1>8, <1>9, FromTo
  <2>. QED BY <1>1, <2>1
<1> DEFINE r == round[n]
<1>11. /\ Rounds(S, n, rd, r) /\ (~r.dec.bad /\ r.used # n => r.used >= n)
       /\ Len(d.got) <= Len(r.dec.got) /\ e = r.dec
  BY <1>6, <1>10 DEF P
<1> HIDE DEF r
<1>12. r.dec \in Decoders /\ r.used \in 0..n
  BY <1>11 DEF Rounds
<1>13. ~r.dec.bad => r.used = n
  BY <1>1, <1>11, <1>12
<1>14. ~e.bad => Flows(e.buf \o Rest(S, n), e.got, rd)
  BY <1>11, <1>13 DEF Rounds
<1>15. \E x \in Seq(Items) : rd.out = e.got \o x
  <2>1. Flows(e.buf \o Rest(S, r.used), e.got, rd)
    BY <1>11 DEF Rounds
  <2>2. PICK w, o : Flows(w, o, rd) /\ o = e.got
    BY <2>1
  <2>3. Flows(w, o, rd)
    BY <2>2
  <2>4. \E x \in Seq(Items) : rd.out = o \o x
    BY <2>3, FlowsGrow
  <2>. QED BY <2>2, <2>4
<1>. QED BY <1>11, <1>12, <1>14, <1>15 DEF Rounds, Receiver

\* What a call pushes adds to what the reader has said.
LEMMA FollowedGrows ==
  ASSUME NEW sink \in Seq(Tokens), NEW r \in Readers, NEW rd, Followed(sink, r, rd)
  PROVE  rd \in Readers /\ Grows(r, rd)
<1>1. PICK T, U : \E rs \in [0..Len(sink) -> U] :
        /\ sink \in Seq(T)
        /\ rs[0] = r /\ rs[Len(sink)] = rd
        /\ \A i \in 1..Len(sink) : rs[i] = Read(rs[i - 1], sink[i])
  BY DEF Followed
<1>2. PICK rs \in [0..Len(sink) -> U] :
        /\ rs[0] = r /\ rs[Len(sink)] = rd
        /\ \A i \in 1..Len(sink) : rs[i] = Read(rs[i - 1], sink[i])
  BY <1>1
<1>3. PICK n \in Nat : n = Len(sink)
  OBVIOUS
<1>4. \A i \in 1..n : sink[i] \in Tokens
  BY <1>3
<1>5. r.out \in Seq(Items)
  BY DEF Readers
<1> DEFINE P == {i \in 0..n : rs[i] \in Readers /\ \E x \in Seq(Items) : rs[i].out = r.out \o x}
<1>6. 0 \in P
  <2>1. r.out \o <<>> = r.out /\ <<>> \in Seq(Items) /\ 0 \in 0..n
    BY <1>3, <1>5, ConcatEmptySeq
  <2>. QED BY <1>2, <2>1
<1>7. ASSUME NEW i \in 0..(n - 1), i \in P PROVE i + 1 \in P
  <2>1. i + 1 \in 1..n /\ (i + 1) - 1 = i /\ i + 1 \in 0..n
    BY <1>3
  <2>2. rs[i + 1] = Read(rs[i], sink[i + 1]) /\ sink[i + 1] \in Tokens /\ rs[i] \in Readers
    BY <1>2, <1>3, <1>4, <1>7, <2>1
  <2>3. PICK x \in Seq(Items) : rs[i].out = r.out \o x
    BY <1>7
  <2>4. PICK y \in Seq(Items) : rs[i + 1].out = rs[i].out \o y
    <3>1. \E y \in Seq(Items) : Read(rs[i], sink[i + 1]).out = rs[i].out \o y
      BY <2>2, ReadGrows, Zenon
    <3>. QED BY <2>2, <3>1, Zenon
  <2>5. x \o y \in Seq(Items) /\ (r.out \o x) \o y = r.out \o (x \o y)
    <3>1. x \o y \in Seq(Items)
      OBVIOUS
    <3>2. r.out \in Seq(Items) /\ x \in Seq(Items) /\ y \in Seq(Items)
      BY <1>5
    <3>3. (r.out \o x) \o y = r.out \o (x \o y)
      BY <3>2, ItemsAssociative, Zenon
    <3>. QED BY <3>1, <3>3
  <2>6. rs[i + 1] \in Readers
    BY <2>2, ReadType
  <2>. QED BY <2>1, <2>3, <2>4, <2>5, <2>6
<1> HIDE DEF P
<1>8. n \in P
  <2>1. \A i \in 0..n : i \in P
    BY <1>3, <1>6, <1>7, FromTo
  <2>. QED BY <1>3, <2>1
<1>. QED BY <1>2, <1>3, <1>8 DEF P, Grows

-----------------------------------------------------------------------------
(* The inductive invariant of the link. *)

LinkInv ==
  /\ IInv
  /\ line \in Seq(ByteSet)
  /\ Receiver(dec, line, enc.reader)

\* The encoder's reader is never desynced.
LEMMA LinkReader ==
  ASSUME LinkInv
  PROVE  enc \in Encoders /\ enc.reader \in Readers /\ enc.reader.open # "desync"
<1>1. enc \in Encoders /\ TypeOK
  BY IInvTypeOK DEF LinkInv, TypeOK
<1>2. enc.reader.open # "desync"
  BY DEF LinkInv, IInv, EncOK, Ready, Sound, Encoders, States
<1>. QED BY <1>1, <1>2 DEF Encoders

\* What a call pushes are bytes.
LEMMA PushedType ==
  ASSUME NEW sink \in Seq(Tokens)
  PROVE  FlattenSeq([i \in DOMAIN sink |-> Bytes(sink[i])]) \in Seq(ByteSet)
<1> DEFINE ss == [i \in DOMAIN sink |-> Bytes(sink[i])]
<1>1. \A i \in 1..Len(sink) : Bytes(sink[i]) \in Seq(ByteSet)
  BY BytesType
<1>2. ss \in Seq(Seq(ByteSet))
  <2>1. ss = [i \in 1..Len(sink) |-> Bytes(sink[i])]
    OBVIOUS
  <2>. QED BY <1>1, <2>1
<1> HIDE DEF ss
<1>3. PICK f \in [0..Len(ss) -> Seq(ByteSet)] :
        /\ f[0] = <<>> /\ f[Len(ss)] = FlattenSeq(ss)
        /\ \A i \in 1..Len(ss) : f[i] = f[i - 1] \o ss[i]
  BY <1>2, Flatten
<1>4. Len(ss) \in 0..Len(ss)
  BY <1>2
<1>5. FlattenSeq(ss) \in Seq(ByteSet)
  BY <1>3, <1>4
<1>. QED BY <1>5 DEF ss

\* LinkInv at the start,
LEMMA InitLinkInv == LinkInit => LinkInv
<1> SUFFICES ASSUME LinkInit PROVE LinkInv
  OBVIOUS
<1>1. IInv
  BY InitIInv DEF LinkInit
<1>2. line = <<>> /\ line \in Seq(ByteSet) /\ dec = NewDecoder
  BY DEF LinkInit
<1>3. NewReader \in Readers /\ NewReader.open = "none" /\ NewReader.out = <<>>
  BY WireConstants DEF NewReader, Readers
<1>4. enc.reader = NewReader
  BY DEF LinkInit, Init, NewEncoder
<1>5. dec \in Decoders /\ dec.buf = <<>> /\ dec.got = <<>> /\ dec.bad = FALSE
  BY <1>2 DEF NewDecoder, Decoders
<1>6. Len(dec.buf) <= BUF_CAP /\ ParseOne(dec.buf) = NeedMore
  BY <1>5, DecoderConstants DEF ParseOne
<1>7. Flows(dec.buf \o line, dec.got, enc.reader)
  <2>1. Flows(<<>>, NewReader.out, NewReader)
    BY <1>3, FlowsEmpty
  <2>2. dec.buf \o line = <<>>
    BY <1>2, <1>5
  <2>. QED BY <1>3, <1>4, <1>5, <2>1, <2>2
<1>8. \E x \in Seq(Items) : enc.reader.out = dec.got \o x
  <2>1. <<>> \in Seq(Items) /\ <<>> \o <<>> = <<>>
    OBVIOUS
  <2>. QED BY <1>3, <1>4, <1>5, <2>1
<1>9. Receiver(dec, line, enc.reader)
  BY <1>5, <1>6, <1>7, <1>8 DEF Receiver
<1>. QED BY <1>1, <1>2, <1>9 DEF LinkInv

\* after a call of the capture loop,
LEMMA TransmitKeeps ==
  ASSUME LinkInv, Transmit
  PROVE  LinkInv'
<1>1. IInv' /\ IInv /\ Next
  <2>1. [Next]_vars
    BY DEF Transmit
  <2>. QED BY <2>1, NextIInv DEF LinkInv, Transmit
<1>2. enc \in Encoders /\ enc.reader \in Readers
  BY LinkReader
<1>3. enc'.sink \in Seq(Tokens)
  <2>1. TypeOK'
    BY <1>1, IInvTypeOK, PTL
  <2>. QED BY <2>1 DEF TypeOK, Encoders
<1>4. Followed(enc'.sink, enc.reader, enc'.reader)
  BY <1>1, <1>2, ChainNext
<1> DEFINE pushed == FlattenSeq([i \in DOMAIN enc'.sink |-> Bytes(enc'.sink[i])])
<1>5. line' = line \o pushed /\ dec' = dec
  BY DEF Transmit
<1>6. dec \in Decoders /\ dec.buf \in Seq(ByteSet) /\ dec.got \in Seq(Items) /\ line \in Seq(ByteSet)
  BY DEF LinkInv, Receiver, Decoders
<1>7. pushed \in Seq(ByteSet)
  BY <1>3, PushedType
<1>8. ~dec.bad => Flows((dec.buf \o line) \o pushed, dec.got, enc'.reader)
  <2> SUFFICES ASSUME ~dec.bad PROVE Flows((dec.buf \o line) \o pushed, dec.got, enc'.reader)
    OBVIOUS
  <2>1. Flows(dec.buf \o line, dec.got, enc.reader)
    BY DEF LinkInv, Receiver
  <2>. QED BY <1>3, <1>4, <2>1, FlowsThrough
<1> HIDE DEF pushed
<1>9. line' \in Seq(ByteSet) /\ (dec.buf \o line) \o pushed = dec.buf \o line'
  <2>1. line \o pushed \in Seq(ByteSet)
    BY <1>6, <1>7, ConcatProperties
  <2>. QED BY <1>5, <1>6, <1>7, <2>1, BytesAssociative
<1>10. \E x \in Seq(Items) : enc'.reader.out = dec.got \o x
  <2>1. PICK x \in Seq(Items) : enc.reader.out = dec.got \o x
    BY DEF LinkInv, Receiver
  <2>2. PICK y \in Seq(Items) : enc'.reader.out = enc.reader.out \o y
    <3>1. Grows(enc.reader, enc'.reader)
      BY <1>2, <1>3, <1>4, FollowedGrows
    <3>. QED BY <3>1 DEF Grows
  <2>3. x \o y \in Seq(Items) /\ (dec.got \o x) \o y = dec.got \o (x \o y)
    BY <1>6, ItemsAssociative, ConcatProperties
  <2>. QED BY <2>1, <2>2, <2>3
<1>11. Receiver(dec, line', enc'.reader)
  BY <1>8, <1>9, <1>10 DEF LinkInv, Receiver
<1>12. Receiver(dec, line, enc.reader)'
  BY <1>5, <1>11 DEF Receiver
<1>. QED BY <1>1, <1>9, <1>12 DEF LinkInv

\* after a read by the host,
LEMMA ReadChunkKeeps ==
  ASSUME LinkInv, NEW n \in 1..Len(line), ReadChunk(n)
  PROVE  LinkInv' /\ Len(dec.got) <= Len(dec'.got)
<1>1. line \in Seq(ByteSet) /\ n \in 0..Len(line) /\ Receiver(dec, line, enc.reader) /\ ~dec.bad
  BY DEF LinkInv, ReadChunk
<1>2. enc.reader.open # "desync"
  BY LinkReader
<1>3. dec' = Receive(dec, SubSeq(line, 1, n))
  BY DEF ReadChunk
<1>4. line' = Rest(line, n)
  BY DEF ReadChunk, Rest
<1>5. enc' = enc /\ fed' = fed /\ streaming' = streaming
  BY DEF ReadChunk, vars
<1>6. Receiver(dec', Rest(line, n), enc.reader) /\ Len(dec.got) <= Len(dec'.got)
  BY <1>1, <1>2, <1>3, ReceiveKeeps
<1>7. line' \in Seq(ByteSet)
  BY <1>1, <1>4, RestType
<1>8. IInv'
  <2>1. [Next]_vars
    BY <1>5 DEF vars
  <2>. QED BY <2>1, NextIInv DEF LinkInv
<1>9. Receiver(dec, line, enc.reader)'
  BY <1>4, <1>5, <1>6 DEF Receiver
<1>. QED BY <1>6, <1>7, <1>8, <1>9 DEF LinkInv

\* and so after any step.
LEMMA NextLinkInv == LinkInv /\ [LinkNext]_linkVars => LinkInv'
<1> SUFFICES ASSUME LinkInv, [LinkNext]_linkVars PROVE LinkInv'
  OBVIOUS
<1>1. CASE Transmit
  BY <1>1, TransmitKeeps
<1>2. ASSUME NEW n \in 1..Len(line), ReadChunk(n) PROVE LinkInv'
  BY <1>2, ReadChunkKeeps
<1>3. CASE UNCHANGED linkVars
  <2>1. enc' = enc /\ fed' = fed /\ streaming' = streaming /\ line' = line /\ dec' = dec
    BY <1>3 DEF linkVars
  <2>2. IInv'
    <3>1. [Next]_vars
      BY <2>1 DEF vars
    <3>. QED BY <3>1, NextIInv DEF LinkInv
  <2>3. Receiver(dec, line, enc.reader)'
    BY <2>1 DEF LinkInv, Receiver
  <2>. QED BY <2>1, <2>2, <2>3 DEF LinkInv
<1>. QED BY <1>1, <1>2, <1>3 DEF LinkNext

\* Whatever the encoder's calls and the cuts of the line, the decoder's buffer and
\* the line lead from what was delivered to where the encoder's reader is, until
\* a frame does not fit the buffer (encoder.rs, decoder.rs 110-161).
THEOREM LinkInductive == LinkSpec => []LinkInv
BY InitLinkInv, NextLinkInv, PTL DEF LinkSpec

\* What a sequence begins with.
LEMMA PrefixOf ==
  ASSUME NEW s \in Seq(Items), NEW x \in Seq(Items), NEW t, t = s \o x
  PROVE  /\ IsPrefix(s, t) /\ t \in Seq(Items) /\ Len(t) = Len(s) + Len(x)
         /\ s = SubSeq(t, 1, Len(s))
<1>1. t \in Seq(Items) /\ Len(t) = Len(s) + Len(x)
      /\ \A i \in 1..(Len(s) + Len(x)) : t[i] = IF i <= Len(s) THEN s[i] ELSE x[i - Len(s)]
  BY ConcatProperties
<1>2. Len(s) <= Len(t) /\ Len(s) \in 0..Len(t) /\ Len(s) \in Nat
  BY <1>1
<1>3. SubSeq(s, 1, Len(s)) = s
  OBVIOUS
<1>4. /\ SubSeq(t, 1, Len(s)) \in Seq(Items) /\ Len(SubSeq(t, 1, Len(s))) = Len(s)
      /\ \A i \in 1..Len(s) : SubSeq(t, 1, Len(s))[i] = t[i]
  BY <1>1, <1>2
<1>5. SubSeq(t, 1, Len(s)) = s
  <2>1. \A i \in 1..Len(s) : t[i] = s[i]
    BY <1>1, <1>2
  <2>. QED BY <1>4, <2>1, SeqEqual
<1>. QED BY <1>1, <1>2, <1>3, <1>5 DEF IsPrefix

\* With nothing on its way and no frame open, what was delivered is what was read.
LEMMA LinkAgrees == LinkInv => EndsAgree
<1> SUFFICES ASSUME LinkInv PROVE EndsAgree
  OBVIOUS
<1>1. Receiver(dec, line, enc.reader) /\ line \in Seq(ByteSet)
  BY DEF LinkInv
<1>2. dec.buf \in Seq(ByteSet) /\ dec.got \in Seq(Items)
  BY <1>1 DEF Receiver, Decoders
<1>3. IsPrefix(dec.got, enc.reader.out)
  <2>1. PICK x \in Seq(Items) : enc.reader.out = dec.got \o x
    BY <1>1 DEF Receiver
  <2>. QED BY <1>2, <2>1, PrefixOf
<1>4. ASSUME line = <<>>, enc.reader.open = "none", ~dec.bad
      PROVE  dec.got = enc.reader.out /\ dec.buf = <<>>
  <2>1. dec.buf \o line = dec.buf
    BY <1>2, <1>4, ConcatEmptySeq
  <2>2. Flows(dec.buf, dec.got, enc.reader)
    BY <1>1, <1>4, <2>1 DEF Receiver
  <2>3. dec.buf = <<>>
    <3> SUFFICES ASSUME dec.buf # <<>> PROVE FALSE
      OBVIOUS
    <3>1. PICK q \in 0..Len(dec.buf) : q = Len(dec.buf) /\ q > 0
      <4>1. Len(dec.buf) \in 0..Len(dec.buf) /\ Len(dec.buf) > 0
        BY <1>2
      <4>. QED BY <4>1
    <3>2. SubSeq(dec.buf, 1, q) = dec.buf
      BY <1>2, <3>1
    <3>3. enc.reader.open # "desync"
      BY LinkReader
    <3>4. FrontOK(dec.buf, q, dec.got, enc.reader, ParseOne(SubSeq(dec.buf, 1, q)))
      BY <2>2, <3>3, FrontParses
    <3>5. ParseOne(SubSeq(dec.buf, 1, q)) = NeedMore
      BY <1>1, <3>2 DEF Receiver
    <3>. QED BY <1>4, <3>1, <3>4, <3>5 DEF FrontOK, NeedMore
  <2>4. Flows(<<>>, dec.got, enc.reader)
    BY <2>2, <2>3
  <2>5. PICK n, toks, rs, ps :
          /\ Trace(<<>>, n, toks, rs, ps)
          /\ rs[0].out = dec.got /\ rs[n] = enc.reader
    BY <2>4, Zenon DEF Flows
  <2>6. n = 0
    <3>1. Trace(<<>>, n, toks, rs, ps)
      BY <2>5
    <3>2. n \in Nat /\ ps[0] = 0 /\ ps[n] = 0 /\ 0 \in 0..n /\ n \in 0..n
      BY <3>1 DEF Trace
    <3>3. ps[0] + (n - 0) <= ps[n]
      BY <3>1, <3>2, TraceRises
    <3>. QED BY <3>2, <3>3
  <2>. QED BY <2>3, <2>5, <2>6
<1>. QED BY <1>3, <1>4 DEF EndsAgree

\* Whatever the chunk sizes, what the decoder has emitted is a prefix of what the
\* encoder's frames said, and with nothing on the line and no frame open it is
\* all of it (decoder.rs 110-161).
THEOREM EndsAgreeAlways == LinkSpec => []EndsAgree
BY LinkInductive, LinkAgrees, PTL

\* The decoder reports a bad tag on an encoder's stream only when the frame at
\* the front of its full buffer has not ended (decoder.rs 129-144).
THEOREM OnlyLongFramesBadAlways == LinkSpec => []OnlyLongFramesBad
<1>1. LinkInv => OnlyLongFramesBad
  BY DEF LinkInv, Receiver, OnlyLongFramesBad
<1>. QED BY <1>1, LinkInductive, PTL

\* Nothing is delivered that was not sent.
SentFirst == \E x \in Seq(Items) : fed = dec.got \o x

LEMMA DeliveredIsSent == LinkInv => SentFirst
<1> SUFFICES ASSUME LinkInv PROVE SentFirst
  OBVIOUS
<1>1. dec.got \in Seq(Items)
  BY DEF LinkInv, Receiver, Decoders
<1>2. PICK x \in Seq(Items) : enc.reader.out = dec.got \o x
  BY DEF LinkInv, Receiver
<1>3. PICK y \in Seq(Items) : fed = enc.reader.out \o y
  <2>1. Ready(enc) /\ RunOK(enc) /\ fed = enc.reader.out \o Pending(enc)
    BY DEF LinkInv, IInv, EncOK, Meaning
  <2>2. Deferred(enc.deferred) \in Seq(Items)
    BY <2>1, DeferredType DEF Ready
  <2>3. Repeat(enc.run.len, enc.run.sample) \in Seq(Items)
    BY <2>1, RunSamples DEF RunOK
  <2>4. Pending(enc) \in Seq(Items)
    BY <2>2, <2>3, ConcatProperties DEF Pending
  <2>. QED BY <2>1, <2>4
<1>4. x \o y \in Seq(Items) /\ (dec.got \o x) \o y = dec.got \o (x \o y)
  BY <1>1, ItemsAssociative, ConcatProperties
<1>. QED BY <1>2, <1>3, <1>4 DEF SentFirst

\* A call sends at most one item.
LEMMA CallSends ==
  ASSUME Next
  PROVE  fed' = fed \/ \E x \in Items : fed' = Append(fed, x)
<1>1. Gap \in Items /\ \A x \in Samples : x \in Items
  BY DEF Items
<1>. QED BY <1>1 DEF Next, FeedSample, MarkOverrun, IdleFlush, Telemetry, Start, Stop

\* The link is a FIFO of samples and gap marks: the encoder, the bytes, the chunks
\* and the decoder together implement it (encoder.rs, decoder.rs).
THEOREM StreamRefined == LinkSpec => StreamSpec
<1>1. LinkInit => Stream!Init
  BY DEF LinkInit, Init, NewDecoder, Stream!Init
<1>2. LinkInv /\ LinkInv' /\ [LinkNext]_linkVars => [Stream!Next]_(Stream!vars)
  <2> SUFFICES ASSUME LinkInv, LinkInv', [LinkNext]_linkVars
               PROVE  [Stream!Next]_(Stream!vars)
    OBVIOUS
  <2>1. CASE Transmit
    <3>1. dec' = dec /\ (fed' = fed \/ \E x \in Items : fed' = Append(fed, x))
      BY <2>1, CallSends DEF Transmit
    <3>2. CASE fed' = fed
      BY <3>1, <3>2 DEF Stream!vars
    <3>3. ASSUME NEW x \in Items, fed' = Append(fed, x) PROVE Stream!Next
      BY <3>1, <3>3 DEF Stream!Next, Stream!Send
    <3>. QED BY <3>1, <3>2, <3>3
  <2>2. ASSUME NEW n \in 1..Len(line), ReadChunk(n) PROVE [Stream!Next]_(Stream!vars)
    <3>1. fed' = fed
      BY <2>2 DEF ReadChunk, vars
    <3>2. PICK x \in Seq(Items) : fed = dec.got \o x
      BY DeliveredIsSent DEF SentFirst
    <3>10. SentFirst'
      BY DeliveredIsSent, PTL
    <3>3. PICK y \in Seq(Items) : fed' = dec'.got \o y
      BY <3>10 DEF SentFirst
    <3>4. dec.got \in Seq(Items) /\ dec'.got \in Seq(Items)
      BY DEF LinkInv, Receiver, Decoders
    <3>5. Len(dec.got) <= Len(dec'.got)
      BY <2>2, ReadChunkKeeps
    <3>6. /\ dec.got = SubSeq(fed, 1, Len(dec.got)) /\ dec'.got = SubSeq(fed, 1, Len(dec'.got))
          /\ Len(dec'.got) <= Len(fed) /\ fed \in Seq(Items)
      <4>1. fed \in Seq(Items) /\ dec.got = SubSeq(fed, 1, Len(dec.got))
        BY <3>2, <3>4, PrefixOf, Zenon
      <4>2. fed = dec'.got \o y
        BY <3>1, <3>3
      <4>3. dec'.got = SubSeq(fed, 1, Len(dec'.got)) /\ Len(fed) = Len(dec'.got) + Len(y)
        BY <3>4, <4>2, PrefixOf, Zenon
      <4>4. Len(dec'.got) \in Nat /\ Len(y) \in Nat
        BY <3>4
      <4>. QED BY <4>1, <4>3, <4>4
    <3>7. CASE Len(dec.got) = Len(dec'.got)
      BY <3>1, <3>6, <3>7 DEF Stream!vars
    <3>8. CASE Len(dec.got) # Len(dec'.got)
      <4>1. Len(dec'.got) \in (Len(dec.got) + 1)..Len(fed)
        BY <3>4, <3>5, <3>6, <3>8
      <4>2. Stream!Deliver(Len(dec'.got))
        BY <3>1, <3>6 DEF Stream!Deliver
      <4>. QED BY <4>1, <4>2 DEF Stream!Next
    <3>. QED BY <3>7, <3>8
  <2>3. CASE UNCHANGED linkVars
    BY <2>3 DEF linkVars, Stream!vars
  <2>. QED BY <2>1, <2>2, <2>3 DEF LinkNext
<1>. QED BY <1>1, <1>2, LinkInductive, PTL DEF LinkSpec, StreamSpec, Stream!Spec
=============================================================================
