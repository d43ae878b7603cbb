----------------------------- MODULE WireDecoder -----------------------------
(***************************************************************************)
(* The receiving side of the wire, wire/src/decoder.rs: bytes arrive in    *)
(* chunks of any size, complete frames leave as events, and a partial      *)
(* trailing frame waits in a buffer of BUF_CAP bytes.                      *)
(*                                                                         *)
(* A byte is a record: `kind` and `val` say which field of which value it  *)
(* belongs to and `at` which byte of that field it is, so a chunk boundary *)
(* inside a field is a boundary between two of its bytes.  Widths are      *)
(* parameters; the code's are WORD = 4, HALF = 2 and TICK = 14.            *)
(***************************************************************************)
EXTENDS WireFormat, FiniteSetsExt, SequencesExt

CONSTANTS
  BUF_CAP,    \* the decoder's buffer, in bytes
  WORD,       \* bytes of a u32: samples, the sentinel, an OVERRUN's count
  HALF,       \* bytes of a u16: a RUN's length
  TICK        \* bytes of a TICK frame after its tag

ASSUME DecoderConstants ==
  /\ BUF_CAP \in Nat \ {0} /\ WORD \in Nat \ {0}
  /\ HALF \in Nat \ {0} /\ TICK \in Nat \ {0}

-----------------------------------------------------------------------------
(* The bytes of a token, as the encoder pushes them. *)

Field(kind, val, width) ==
  [i \in 1..width |-> [kind |-> kind, val |-> val, at |-> i]]

TagByte(k) == Field("tag", k, 1)
Byte(n) == Field("byte", n, 1)
Nul == Byte(0)[1]

Bytes(t) ==
  CASE t.kind = "word"     -> Field("word", t.val, WORD)
    [] t.kind = "sentinel" -> Field("sentinel", 0, WORD)
    [] t.kind = "len"      -> Byte(t.n)
    [] t.kind = "run"      -> TagByte("run") \o Field("half", t.n, HALF)
                                \o Field("word", t.val, WORD)
    [] t.kind = "repeat2"  -> TagByte("repeat2") \o Field("word", t.a, WORD)
                                \o Field("word", t.b, WORD)
    [] t.kind = "tick"     -> TagByte("tick") \o Field("tick", 0, TICK)
    [] t.kind = "overrun"  -> TagByte("overrun") \o Field("count", 0, WORD)
    [] t.kind = "log"      -> TagByte("log") \o Field("text", 0, 1) \o Byte(0)
    [] t.kind \in {"block", "started", "stopped"} -> TagByte(t.kind)

-----------------------------------------------------------------------------
(* One frame from the front of a buffer: the bytes it takes (0 if they are *)
(* not all there yet) and the items it stands for, or an unknown tag.      *)

NeedMore == [n |-> 0, items |-> <<>>, bad |-> FALSE]
BadTag == [NeedMore EXCEPT !.bad = TRUE]
Consumed(n, items) == [n |-> n, items |-> items, bad |-> FALSE]

\* A frame of fixed size.
Fixed(b, n, items) == IF Len(b) < n THEN NeedMore ELSE Consumed(n, items)

\* The first zero byte at or after position i, if the buffer holds one.
Zeros(b, i) == {j \in i..Len(b) : b[j] = Nul}

\* Words up to the sentinel; a word that is not complete is not looked at.
ParseBlock(b) ==
  LET first(i) == 2 + (i - 1) * WORD
      words == {i \in 1..Len(b) : 1 + i * WORD <= Len(b)}
      ends == {i \in words : b[first(i)].kind = "sentinel"}
      end == Min(ends)
  IN  IF ends = {} THEN NeedMore
      ELSE Consumed(1 + end * WORD, [i \in 1..(end - 1) |-> b[first(i)].val])

ParseRepeat2(b) ==
  LET body == 2 + 2 * WORD
      zeros == Zeros(b, body)
      lens == SubSeq(b, body, Min(zeros) - 1)
      value(i) == IF i % 2 = 1 THEN b[2].val ELSE b[2 + WORD].val
  IN  IF Len(b) < body - 1 \/ zeros = {} THEN NeedMore
      ELSE Consumed(Min(zeros),
                    FlattenSeq([i \in DOMAIN lens |-> Repeat(lens[i].val, value(i))]))

\* Mutant: the zero that ends a LOG is left in the buffer.
ParseLogKeepsNul(b) ==
  LET zeros == Zeros(b, 2)
  IN  IF zeros = {} THEN NeedMore ELSE Consumed(Min(zeros) - 1, <<>>)

ParseLog(b) ==
  LET zeros == Zeros(b, 2)
  IN  IF zeros = {} THEN NeedMore ELSE Consumed(Min(zeros), <<>>)

ParseOne(b) ==
  IF b = <<>> THEN NeedMore
  ELSE IF b[1].kind # "tag" THEN BadTag
  ELSE CASE b[1].val = "block"   -> ParseBlock(b)
         [] b[1].val = "run"     ->
              IF Len(b) < 1 + HALF + WORD THEN NeedMore
              ELSE Consumed(1 + HALF + WORD, Repeat(b[2].val, b[2 + HALF].val))
         [] b[1].val = "repeat2" -> ParseRepeat2(b)
         [] b[1].val = "tick"    -> Fixed(b, 1 + TICK, <<>>)
         [] b[1].val = "overrun" -> Fixed(b, 1 + WORD, <<Gap>>)
         [] b[1].val = "log"     -> ParseLog(b)
         [] b[1].val \in {"started", "stopped"} -> Fixed(b, 1, <<>>)

-----------------------------------------------------------------------------
(* The decoder: its buffer, whether it has returned BadTag, and what its   *)
(* events have added up to (history).                                      *)

NewDecoder == [buf |-> <<>>, bad |-> FALSE, got |-> <<>>]

\* One turn of drain's loop: emit the frame at k, or break.
Turn(buf, s) ==
  LET p == ParseOne(SubSeq(buf, s.k + 1, Len(buf)))
  IN  IF s.over THEN s
      ELSE [k |-> s.k + p.n, got |-> s.got \o p.items, over |-> p.n = 0, bad |-> p.bad]

\* A frame takes a byte at least, so there are no more turns than bytes.
Drained(d) ==
  LET turn[i \in 0..Len(d.buf)] ==
        IF i = 0 THEN [k |-> 0, got |-> d.got, over |-> FALSE, bad |-> FALSE]
        ELSE Turn(d.buf, turn[i - 1])
  IN  turn[Len(d.buf)]

\* Mutant: the emitted frames stay in the buffer.
DrainUncompacted(d) ==
  LET end == Drained(d)
  IN  [buf |-> d.buf, bad |-> end.bad, got |-> end.got]

\* Emit every complete frame, then move the rest to the front.  A BadTag
\* returns before the move: the frames already emitted stay in the buffer.
Drain(d) ==
  LET end == Drained(d)
  IN  [buf |-> IF end.bad THEN d.buf ELSE SubSeq(d.buf, end.k + 1, Len(d.buf)),
       bad |-> end.bad,
       got |-> end.got]

\* Top up the buffer and drain it; a full buffer that yields no frame while there
\* is more input is reported as a bad tag.
TopUp(s, input) ==
  LET take == Min({BUF_CAP - Len(s.dec.buf), Len(input) - s.used})
      used == s.used + take
      drained == Drain([s.dec EXCEPT !.buf = @ \o SubSeq(input, s.used + 1, used)])
      stuck == ~drained.bad /\ used < Len(input) /\ Len(drained.buf) = BUF_CAP
  IN  [dec |-> [drained EXCEPT !.bad = @ \/ stuck], used |-> used]

\* Until the input is used up: every round takes some of it, or is the last.
Round(s, input) ==
  IF s.dec.bad \/ s.used = Len(input) THEN s ELSE TopUp(s, input)

Receive(d, input) ==
  LET round[i \in 0..Len(input)] ==
        IF i = 0 THEN [dec |-> d, used |-> 0] ELSE Round(round[i - 1], input)
  IN  round[Len(input)].dec
=============================================================================
