----------------------------- MODULE WireFormat -----------------------------
(***************************************************************************)
(* The vocabulary of the byte stream between a capture board and its host: *)
(* what the encoder (wire/src/encoder.rs) pushes into its sink and what    *)
(* those pushes mean to a reader (wire/src/decoder.rs).                    *)
(*                                                                         *)
(* A token is one field of a frame, in the order the encoder pushes them.  *)
(* The two fields that have no state change between them (a RUN's length   *)
(* and sample, a REPEAT2's two values) travel in one token.  A sample is   *)
(* an opaque member of Samples: both boards mask it to 18 bits, so it      *)
(* never equals the BLOCK sentinel.                                        *)
(***************************************************************************)
EXTENDS Integers, Sequences

CONSTANTS
  Samples,          \* the packed port samples
  Zero,             \* the all-zero sample, Run::default()'s
  MAX_RUN,          \* u16::MAX, the longest run of one RUN frame
  MAX_REPEAT2_LEN   \* u8::MAX, the longest run of a REPEAT2 frame

ASSUME WireConstants ==
  /\ Zero \in Samples
  /\ MAX_REPEAT2_LEN \in Nat \ {0}
  /\ MAX_RUN \in Nat
  /\ MAX_REPEAT2_LEN < MAX_RUN

-----------------------------------------------------------------------------
(* Tokens. *)

BlockTag         == [kind |-> "block"]
Word(x)          == [kind |-> "word", val |-> x]
Sentinel         == [kind |-> "sentinel"]
RunFrame(n, x)   == [kind |-> "run", n |-> n, val |-> x]
Repeat2Tag(a, b) == [kind |-> "repeat2", a |-> a, b |-> b]

\* A REPEAT2 run length is pushed `as u8`: one that does not fit wraps.
LenByte(n)       == [kind |-> "len", n |-> n % (MAX_REPEAT2_LEN + 1)]
\* The zero byte that ends a REPEAT2 frame is a length byte of value 0.
Terminator       == LenByte(0)

OverrunFrame     == [kind |-> "overrun"]
SideBand         == {"tick", "log", "started", "stopped"}
SideFrame(k)     == [kind |-> k]

Tokens ==
  [kind : {"block", "sentinel", "overrun"} \cup SideBand]
  \cup [kind : {"word"}, val : Samples]
  \cup [kind : {"run"}, n : 1..MAX_RUN, val : Samples]
  \cup [kind : {"repeat2"}, a : Samples, b : Samples]
  \cup [kind : {"len"}, n : 0..MAX_REPEAT2_LEN]

-----------------------------------------------------------------------------
(* What the stream says so far.  A Gap in the meaning is an OVERRUN marker: *)
(* samples were lost at this point of the sample stream.                    *)

Gap == "gap"
Items == Samples \cup {Gap}

\* n consecutive copies of x.
Repeat(n, x) == [i \in 1..n |-> x]

\* A reader between two tokens: which frame is open, the two values and the
\* parity of an open REPEAT2, the samples and gaps it has decoded, whether the
\* open BLOCK's last sample is `prev`, and whether every frame so far kept the
\* rules of wire_protocol.md (a BLOCK never repeats a sample, a RUN has at
\* least two, a REPEAT2 alternates between two values).
NewReader ==
  [open |-> "none", a |-> Zero, b |-> Zero, nextB |-> FALSE,
   prev |-> <<>>, out |-> <<>>, canonical |-> TRUE]

ReadBlock(r, t) ==
  [r EXCEPT !.open = "block", !.prev = <<>>]

ReadWord(r, t) ==
  [r EXCEPT !.out = Append(@, t.val),
            !.canonical = @ /\ r.prev # <<t.val>>,
            !.prev = <<t.val>>]

ReadRun(r, t) ==
  [r EXCEPT !.out = @ \o Repeat(t.n, t.val), !.canonical = @ /\ t.n >= 2]

ReadRepeat2(r, t) ==
  [r EXCEPT !.open = "repeat2", !.a = t.a, !.b = t.b, !.nextB = FALSE,
            !.canonical = @ /\ t.a # t.b]

ReadLen(r, t) ==
  IF t.n = 0
  THEN [r EXCEPT !.open = "none"]
  ELSE [r EXCEPT !.out = @ \o Repeat(t.n, IF r.nextB THEN r.b ELSE r.a),
                 !.nextB = ~@]

\* One token.  A token that cannot follow what came before leaves the reader
\* desynced for good: it takes the next fields for something they are not.
Read(r, t) ==
  IF r.open = "none" THEN
       IF t.kind = "block" THEN ReadBlock(r, t)
       ELSE IF t.kind = "run" THEN ReadRun(r, t)
       ELSE IF t.kind = "repeat2" THEN ReadRepeat2(r, t)
       ELSE IF t.kind = "overrun" THEN [r EXCEPT !.out = Append(@, Gap)]
       ELSE IF t.kind \in SideBand THEN r
       ELSE [r EXCEPT !.open = "desync"]
  ELSE IF r.open = "block" /\ t.kind = "word" THEN ReadWord(r, t)
  ELSE IF r.open = "block" /\ t.kind = "sentinel" THEN [r EXCEPT !.open = "none"]
  ELSE IF r.open = "repeat2" /\ t.kind = "len" THEN ReadLen(r, t)
  ELSE [r EXCEPT !.open = "desync"]

Readers ==
  [open : {"none", "block", "repeat2", "desync"}, a : Samples, b : Samples,
   nextB : BOOLEAN, prev : Seq(Samples), out : Seq(Items), canonical : BOOLEAN]
=============================================================================
