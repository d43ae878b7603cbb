------------------------------ MODULE WireLink ------------------------------
(***************************************************************************)
(* An encoder, a byte transport and a decoder (wire/src/encoder.rs,        *)
(* wire/src/decoder.rs, and the transport between them): what the capture  *)
(* loop feeds on one side comes out of the decoder on the other.  The      *)
(* transport keeps bytes in order and hands them over in chunks of any     *)
(* size, as a serial port's read does; the capture loop makes its next     *)
(* call once at most LineCap bytes are still in flight.                    *)
(***************************************************************************)
EXTENDS WireEncoder, WireDecoder

CONSTANT LineCap    \* bytes in flight when the capture loop goes on

ASSUME LineCapNat == LineCap \in Nat

VARIABLES
  line,   \* bytes pushed and not yet read
  dec     \* the decoder

linkVars == <<enc, fed, streaming, line, dec>>

LinkInit ==
  /\ Init
  /\ line = <<>>
  /\ dec = NewDecoder

\* One call of the capture loop; its pushes go out on the line.
Transmit ==
  /\ Len(line) <= LineCap
  /\ Next
  /\ line' = line \o FlattenSeq([i \in DOMAIN enc'.sink |-> Bytes(enc'.sink[i])])
  /\ UNCHANGED dec

\* One read by the host: n bytes, fed to the decoder.  The host's reader thread
\* ends at the first BadTag.
ReadChunk(n) ==
  /\ ~dec.bad
  /\ dec' = Receive(dec, SubSeq(line, 1, n))
  /\ line' = SubSeq(line, n + 1, Len(line))
  /\ UNCHANGED vars

LinkNext ==
  \/ Transmit
  \/ \E n \in 1..Len(line) : ReadChunk(n)

LinkSpec == LinkInit /\ [][LinkNext]_linkVars

-----------------------------------------------------------------------------
(* Properties. *)

\* Whatever the chunk sizes, the decoder's events say what the encoder's
\* frames said, up to the frame still in its buffer or on the line: with both
\* empty and no frame open, the two ends agree (decoder.rs 110-161).
EndsAgree ==
  /\ IsPrefix(dec.got, enc.reader.out)
  /\ line = <<>> /\ enc.reader.open = "none" /\ ~dec.bad
       => dec.got = enc.reader.out /\ dec.buf = <<>>

\* A stream that an encoder produced makes the decoder report BadTag for one
\* reason alone, however it is cut: the frame at the front of its buffer fills it
\* and has not ended.  So whatever fits is never taken for garbage
\* (decoder.rs 129-144).
OnlyLongFramesBad ==
  dec.bad => Len(dec.buf) = BUF_CAP /\ ParseOne(dec.buf) = NeedMore

\* The link is a FIFO of samples and gap marks.
Stream == INSTANCE SampleStream WITH sent <- fed, delivered <- dec.got
StreamSpec == Stream!Spec
=============================================================================
