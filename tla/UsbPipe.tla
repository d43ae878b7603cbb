------------------------------ MODULE UsbPipe ------------------------------
(***************************************************************************)
(* The Pico board's byte transport: the TX pipe of firmware/src/main.rs,   *)
(* the USB TX task that cuts it into packets, and outside the firmware the *)
(* USB endpoint, the host driver's read request and the tty buffer.        *)
(*                                                                         *)
(* The pipe takes a byte or drops it; nothing else loses one while the     *)
(* host has the port open.  A byte is a record with the host run it        *)
(* belongs to.  Module PicoSession composes it with the two programs.      *)
(***************************************************************************)
EXTENDS Integers, Sequences

CONSTANTS
  TX_PIPE_CAP,   \* bytes the pipe holds
  PACKET,        \* bytes of a full USB packet
  URB            \* bytes of the driver's read request

ASSUME UsbConstants ==
  /\ TX_PIPE_CAP \in Nat \ {0} /\ PACKET \in Nat \ {0}
  /\ URB \in Nat \ {0} /\ URB % PACKET = 0

VARIABLES
  pipe,   \* TX_PIPE
  lost,   \* history: the runs that lost a byte at the full pipe
  tx,     \* the TX task: "read", "topup", "write" or "zlp"
  buf,    \* the packet it fills
  ep,     \* the endpoint's packet, armed and not yet polled: none or one
  urb,    \* received by the driver, its request not complete
  tty     \* bytes the host program can read

usbVars == <<pipe, lost, tx, buf, ep, urb, tty>>

UsbInit(banner) ==
  /\ pipe = banner /\ lost = {}
  /\ tx = "read" /\ buf = <<>>
  /\ ep = <<>> /\ urb = <<>> /\ tty = <<>>

Least(a, b) == IF a < b THEN a ELSE b

\* Mutant: the byte's failed write is not noticed and the space is taken.
PushUnchecked(bytes) == pipe' = pipe \o bytes /\ UNCHANGED lost

\* PipeSink::push for each of some bytes.  No other task runs in between, so
\* once the pipe is full all the rest is dropped.
Push(bytes) ==
  LET n == Least(TX_PIPE_CAP - Len(pipe), Len(bytes))
  IN  /\ pipe' = pipe \o SubSeq(bytes, 1, n)
      /\ lost' = lost \cup {bytes[i].run : i \in (n + 1)..Len(bytes)}

-----------------------------------------------------------------------------
(* The TX task.  Reads that find bytes do not wait, so several of them in a *)
(* row are one step; the 2 ms timer only counts while the pipe is empty.   *)

Fill ==
  LET n == Least(PACKET - Len(buf), Len(pipe))
  IN  /\ buf' = buf \o SubSeq(pipe, 1, n)
      /\ pipe' = SubSeq(pipe, n + 1, Len(pipe))
      /\ tx' = IF Len(buf) + n = PACKET THEN "write" ELSE "topup"

TxRead ==
  /\ tx \in {"read", "topup"} /\ pipe # <<>>
  /\ Fill
  /\ UNCHANGED <<lost, ep, urb, tty>>

\* Mutant: the packet waits for bytes that may never come.
TxNoTimeout ==
  /\ tx = "topup" /\ pipe = <<>> /\ Len(buf) = PACKET
  /\ tx' = "write"
  /\ UNCHANGED <<pipe, lost, buf, ep, urb, tty>>

TxTimeout ==
  /\ tx = "topup" /\ pipe = <<>>
  /\ tx' = "write"
  /\ UNCHANGED <<pipe, lost, buf, ep, urb, tty>>

\* Mutant: a full packet is never followed by an empty one.
NoZlp == FALSE

\* A full packet that ends the data needs an empty one behind it.
NeedsZlp == Len(buf) = PACKET /\ pipe = <<>>

\* write_packet waits for the endpoint, arms it and returns.
TxWrite ==
  /\ tx = "write" /\ ep = <<>>
  /\ ep' = <<buf>> /\ buf' = <<>>
  /\ tx' = IF NeedsZlp THEN "zlp" ELSE "read"
  /\ UNCHANGED <<pipe, lost, urb, tty>>

TxZlp ==
  /\ tx = "zlp" /\ ep = <<>>
  /\ ep' = << <<>> >>
  /\ tx' = "read"
  /\ UNCHANGED <<pipe, lost, buf, urb, tty>>

-----------------------------------------------------------------------------
(* Outside the firmware. *)

\* The host polls the endpoint.  A short packet, or its last byte, completes
\* the driver's request, and only then does the program see the bytes.
UsbIn ==
  /\ ep # <<>>
  /\ LET got == urb \o ep[1]
     IN  IF Len(ep[1]) < PACKET \/ Len(got) = URB
         THEN tty' = tty \o got /\ urb' = <<>>
         ELSE urb' = got /\ UNCHANGED tty
  /\ ep' = <<>>
  /\ UNCHANGED <<pipe, lost, tx, buf>>

\* Nothing in the firmware is on its way to the host.
NothingToSend == pipe = <<>> /\ tx = "read" /\ ep = <<>>

TxTask == TxRead \/ TxTimeout \/ TxWrite \/ TxZlp
=============================================================================
