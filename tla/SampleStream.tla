---------------------------- MODULE SampleStream ----------------------------
(***************************************************************************)
(* What the wire promises the code on either side of it: a FIFO of samples *)
(* and gap marks.  Everything delivered was sent, in the order it was      *)
(* sent, once; delivery may lag and may come in pieces of any length.      *)
(***************************************************************************)
EXTENDS Sequences, Integers

CONSTANT Items

VARIABLES sent, delivered

vars == <<sent, delivered>>

Init == sent = <<>> /\ delivered = <<>>

Send(x) ==
  /\ sent' = Append(sent, x)
  /\ UNCHANGED delivered

Deliver(n) ==
  /\ delivered' = SubSeq(sent, 1, n)
  /\ UNCHANGED sent

Next ==
  \/ \E x \in Items : Send(x)
  \/ \E n \in (Len(delivered) + 1)..Len(sent) : Deliver(n)

Spec == Init /\ [][Next]_vars
=============================================================================
