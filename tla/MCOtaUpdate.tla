---------------------------- MODULE MCOtaUpdate ----------------------------
(***************************************************************************)
(* Slots of three sectors; a signed upload that leaves a tail to erase, an   *)
(* unsigned one, one that is too long for a slot and an empty one.           *)
(***************************************************************************)
EXTENDS OtaUpdate

Image(id, sectors, signed) == [id |-> id, sectors |-> sectors, signed |-> signed]
MCFactory == Image("factory", 2, TRUE)
MCImages == {Image("new", 1, TRUE), Image("unsigned", 2, FALSE), Image("long", 4, TRUE),
             Image("empty", 0, TRUE)}
=============================================================================
