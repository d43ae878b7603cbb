------------------------------ MODULE MCViewer ------------------------------
(***************************************************************************)
(* A 2x2 panel.  Colours have 1, 2 and 1 bits; the palette is black, white,  *)
(* a spare black and the misc slot.  Painted are a colour near black and one *)
(* that is near nothing.  A window may be inside out or reach beyond the     *)
(* panel, a write may fill it and go on.                                    *)
(***************************************************************************)
EXTENDS Viewer

MCPalette == (0 :> 0) @@ (1 :> 15) @@ (2 :> 0) @@ (3 :> 9)
MCColAddresses == {<<0, 0, 0, 1>>, <<0, 1, 0, 2>>, <<0, 1, 0, 0>>}
MCRowAddresses == {<<0, 1, 0, 1>>}
MCMaxWords == [c \in Commands |-> CASE c \in {"2A", "2B"} -> 4
                                    [] c = "2C" -> 3
                                    [] OTHER -> 1]
=============================================================================
