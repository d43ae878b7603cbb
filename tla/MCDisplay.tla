----------------------------- MODULE MCDisplay -----------------------------
(***************************************************************************)
(* A 4x2 panel with one row, painted in 2x2 glyphs side by side and at a     *)
(* place that overlaps both; their top line is background.                  *)
(***************************************************************************)
EXTENDS Display

MCTemplates == {[w |-> 2, h |-> 2, shape |-> <<4>>, label |-> "blank"],
                [w |-> 2, h |-> 2, shape |-> <<2, 1, 1>>, label |-> "1"]}
MCRows == {[x_min |-> 0, x_max |-> 3, y_min |-> 0, y_max |-> 1]}
MCColParams == {<<0, 0, 0, 1>>, <<0, 1, 0, 2>>, <<0, 2, 0, 3>>}
MCInks == (0 :> {1}) @@ (1 :> {0, 1})
MCRowParams == {<<0, 0, 0, 1>>}
=============================================================================
