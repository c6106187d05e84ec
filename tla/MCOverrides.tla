----------------------------- MODULE MCOverrides -----------------------------
(***************************************************************************)
(* Two channels the user may put in either order.  The code's 250 ms, six  *)
(* transmissions, 1 s and 3 s are taken in steps of half a second.         *)
(***************************************************************************)
EXTENDS Overrides

CONSTANTS a, b

MCNameOrder == <<a, b>>
MCSelections == {<<>>, <<b>>}
=============================================================================
