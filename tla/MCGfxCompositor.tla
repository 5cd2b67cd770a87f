-------------------------- MODULE MCGfxCompositor --------------------------
(* Instances of GfxCompositor for TLC. *)
EXTENDS GfxCompositor

CONSTANTS Black, White

(* Surface numbers are interchangeable. *)
SurfaceSymmetry == Permutations(Ids)

TwoColors == {Black, White}
SquareOrTall == {<<2, 2>>, <<1, 2>>}
Square == {<<2, 2>>}
LeftOrRight == {<<0, 0>>, <<1, 0>>}
SomePoints == {<<0, 0>>, <<1, 0>>}
(* One pixel, more than any surface, and one that begins inside. *)
SomeRects == {<<0, 0, 1, 1>>, <<0, 0, 2, 2>>, <<1, 0, 2, 1>>}
(* A decoder's buffer may be wider than the rectangle it is for. *)
WideBitmap == {[size |-> <<2, 1>>, px |-> (0 :> White) @@ (1 :> Black)]}
TwoTiles == {{[x |-> 0, y |-> 0, rect |-> <<0, 0, 2, 2>>],
              [x |-> 1, y |-> 0, rect |-> <<0, 0, 3, 1>>]}}
=============================================================================
