--------------------------- MODULE MCPresentation ---------------------------
(* A small instance of Presentation for TLC: a desktop that changes between *)
(* a tall and a wide size of as many pixels, a tall surface with room for   *)
(* either, and two buffers for images.                                      *)
EXTENDS Presentation, TLC

CONSTANTS v1, v2, s1

Tall == <<1, 2>>
Wide == <<2, 1>>
MCSizes == {Tall, Wide}
MCFrame == [s \in {s1} |-> Tall]
MCGeometry == [s \in {s1} |-> <<2, 2>>]
MCFitsInto ==
    {p \in Sizes \X Sizes :
       \E s \in Surfaces : p[2] = Frame[s] /\ HasRoom(Geometry[s], p[1])}
Symmetry == Permutations(Vecs)
=============================================================================
