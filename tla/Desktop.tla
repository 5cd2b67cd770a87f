------------------------------ MODULE Desktop ------------------------------
(***************************************************************************)
(* The size of the remote desktop, which the framebuffer keeps twice: the  *)
(* width and height under its mutex and, packed into one atomic, dims.     *)
(* Resize sets both, so that one variable stands for the two.              *)
(***************************************************************************)
EXTENDS Integers

CONSTANT Sizes     \* sizes a session may give the desktop, <<width, height>>

ASSUME DesktopAssumption == Sizes \subseteq Nat \X Nat

VARIABLE size      \* width and height

Unsized == <<0, 0>>             \* SharedFramebuffer::new
Desktops == Sizes \cup {Unsized}

Cells(sz) == (0 .. sz[1] - 1) \X (0 .. sz[2] - 1)
Area(sz) == sz[1] * sz[2]
=============================================================================
