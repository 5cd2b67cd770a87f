------------------------- MODULE MCSessionLifecycle -------------------------
(* Two server keys, two or three attempts of a kind and two connections:    *)
(* enough for a key that changes on a reconnect, for a counter that should *)
(* have been reset and for the last attempt of both limits.                *)
EXTENDS SessionLifecycle

CONSTANTS k1, k2
=============================================================================
