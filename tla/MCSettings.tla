----------------------------- MODULE MCSettings -----------------------------
(* Instances of Settings for TLC. *)
EXTENDS Settings

(* "b" has something that a connection with Entra has no use for. *)
EntraClears ==
    [m \in Modes |-> [f \in Fields |-> IF m = "entra" THEN "a" ELSE f]]

(* A longer session of the window with one write behind it, and a shorter   *)
(* one with two.                                                            *)
EitherLonger == {[edits |-> 4, writes |-> 1], [edits |-> 3, writes |-> 2]}
=============================================================================
