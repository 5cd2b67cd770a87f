--------------------------- MODULE MCInputRouting ---------------------------
(* Instances of InputRouting for TLC.  The two Command keys are alike.     *)
EXTENDS InputRouting, TLC

CommandsAlike == Permutations(Commands)
=============================================================================
