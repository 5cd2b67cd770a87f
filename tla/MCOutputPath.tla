---------------------------- MODULE MCOutputPath ----------------------------
(* A two-place output queue and a socket that holds one frame: four        *)
(* commands fill queue, writer and socket and leave one frame waiting.     *)
EXTENDS OutputPath
=============================================================================
