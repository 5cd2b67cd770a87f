-------------------------- MODULE MCFramePipeline --------------------------
(* Instances of FramePipeline for TLC: a desktop that alternates between a *)
(* small size and a large one.                                             *)
EXTENDS FramePipeline

Small == <<1, 1>>
Large == <<2, 2>>
MCSizes == {Small, Large}
MCFitsInto == {<<Small, Large>>}
=============================================================================
