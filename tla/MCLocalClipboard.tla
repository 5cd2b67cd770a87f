-------------------------- MODULE MCLocalClipboard --------------------------
(* Small instances of LocalClipboard for TLC. *)
EXTENDS LocalClipboard

CONSTANTS t1, t2, f1

MCTexts == {t1, t2}
MCFileLists == {f1}

=============================================================================
