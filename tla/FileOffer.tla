----------------------------- MODULE FileOffer -----------------------------
(***************************************************************************)
(* What the fetch of remote files promises the Mac user: the pasteboard    *)
(* offers the files of a remote copy all at once, each complete and from   *)
(* that one copy, and only in the place that was cleared for them: a copy  *)
(* the user makes meanwhile is never replaced by files.                    *)
(***************************************************************************)
EXTENDS FileListing

VARIABLES
    copied,    \* the selections made on the remote, oldest first
    shown,     \* what the pasteboard holds
    reserved   \* the pasteboard was cleared for files and is still untouched

vars == <<copied, shown, reserved>>

Shows(kind, files) == [kind |-> kind, files |-> files]
NoFiles == <<>>

Init ==
    /\ copied = <<>>
    /\ shown = Shows("user", NoFiles)
    /\ reserved = FALSE

RemoteCopy ==
    /\ Len(copied') = Len(copied) + 1
    /\ copied = SubSeq(copied', 1, Len(copied))
    /\ UNCHANGED <<shown, reserved>>

UserCopy ==
    /\ shown' = Shows("user", NoFiles)
    /\ reserved' = FALSE
    /\ UNCHANGED copied

Clear ==
    /\ shown' = Shows("nothing", NoFiles)
    /\ reserved' = FALSE
    /\ UNCHANGED copied

Reserve ==
    /\ shown.kind = "nothing"
    /\ reserved' = TRUE
    /\ UNCHANGED <<copied, shown>>

Abandon ==
    /\ reserved' = FALSE
    /\ UNCHANGED <<copied, shown>>

RemoteText ==
    /\ shown' = Shows("text", NoFiles)
    /\ reserved' = FALSE
    /\ UNCHANGED copied

Publish ==
    /\ reserved
    /\ \E c \in DOMAIN copied :
           /\ copied[c].what = "files"
           /\ shown' = Shows("files", Whole(c, copied[c].entries))
    /\ reserved' = FALSE
    /\ UNCHANGED copied

Next == RemoteCopy \/ UserCopy \/ Clear \/ Reserve \/ Abandon \/ RemoteText \/ Publish

Spec == Init /\ [][Next]_vars
=============================================================================
