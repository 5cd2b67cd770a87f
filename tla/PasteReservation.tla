-------------------------- MODULE PasteReservation --------------------------
(***************************************************************************)
(* What the local clipboard promises the user, with no connection, queue   *)
(* or acknowledgement in sight: a dictated paste reserves the clipboard,   *)
(* ordinary copies made meanwhile wait in one slot, and the reservation    *)
(* ends by letting the waiting copy in.                                    *)
(***************************************************************************)
CONSTANTS Items, Texts, NoItem

VARIABLES
    current,   \* what the remote session is given when it asks
    waiting,   \* the copy that waits for the reservation to end, or NoItem
    phase      \* "free", or a dictated paste that is "pending" or "serving"

vars == <<current, waiting, phase>>

Init ==
    /\ current \in Items
    /\ waiting = NoItem
    /\ phase = "free"

LetWaitingIn ==
    /\ phase' = "free"
    /\ waiting' = NoItem
    /\ current' = IF waiting = NoItem THEN current ELSE waiting

Copy(c) ==
    \/ /\ phase = "free"
       /\ current' = c
       /\ waiting' = NoItem
       /\ UNCHANGED phase
    \/ /\ phase # "free"
       /\ waiting' = c
       /\ UNCHANGED <<current, phase>>

Dictate(t) ==
    /\ current' = t
    /\ phase' = "pending"
    /\ UNCHANGED waiting

PressCtrlV ==
    /\ phase = "pending"
    /\ phase' = "serving"
    /\ UNCHANGED <<current, waiting>>

(* Data served, refused for good, timed out, or the connection was lost. *)
Release == phase # "free" /\ LetWaitingIn

Next ==
    \/ \E c \in Items : Copy(c)
    \/ \E t \in Texts : Dictate(t)
    \/ PressCtrlV
    \/ Release

Spec == Init /\ [][Next]_vars
=============================================================================
