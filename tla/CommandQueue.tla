---------------------------- MODULE CommandQueue ----------------------------
(***************************************************************************)
(* From the window to the session loop: SessionHandle::try_command puts    *)
(* commands into a bounded queue; mouse moves and resizes are coalesced    *)
(* into slots with at most one marker queued, and "release all keys" and   *)
(* "shut down" are also flags, so that a full queue cannot lose them.  The *)
(* receiving end serves one connection after another and, in between,      *)
(* absorbs what arrives while disconnected.                                *)
(*                                                                         *)
(* The main thread interleaves with the session thread at every lock,      *)
(* atomic and try_send.  Taking a command and resolving its slot or flag   *)
(* is one step of the session: the first touches only the queue and the    *)
(* second only the slots and flags, so nothing can tell them apart.        *)
(***************************************************************************)
EXTENDS Naturals, Sequences

CONSTANTS
    Keys,          \* keys of the Mac keyboard
    Points,        \* pointer positions
    Sizes,         \* sizes of the window's desktop area
    None,          \* no value
    QueueCap,      \* COMMAND_QUEUE_CAPACITY
    MaxDown,       \* bound: the held-key counter, against endless auto-repeat
    ReadyAtOnce    \* display control is ready when a connection starts

ASSUME CommandAssumption ==
    /\ QueueCap \in Nat \ {0}
    /\ ReadyAtOnce \in BOOLEAN
    /\ None \notin Keys \cup Points \cup Sizes

VARIABLES
    focused,     \* the window is key
    closed,      \* the window has been closed
    held,        \* keys down since the window became key
    winSize,     \* the size of the desktop area of the window
    todo,        \* what is left of the event the main thread handles
    queue,       \* the command channel, oldest first
    slots,       \* PendingCommands: mouse_move and resize
    flags,       \* PendingCommands: release_all_keys and shutdown
    refused,     \* kinds of input whose last try_command returned false
    phase,       \* where the session thread is
    cut,         \* history: a graceful shutdown could not be sent
    connectSize, \* config.width and config.height
    remoteSize,  \* the desktop size last asked of the server
    controlReady,\* the display control channel is open
    pressed,     \* input_db: keys down on the remote
    keysDown,    \* keys_down
    mustRelease  \* keys down on the remote when a release was asked for

vars == <<focused, closed, held, winSize, todo, queue, slots, flags, refused,
          phase, cut, connectSize, remoteSize, controlReady, pressed, keysDown,
          mustRelease>>
window == <<focused, closed, held, winSize>>
display == <<connectSize, remoteSize, controlReady>>
keyboard == <<pressed, keysDown, mustRelease>>

-----------------------------------------------------------------------------
Command(kind, arg) == [kind |-> kind, arg |-> arg]
Marker(kind) == Command(kind, None)
Commands == [kind : {"press", "lift"}, arg : Keys]
              \cup [kind : {"move", "resize", "release", "shutdown"}, arg : {None}]

Send(c) == [op |-> "send", cmd |-> c]
Unqueue(slot) == [op |-> "unqueue", cmd |-> Marker(slot)]
SetFlag(flag) == [op |-> "flag", cmd |-> Marker(flag)]
DropHandle == [op |-> "drop", cmd |-> Marker("shutdown")]
Steps == [op : {"send", "unqueue", "flag", "drop"}, cmd : Commands]

Slots == {"move", "resize"}
Flags == {"release", "shutdown"}
ValuesOf(slot) == IF slot = "move" THEN Points ELSE Sizes
EmptySlot == [value |-> None, queued |-> FALSE]

Phases == {"connecting", "top", "select", "drainTop", "drain", "retryTop",
           "retryWait", "ended"}
Online == phase \in {"top", "select"}

TypeOK ==
    /\ focused \in BOOLEAN /\ closed \in BOOLEAN
    /\ held \subseteq Keys
    /\ winSize \in Sizes /\ connectSize \in Sizes /\ remoteSize \in Sizes
    /\ todo \in Seq(Steps)
    /\ queue \in Seq(Commands) /\ Len(queue) <= QueueCap
    /\ DOMAIN slots = Slots
    /\ \A s \in Slots : slots[s] \in [value : ValuesOf(s) \cup {None}, queued : BOOLEAN]
    /\ flags \in [Flags -> BOOLEAN]
    /\ refused \subseteq {"key", "move", "resize"}
    /\ phase \in Phases /\ cut \in BOOLEAN
    /\ controlReady \in BOOLEAN
    /\ pressed \subseteq Keys
    /\ keysDown \in Nat
    /\ mustRelease \subseteq pressed

Init ==
    /\ focused = TRUE /\ closed = FALSE /\ held = {}
    /\ winSize \in Sizes /\ connectSize = winSize /\ remoteSize = winSize
    /\ todo = <<>> /\ queue = <<>>
    /\ slots = [s \in Slots |-> EmptySlot]
    /\ flags = [f \in Flags |-> FALSE]
    /\ refused = {}
    /\ phase = "connecting" /\ cut = FALSE /\ controlReady = FALSE
    /\ pressed = {} /\ keysDown = 0 /\ mustRelease = {}

-----------------------------------------------------------------------------
(* The main thread: one event at a time, each a few steps. *)

Handles(steps) ==
    /\ todo = <<>>
    /\ ~closed
    /\ todo' = steps

PressKey(k) ==
    /\ focused
    /\ keysDown + Len(queue) < MaxDown
    /\ held' = held \cup {k}     \* again while k is held: AppKit's auto-repeat
    /\ Handles(<<Send(Command("press", k))>>)
    /\ UNCHANGED <<focused, closed, winSize, queue, slots, flags, refused,
                   phase, cut, display, keyboard>>

(* Also for a key pressed before the window became key. *)
LiftKey(k) ==
    /\ focused
    /\ held' = held \ {k}
    /\ Handles(<<Send(Command("lift", k))>>)
    /\ UNCHANGED <<focused, closed, winSize, queue, slots, flags, refused,
                   phase, cut, display, keyboard>>

(* queue_mouse_move, queue_resize: only an idle slot queues a marker. *)
QueueSlot(slot, v) ==
    /\ slots' = [slots EXCEPT ![slot] = [value |-> v, queued |-> TRUE]]
    /\ Handles(IF slots[slot].queued THEN <<>> ELSE <<Send(Marker(slot))>>)
    /\ refused' = IF slots[slot].queued THEN refused \ {slot} ELSE refused

MoveMouse(p) ==
    /\ focused
    /\ QueueSlot("move", p)
    /\ UNCHANGED <<window, queue, flags, phase, cut, display, keyboard>>

ResizeWindow(sz) ==
    /\ winSize' = sz
    /\ QueueSlot("resize", sz)
    /\ UNCHANGED <<focused, closed, held, queue, flags, phase, cut, display, keyboard>>

(* windowDidResignKey: the view forgets its keys and asks for a release. *)
LoseFocus ==
    /\ focused
    /\ focused' = FALSE
    /\ held' = {}
    /\ Handles(<<SetFlag("release"), Send(Marker("release"))>>)
    /\ UNCHANGED <<closed, winSize, queue, slots, flags, refused, phase, cut, display,
                   keyboard>>

GainFocus ==
    /\ ~focused
    /\ focused' = TRUE
    /\ Handles(<<>>)
    /\ UNCHANGED <<closed, held, winSize, queue, slots, flags, refused, phase, cut,
                   display, keyboard>>

(* windowWillClose, and remove_window, which it leaves to the main queue:   *)
(* with the window go the handles of the session.                           *)
CloseWindow ==
    /\ Handles(<<SetFlag("release"), Send(Marker("release")),
                 SetFlag("shutdown"), Send(Marker("shutdown")), DropHandle>>)
    /\ closed' = TRUE
    /\ held' = {}
    /\ UNCHANGED <<focused, winSize, queue, slots, flags, refused, phase, cut, display,
                   keyboard>>

(* The keys a release asked for now has to reach. *)
RaiseFlag ==
    /\ todo # <<>> /\ Head(todo).op = "flag"
    /\ LET f == Head(todo).cmd.kind IN
         /\ flags' = [flags EXCEPT ![f] = TRUE]
         /\ mustRelease' = IF f = "release" THEN pressed ELSE mustRelease
    /\ todo' = Tail(todo)
    /\ UNCHANGED <<window, queue, slots, refused, phase, cut, display, pressed, keysDown>>

KindOf(c) == IF c.kind \in {"press", "lift"} THEN "key" ELSE c.kind

(* Mutant: a release is only a flag; nothing wakes the session up. *)
TrySendExceptRelease ==
    /\ todo # <<>> /\ Head(todo).op = "send"
    /\ LET c == Head(todo).cmd IN
         IF c.kind = "release" \/ phase = "ended" \/ Len(queue) >= QueueCap
         THEN /\ refused' = IF c.kind \in Flags THEN refused ELSE refused \cup {KindOf(c)}
              /\ todo' = IF c.kind \in Slots THEN <<Unqueue(c.kind)>> \o Tail(todo)
                         ELSE Tail(todo)
              /\ UNCHANGED queue
         ELSE /\ queue' = Append(queue, c)
              /\ refused' = IF c.kind \in Slots THEN refused \ {c.kind} ELSE refused
              /\ todo' = Tail(todo)
    /\ UNCHANGED <<window, slots, flags, phase, cut, display, keyboard>>

(* try_send: refused when the queue is full or the session has ended, which *)
(* the caller of a flag ignores and a slot undoes.                          *)
TrySend ==
    /\ todo # <<>> /\ Head(todo).op = "send"
    /\ LET c == Head(todo).cmd IN
         \/ /\ phase # "ended" /\ Len(queue) < QueueCap
            /\ queue' = Append(queue, c)
            /\ refused' = IF c.kind \in Slots THEN refused \ {c.kind} ELSE refused
            /\ todo' = Tail(todo)
         \/ /\ phase = "ended" \/ Len(queue) >= QueueCap
            /\ refused' = IF c.kind \in Flags THEN refused ELSE refused \cup {KindOf(c)}
            /\ todo' = IF c.kind \in Slots THEN <<Unqueue(c.kind)>> \o Tail(todo)
                       ELSE Tail(todo)
            /\ UNCHANGED queue
    /\ UNCHANGED <<window, slots, flags, phase, cut, display, keyboard>>

(* Mutant: a refused marker leaves its slot marked as queued. *)
UnqueueNothing ==
    /\ todo # <<>> /\ Head(todo).op = "unqueue"
    /\ todo' = Tail(todo)
    /\ UNCHANGED <<window, queue, slots, flags, refused, phase, cut, display, keyboard>>

UnqueueSlot ==
    /\ todo # <<>> /\ Head(todo).op = "unqueue"
    /\ slots' = [slots EXCEPT ![Head(todo).cmd.kind].queued = FALSE]
    /\ todo' = Tail(todo)
    /\ UNCHANGED <<window, queue, flags, refused, phase, cut, display, keyboard>>

DropTheHandle ==
    /\ todo # <<>> /\ Head(todo).op = "drop"
    /\ todo' = Tail(todo)
    /\ UNCHANGED <<window, queue, slots, flags, refused, phase, cut, display, keyboard>>

MainThread == RaiseFlag \/ TrySend \/ UnqueueSlot \/ DropTheHandle

(* Mutant of SendersGone: something keeps a handle of a closed window.      *)
SendersKept == FALSE

(* No handle is left, so that recv ends once the queue is empty.            *)
SendersGone == closed /\ todo = <<>>

-----------------------------------------------------------------------------
(* The session thread: connections. *)

SessionOnly == UNCHANGED <<window, todo, refused, cut>>

(* input_db and keys_down belong to one connection. *)
NothingDown == pressed' = {} /\ keysDown' = 0 /\ mustRelease' = {}

(* connect succeeds: the desktop has the size asked for when it began, and  *)
(* nothing is down on the remote.                                           *)
Connected ==
    /\ phase = "connecting"
    /\ phase' = "top"
    /\ remoteSize' = connectSize
    /\ controlReady' = ReadyAtOnce
    /\ SessionOnly
    /\ UNCHANGED <<queue, slots, flags, connectSize, keyboard>>

(* The connection is lost or refused; run tries again or gives up. *)
ConnectionLost ==
    /\ phase = "connecting" \/ Online
    /\ phase' \in {"drainTop", "ended"}
    /\ NothingDown
    /\ SessionOnly
    /\ UNCHANGED <<queue, slots, flags, display>>

ControlOpens ==
    /\ Online /\ ~controlReady
    /\ controlReady' = TRUE
    /\ SessionOnly
    /\ UNCHANGED <<queue, slots, flags, phase, connectSize, remoteSize, keyboard>>

-----------------------------------------------------------------------------
(* run_session *)

(* Mutant: the release is taken to be unnecessary when no key is counted. *)
LoopTopByCount ==
    /\ phase = "top"
    /\ IF flags["shutdown"]
       THEN /\ phase' = "ended"
            /\ flags' = [flags EXCEPT !["shutdown"] = FALSE]
            /\ NothingDown
       ELSE /\ phase' = "select"
            /\ flags' = [flags EXCEPT !["release"] = FALSE]
            /\ IF flags["release"] /\ keysDown > 0 THEN NothingDown
               ELSE UNCHANGED keyboard
    /\ SessionOnly
    /\ UNCHANGED <<queue, slots, display>>

(* The flags are looked at before anything is waited for. *)
LoopTop ==
    /\ phase = "top"
    /\ IF flags["shutdown"]
       THEN /\ phase' = "ended"
            /\ flags' = [flags EXCEPT !["shutdown"] = FALSE]
            /\ NothingDown
       ELSE /\ phase' = "select"
            /\ flags' = [flags EXCEPT !["release"] = FALSE]
            /\ IF flags["release"] THEN NothingDown ELSE UNCHANGED keyboard
    /\ SessionOnly
    /\ UNCHANGED <<queue, slots, display>>

(* A PDU, a clipboard signal, a graphics event or a timer came first. *)
OtherArm ==
    /\ phase = "select"
    /\ phase' = "top"
    /\ SessionOnly
    /\ UNCHANGED <<queue, slots, flags, display, keyboard>>

(* PasteAccepted: every key is released, then Ctrl+V is pressed; a paste    *)
(* that is no longer current clears the counter only.  (When the frames     *)
(* cannot be sent the writer has stopped: ConnectionLost follows.)          *)
PasteArm ==
    /\ phase = "select"
    /\ phase' = "top"
    /\ \/ NothingDown
       \/ keysDown' = 0 /\ UNCHANGED <<pressed, mustRelease>>
    /\ SessionOnly
    /\ UNCHANGED <<queue, slots, flags, display>>

Takes(kinds) ==
    /\ queue # <<>>
    /\ Head(queue).kind \in kinds
    /\ queue' = Tail(queue)

(* resolve_pending_command *)
TakeSlot(slot) ==
    /\ slots' = [slots EXCEPT ![slot] = EmptySlot]
    /\ UNCHANGED flags

TakeFlag(flag) ==
    /\ flags' = [flags EXCEPT ![flag] = FALSE]
    /\ UNCHANGED slots

HandleKey ==
    /\ phase = "select"
    /\ Takes({"press", "lift"})
    /\ LET k == Head(queue).arg IN
         IF Head(queue).kind = "press"
         THEN /\ pressed' = pressed \cup {k} /\ keysDown' = keysDown + 1
              /\ UNCHANGED mustRelease
         ELSE /\ pressed' = pressed \ {k}
              /\ keysDown' = IF keysDown = 0 THEN 0 ELSE keysDown - 1
              /\ mustRelease' = mustRelease \ {k}
    /\ phase' = "top"
    /\ SessionOnly
    /\ UNCHANGED <<slots, flags, display>>

HandleMove ==
    /\ phase = "select"
    /\ Takes({"move"})
    /\ TakeSlot("move")
    /\ phase' = "top"
    /\ SessionOnly
    /\ UNCHANGED <<display, keyboard>>

(* A resize before display control is ready is ignored. *)
HandleResize ==
    /\ phase = "select"
    /\ Takes({"resize"})
    /\ TakeSlot("resize")
    /\ remoteSize' = IF controlReady /\ slots["resize"].value # None
                     THEN slots["resize"].value ELSE remoteSize
    /\ phase' = "top"
    /\ SessionOnly
    /\ UNCHANGED <<connectSize, controlReady, keyboard>>

(* A marker whose flag the loop has already taken is ignored. *)
HandleRelease ==
    /\ phase = "select"
    /\ Takes({"release"})
    /\ TakeFlag("release")
    /\ IF flags["release"] THEN NothingDown ELSE UNCHANGED keyboard
    /\ phase' = "top"
    /\ SessionOnly
    /\ UNCHANGED display

(* The window was closed.  If the shutdown cannot be sent, as the writer    *)
(* has stopped, the session ends as disconnected: with reconnect it goes on *)
(* although the request to stop has been used up.                           *)
HandleShutdown ==
    /\ phase = "select"
    /\ Takes({"shutdown"})
    /\ TakeFlag("shutdown")
    /\ \/ ~flags["shutdown"] /\ phase' = "top" /\ UNCHANGED <<keyboard, cut>>
       \/ flags["shutdown"] /\ phase' = "ended" /\ NothingDown /\ UNCHANGED cut
       \/ flags["shutdown"] /\ phase' = "drainTop" /\ NothingDown /\ cut' = TRUE
    /\ UNCHANGED <<window, todo, refused, display>>

(* recv returns None. *)
HandleNone ==
    /\ phase = "select"
    /\ queue = <<>> /\ SendersGone
    /\ phase' = "ended" /\ NothingDown
    /\ SessionOnly
    /\ UNCHANGED <<queue, slots, flags, display>>

Handle ==
    \/ HandleKey \/ HandleMove \/ HandleResize \/ HandleRelease \/ HandleShutdown
    \/ HandleNone

-----------------------------------------------------------------------------
(* Between two connections. *)

(* absorb_offline_command, after resolve_pending_command: only a resize is  *)
(* kept (clipboard commands are LocalClipboard's).                          *)
Absorb(next) ==
    /\ \/ /\ Takes({"press", "lift"})
          /\ UNCHANGED <<slots, flags, connectSize>>
       \/ Takes({"move"}) /\ TakeSlot("move") /\ UNCHANGED connectSize
       \/ Takes({"release"}) /\ TakeFlag("release") /\ UNCHANGED connectSize
       \/ /\ Takes({"resize"}) /\ TakeSlot("resize")
          /\ connectSize' = IF slots["resize"].value = None THEN connectSize
                            ELSE slots["resize"].value
    /\ phase' = next
    /\ UNCHANGED <<remoteSize, controlReady, keyboard>>

StopOffline ==
    /\ Takes({"shutdown"})
    /\ phase' = "ended"
    /\ UNCHANGED <<slots, flags, display, keyboard>>

StopFlagged(next) ==
    /\ phase' = IF flags["shutdown"] THEN "ended" ELSE next
    /\ UNCHANGED <<queue, slots, display, keyboard>>

(* drain_should_stop *)
DrainTop ==
    /\ phase = "drainTop"
    /\ StopFlagged("drain")
    /\ flags' = [flags EXCEPT !["shutdown"] = FALSE]
    /\ SessionOnly

Drain ==
    /\ phase = "drain"
    /\ \/ Absorb("drain")
       \/ StopOffline
       \/ /\ queue = <<>>
          /\ phase' = IF SendersGone THEN "ended" ELSE "retryTop"
          /\ UNCHANGED <<queue, slots, flags, display, keyboard>>
    /\ SessionOnly

(* wait_for_retry *)
RetryTop ==
    /\ phase = "retryTop"
    /\ StopFlagged("retryWait")
    /\ flags' = [release |-> IF flags["shutdown"] THEN flags["release"] ELSE FALSE,
                 shutdown |-> FALSE]
    /\ SessionOnly

RetryWait ==
    /\ phase = "retryWait"
    /\ \/ Absorb("retryTop")
       \/ StopOffline
       \/ /\ queue = <<>> /\ SendersGone /\ phase' = "ended"
          /\ UNCHANGED <<queue, slots, flags, display, keyboard>>
    /\ SessionOnly

RetryDue ==
    /\ phase = "retryWait"
    /\ phase' = "connecting"
    /\ SessionOnly
    /\ UNCHANGED <<queue, slots, flags, display, keyboard>>

Offline == DrainTop \/ Drain \/ RetryTop \/ RetryWait \/ RetryDue

-----------------------------------------------------------------------------
Window ==
    \/ \E k \in Keys : PressKey(k) \/ LiftKey(k)
    \/ \E p \in Points : MoveMouse(p)
    \/ \E sz \in Sizes : ResizeWindow(sz)
    \/ LoseFocus \/ GainFocus \/ CloseWindow

Next ==
    \/ Window \/ MainThread
    \/ Connected \/ ConnectionLost \/ ControlOpens
    \/ LoopTop \/ Handle \/ OtherArm \/ PasteArm
    \/ Offline

(***************************************************************************)
(* The main thread finishes an event it has begun, and drops the handles   *)
(* of a window that was closed.  The session loop runs on while the server *)
(* keeps reading what it is sent, and a command that is waiting, or the    *)
(* end of the channel, is received in the end, since select! polls its     *)
(* arms in random order.  Nothing obliges the server to send anything, and *)
(* no fairness is assumed of connect: after TCP it has no time limit.      *)
(***************************************************************************)
Fairness ==
    /\ WF_vars(MainThread)
    /\ WF_vars(LoopTop)
    /\ SF_vars(Handle)
    /\ WF_vars(Offline)

Spec == Init /\ [][Next]_vars
FairSpec == Spec /\ Fairness

-----------------------------------------------------------------------------
(***************************************************************************)
(* try_command's promise for a coalesced value: once it has returned true, *)
(* the newest value cannot be forgotten; a marker is on its way to the     *)
(* session, and never two.                                                 *)
(***************************************************************************)
MarkersOf(slot) ==
    {i \in DOMAIN queue : queue[i].kind = slot}
AboutToSend(slot) ==
    \E i \in DOMAIN todo : todo[i] \in {Send(Marker(slot)), Unqueue(slot)}

AcceptedValueIsDelivered ==
    \A s \in Slots :
       /\ \A i, j \in MarkersOf(s) : i = j
       /\ slots[s].value # None /\ s \notin refused /\ ~AboutToSend(s)
            => MarkersOf(s) # {} \/ phase = "ended"

(***************************************************************************)
(* A release is never swallowed: as long as a key is down on the remote    *)
(* that was down when a release was asked for, the flag is still up; in    *)
(* particular no stale marker and no wrong count can use it up.            *)
(***************************************************************************)
ReleaseNotSwallowed == mustRelease # {} => flags["release"]

(***************************************************************************)
(* The keys that were down when a release was asked for are released, even *)
(* when the command queue is full.                                         *)
(***************************************************************************)
ReleaseReachesHost == mustRelease # {} ~> mustRelease = {}

(***************************************************************************)
(* A closed window ends its session, online, draining and waiting to       *)
(* retry, with the queue full or empty, and even if the graceful shutdown  *)
(* could not be sent, when only the handles that are dropped with the      *)
(* window end it; only a connect that never returns can keep it.           *)
(***************************************************************************)
CloseEndsSession == closed ~> (phase = "ended" \/ [](phase = "connecting"))

-----------------------------------------------------------------------------
(* Nothing is left to do on either side of an open connection. *)
AtRest == todo = <<>> /\ queue = <<>> /\ phase = "select"

(***************************************************************************)
(* "Release every held key on the remote when we lose focus, so modifiers  *)
(* (Hyper key, Cmd-Tab, Mission Control) never get stuck on the host"      *)
(* (RdpView::release_all_keys).  It does not hold: the flag overtakes key  *)
(* presses that are queued in front of its marker, see the README.         *)
(***************************************************************************)
NoKeyStuckOnHost == AtRest /\ ~focused => pressed = {}

(***************************************************************************)
(* "while the user is idle, tap an invisible F15 every KEEP_ALIVE_INTERVAL"*)
(* (SessionConfig::keep_alive): when the user has let go of every key, and *)
(* every key event was queued, the held-key counter allows the tap.  It    *)
(* does not hold: auto-repeats are counted, see the README.                *)
(***************************************************************************)
KeepAliveResumes ==
    AtRest /\ held = {} /\ pressed = {} /\ "key" \notin refused => keysDown = 0

(***************************************************************************)
(* "keys_down suppresses the tap while a key is held so the injected F15   *)
(* can never merge with a modifier the user is pressing" (run_session).    *)
(* It does not hold: PasteArm clears the counter, see the README.          *)
(***************************************************************************)
TapNeverMerges == phase = "select" /\ keysDown = 0 => pressed \cap held = {}

(***************************************************************************)
(* "so the session comes back matching the current window" (comment on     *)
(* absorb_offline_command): at rest the remote desktop has the size of the *)
(* window, unless the last resize was refused.  It does not hold: a resize *)
(* handled online is not stored, see the README.                           *)
(***************************************************************************)
SessionMatchesWindow ==
    AtRest /\ "resize" \notin refused => remoteSize = winSize
=============================================================================
