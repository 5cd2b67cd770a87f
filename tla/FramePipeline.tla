--------------------------- MODULE FramePipeline ---------------------------
(***************************************************************************)
(* From a framebuffer write on the session thread to the picture on the    *)
(* screen: the event callback of start_session coalesces frame events with *)
(* two atomic flags into at most one leading and one trailing repaint per  *)
(* 8 ms window, and the main thread repaints from the framebuffer          *)
(* (upload_framebuffer_iosurface, with upload_framebuffer behind it).      *)
(*                                                                         *)
(* The two threads interleave at every atomic access.  What a repaint      *)
(* copies is Framebuffer's business; here it is only asked whether the     *)
(* screen shows the current picture.                                       *)
(***************************************************************************)
EXTENDS Desktop, Sequences, FiniteSets

CONSTANTS
    FitsInto,    \* pairs: a desktop of the first fits a surface of the second
    Unknown,     \* no size read yet
    MaxOther     \* bound: other events waiting on the main queue

ASSUME PipelineAssumption ==
    /\ FitsInto \subseteq Desktops \X Desktops
    /\ Unknown \notin Desktops

VARIABLES
    fresh,         \* the screen shows the framebuffer as it is now
    owed,          \* a write whose frame event has not been raised yet
    session,       \* where the session thread is: in run_session, or in the
                   \* callback, or between two connections ("off")
    framePending,  \* frame_pending: a coalescing window is open
    frameDirty,    \* frame_dirty: updates were coalesced into it
    timer,         \* the 8 ms block has been scheduled
    mainQueue,     \* blocks waiting on the main dispatch queue
    main,          \* where the main thread is in its current block
    dims           \* the size refresh read before it took the lock

vars == <<size, fresh, owed, session, framePending, frameDirty, timer,
          mainQueue, main, dims>>
picture == <<size, fresh>>
flags == <<framePending, frameDirty>>

TypeOK ==
    /\ size \in Desktops
    /\ fresh \in BOOLEAN /\ owed \in BOOLEAN
    /\ session \in {"off", "run", "coalesce", "leading", "trailing"}
    /\ framePending \in BOOLEAN /\ frameDirty \in BOOLEAN /\ timer \in BOOLEAN
    /\ mainQueue \in Seq({"paint", "connected", "close"})
    /\ main \in {"idle", "closing", "refresh", "present"}
    /\ dims \in IF main = "present" THEN Desktops ELSE {Unknown}

Init ==
    /\ size = Unsized
    /\ fresh = TRUE /\ owed = FALSE /\ session = "off"
    /\ framePending = FALSE /\ frameDirty = FALSE /\ timer = FALSE
    /\ mainQueue = <<>> /\ main = "idle" /\ dims = Unknown

-----------------------------------------------------------------------------
(* The session thread. *)

(* Decoded graphics reach the framebuffer; the event follows, directly or   *)
(* through the channel of the graphics pipeline.                            *)
Write ==
    /\ session = "run"
    /\ fresh' = FALSE
    /\ owed' = TRUE
    /\ UNCHANGED <<size, session, flags, timer, mainQueue, main, dims>>

(* reactivate: the server changed the desktop size. *)
ResizeDesktop(sz) ==
    /\ session = "run"
    /\ size' = sz
    /\ fresh' = FALSE
    /\ owed' = TRUE
    /\ UNCHANGED <<session, flags, timer, mainQueue, main, dims>>

(* run_session starts: the Connected event is not coalesced. *)
Connect(sz) ==
    /\ session = "off"
    /\ session' = "run"
    /\ Cardinality({i \in DOMAIN mainQueue : mainQueue[i] = "connected"}) < MaxOther
    /\ size' = sz
    /\ fresh' = FALSE
    /\ mainQueue' = Append(mainQueue, "connected")
    /\ UNCHANGED <<owed, flags, timer, main, dims>>

(* run_session returns.  An update still in the channel of the graphics     *)
(* pipeline goes with it, and so does the Resized event of a reactivation   *)
(* that failed between framebuffer.resize and the callback.                 *)
SessionEnds ==
    /\ session = "run"
    /\ session' = "off"
    /\ owed' = FALSE
    /\ UNCHANGED <<picture, flags, timer, mainQueue, main, dims>>

(* Mutant: the window is opened again and again. *)
RaiseUncoalesced ==
    /\ session = "run"
    /\ owed
    /\ owed' = FALSE
    /\ framePending' = TRUE
    /\ session' = "leading"
    /\ UNCHANGED <<picture, frameDirty, timer, mainQueue, main, dims>>

(* compare_exchange(false, true) on frame_pending. *)
RaiseFrameEvent ==
    /\ session = "run"
    /\ owed
    /\ owed' = FALSE
    /\ framePending' = TRUE
    /\ session' = IF framePending THEN "coalesce" ELSE "leading"
    /\ UNCHANGED <<picture, frameDirty, timer, mainQueue, main, dims>>

(* Mutant: an open window means nothing more has to be done. *)
CoalesceNothing ==
    /\ session = "coalesce"
    /\ session' = "run"
    /\ UNCHANGED <<picture, owed, flags, timer, mainQueue, main, dims>>

Coalesce ==
    /\ session = "coalesce"
    /\ frameDirty' = TRUE
    /\ session' = "run"
    /\ UNCHANGED <<picture, owed, framePending, timer, mainQueue, main, dims>>

QueueLeadingPaint ==
    /\ session = "leading"
    /\ mainQueue' = Append(mainQueue, "paint")
    /\ session' = "trailing"
    /\ UNCHANGED <<picture, owed, flags, timer, main, dims>>

ScheduleTrailing ==
    /\ session = "trailing"
    /\ timer' = TRUE
    /\ session' = "run"
    /\ UNCHANGED <<picture, owed, flags, mainQueue, main, dims>>

-----------------------------------------------------------------------------
(* The main thread. *)

TimerDue ==
    /\ timer
    /\ timer' = FALSE
    /\ mainQueue' = Append(mainQueue, "close")
    /\ UNCHANGED <<picture, owed, session, flags, main, dims>>

(* Mutant: the window is closed only when nothing was coalesced. *)
NextBlockLeavingOpen ==
    /\ main = "idle"
    /\ mainQueue # <<>>
    /\ mainQueue' = Tail(mainQueue)
    /\ IF Head(mainQueue) = "close"
       THEN main' = "closing" /\ framePending' = frameDirty
       ELSE main' = "refresh" /\ UNCHANGED framePending
    /\ UNCHANGED <<picture, owed, session, frameDirty, timer, dims>>

(* A block starts; the one at the end of a window first closes it. *)
NextBlock ==
    /\ main = "idle"
    /\ mainQueue # <<>>
    /\ mainQueue' = Tail(mainQueue)
    /\ IF Head(mainQueue) = "close"
       THEN main' = "closing" /\ framePending' = FALSE
       ELSE main' = "refresh" /\ UNCHANGED framePending
    /\ UNCHANGED <<picture, owed, session, frameDirty, timer, dims>>

(* frame_dirty.swap(false): repaint only when updates were coalesced. *)
TrailingPaint ==
    /\ main = "closing"
    /\ main' = IF frameDirty THEN "refresh" ELSE "idle"
    /\ frameDirty' = FALSE
    /\ UNCHANGED <<picture, owed, session, framePending, timer, mainQueue, dims>>

(* The size is read without the lock; it chooses the surface. *)
ReadDimensions ==
    /\ main = "refresh"
    /\ dims' = size
    /\ main' = "present"
    /\ UNCHANGED <<picture, owed, session, flags, timer, mainQueue>>

(* A desktop that shrank in between still fits the memory of the surface    *)
(* that was chosen, whose other pixels are shown too.  One that does not    *)
(* fit, and a pool with no free surface, fall back to a CGImage of the      *)
(* right size.                                                              *)
Present ==
    /\ main = "present"
    /\ \/ dims = size /\ fresh' = TRUE
       \/ dims # size /\ <<size, dims>> \in FitsInto /\ fresh' = FALSE
       \/ fresh' = TRUE
    /\ main' = "idle"
    /\ dims' = Unknown
    /\ UNCHANGED <<size, owed, session, flags, timer, mainQueue>>

-----------------------------------------------------------------------------
Session == RaiseFrameEvent \/ Coalesce \/ QueueLeadingPaint \/ ScheduleTrailing
MainThread == NextBlock \/ TrailingPaint \/ ReadDimensions \/ Present

Next ==
    \/ Write
    \/ \E sz \in Sizes : ResizeDesktop(sz) \/ Connect(sz)
    \/ SessionEnds
    \/ Session
    \/ TimerDue
    \/ MainThread

(* Both threads run on; nothing obliges the server to send another frame. *)
Spec == Init /\ [][Next]_vars
FairSpec == Spec /\ WF_vars(Session) /\ WF_vars(TimerDue) /\ WF_vars(MainThread)

-----------------------------------------------------------------------------
(***************************************************************************)
(* The main queue is never flooded: however fast frames arrive, one paint  *)
(* and one window end are waiting at most.                                 *)
(***************************************************************************)
Waiting(block) == Cardinality({i \in DOMAIN mainQueue : mainQueue[i] = block})

MainQueueNotFlooded ==
    /\ Waiting("paint") <= 1
    /\ Waiting("close") + (IF timer THEN 1 ELSE 0) <= 1

(***************************************************************************)
(* Nothing is lost without a trace: whenever both threads are at rest in a *)
(* session and the screen is stale or garbled, the missed update is still  *)
(* marked in frame_dirty; in particular a resize that raced a repaint is   *)
(* repaired.                                                               *)
(***************************************************************************)
AtRest == /\ session = "run" /\ ~owed /\ ~timer
          /\ mainQueue = <<>> /\ main = "idle"

MissedUpdateIsMarked == AtRest /\ ~fresh => frameDirty

(***************************************************************************)
(* A sustained stream of updates keeps reaching the screen: no order of    *)
(* the atomic accesses, and no update that went with its connection,       *)
(* leaves a coalescing window open for ever.                               *)
(***************************************************************************)
StreamIsPainted ==
    []<>owed /\ (\E sz \in Sizes : <>[](size = sz)) => []<>fresh

(***************************************************************************)
(* "Coalesced into the open window; the trailing repaint will show these   *)
(* pixels" (comment in start_session): when the updates of a session stop, *)
(* the screen ends up showing the last one.                                *)
(***************************************************************************)
LastUpdatePainted == <>[](session = "run" /\ ~owed) => []<>fresh
=============================================================================
