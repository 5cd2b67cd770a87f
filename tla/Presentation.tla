---------------------------- MODULE Presentation ----------------------------
(***************************************************************************)
(* The picture on the screen: FramePipeline says when the main thread      *)
(* repaints, Framebuffer what a repaint copies.  Here they run together,   *)
(* over one desktop size, with the layer whose contents a repaint sets     *)
(* (RdpView::refresh: upload_framebuffer_iosurface, and behind it          *)
(* upload_framebuffer).  Every step is one of FramePipeline's with one of  *)
(* Framebuffer's, or a step of one of them alone.                          *)
(***************************************************************************)
EXTENDS FramePipeline, Framebuffer

CONSTANTS
    Frame,     \* the width and height each IOSurface was allocated for
    None       \* the layer of a new window has no contents

ASSUME PresentationAssumption ==
    /\ Frame \in [Surfaces -> Sizes]
    /\ \A s \in Surfaces, sz \in Sizes :
           HasRoom(Geometry[s], sz) => <<sz, Frame[s]>> \in FitsInto
    /\ None \notin Buffers

VARIABLES
    layer,     \* the buffer the layer's contents are read from
    shownSize  \* and the size they are shown as

screen == <<layer, shownSize>>

ScreenInit ==
    /\ Init /\ BufferInit
    /\ layer = None /\ shownSize = Unsized

-----------------------------------------------------------------------------
(* The session thread. *)

(* Decoded pixels: one rectangle of the framebuffer, or none where the      *)
(* update lies outside of it or no longer has its size.                     *)
WritePixels ==
    /\ Write
    /\ \/ \E left, top, width, height \in Coords, color \in Colors :
            \/ WriteRect(left, top, width, height, color)
            \/ \E src \in Sizes : BlitRect(src, left, top, width, height, color)
       \/ UNCHANGED bufferVars
    /\ UNCHANGED screen

(* Both ways the desktop gets a size clear the framebuffer. *)
NewSize(sz) ==
    /\ ResizeDesktop(sz) \/ Connect(sz)
    /\ Resize(sz)
    /\ UNCHANGED screen

-----------------------------------------------------------------------------
(* The main thread's repaint. *)

(* Mutant: surfaces from before a resize stay in the pool. *)
PaintAnySurface(s) ==
    /\ Present /\ PresentSurface(s)
    /\ fresh' = (dims = size)
    /\ layer' = s /\ shownSize' = Frame[s]

(* upload_framebuffer_iosurface: a surface of the size that was read, with  *)
(* the pixels there are by the time the framebuffer is locked.              *)
PaintSurface(s) ==
    /\ Present /\ PresentSurface(s)
    /\ Frame[s] = dims
    /\ fresh' = (dims = size)
    /\ layer' = s /\ shownSize' = Frame[s]

(* upload_framebuffer: an image of the framebuffer's own size.  The buffer  *)
(* of the image being shown is not in the pool.                             *)
PaintImage(b) ==
    /\ b # layer
    /\ Present /\ PresentVec(b)
    /\ fresh'
    /\ layer' = b /\ shownSize' = size

(* A buffer leaves its pool; the one being shown is kept by the layer. *)
Drop(b) ==
    /\ b # layer
    /\ Recycle(b)
    /\ UNCHANGED <<vars, screen>>

(* The steps of the two threads that do not touch the framebuffer. *)
Elsewhere ==
    /\ SessionEnds \/ Session \/ TimerDue \/ NextBlock \/ TrailingPaint \/ ReadDimensions
    /\ UNCHANGED <<bufferVars, screen>>

ScreenNext ==
    \/ WritePixels
    \/ \E sz \in Sizes : NewSize(sz)
    \/ \E s \in Surfaces : PaintSurface(s)
    \/ \E b \in Vecs : PaintImage(b)
    \/ \E b \in Buffers : Drop(b)
    \/ Elsewhere

ScreenSpec == ScreenInit /\ [][ScreenNext]_<<vars, bufferVars, screen>>

-----------------------------------------------------------------------------
(* What the user sees is what the server drew: the layer shows a picture of *)
(* the desktop's size, and its memory holds the framebuffer's pixels.       *)
ScreenIsExact ==
    Cells(size) # {} =>
      /\ layer # None
      /\ shownSize = size
      /\ \A c \in Cells(size) : data[layer][Offset(Stride(layer), c)] = pixels[c]

(***************************************************************************)
(* Once both threads are at rest in a session, every pixel shown is that of *)
(* the framebuffer, unless frame_dirty still marks a missed update: no     *)
(* coalescing, no dirty rectangle left out of a copy, no recycled buffer   *)
(* and no resize between reading the size and copying can leave a stale or *)
(* garbled picture that nothing remembers.                                 *)
(***************************************************************************)
QuietScreenIsExact == AtRest /\ ~frameDirty => ScreenIsExact
=============================================================================
