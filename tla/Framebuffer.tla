---------------------------- MODULE Framebuffer ----------------------------
(***************************************************************************)
(* SharedFramebuffer: the session task writes decoded pixels, the UI       *)
(* thread brings presentation buffers up to date by copying only what the  *)
(* dirty log says has changed since each was last synced.  Every method    *)
(* holds the mutex for its whole body, so each is one step.                *)
(*                                                                         *)
(* A pixel is a colour and a cell its <<column, row>>.  A buffer is linear *)
(* memory with a row stride: a Vec laid out by the current width           *)
(* (present_into) or an IOSurface of fixed geometry (present_into_stride). *)
(***************************************************************************)
EXTENDS Desktop, Sequences

CONSTANTS
    Colors, Black,   \* pixel values; resize clears to Black
    Coords,          \* coordinates and extents of rectangles
    Vecs,            \* pooled presentation buffers
    Surfaces,        \* pooled IOSurfaces ...
    Geometry,        \* ... and the size each was allocated with
    MaxDirtyEntries, \* MAX_DIRTY_ENTRIES
    MaxGen           \* bound: updates made

ASSUME FramebufferAssumption ==
    /\ Black \in Colors
    /\ Geometry \in [Surfaces -> Nat \X Nat]
    /\ Vecs \cap Surfaces = {}
    /\ MaxDirtyEntries \in Nat

Buffers == Vecs \cup Surfaces

VARIABLES
    pixels,     \* the colour of every cell
    generation, \* bumped by every write
    dirty,      \* regions changed at a given generation, oldest first
    fullDirty,  \* buffers synced before this generation copy everything
    data,       \* the memory of each buffer, a function from offsets
    synced      \* the generation each buffer was last synced to

bufferVars == <<size, pixels, generation, dirty, fullDirty, data, synced>>
inner == <<size, pixels, generation, dirty, fullDirty>>

-----------------------------------------------------------------------------
Offset(stride, c) == c[2] * stride + c[1]

(* The cells of a rectangle, clamped to the framebuffer. *)
Rect(left, top, width, height) ==
    {c \in Cells(size) : /\ left <= c[1] /\ c[1] < left + width
                         /\ top <= c[2] /\ c[2] < top + height}

Blank(n) == [o \in 0 .. n - 1 |-> Black]

(* The lengths the memory of a buffer can have. *)
Lengths(b) == IF b \in Vecs THEN {0} \cup {Area(sz) : sz \in Sizes}
              ELSE {Area(Geometry[b])}
FreshLength(b) == IF b \in Vecs THEN 0 ELSE Area(Geometry[b])

(* An entry of the dirty log. *)
Entries == [gen : Nat, cells : SUBSET Cells(size)]

BufferTypeOK ==
    /\ size \in Desktops
    /\ pixels \in [Cells(size) -> Colors]
    /\ generation \in Nat
    /\ dirty \in Seq(Entries)
    /\ Len(dirty) <= MaxDirtyEntries
    /\ fullDirty \in 0 .. generation
    /\ DOMAIN data = Buffers
    /\ \A b \in Buffers : \E n \in Lengths(b) : data[b] \in [0 .. n - 1 -> Colors]
    /\ synced \in [Buffers -> 0 .. generation]

BufferInit ==
    /\ size = Unsized /\ pixels = [c \in Cells(Unsized) |-> Black]
    /\ generation = 0 /\ dirty = <<>> /\ fullDirty = 0
    /\ data = [b \in Buffers |-> Blank(FreshLength(b))]
    /\ synced = [b \in Buffers |-> 0]

-----------------------------------------------------------------------------
(* mark_dirty: when the log is full everything counts as changed. *)
MarkDirty(cells) ==
    /\ generation' = generation + 1
    /\ IF Len(dirty) >= MaxDirtyEntries
       THEN dirty' = <<>> /\ fullDirty' = generation'
       ELSE /\ dirty' = Append(dirty, [gen |-> generation', cells |-> cells])
            /\ UNCHANGED fullDirty

(* Mutant: a resize leaves the generation of the last full copy alone. *)
ResizeQuietly(sz) ==
    /\ generation < MaxGen
    /\ size' = sz
    /\ pixels' = [c \in Cells(sz) |-> Black]
    /\ generation' = generation + 1
    /\ dirty' = <<>>
    /\ UNCHANGED <<fullDirty, data, synced>>

Resize(sz) ==
    /\ generation < MaxGen
    /\ size' = sz
    /\ pixels' = [c \in Cells(sz) |-> Black]
    /\ generation' = generation + 1
    /\ dirty' = <<>>
    /\ fullDirty' = generation'
    /\ UNCHANGED <<data, synced>>

Paint(cells, color) ==
    /\ cells # {}
    /\ pixels' = [c \in Cells(size) |-> IF c \in cells THEN color ELSE pixels[c]]
    /\ MarkDirty(cells)
    /\ UNCHANGED <<size, data, synced>>

(* The source must have the framebuffer's own size: an update decoded       *)
(* before a resize is ignored when the number of pixels differs.            *)
BlitRect(src, left, top, width, height, color) ==
    /\ generation < MaxGen
    /\ Area(src) = Area(size)
    /\ Paint(Rect(left, top, width, height), color)

WriteRect(left, top, width, height, color) ==
    /\ generation < MaxGen
    /\ Paint(Rect(left, top, width, height), color)

-----------------------------------------------------------------------------
(* The memory with the given cells copied into it. *)
Copied(m, stride, cells) ==
    [o \in DOMAIN m |->
       IF \E c \in cells : Offset(stride, c) = o
       THEN pixels[CHOOSE c \in cells : Offset(stride, c) = o]
       ELSE m[o]]

(* The cells in the log that a buffer synced to g has not seen. *)
ChangedSince(g) ==
    {c \in Cells(size) :
       \E i \in DOMAIN dirty : dirty[i].gen > g /\ c \in dirty[i].cells}

(* present_into: a length that differs is replaced by a full copy. *)
PresentVec(b) ==
    /\ Cells(size) # {}
    /\ LET full == DOMAIN data[b] # 0 .. Area(size) - 1 \/ synced[b] < fullDirty
       IN  data' = [data EXCEPT ![b] =
                      IF full
                      THEN Copied(Blank(Area(size)), size[1], Cells(size))
                      ELSE Copied(@, size[1], ChangedSince(synced[b]))]
    /\ synced' = [synced EXCEPT ![b] = generation]
    /\ UNCHANGED inner

(* A surface is used only when the framebuffer fits into its memory. *)
HasRoom(g, sz) ==
    /\ Cells(sz) # {}
    /\ sz[1] <= g[1]
    /\ (sz[2] - 1) * g[1] + sz[1] <= Area(g)

Fits(s) == HasRoom(Geometry[s], size)

PresentSurface(s) ==
    /\ Fits(s)
    /\ LET cells == IF synced[s] < fullDirty THEN Cells(size)
                    ELSE ChangedSince(synced[s])
       IN  data' = [data EXCEPT ![s] = Copied(@, Geometry[s][1], cells)]
    /\ synced' = [synced EXCEPT ![s] = generation]
    /\ UNCHANGED inner

(* A buffer dropped from its pool (a resize, a full pool) and allocated     *)
(* afresh knows nothing.                                                    *)
Recycle(b) ==
    /\ data' = [data EXCEPT ![b] = Blank(FreshLength(b))]
    /\ synced' = [synced EXCEPT ![b] = 0]
    /\ UNCHANGED inner

-----------------------------------------------------------------------------
BufferNext ==
    \/ \E sz \in Sizes : Resize(sz)
    \/ \E left, top \in Coords, width, height \in Coords, color \in Colors :
         \/ WriteRect(left, top, width, height, color)
         \/ \E src \in Sizes : BlitRect(src, left, top, width, height, color)
    \/ \E b \in Vecs : PresentVec(b)
    \/ \E s \in Surfaces : PresentSurface(s)
    \/ \E b \in Buffers : Recycle(b)

BufferSpec == BufferInit /\ [][BufferNext]_bufferVars

-----------------------------------------------------------------------------
Stride(b) == IF b \in Vecs THEN size[1] ELSE Geometry[b][1]

Usable(b) == IF b \in Vecs THEN DOMAIN data[b] = 0 .. Area(size) - 1 ELSE Fits(b)

(***************************************************************************)
(* "a size mismatch or an out-of-range generation falls back to a full     *)
(* copy": a buffer synced to the current generation shows exactly the      *)
(* current pixels, whatever it skipped, however often the log overflowed   *)
(* and however often the desktop was resized since it was last used.       *)
(***************************************************************************)
SyncedShowsPixels ==
    \A b \in Buffers :
       /\ Usable(b)
       /\ synced[b] = generation
       => \A c \in Cells(size) : data[b][Offset(Stride(b), c)] = pixels[c]

(***************************************************************************)
(* The dirty log never forgets: a buffer of an older generation differs    *)
(* from the pixels only where the log says so, unless a full copy is due.  *)
(***************************************************************************)
LogCoversStale ==
    \A b \in Buffers :
       Usable(b) /\ synced[b] >= fullDirty
       => \A c \in Cells(size) :
            \/ data[b][Offset(Stride(b), c)] = pixels[c]
            \/ c \in ChangedSince(synced[b])
=============================================================================
