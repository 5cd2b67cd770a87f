--------------------------- MODULE GfxCompositor ---------------------------
(***************************************************************************)
(* The compositor of the graphics pipeline (EGFX): off-screen surfaces the *)
(* server draws on, a bitmap cache, and the framebuffer into which regions *)
(* of mapped surfaces are flushed.  Surfaces that a reset or a deletion    *)
(* takes away are retired and come back with their pixels when one of the  *)
(* same number and size is created.                                        *)
(*                                                                         *)
(* A pixel is a colour.  Surfaces and cache entries are linear memory, row *)
(* by row; a rectangle is <<left, top, right, bottom>>, right and bottom   *)
(* outside.  Decoding is outside: a decoded bitmap is an input.  Each      *)
(* callback is one step: only the session task touches the compositor.     *)
(*                                                                         *)
(* Writes into a surface are clipped to it, flushes are not.  A flush that *)
(* leaves its surface reads on in the next row, or panics behind the last: *)
(* a behaviour is followed up to the first such flush ("strayed"), which   *)
(* is the last thing the model shows of the session.                       *)
(***************************************************************************)
EXTENDS Integers, FiniteSets, SequencesExt, Functions

CONSTANTS
    Ids,          \* surface numbers
    Slots,        \* cache slots
    Colors, Zero, \* pixel values; a new surface and a resized screen are Zero
    SurfaceSizes, \* <<width, height>>
    ScreenSizes,
    Origins,      \* output origins, <<x, y>>
    Rects,        \* rectangles the server names
    Points,       \* destination points, <<x, y>>
    Bitmaps,      \* decoded bitmaps
    Streams,      \* decoded progressive streams: tiles with updated rectangles
    Tile,         \* TILE
    None, Gone,
    MaxList,      \* bound: rectangles or points of one command
    MaxSteps      \* bound: length of a behaviour

ASSUME GfxAssumption ==
    /\ Zero \in Colors
    /\ SurfaceSizes \cup ScreenSizes \cup Origins \cup Points \subseteq Nat \X Nat
    /\ None \notin Nat \X Nat
    /\ None \notin Ids /\ Gone \notin Ids /\ None # Gone
    /\ Tile \in Nat \ {0} /\ MaxList \in Nat /\ MaxSteps \in Nat
    /\ \A r \in Rects : /\ r \in Nat \X Nat \X Nat \X Nat
                        /\ r[1] < r[3] /\ r[2] < r[4]
    /\ \A b \in Bitmaps : /\ b.size \in Nat \X Nat
                          /\ b.px \in [0 .. b.size[1] * b.size[2] - 1 -> Colors]
    /\ \A stream \in Streams : \A u \in stream :
           u.x \in Nat /\ u.y \in Nat /\ u.rect \in Nat \X Nat \X Nat \X Nat

VARIABLES
    surfaces, \* [id -> [size, origin, px]]
    retired,  \* retired_surfaces
    cache,    \* [slot -> [size, px]]
    size,     \* of the framebuffer
    screen,   \* its pixels
    told,     \* what the last callback reported to the session loop
    strayed,  \* a flush left its surface
    painter,  \* history: the surface that painted each pixel last: None since
              \* the reset, Gone when it is no longer there
    lastSeen, \* history: what a surface held when it was taken away
    steps     \* number of callbacks

drawing == <<surfaces, retired, cache>>
output == <<size, screen, told, strayed, painter>>
vars == <<drawing, output, lastSeen, steps>>

-----------------------------------------------------------------------------
(* Memory of surfaces and rectangles. *)

Least(a, b) == IF a < b THEN a ELSE b
Most(a, b) == IF a > b THEN a ELSE b

Memory(sz) == [0 .. sz[1] * sz[2] - 1 -> Colors]
Blank(sz) == [o \in 0 .. sz[1] * sz[2] - 1 |-> Zero]
Surface(sz, origin, px) == [size |-> sz, origin |-> origin, px |-> px]
CellsOf(sz) == (0 .. sz[1] - 1) \X (0 .. sz[2] - 1)

Clamp(sz, r) ==
    LET left == Least(r[1], sz[1])
        top == Least(r[2], sz[2])
    IN <<left, top, Most(Least(r[3], sz[1]), left), Most(Least(r[4], sz[2]), top)>>
WidthOf(r) == r[3] - r[1]
HeightOf(r) == r[4] - r[2]
IsEmpty(r) == r[1] >= r[3] \/ r[2] >= r[4]
At(p, w, h) == <<p[1], p[2], p[1] + w, p[2] + h>>
Inside(sz, r) == r[3] <= sz[1] /\ r[4] <= sz[2]
BoundsOf(rs) ==
    <<Min({r[1] : r \in rs}), Min({r[2] : r \in rs}), Max({r[3] : r \in rs}), Max({r[4] : r \in rs})>>

(* SurfaceBuf::read_rect, for a rectangle inside the surface. *)
ReadRect(s, r) ==
    [i \in 0 .. WidthOf(r) * HeightOf(r) - 1 |->
        s.px[(r[2] + i \div WidthOf(r)) * s.size[1] + r[1] + (i % WidthOf(r))]]

(* SurfaceBuf::write_rect, clipped to the surface. *)
WriteRect(s, src, left, top, w, h) ==
    [s EXCEPT !.px =
        [o \in DOMAIN s.px |->
            LET x == o % s.size[1]
                y == o \div s.size[1]
            IN IF left <= x /\ x < left + w /\ top <= y /\ y < top + h
               THEN src[(y - top) * w + x - left] ELSE s.px[o]]]

(* Rectangles of one colour, in whatever order they are written. *)
Fill(s, color, rs) ==
    [s EXCEPT !.px =
        [o \in DOMAIN s.px |->
            LET x == o % s.size[1]
                y == o \div s.size[1]
            IN IF \E r \in rs : r[1] <= x /\ x < r[3] /\ r[2] <= y /\ y < r[4]
               THEN color ELSE s.px[o]]]

-----------------------------------------------------------------------------
(* The output: what flushes make of the screen. *)

Out == [screen |-> screen, painter |-> painter, told |-> "nothing", strayed |-> FALSE]
Shows(o) ==
    /\ screen' = o.screen /\ painter' = o.painter /\ told' = o.told /\ strayed' = o.strayed
    /\ UNCHANGED size

(* The pixels of the screen that region r of surface s covers. *)
Covered(s, r) ==
    {c \in CellsOf(size) : /\ c[1] - s.origin[1] \in r[1] .. r[3] - 1
                           /\ c[2] - s.origin[2] \in r[2] .. r[4] - 1}
Painted(o, id, s, r) ==
    LET px == ReadRect(s, r)
        hit == Covered(s, r)
    IN [o EXCEPT
           !.screen = [c \in DOMAIN @ |->
               IF c \in hit
               THEN px[(c[2] - s.origin[2] - r[2]) * WidthOf(r) + c[1] - s.origin[1] - r[1]]
               ELSE @[c]],
           !.painter = [c \in DOMAIN @ |-> IF c \in hit THEN id ELSE @[c]]]
Visible(s, r) == s.origin # None /\ ~IsEmpty(r)

(* Push a region of a mapped surface to the framebuffer, which clips it. *)
Flush(o, id, s, r) ==
    IF ~Visible(s, r) THEN o
    ELSE IF ~Inside(s.size, r) THEN [o EXCEPT !.strayed = TRUE]
    ELSE [Painted(o, id, s, r) EXCEPT !.told = "updated"]

(* A region of that size at every point, one flush each. *)
FlushEach(o, id, s, w, h, points) ==
    LET after[n \in 0 .. Len(points)] ==
            IF n = 0 THEN o ELSE Flush(after[n - 1], id, s, At(points[n], w, h))
    IN after[Len(points)]

Has(id) == id \in DOMAIN surfaces
Working == ~strayed
Put(f, k, v) == [x \in DOMAIN f \cup {k} |-> IF x = k THEN v ELSE f[x]]
Without(f, ks) == Restrict(f, DOMAIN f \ ks)
Disown(ids) == [c \in DOMAIN painter |-> IF painter[c] \in ids THEN Gone ELSE painter[c]]

TypeOK ==
    /\ DOMAIN surfaces \cap DOMAIN retired = {}
    /\ \A id \in DOMAIN surfaces \cup DOMAIN retired :
           LET s == IF Has(id) THEN surfaces[id] ELSE retired[id] IN
           /\ id \in Ids /\ s.size \in SurfaceSizes /\ s.origin \in Origins \cup {None}
           /\ s.px \in Memory(s.size)
    /\ \A k \in DOMAIN cache : k \in Slots /\ cache[k].px \in Memory(cache[k].size)
    /\ size \in ScreenSizes /\ screen \in [CellsOf(size) -> Colors]
    /\ told \in {"nothing", "updated", "resized"}
    /\ strayed \in BOOLEAN
    /\ painter \in [CellsOf(size) -> DOMAIN surfaces \cup {None, Gone}]

Init ==
    /\ surfaces = <<>> /\ retired = <<>> /\ cache = <<>>
    /\ size \in ScreenSizes /\ screen = [c \in CellsOf(size) |-> Zero]
    /\ told = "nothing" /\ strayed = FALSE
    /\ painter = [c \in CellsOf(size) |-> None]
    /\ lastSeen = [id \in Ids |-> None]
    /\ steps = 0

-----------------------------------------------------------------------------
(* Surfaces come and go. *)

Kept(id, sz) ==
    IF id \in DOMAIN retired /\ retired[id].size = sz THEN retired[id].px ELSE Blank(sz)

(* A live surface of that number is simply replaced.  The origin is the one *)
(* the protocol library reports with is_mapped: a surface that has just     *)
(* been created has none before a map message names it, a retired one that  *)
(* comes back included.                                                     *)
CreateSurface(id, sz) ==
    /\ Working
    /\ surfaces' = Put(surfaces, id, Surface(sz, None, Kept(id, sz)))
    /\ retired' = Without(retired, {id})
    /\ lastSeen' = [lastSeen EXCEPT ![id] = None]
    /\ painter' = Disown({id}) /\ told' = "nothing"
    /\ UNCHANGED <<cache, size, screen, strayed>>

DeleteSurface(id) ==
    /\ Working /\ Has(id)
    /\ surfaces' = Without(surfaces, {id})
    /\ retired' = Put(retired, id, surfaces[id])
    /\ lastSeen' = [lastSeen EXCEPT ![id] = surfaces[id]]
    /\ painter' = Disown({id}) /\ told' = "nothing"
    /\ UNCHANGED <<cache, size, screen, strayed>>

(* Mutant of RetireAll: a reset frees the surfaces. *)
RetireNone == retired' = <<>>

RetireAll ==
    retired' = [id \in DOMAIN retired \cup DOMAIN surfaces |->
                   IF Has(id) THEN surfaces[id] ELSE retired[id]]

(* The cache belongs to the channel and outlives a reset. *)
KeepCache == UNCHANGED cache

ResetGraphics(sz) ==
    /\ Working
    /\ surfaces' = <<>> /\ RetireAll /\ KeepCache
    /\ lastSeen' = [id \in Ids |-> IF Has(id) THEN surfaces[id] ELSE lastSeen[id]]
    /\ size' = sz
    /\ screen' = [c \in CellsOf(sz) |-> Zero]
    /\ painter' = [c \in CellsOf(sz) |-> None]
    /\ told' = "resized"
    /\ UNCHANGED strayed

WholeOf(s) == <<0, 0, s.size[1], s.size[2]>>

(* map_surface, for a plain and for a scaled output: painted whole. *)
MapSurface(id, origin) ==
    /\ Working /\ Has(id)
    /\ LET s == [surfaces[id] EXCEPT !.origin = origin] IN
       /\ surfaces' = [surfaces EXCEPT ![id] = s]
       /\ Shows(Flush([Out EXCEPT !.painter = Disown({id})], id, s, WholeOf(s)))
    /\ UNCHANGED <<retired, cache, lastSeen>>

-----------------------------------------------------------------------------
(* Drawing. *)

Draws(id, s, o) ==
    /\ surfaces' = [surfaces EXCEPT ![id] = s]
    /\ Shows(o)
    /\ UNCHANGED <<retired, cache, lastSeen>>

(* apply_bitmap: the part of the bitmap that the rectangle covers. *)
BitmapUpdated(id, r, bitmap) ==
    /\ Working /\ Has(id)
    /\ LET w == Least(bitmap.size[1], WidthOf(r))
           h == Least(bitmap.size[2], HeightOf(r))
           part == [i \in 0 .. w * h - 1 |->
                       bitmap.px[(i \div w) * bitmap.size[1] + (i % w)]]
           s == WriteRect(surfaces[id], part, r[1], r[2], w, h)
       IN Draws(id, s, Flush(Out, id, s, At(r, w, h)))

(* apply_bgra: pixels as wide as the rectangle, clamped to the surface. *)
ApplyBgra(id, r, px) ==
    LET c == Clamp(surfaces[id].size, r)
        w == WidthOf(c)
        tight == [i \in 0 .. w * HeightOf(c) - 1 |-> px[(i \div w) * WidthOf(r) + (i % w)]]
        s == WriteRect(surfaces[id], tight, c[1], c[2], w, HeightOf(c))
    IN IF IsEmpty(c) THEN Draws(id, surfaces[id], Out)
       ELSE Draws(id, s, Flush(Out, id, s, c))

(* ClearCodec draws some pixels over what the rectangle holds; a rectangle *)
(* that leaves the surface has no such base.  A failure draws nothing.     *)
WireToSurface1(id, r, color, all) ==
    /\ Working /\ Has(id)
    /\ LET s == surfaces[id]
           base == IF Inside(s.size, r) THEN ReadRect(s, r) ELSE Blank(<<WidthOf(r), HeightOf(r)>>)
       IN ApplyBgra(id, r, [i \in DOMAIN base |-> IF all \/ i = 0 THEN color ELSE base[i]])

(* Mutant of PartsOf: rectangles are clipped to their tile only. *)
PartsOfTiles(sz, stream) ==
    {<<Most(u.rect[1], u.x * Tile), Most(u.rect[2], u.y * Tile),
       Least(u.rect[3], (u.x + 1) * Tile), Least(u.rect[4], (u.y + 1) * Tile)>> : u \in stream}

(* RemoteFX Progressive: rectangles of tiles, clipped to tile and surface, *)
(* then one flush of the region around them.                               *)
PartsOf(sz, stream) ==
    {<<Most(u.rect[1], u.x * Tile), Most(u.rect[2], u.y * Tile),
       Least(Least(u.rect[3], (u.x + 1) * Tile), sz[1]),
       Least(Least(u.rect[4], (u.y + 1) * Tile), sz[2])>> : u \in stream}

WireToSurface2(id, stream, color) ==
    /\ Working /\ Has(id)
    /\ LET sz == surfaces[id].size
           parts == {r \in PartsOf(sz, stream) : ~IsEmpty(r)}
           s == Fill(surfaces[id], color, parts)
       IN IF parts = {} THEN Draws(id, s, Out)
          ELSE Draws(id, s, Flush(Out, id, s, BoundsOf(parts)))

(* Mutant of FilledRegion: the flush covers the last rectangle only. *)
FilledRegionLast(rs) == rs[Len(rs)]
FilledRegion(rs) == BoundsOf(ToSet(rs))

(* Several rectangles, then one flush of the region around them. *)
SolidFill(id, color, rects) ==
    /\ Working /\ Has(id)
    /\ LET sz == surfaces[id].size
           clamped == [n \in DOMAIN rects |-> Clamp(sz, rects[n])]
           s == Fill(surfaces[id], color, ToSet(clamped))
       IN IF rects = <<>> THEN Draws(id, s, Out)
          ELSE Draws(id, s, Flush(Out, id, s, FilledRegion(clamped)))

(* The source is read once, written to every point, and then each point's  *)
(* region is flushed.                                                      *)
CopyTo(dst, src, r, points) ==
    LET after[n \in 0 .. Len(points)] ==
            IF n = 0 THEN dst
            ELSE WriteRect(after[n - 1], ReadRect(src, r), points[n][1], points[n][2],
                           WidthOf(r), HeightOf(r))
    IN after[Len(points)]
SurfaceToSurface(from, r, to, points) ==
    /\ Working /\ Has(from) /\ Has(to)
    /\ LET c == Clamp(surfaces[from].size, r)
           s == CopyTo(surfaces[to], surfaces[from], c, points)
       IN /\ ~IsEmpty(c)
          /\ Draws(to, s, FlushEach(Out, to, s, WidthOf(c), HeightOf(c), points))

SurfaceToCache(id, r, slot) ==
    /\ Working /\ Has(id)
    /\ LET c == Clamp(surfaces[id].size, r) IN
       /\ ~IsEmpty(c)
       /\ cache' = Put(cache, slot, [size |-> <<WidthOf(c), HeightOf(c)>>,
                                     px |-> ReadRect(surfaces[id], c)])
    /\ told' = "nothing"
    /\ UNCHANGED <<surfaces, retired, size, screen, strayed, painter, lastSeen>>

(* Written and flushed point by point. *)
Stamped(id, entry, points) ==
    LET after[n \in 0 .. Len(points)] ==
            IF n = 0 THEN [s |-> surfaces[id], o |-> Out]
            ELSE LET p == points[n]
                     s == WriteRect(after[n - 1].s, entry.px, p[1], p[2], entry.size[1], entry.size[2])
                 IN [s |-> s,
                     o |-> Flush(after[n - 1].o, id, s, At(p, entry.size[1], entry.size[2]))]
    IN after[Len(points)]
CacheToSurface(slot, id, points) ==
    /\ Working /\ Has(id) /\ slot \in DOMAIN cache
    /\ LET done == Stamped(id, cache[slot], points) IN Draws(id, done.s, done.o)

EvictCacheEntry(slot) ==
    /\ Working /\ slot \in DOMAIN cache
    /\ cache' = Without(cache, {slot})
    /\ told' = "nothing"
    /\ UNCHANGED <<surfaces, retired, size, screen, strayed, painter, lastSeen>>

Lists(S) == UNION {[1 .. n -> S] : n \in 0 .. MaxList}

Callback ==
    \/ \E id \in Ids : \/ \E sz \in SurfaceSizes : CreateSurface(id, sz)
                       \/ DeleteSurface(id)
                       \/ \E o \in Origins : MapSurface(id, o)
    \/ \E sz \in ScreenSizes : ResetGraphics(sz)
    \/ \E id \in Ids, r \in Rects, b \in Bitmaps : BitmapUpdated(id, r, b)
    \/ \E id \in Ids, r \in Rects, c \in Colors, all \in BOOLEAN : WireToSurface1(id, r, c, all)
    \/ \E id \in Ids, u \in Streams, c \in Colors : WireToSurface2(id, u, c)
    \/ \E id \in Ids, c \in Colors, rs \in Lists(Rects) : SolidFill(id, c, rs)
    \/ \E from, to \in Ids, r \in Rects, ps \in Lists(Points) : SurfaceToSurface(from, r, to, ps)
    \/ \E id \in Ids, r \in Rects, k \in Slots : SurfaceToCache(id, r, k)
    \/ \E k \in Slots, id \in Ids, ps \in Lists(Points) : CacheToSurface(k, id, ps)
    \/ \E k \in Slots : EvictCacheEntry(k)

Next == steps < MaxSteps /\ steps' = steps + 1 /\ Callback

Spec == Init /\ [][Next]_vars

-----------------------------------------------------------------------------
(* What can be relied on. *)

(* A pixel of the screen shows what the surface that painted it last holds *)
(* there now: no drawing operation changes a mapped surface and leaves the *)
(* old pixels on the screen.                                               *)
ScreenShowsSurfaces ==
    ~strayed =>
        \A c \in DOMAIN screen :
            Has(painter[c]) =>
                LET s == surfaces[painter[c]] IN
                screen[c] = s.px[(c[2] - s.origin[2]) * s.size[1] + c[1] - s.origin[1]]

(* All of a mapped surface that fits the screen has been painted since the *)
(* last reset: by this surface, or by one that painted over it.            *)
MappedIsPainted ==
    \A id \in DOMAIN surfaces :
        surfaces[id].origin # None =>
            \A c \in Covered(surfaces[id], WholeOf(surfaces[id])) : painter[c] # None

(* Copying within and between surfaces moves exactly the pixels named,     *)
(* also when source and destination overlap: the reference is by cells,    *)
(* the operations are by rows of linear memory.                            *)
PixelOf(s, c) == s.px[c[2] * s.size[1] + c[1]]
CopiesAreExact ==
    \A from, to \in DOMAIN surfaces, r \in Rects, p \in Points :
        LET src == surfaces[from]
            dst == surfaces[to]
            c == Clamp(src.size, r)
            copied == CopyTo(dst, src, c, <<p>>)
        IN \A x \in CellsOf(dst.size) :
               LET y == <<x[1] - p[1] + c[1], x[2] - p[2] + c[2]>> IN
               PixelOf(copied, x) =
                   IF c[1] <= y[1] /\ y[1] < c[3] /\ c[2] <= y[2] /\ y[2] < c[4]
                   THEN PixelOf(src, y) ELSE PixelOf(dst, x)

(* What the server draws into a mapped surface is what the user sees: on   *)
(* the way from a bitmap, a tile or a copy to the screen no pixel is lost, *)
(* moved or left over.                                                     *)
Inv == TypeOK /\ ScreenShowsSurfaces /\ MappedIsPainted /\ CopiesAreExact

(* The cache changes only by the two operations made for it, which change  *)
(* nothing else: what the server stored before a reset can be used after.  *)
CacheOutlivesReset == [][cache' # cache => UNCHANGED <<surfaces, retired, size, screen>>]_vars

(* A surface that is created again with its size holds what it held when   *)
(* it was taken away, by whichever way.                                    *)
RecreatedKeepsPixels ==
    [][\A id \in Ids :
           /\ ~Has(id) /\ id \in DOMAIN surfaces'
           /\ lastSeen[id] # None
           /\ lastSeen[id].size = surfaces'[id].size
           => surfaces'[id].px = lastSeen[id].px]_vars

(* What the server keeps with the client survives a RESETGRAPHICS. *)
ResetsKeepPictures == CacheOutlivesReset /\ RecreatedKeepsPixels

(* Mapping, fills and both codecs keep their flush inside the surface,     *)
(* whatever rectangles and tiles the server names: only a bitmap and the   *)
(* copies, whose destination is not clamped, can leave it.                 *)
Clamped ==
    \E id \in Ids : \/ \E o \in Origins : MapSurface(id, o)
                    \/ \E r \in Rects, c \in Colors, all \in BOOLEAN : WireToSurface1(id, r, c, all)
                    \/ \E u \in Streams, c \in Colors : WireToSurface2(id, u, c)
                    \/ \E c \in Colors, rs \in Lists(Rects) : SolidFill(id, c, rs)
ClampedNeverStrays == [][strayed' => ~Clamped]_vars

(* The UI hears of every change of the screen. *)
ChangesAreTold == [][screen' # screen => told' # "nothing"]_vars

(* A flush stays where it belongs and is seen. *)
FlushesAreSound == ClampedNeverStrays /\ ChangesAreTold
=============================================================================
