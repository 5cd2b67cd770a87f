------------------------ MODULE GfxCompositorProofs ------------------------
(***************************************************************************)
(* Proofs about GfxCompositor, for every set of surfaces, sizes, rectangles *)
(* and decoded pictures, and for commands of any length.                   *)
(***************************************************************************)
EXTENDS GfxCompositor, WellFoundedInduction, TLAPS

-----------------------------------------------------------------------------
(* The least and the greatest element of a set of numbers. *)

LEMMA LeastNat ==
  ASSUME NEW S, S \subseteq Nat, S # {}
  PROVE  \E x \in S : \A y \in S : x <= y
<1> DEFINE R == {ss \in Nat \X Nat : ss[1] < ss[2]}
<1>1. R = OpToRel(<, Nat)
  BY DEF OpToRel
<1>2. IsWellFoundedOn(R, Nat)
  <2> HIDE DEF R
  <2> QED BY <1>1, NatLessThanWellFounded, Zenon
<1>3. PICK x \in S : \A y \in S : ~ (<<y, x>> \in R)
  <2> HIDE DEF R
  <2> QED BY <1>2, WFMin
<1>4. ASSUME NEW y \in S PROVE x <= y
  <2>1. x \in Nat /\ y \in Nat
    OBVIOUS
  <2>2. <<y, x>> \in Nat \X Nat /\ <<y, x>>[1] = y /\ <<y, x>>[2] = x
    BY <2>1
  <2>3. ~(y < x)
    BY <1>3, <2>2
  <2> QED BY <2>1, <2>3
<1> QED BY <1>4

LEMMA MinProperty ==
  ASSUME NEW S, S \subseteq Nat, S # {}
  PROVE  Min(S) \in S /\ \A y \in S : Min(S) <= y
BY LeastNat DEF Min

LEMMA MaxProperty ==
  ASSUME NEW S, S \subseteq Nat, S # {}, NEW bound \in Nat, \A y \in S : y <= bound
  PROVE  Max(S) \in S /\ \A y \in S : Max(S) >= y
<1> DEFINE T == {bound - y : y \in S}
<1>1. T \subseteq Nat /\ T # {}
  <2>1. \A y \in S : bound - y \in Nat
    OBVIOUS
  <2>2. PICK y \in S : TRUE
    OBVIOUS
  <2>3. bound - y \in T
    OBVIOUS
  <2> QED BY <2>1, <2>3
<1>2. PICK t \in T : \A u \in T : t <= u
  <2> HIDE DEF T
  <2> QED BY <1>1, LeastNat
<1>3. PICK m \in S : t = bound - m
  OBVIOUS
<1>4. \A y \in S : m >= y
  <2> TAKE y \in S
  <2>1. bound - y \in T
    OBVIOUS
  <2>2. bound - m <= bound - y
    BY <1>2, <1>3, <2>1
  <2>3. y \in Nat /\ m \in Nat
    OBVIOUS
  <2> QED BY <2>2, <2>3
<1> QED BY <1>4 DEF Max

-----------------------------------------------------------------------------
(* Cells and their offsets in linear memory. *)

LEMMA MulMonotone ==
  ASSUME NEW a \in Nat, NEW b \in Nat, NEW w \in Nat, a <= b
  PROVE  a * w <= b * w
<1> DEFINE d == b - a
<1>1. d \in Nat /\ b = a + d
  OBVIOUS
<1>2. d * w \in Nat /\ a * w \in Nat
  BY <1>1
<1> HIDE DEF d
<1>3. (a + d) * w = a * w + d * w
  BY <1>1
<1> QED BY <1>1, <1>2, <1>3

LEMMA Place ==
  ASSUME NEW w \in Nat, NEW h \in Nat, NEW x \in 0 .. w - 1, NEW y \in 0 .. h - 1
  PROVE  /\ y * w + x \in 0 .. w * h - 1
         /\ (y * w + x) \div w = y
         /\ (y * w + x) % w = x
<1>1. (y + 1) * w <= h * w
  BY MulMonotone
<1>2. (y + 1) * w = y * w + w /\ y * w \in Nat /\ h * w = w * h
  OBVIOUS
<1>3. y * w + x \in 0 .. w * h - 1
  BY <1>1, <1>2
<1>4. (y * w + x) \div w = y /\ (y * w + x) % w = x
  OBVIOUS
<1> QED BY <1>3, <1>4

LEMMA Position ==
  ASSUME NEW w \in Nat, NEW h \in Nat, NEW o \in 0 .. w * h - 1
  PROVE  /\ w # 0
         /\ o % w \in 0 .. w - 1 /\ o \div w \in 0 .. h - 1
         /\ o = (o \div w) * w + (o % w)
<1>1. w # 0
  OBVIOUS
<1>2. o < w * h
  OBVIOUS
<1>3. o \div w \in Nat /\ o \div w < h
  BY <1>1, <1>2
<1>4. o % w \in 0 .. w - 1
  BY <1>1
<1>5. o = (o \div w) * w + (o % w)
  BY <1>1
<1> QED BY <1>1, <1>3, <1>4, <1>5

(* A cell is the pair of its coordinates. *)
LEMMA CellParts ==
  ASSUME NEW sz \in Nat \X Nat, NEW x \in CellsOf(sz)
  PROVE  /\ x = <<x[1], x[2]>>
         /\ x[1] \in 0 .. sz[1] - 1 /\ x[2] \in 0 .. sz[2] - 1
         /\ sz[1] \in Nat /\ sz[2] \in Nat
BY DEF CellsOf

LEMMA CellPlace ==
  ASSUME NEW sz \in Nat \X Nat, NEW x \in CellsOf(sz)
  PROVE  /\ x[2] * sz[1] + x[1] \in 0 .. sz[1] * sz[2] - 1
         /\ (x[2] * sz[1] + x[1]) \div sz[1] = x[2]
         /\ (x[2] * sz[1] + x[1]) % sz[1] = x[1]
<1>1. PICK w \in Nat, h \in Nat : w = sz[1] /\ h = sz[2]
  OBVIOUS
<1>2. PICK a \in 0 .. w - 1, b \in 0 .. h - 1 : a = x[1] /\ b = x[2]
  BY <1>1, CellParts
<1>3. /\ b * w + a \in 0 .. w * h - 1
      /\ (b * w + a) \div w = b
      /\ (b * w + a) % w = a
  BY Place
<1> QED BY <1>1, <1>2, <1>3

-----------------------------------------------------------------------------
(* Surfaces. *)

Size(s) == s.size \in Nat \X Nat
IsSurface(s) ==
    /\ s = Surface(s.size, s.origin, s.px)
    /\ s.size \in Nat \X Nat
    /\ s.px \in Memory(s.size)

(* What a write leaves alone. *)
SameShape(s, t) == t.size = s.size /\ t.origin = s.origin

(* The cells of a rectangle. *)
In(r, x) == r[1] <= x[1] /\ x[1] < r[3] /\ r[2] <= x[2] /\ x[2] < r[4]
IsRect(r) == r \in Nat \X Nat \X Nat \X Nat

LEMMA PixelIsColor ==
  ASSUME NEW s, IsSurface(s), NEW x \in CellsOf(s.size)
  PROVE  PixelOf(s, x) \in Colors
<1>1. x[2] * s.size[1] + x[1] \in 0 .. s.size[1] * s.size[2] - 1
  BY CellPlace DEF IsSurface
<1> QED BY <1>1 DEF IsSurface, PixelOf, Memory

LEMMA Repainted ==
  ASSUME NEW size1, NEW origin1, NEW px1, NEW px2
  PROVE  [Surface(size1, origin1, px1) EXCEPT !.px = px2] = Surface(size1, origin1, px2)
BY DEF Surface

LEMMA Moved ==
  ASSUME NEW size1, NEW origin1, NEW px1, NEW origin2
  PROVE  [Surface(size1, origin1, px1) EXCEPT !.origin = origin2] = Surface(size1, origin2, px1)
BY DEF Surface

(* What a write takes its pixels from. *)
Source(src, w, h) == src \in [0 .. w * h - 1 -> Colors]
Wrote(s, t, src, left, top, w, h) ==
    \A x \in CellsOf(s.size) :
        PixelOf(t, x) =
            IF left <= x[1] /\ x[1] < left + w /\ top <= x[2] /\ x[2] < top + h
            THEN src[(x[2] - top) * w + x[1] - left] ELSE PixelOf(s, x)

(* A write changes the cells of its rectangle that the surface has: each   *)
(* gets the pixel of the source that belongs there.                        *)
LEMMA WriteEffect ==
  ASSUME NEW s, IsSurface(s), NEW left \in Nat, NEW top \in Nat, NEW w \in Nat, NEW h \in Nat,
         NEW src, Source(src, w, h)
  PROVE  LET t == WriteRect(s, src, left, top, w, h) IN
         IsSurface(t) /\ SameShape(s, t) /\ Wrote(s, t, src, left, top, w, h)
<1> DEFINE W == s.size[1]
           H == s.size[2]
           Hit(o) == /\ left <= o % W /\ o % W < left + w
                     /\ top <= o \div W /\ o \div W < top + h
           New(o) == IF Hit(o) THEN src[(o \div W - top) * w + (o % W) - left] ELSE s.px[o]
           px == [o \in 0 .. W * H - 1 |-> New(o)]
           t == WriteRect(s, src, left, top, w, h)
<1>1. W \in Nat /\ H \in Nat /\ s.px \in [0 .. W * H - 1 -> Colors] /\ s = Surface(s.size, s.origin, s.px)
  BY DEF IsSurface, Memory
<1>2. t = Surface(s.size, s.origin, px)
  <2>1. DOMAIN s.px = 0 .. W * H - 1
    BY <1>1
  <2>2. t = [s EXCEPT !.px = px]
    BY <2>1 DEF WriteRect
  <2> HIDE DEF px, t
  <2>3. [Surface(s.size, s.origin, s.px) EXCEPT !.px = px] = Surface(s.size, s.origin, px)
    BY Repainted
  <2> QED BY <1>1, <2>2, <2>3
<1>3. ASSUME NEW o \in 0 .. W * H - 1
      PROVE  New(o) \in Colors
  <2>1. o % W \in Nat /\ o \div W \in Nat
    <3>1. PICK w1 \in Nat, h1 \in Nat : w1 = W /\ h1 = H
      BY <1>1
    <3>2. o \in 0 .. w1 * h1 - 1
      BY <3>1
    <3>3. o % w1 \in 0 .. w1 - 1 /\ o \div w1 \in 0 .. h1 - 1
      BY <3>2, Position
    <3> QED BY <3>1, <3>3
  <2>2. CASE Hit(o)
    <3>1. PICK x \in Nat, y \in Nat : x = o % W /\ y = o \div W
      BY <2>1
    <3>2. x - left \in 0 .. w - 1 /\ y - top \in 0 .. h - 1
      BY <2>2, <3>1
    <3>3. (y - top) * w + (x - left) \in 0 .. w * h - 1
      BY <3>2, Place
    <3>4. (y - top) * w + x - left = (y - top) * w + (x - left)
      BY <3>2
    <3> QED BY <2>2, <3>1, <3>3, <3>4 DEF Source
  <2>3. CASE ~Hit(o)
    BY <1>1, <2>3
  <2> QED BY <2>2, <2>3
<1>4. px \in [0 .. W * H - 1 -> Colors]
  BY <1>3
<1>5. IsSurface(t) /\ SameShape(s, t) /\ t.px = px
  <2> HIDE DEF px
  <2> QED BY <1>2, <1>4 DEF IsSurface, SameShape, Surface, Memory
<1>6. ASSUME NEW x \in CellsOf(s.size)
      PROVE  PixelOf(t, x) =
                 IF left <= x[1] /\ x[1] < left + w /\ top <= x[2] /\ x[2] < top + h
                 THEN src[(x[2] - top) * w + x[1] - left] ELSE PixelOf(s, x)
  <2>1. PICK o \in 0 .. W * H - 1 : o = x[2] * W + x[1]
    BY CellPlace DEF IsSurface
  <2>2. o % W = x[1] /\ o \div W = x[2]
    BY <2>1, CellPlace DEF IsSurface
  <2>3. PixelOf(t, x) = px[o] /\ PixelOf(s, x) = s.px[o]
    BY <1>5, <2>1 DEF PixelOf, SameShape
  <2> QED BY <2>2, <2>3
<1> QED BY <1>5, <1>6 DEF Wrote

(* Rectangles of one colour change their cells to it. *)
LEMMA FillEffect ==
  ASSUME NEW s, IsSurface(s), NEW color \in Colors, NEW rs
  PROVE  LET t == Fill(s, color, rs) IN
         /\ IsSurface(t) /\ SameShape(s, t)
         /\ \A x \in CellsOf(s.size) :
                PixelOf(t, x) = IF \E r \in rs : In(r, x) THEN color ELSE PixelOf(s, x)
<1> DEFINE W == s.size[1]
           H == s.size[2]
           Hit(x, y) == \E r \in rs : r[1] <= x /\ x < r[3] /\ r[2] <= y /\ y < r[4]
           px == [o \in 0 .. W * H - 1 |-> IF Hit(o % W, o \div W) THEN color ELSE s.px[o]]
           t == Fill(s, color, rs)
<1>1. W \in Nat /\ H \in Nat /\ s.px \in [0 .. W * H - 1 -> Colors] /\ s = Surface(s.size, s.origin, s.px)
  BY DEF IsSurface, Memory
<1>2. t = Surface(s.size, s.origin, px)
  <2>1. DOMAIN s.px = 0 .. W * H - 1
    BY <1>1
  <2>2. t = [s EXCEPT !.px = px]
    BY <2>1 DEF Fill
  <2> HIDE DEF px, t
  <2>3. [Surface(s.size, s.origin, s.px) EXCEPT !.px = px] = Surface(s.size, s.origin, px)
    BY Repainted
  <2> QED BY <1>1, <2>2, <2>3
<1>4. px \in [0 .. W * H - 1 -> Colors]
  BY <1>1
<1>5. IsSurface(t) /\ SameShape(s, t) /\ t.px = px
  <2> HIDE DEF px
  <2> QED BY <1>2, <1>4 DEF IsSurface, SameShape, Surface, Memory
<1>6. ASSUME NEW x \in CellsOf(s.size)
      PROVE  PixelOf(t, x) = IF \E r \in rs : In(r, x) THEN color ELSE PixelOf(s, x)
  <2>1. PICK o \in 0 .. W * H - 1 : o = x[2] * W + x[1]
    BY CellPlace DEF IsSurface
  <2>2. o % W = x[1] /\ o \div W = x[2]
    BY <2>1, CellPlace DEF IsSurface
  <2>3. PixelOf(t, x) = px[o] /\ PixelOf(s, x) = s.px[o]
    BY <1>5, <2>1 DEF PixelOf, SameShape
  <2>4. Hit(x[1], x[2]) <=> \E r \in rs : In(r, x)
    BY DEF In
  <2> HIDE DEF Hit
  <2>5. px[o] = IF Hit(x[1], x[2]) THEN color ELSE s.px[o]
    BY <2>2
  <2> QED BY <2>3, <2>4, <2>5
<1> QED BY <1>5, <1>6

(* A rectangle inside the surface is read row by row. *)
LEMMA ReadEffect ==
  ASSUME NEW s, IsSurface(s), NEW r, IsRect(r), r[1] <= r[3], r[2] <= r[4], Inside(s.size, r)
  PROVE  /\ WidthOf(r) \in Nat /\ HeightOf(r) \in Nat
         /\ Source(ReadRect(s, r), WidthOf(r), HeightOf(r))
         /\ \A a \in 0 .. WidthOf(r) - 1, b \in 0 .. HeightOf(r) - 1 :
                ReadRect(s, r)[b * WidthOf(r) + a] = PixelOf(s, <<r[1] + a, r[2] + b>>)
<1> DEFINE F(i) == s.px[(r[2] + i \div WidthOf(r)) * s.size[1] + r[1] + (i % WidthOf(r))]
<1>1. /\ r[1] \in Nat /\ r[2] \in Nat /\ r[3] \in Nat /\ r[4] \in Nat
      /\ s.size[1] \in Nat /\ s.size[2] \in Nat /\ s.size \in Nat \X Nat
  BY DEF IsRect, IsSurface
<1>2. PICK w \in Nat, h \in Nat : w = WidthOf(r) /\ h = HeightOf(r)
  BY <1>1 DEF WidthOf, HeightOf
<1>3. ASSUME NEW a \in 0 .. w - 1, NEW b \in 0 .. h - 1
      PROVE  /\ b * w + a \in 0 .. w * h - 1
             /\ F(b * w + a) = PixelOf(s, <<r[1] + a, r[2] + b>>)
             /\ F(b * w + a) \in Colors
  <2>1. /\ b * w + a \in 0 .. w * h - 1
        /\ (b * w + a) \div w = b /\ (b * w + a) % w = a
    BY Place
  <2>2. r[1] + a \in 0 .. s.size[1] - 1 /\ r[2] + b \in 0 .. s.size[2] - 1
    BY <1>1, <1>2 DEF Inside, WidthOf, HeightOf
  <2>3. <<r[1] + a, r[2] + b>> \in CellsOf(s.size)
    BY <2>2 DEF CellsOf
  <2>4. PixelOf(s, <<r[1] + a, r[2] + b>>) \in Colors
    BY <2>3, PixelIsColor
  <2>5. PICK m \in Nat : m = (r[2] + b) * s.size[1]
    BY <1>1
  <2>6. m + r[1] + a = m + (r[1] + a)
    BY <1>1
  <2>7. F(b * w + a) = PixelOf(s, <<r[1] + a, r[2] + b>>)
    BY <1>2, <2>1, <2>5, <2>6 DEF PixelOf
  <2> QED BY <2>1, <2>4, <2>7
<1>4. ASSUME NEW i \in 0 .. w * h - 1
      PROVE  F(i) \in Colors
  <2>1. PICK a \in 0 .. w - 1, b \in 0 .. h - 1 : i = b * w + a
    <3>1. i % w \in 0 .. w - 1 /\ i \div w \in 0 .. h - 1 /\ i = (i \div w) * w + (i % w)
      BY Position
    <3> QED BY <3>1, Zenon
  <2> HIDE DEF F
  <2> QED BY <1>3, <2>1
<1>5. ReadRect(s, r) = [i \in 0 .. w * h - 1 |-> F(i)]
  BY <1>2 DEF ReadRect
<1> HIDE DEF F
<1>6. Source(ReadRect(s, r), w, h)
  BY <1>4, <1>5 DEF Source
<1> QED BY <1>2, <1>3, <1>5, <1>6

LEMMA BlankIsMemory ==
  ASSUME NEW sz
  PROVE  Blank(sz) \in Memory(sz)
BY GfxAssumption DEF Blank, Memory

-----------------------------------------------------------------------------
(* Rectangles. *)

(* A clamped rectangle lies inside the surface. *)
LEMMA ClampEffect ==
  ASSUME NEW sz \in Nat \X Nat, NEW r, IsRect(r)
  PROVE  LET c == Clamp(sz, r) IN
         /\ IsRect(c) /\ c[1] <= c[3] /\ c[2] <= c[4] /\ Inside(sz, c)
         /\ WidthOf(c) \in Nat /\ HeightOf(c) \in Nat
<1>1. /\ r[1] \in Nat /\ r[2] \in Nat /\ r[3] \in Nat /\ r[4] \in Nat
      /\ sz[1] \in Nat /\ sz[2] \in Nat
  BY DEF IsRect
<1>2. PICK left, top, right, bottom :
          /\ left = Least(r[1], sz[1]) /\ top = Least(r[2], sz[2])
          /\ right = Most(Least(r[3], sz[1]), left) /\ bottom = Most(Least(r[4], sz[2]), top)
  OBVIOUS
<1>3. /\ left \in Nat /\ left <= sz[1]
      /\ right \in Nat /\ left <= right /\ right <= sz[1]
  <2>1. \A a, b, c \in Nat : LET l == Least(a, c)
                                m == Most(Least(b, c), l)
                            IN l \in Nat /\ l <= c /\ m \in Nat /\ l <= m /\ m <= c
    BY DEF Least, Most
  <2> QED BY <1>1, <1>2, <2>1
<1>4. /\ top \in Nat /\ top <= sz[2]
      /\ bottom \in Nat /\ top <= bottom /\ bottom <= sz[2]
  <2>1. \A a, b, c \in Nat : LET l == Least(a, c)
                                m == Most(Least(b, c), l)
                            IN l \in Nat /\ l <= c /\ m \in Nat /\ l <= m /\ m <= c
    BY DEF Least, Most
  <2> QED BY <1>1, <1>2, <2>1
<1>6. Clamp(sz, r) = <<left, top, right, bottom>>
  BY <1>2 DEF Clamp
<1> QED BY <1>1, <1>3, <1>4, <1>6 DEF IsRect, Inside, WidthOf, HeightOf

(* The region around some rectangles holds them all and is as wide and as  *)
(* high as they are.                                                       *)
LEMMA BoundsEffect ==
  ASSUME NEW sz \in Nat \X Nat, NEW rs, rs # {},
         \A r \in rs : IsRect(r) /\ r[1] <= r[3] /\ r[2] <= r[4] /\ Inside(sz, r)
  PROVE  LET b == BoundsOf(rs) IN
         /\ IsRect(b) /\ b[1] <= b[3] /\ b[2] <= b[4] /\ Inside(sz, b)
         /\ \A r \in rs, x \in Nat \X Nat : In(r, x) => In(b, x)
<1> DEFINE S(i) == {r[i] : r \in rs}
<1>1. \A r \in rs : /\ r[1] \in Nat /\ r[2] \in Nat /\ r[3] \in Nat /\ r[4] \in Nat
                    /\ r[1] <= r[3] /\ r[2] <= r[4] /\ r[3] <= sz[1] /\ r[4] <= sz[2]
  BY DEF IsRect, Inside
<1>2. /\ S(1) \subseteq Nat /\ S(2) \subseteq Nat /\ S(3) \subseteq Nat /\ S(4) \subseteq Nat
      /\ S(1) # {} /\ S(2) # {} /\ S(3) # {} /\ S(4) # {}
      /\ \A y \in S(3) : y <= sz[1]
      /\ \A y \in S(4) : y <= sz[2]
  BY <1>1
<1>3. sz[1] \in Nat /\ sz[2] \in Nat
  OBVIOUS
<1>4. PICK a, b, c, d : a = Min(S(1)) /\ b = Min(S(2)) /\ c = Max(S(3)) /\ d = Max(S(4))
  OBVIOUS
<1>5. BoundsOf(rs) = <<a, b, c, d>>
  BY <1>4 DEF BoundsOf
<1>6. /\ a \in S(1) /\ b \in S(2) /\ c \in S(3) /\ d \in S(4)
      /\ (\A y \in S(1) : a <= y) /\ (\A y \in S(2) : b <= y)
      /\ (\A y \in S(3) : c >= y) /\ (\A y \in S(4) : d >= y)
  <2> HIDE DEF S
  <2> QED BY <1>2, <1>3, <1>4, MinProperty, MaxProperty
<1>7. \A r \in rs : a <= r[1] /\ b <= r[2] /\ r[3] <= c /\ r[4] <= d
  BY <1>1, <1>6
<1>8. a \in Nat /\ b \in Nat /\ c \in Nat /\ d \in Nat /\ c <= sz[1] /\ d <= sz[2]
  BY <1>2, <1>6
<1>9. a <= c /\ b <= d
  <2>1. PICK r \in rs : TRUE
    OBVIOUS
  <2> QED BY <1>1, <1>7, <1>8, <2>1
<1>10. IsRect(<<a, b, c, d>>) /\ Inside(sz, <<a, b, c, d>>)
  BY <1>8 DEF IsRect, Inside
<1>11. ASSUME NEW r \in rs, NEW x \in Nat \X Nat, In(r, x)
       PROVE  In(<<a, b, c, d>>, x)
  BY <1>1, <1>7, <1>8, <1>11 DEF In
<1> HIDE DEF S
<1> QED BY <1>5, <1>9, <1>10, <1>11

-----------------------------------------------------------------------------
(* Flushing. *)

(* Where a pixel of the screen lies on a mapped surface. *)
On(s, c) == <<c[1] - s.origin[1], c[2] - s.origin[2]>>

Mappable(s) == IsSurface(s) /\ s.origin \in Origins \cup {None}

(* The output of a callback that draws on surface id, of which s is the    *)
(* new picture, as long as the cells in "stale" are still to be flushed.   *)
Owned(o, id, s, c) ==
    /\ o.painter[c] = None => painter[c] = None
    /\ Has(o.painter[c]) /\ o.painter[c] # id =>
           o.painter[c] = painter[c] /\ o.screen[c] = screen[c]
    /\ o.painter[c] = id => s.origin # None /\ On(s, c) \in CellsOf(s.size)
Fresh(o, id, s, c, stale) ==
    ~o.strayed /\ o.painter[c] = id /\ On(s, c) \notin stale => o.screen[c] = PixelOf(s, On(s, c))
Typed(o) ==
    /\ o = [screen |-> o.screen, painter |-> o.painter, told |-> o.told, strayed |-> o.strayed]
    /\ o.screen \in [CellsOf(size) -> Colors]
    /\ o.painter \in [CellsOf(size) -> DOMAIN surfaces \cup {None, Gone}]
    /\ o.told \in {"nothing", "updated"} /\ o.strayed \in BOOLEAN
    /\ o.told = "nothing" => o.screen = screen
Good(o, id, s, stale) ==
    /\ Typed(o)
    /\ \A c \in CellsOf(size) : Owned(o, id, s, c) /\ Fresh(o, id, s, c, stale)

LEMMA OriginParts ==
  ASSUME NEW s, Mappable(s), s.origin # None
  PROVE  s.origin \in Nat \X Nat /\ s.origin[1] \in Nat /\ s.origin[2] \in Nat
BY GfxAssumption DEF Mappable

LEMMA CoveredIsOnSurface ==
  ASSUME NEW s, Mappable(s), s.origin # None, size \in Nat \X Nat,
         NEW r, IsRect(r), Inside(s.size, r), NEW c \in CellsOf(size)
  PROVE  /\ c \in Covered(s, r) => On(s, c) \in CellsOf(s.size) /\ In(r, On(s, c))
         /\ On(s, c) \in CellsOf(s.size) /\ In(r, On(s, c)) => c \in Covered(s, r)
<1>1. /\ r[1] \in Nat /\ r[2] \in Nat /\ r[3] \in Nat /\ r[4] \in Nat
      /\ r[3] <= s.size[1] /\ r[4] <= s.size[2]
      /\ s.size[1] \in Nat /\ s.size[2] \in Nat
  BY DEF IsRect, Inside, Mappable, IsSurface
<1>2. /\ c[1] \in Nat /\ c[2] \in Nat /\ s.origin[1] \in Nat /\ s.origin[2] \in Nat
  BY OriginParts, CellParts
<1>3. PICK a \in Int, b \in Int : a = c[1] - s.origin[1] /\ b = c[2] - s.origin[2]
  BY <1>2
<1>4. On(s, c) = <<a, b>>
  BY <1>3 DEF On
<1>5. c \in Covered(s, r) <=> a \in r[1] .. r[3] - 1 /\ b \in r[2] .. r[4] - 1
  BY <1>3 DEF Covered
<1>6. In(r, <<a, b>>) <=> r[1] <= a /\ a < r[3] /\ r[2] <= b /\ b < r[4]
  BY DEF In
<1>7. <<a, b>> \in CellsOf(s.size) <=> a \in 0 .. s.size[1] - 1 /\ b \in 0 .. s.size[2] - 1
  BY DEF CellsOf
<1> QED BY <1>1, <1>4, <1>5, <1>6, <1>7

Output(scr, own, news, astray) ==
    [screen |-> scr, painter |-> own, told |-> news, strayed |-> astray]

LEMMA OutputPainted ==
  ASSUME NEW scr, NEW own, NEW news, NEW astray, NEW scr2
  PROVE  [Output(scr, own, news, astray) EXCEPT !.screen = scr2] = Output(scr2, own, news, astray)
BY DEF Output

LEMMA OutputTold ==
  ASSUME NEW scr, NEW own, NEW news, NEW astray, NEW news2
  PROVE  [Output(scr, own, news, astray) EXCEPT !.told = news2] = Output(scr, own, news2, astray)
BY DEF Output

LEMMA OutputStrayed ==
  ASSUME NEW scr, NEW own, NEW news, NEW astray, NEW astray2
  PROVE  [Output(scr, own, news, astray) EXCEPT !.strayed = astray2] = Output(scr, own, news, astray2)
BY DEF Output

LEMMA OutputDisowned ==
  ASSUME NEW scr, NEW own, NEW news, NEW astray, NEW own2
  PROVE  [Output(scr, own, news, astray) EXCEPT !.painter = own2] = Output(scr, own2, news, astray)
BY DEF Output

(* A flush inside the surface shows the pixels of the rectangle where the  *)
(* surface is mapped, and leaves the other pixels of the screen alone.     *)
LEMMA PaintEffect ==
  ASSUME NEW o, Typed(o), NEW id \in DOMAIN surfaces, size \in Nat \X Nat,
         NEW s, Mappable(s), s.origin # None,
         NEW r, IsRect(r), r[1] <= r[3], r[2] <= r[4], Inside(s.size, r)
  PROVE  LET p == [Painted(o, id, s, r) EXCEPT !.told = "updated"] IN
         /\ Typed(p) /\ p.strayed = o.strayed /\ p.told = "updated"
         /\ \A c \in CellsOf(size) :
                IF c \in Covered(s, r)
                THEN p.painter[c] = id /\ p.screen[c] = PixelOf(s, On(s, c))
                ELSE p.painter[c] = o.painter[c] /\ p.screen[c] = o.screen[c]
<1> DEFINE px == ReadRect(s, r)
           hit == Covered(s, r)
           At0(c) == px[(c[2] - s.origin[2] - r[2]) * WidthOf(r) + c[1] - s.origin[1] - r[1]]
           scr == [c \in CellsOf(size) |-> IF c \in hit THEN At0(c) ELSE o.screen[c]]
           own == [c \in CellsOf(size) |-> IF c \in hit THEN id ELSE o.painter[c]]
           p == [Painted(o, id, s, r) EXCEPT !.told = "updated"]
<1>1. p = [screen |-> scr, painter |-> own, told |-> "updated", strayed |-> o.strayed]
  <2>1. DOMAIN o.screen = CellsOf(size) /\ DOMAIN o.painter = CellsOf(size)
    BY DEF Typed
  <2>2. Painted(o, id, s, r) = [o EXCEPT !.screen = scr, !.painter = own]
    BY <2>1 DEF Painted
  <2> HIDE DEF scr, own
  <2>3. o = Output(o.screen, o.painter, o.told, o.strayed)
    BY DEF Typed, Output
  <2>4. [Output(o.screen, o.painter, o.told, o.strayed) EXCEPT !.screen = scr]
            = Output(scr, o.painter, o.told, o.strayed)
    BY OutputPainted
  <2>5. [Output(scr, o.painter, o.told, o.strayed) EXCEPT !.painter = own]
            = Output(scr, own, o.told, o.strayed)
    BY OutputDisowned
  <2>6. [Output(scr, own, o.told, o.strayed) EXCEPT !.told = "updated"]
            = Output(scr, own, "updated", o.strayed)
    BY OutputTold
  <2>7. Painted(o, id, s, r) = [[o EXCEPT !.screen = scr] EXCEPT !.painter = own]
    BY <2>2
  <2> QED BY <2>3, <2>4, <2>5, <2>6, <2>7 DEF Output
<1>2. ASSUME NEW c \in CellsOf(size), c \in hit
      PROVE  At0(c) = PixelOf(s, On(s, c)) /\ PixelOf(s, On(s, c)) \in Colors
  <2>1. On(s, c) \in CellsOf(s.size)
    BY <1>2, CoveredIsOnSurface
  <2>2. PixelOf(s, On(s, c)) \in Colors
    BY <2>1, PixelIsColor DEF Mappable
  <2>3. /\ r[1] \in Nat /\ r[2] \in Nat /\ r[3] \in Nat /\ r[4] \in Nat
        /\ c[1] \in Nat /\ c[2] \in Nat /\ s.origin[1] \in Nat /\ s.origin[2] \in Nat
    BY OriginParts, CellParts DEF IsRect
  <2>4. PICK a \in Int, b \in Int : /\ a = c[1] - s.origin[1] - r[1]
                                    /\ b = c[2] - s.origin[2] - r[2]
    BY <2>3
  <2>5. a \in 0 .. WidthOf(r) - 1 /\ b \in 0 .. HeightOf(r) - 1
    BY <1>2, <2>3, <2>4 DEF Covered, WidthOf, HeightOf
  <2>6. px[b * WidthOf(r) + a] = PixelOf(s, <<r[1] + a, r[2] + b>>)
    BY <2>5, ReadEffect DEF Mappable
  <2>7. <<r[1] + a, r[2] + b>> = On(s, c)
    BY <2>3, <2>4 DEF On
  <2>8. PICK m \in Int : m = b * WidthOf(r)
    BY <2>3 DEF WidthOf
  <2>9. m + c[1] - s.origin[1] - r[1] = m + a
    BY <2>3, <2>4
  <2>10. At0(c) = px[m + a]
    BY <2>4, <2>8, <2>9
  <2> HIDE DEF px
  <2> QED BY <2>2, <2>6, <2>7, <2>8, <2>10
<1>3. /\ scr \in [CellsOf(size) -> Colors]
      /\ own \in [CellsOf(size) -> DOMAIN surfaces \cup {None, Gone}]
  <2>1. /\ o.screen \in [CellsOf(size) -> Colors]
        /\ o.painter \in [CellsOf(size) -> DOMAIN surfaces \cup {None, Gone}]
    BY DEF Typed
  <2> HIDE DEF hit, At0
  <2> QED BY <1>2, <2>1
<1>4. Typed(p) /\ p.strayed = o.strayed /\ p.told = "updated" /\ p.screen = scr /\ p.painter = own
  <2> HIDE DEF scr, own, p
  <2>1. o.strayed \in BOOLEAN
    BY DEF Typed
  <2> QED BY <1>1, <1>3, <2>1 DEF Typed
<1> HIDE DEF At0, hit, p
<1> QED BY <1>2, <1>4 DEF hit, p

(* A flush makes its rectangle fresh, unless it strays. *)
LEMMA FlushEffect ==
  ASSUME NEW o, NEW id \in DOMAIN surfaces, id # None, size \in Nat \X Nat,
         NEW s, Mappable(s), NEW stale, stale \subseteq CellsOf(s.size),
         NEW r, IsRect(r), Good(o, id, s, stale),
         NEW left, \A x \in stale : x \in left \/ In(r, x)
  PROVE  LET p == Flush(o, id, s, r) IN
         /\ Good(p, id, s, left)
         /\ Inside(s.size, r) => p.strayed = o.strayed
         /\ Visible(s, r) /\ Inside(s.size, r) => \A c \in Covered(s, r) : p.painter[c] = id
<1> DEFINE p == Flush(o, id, s, r)
<1>1. Typed(o) /\ \A c \in CellsOf(size) : Owned(o, id, s, c) /\ Fresh(o, id, s, c, stale)
  BY DEF Good
<1>2. CASE ~Visible(s, r)
  <2>1. p = o
    BY <1>2 DEF Flush
  <2>2. ASSUME NEW c \in CellsOf(size)
        PROVE  Fresh(o, id, s, c, left)
    <3>1. CASE s.origin = None
      BY <1>1, <3>1 DEF Fresh, Owned
    <3>2. CASE IsEmpty(r)
      <4>1. ASSUME NEW x \in stale, In(r, x) PROVE FALSE
        <5>1. x[1] \in Nat /\ x[2] \in Nat /\ r[1] \in Nat /\ r[2] \in Nat /\ r[3] \in Nat /\ r[4] \in Nat
          BY CellParts DEF IsRect, Mappable, IsSurface
        <5> QED BY <3>2, <4>1, <5>1 DEF IsEmpty, In
      <4>2. \A x \in stale : x \in left
        BY <4>1
      <4> QED BY <1>1, <4>2 DEF Fresh
    <3> QED BY <1>2, <3>1, <3>2 DEF Visible
  <2> QED BY <1>1, <1>2, <2>1, <2>2 DEF Good
<1>3. CASE Visible(s, r) /\ ~Inside(s.size, r)
  <2>1. p = [o EXCEPT !.strayed = TRUE]
    BY <1>3 DEF Flush
  <2>2. o = Output(o.screen, o.painter, o.told, o.strayed)
    BY <1>1 DEF Typed, Output
  <2>3. PICK yes : yes = TRUE
    OBVIOUS
  <2>4. p = Output(o.screen, o.painter, o.told, yes)
    <3>1. [Output(o.screen, o.painter, o.told, o.strayed) EXCEPT !.strayed = yes]
             = Output(o.screen, o.painter, o.told, yes)
      BY OutputStrayed
    <3> QED BY <2>1, <2>2, <2>3, <3>1
  <2> HIDE DEF p
  <2>5. p.screen = o.screen /\ p.painter = o.painter /\ p.told = o.told /\ p.strayed = TRUE
    BY <2>3, <2>4 DEF Output
  <2>6. Typed(p)
    BY <1>1, <2>3, <2>4, <2>5 DEF Typed, Output
  <2>7. ASSUME NEW c \in CellsOf(size)
        PROVE  Owned(p, id, s, c) /\ Fresh(p, id, s, c, left)
    BY <1>1, <2>5 DEF Owned, Fresh
  <2> QED BY <1>3, <2>6, <2>7 DEF Good, p
<1>4. CASE Visible(s, r) /\ Inside(s.size, r)
  <2>1. s.origin # None /\ r[1] <= r[3] /\ r[2] <= r[4]
    BY <1>4 DEF Visible, IsEmpty, IsRect
  <2>2. p = [Painted(o, id, s, r) EXCEPT !.told = "updated"]
    BY <1>4 DEF Flush
  <2>3. /\ Typed(p) /\ p.strayed = o.strayed /\ p.told = "updated"
        /\ \A c \in CellsOf(size) :
               IF c \in Covered(s, r)
               THEN p.painter[c] = id /\ p.screen[c] = PixelOf(s, On(s, c))
               ELSE p.painter[c] = o.painter[c] /\ p.screen[c] = o.screen[c]
    BY <1>1, <1>4, <2>1, <2>2, PaintEffect
  <2> HIDE DEF p
  <2>4. ASSUME NEW c \in CellsOf(size)
        PROVE  Owned(p, id, s, c) /\ Fresh(p, id, s, c, left)
    <3>1. CASE c \in Covered(s, r)
      <4>1. On(s, c) \in CellsOf(s.size)
        BY <1>4, <2>1, <3>1, CoveredIsOnSurface
      <4> QED BY <2>1, <2>3, <3>1, <4>1 DEF Owned, Fresh
    <3>2. CASE c \notin Covered(s, r)
      <4>1. p.painter[c] = o.painter[c] /\ p.screen[c] = o.screen[c]
        BY <2>3, <3>2
      <4>2. Owned(p, id, s, c)
        BY <1>1, <4>1 DEF Owned
      <4>3. On(s, c) \in CellsOf(s.size) => ~In(r, On(s, c))
        BY <1>4, <2>1, <3>2, CoveredIsOnSurface
      <4>4. Fresh(o, id, s, c, stale) /\ Owned(o, id, s, c)
        BY <1>1
      <4> QED BY <2>3, <4>1, <4>2, <4>3, <4>4 DEF Fresh, Owned
    <3> QED BY <3>1, <3>2
  <2>5. \A c \in Covered(s, r) : p.painter[c] = id
    <3>1. Covered(s, r) \subseteq CellsOf(size)
      BY DEF Covered
    <3> QED BY <2>3, <3>1
  <2> QED BY <2>3, <2>4, <2>5 DEF Good, p
<1> QED BY <1>2, <1>3, <1>4

(* Writing on makes the written cells stale. *)
LEMMA WriteMakesStale ==
  ASSUME NEW o, NEW id \in DOMAIN surfaces, id # None, NEW s, Mappable(s), NEW t, SameShape(s, t),
         NEW stale, NEW more, Good(o, id, s, stale),
         \A x \in CellsOf(s.size) : x \notin more => PixelOf(t, x) = PixelOf(s, x)
  PROVE  Good(o, id, t, stale \cup more)
<1>1. \A c : On(t, c) = On(s, c)
  BY DEF On, SameShape
<1>2. ASSUME NEW c \in CellsOf(size)
      PROVE  Owned(o, id, t, c) /\ Fresh(o, id, t, c, stale \cup more)
  <2>1. Owned(o, id, s, c) /\ Fresh(o, id, s, c, stale)
    BY DEF Good
  <2>2. Owned(o, id, t, c)
    BY <1>1, <2>1 DEF Owned, SameShape
  <2>3. Fresh(o, id, t, c, stale \cup more)
    BY <1>1, <2>1 DEF Fresh, Owned
  <2> QED BY <2>2, <2>3
<1> QED BY <1>2 DEF Good

-----------------------------------------------------------------------------
(* Loops over the points of a command.  Each is a recursive function; that *)
(* there is one, and that what every round keeps holds at the end, is shown *)
(* by the least number of rounds for which it would not be so.             *)

LEMMA InAt ==
  ASSUME NEW p, NEW w, NEW h, NEW x
  PROVE  In(At(p, w, h), x) <=> p[1] <= x[1] /\ x[1] < p[1] + w /\ p[2] <= x[2] /\ x[2] < p[2] + h
BY DEF At, In

LEMMA AtPoint ==
  ASSUME NEW p \in Nat \X Nat, NEW w \in Nat, NEW h \in Nat
  PROVE  LET r == At(p, w, h) IN
         IsRect(r) /\ r[1] <= r[3] /\ r[2] <= r[4]
BY DEF At, IsRect

(* No point's region has the cell. *)
Missed(points, n, w, h, x) == \A i \in 1 .. n : ~In(At(points[i], w, h), x)

LEMMA FlushEachUnfolds ==
  ASSUME NEW o, NEW id, NEW s, NEW w, NEW h, NEW points, Len(points) \in Nat
  PROVE  \E f : /\ f[0] = o
                /\ \A n \in 1 .. Len(points) : f[n] = Flush(f[n - 1], id, s, At(points[n], w, h))
                /\ FlushEach(o, id, s, w, h, points) = f[Len(points)]
<1> DEFINE Is(f, N) == f = [n \in 0 .. N |-> IF n = 0 THEN o ELSE Flush(f[n - 1], id, s, At(points[n], w, h))]
           Bad == {N \in Nat : ~\E f : Is(f, N)}
<1>1. \E f : Is(f, 0)
  <2>1. Is([n \in 0 .. 0 |-> o], 0)
    OBVIOUS
  <2> QED BY <2>1
<1>2. ASSUME NEW N \in Nat, NEW f, Is(f, N)
      PROVE  \E g : Is(g, N + 1)
  <2> DEFINE g == [n \in 0 .. N + 1 |-> IF n = N + 1 THEN Flush(f[N], id, s, At(points[N + 1], w, h)) ELSE f[n]]
  <2>1. ASSUME NEW n \in 0 .. N + 1
        PROVE  g[n] = IF n = 0 THEN o ELSE Flush(g[n - 1], id, s, At(points[n], w, h))
    <3>1. CASE n = 0
      BY <1>2, <3>1
    <3>2. CASE n = N + 1
      <4>1. g[n - 1] = f[N]
        BY <3>2
      <4> QED BY <3>2, <4>1
    <3>3. CASE n # 0 /\ n # N + 1
      <4>1. n \in 0 .. N /\ n - 1 \in 0 .. N + 1 /\ n - 1 # N + 1
        BY <3>3
      <4>2. g[n] = f[n] /\ g[n - 1] = f[n - 1]
        BY <3>3, <4>1
      <4>3. f[n] = Flush(f[n - 1], id, s, At(points[n], w, h))
        BY <1>2, <3>3, <4>1
      <4> QED BY <3>3, <4>2, <4>3
    <3> QED BY <3>1, <3>2, <3>3
  <2>2. Is(g, N + 1)
    BY <2>1
  <2> QED BY <2>2
<1>3. Bad = {}
  <2>1. SUFFICES ASSUME Bad # {} PROVE FALSE
    OBVIOUS
  <2>2. PICK N \in Bad : \A M \in Bad : N <= M
    <3> HIDE DEF Is
    <3> QED BY <2>1, LeastNat
  <2> HIDE DEF Is
  <2>3. N # 0
    BY <1>1
  <2>4. N - 1 \in Nat /\ N - 1 \notin Bad
    BY <2>2, <2>3
  <2> QED BY <1>2, <2>4
<1>4. \E f : Is(f, Len(points))
  <2> HIDE DEF Is
  <2> QED BY <1>3
<1>5. PICK f : f = CHOOSE g : Is(g, Len(points))
  OBVIOUS
<1>6. Is(f, Len(points))
  <2> HIDE DEF Is
  <2> QED BY <1>4, <1>5
<1>7. FlushEach(o, id, s, w, h, points) = f[Len(points)]
  BY <1>5 DEF FlushEach
<1>8. f[0] = o
  BY <1>6
<1>9. ASSUME NEW n \in 1 .. Len(points)
      PROVE  f[n] = Flush(f[n - 1], id, s, At(points[n], w, h))
  <2>1. n \in 0 .. Len(points) /\ n # 0
    OBVIOUS
  <2>2. f[n] = IF n = 0 THEN o ELSE Flush(f[n - 1], id, s, At(points[n], w, h))
    BY <1>6, <2>1
  <2> QED BY <2>1, <2>2
<1> QED BY <1>7, <1>8, <1>9

LEMMA FlushEachEffect ==
  ASSUME NEW o, NEW id \in DOMAIN surfaces, id # None, size \in Nat \X Nat,
         NEW s, Mappable(s), NEW stale, stale \subseteq CellsOf(s.size), Good(o, id, s, stale),
         NEW w \in Nat, NEW h \in Nat, NEW points \in Seq(Nat \X Nat)
  PROVE  Good(FlushEach(o, id, s, w, h, points), id, s,
              {x \in stale : Missed(points, Len(points), w, h, x)})
<1>0. Len(points) \in Nat
  OBVIOUS
<1>1. PICK f : /\ f[0] = o
               /\ \A n \in 1 .. Len(points) : f[n] = Flush(f[n - 1], id, s, At(points[n], w, h))
               /\ FlushEach(o, id, s, w, h, points) = f[Len(points)]
  BY <1>0, FlushEachUnfolds
<1> DEFINE Left(n) == {x \in stale : Missed(points, n, w, h, x)}
           Bad == {n \in 0 .. Len(points) : ~Good(f[n], id, s, Left(n))}
<1>2. Good(f[0], id, s, Left(0))
  <2>1. f[0] = o
    BY <1>0, <1>1
  <2>2. Left(0) = stale
    BY DEF Missed
  <2> QED BY <2>1, <2>2
<1>3. ASSUME NEW n \in 1 .. Len(points), Good(f[n - 1], id, s, Left(n - 1))
      PROVE  Good(f[n], id, s, Left(n))
  <2>1. f[n] = Flush(f[n - 1], id, s, At(points[n], w, h))
    BY <1>0, <1>1
  <2>2. points[n] \in Nat \X Nat
    OBVIOUS
  <2>3. IsRect(At(points[n], w, h))
    BY <2>2, AtPoint
  <2>4. Left(n) = {x \in Left(n - 1) : ~In(At(points[n], w, h), x)}
    <3>1. ASSUME NEW x
          PROVE  Missed(points, n, w, h, x) <=> Missed(points, n - 1, w, h, x) /\ ~In(At(points[n], w, h), x)
      <4>1. 1 .. n = 1 .. n - 1 \cup {n}
        OBVIOUS
      <4> QED BY <4>1 DEF Missed
    <3> QED BY <3>1
  <2>5. Left(n - 1) \subseteq CellsOf(s.size)
    OBVIOUS
  <2> HIDE DEF Left
  <2>6. Good(Flush(f[n - 1], id, s, At(points[n], w, h)), id, s, Left(n))
    <3>1. PICK q, r, old : q = f[n - 1] /\ r = At(points[n], w, h) /\ old = Left(n - 1)
      OBVIOUS
    <3>2. Good(q, id, s, old) /\ IsRect(r) /\ old \subseteq CellsOf(s.size)
      BY <1>3, <2>3, <2>5, <3>1
    <3>3. \A x \in old : x \in Left(n) \/ In(r, x)
      BY <2>4, <3>1
    <3>4. Good(Flush(q, id, s, r), id, s, Left(n))
      BY <3>2, <3>3, FlushEffect
    <3> QED BY <3>1, <3>4
  <2> QED BY <2>1, <2>6
<1>4. Bad = {}
  <2>1. SUFFICES ASSUME Bad # {} PROVE FALSE
    OBVIOUS
  <2> HIDE DEF Left
  <2>2. PICK n \in Bad : \A m \in Bad : n <= m
    <3>1. Bad \subseteq Nat
      OBVIOUS
    <3> QED BY <2>1, <3>1, LeastNat
  <2>3. n # 0
    BY <1>2
  <2>4. n \in 1 .. Len(points) /\ n - 1 \in 0 .. Len(points) /\ n - 1 \notin Bad
    BY <2>2, <2>3
  <2> QED BY <1>3, <2>4
<1>5. Len(points) \in 0 .. Len(points)
  OBVIOUS
<1> HIDE DEF Left
<1>6. Good(f[Len(points)], id, s, Left(Len(points)))
  BY <1>4, <1>5
<1> QED BY <1>1, <1>6 DEF Left

(* Copies of one region to every point. *)
Copied(t, src, r, p) == WriteRect(t, ReadRect(src, r), p[1], p[2], WidthOf(r), HeightOf(r))

LEMMA CopyToUnfolds ==
  ASSUME NEW dst, NEW src, NEW r, NEW points, Len(points) \in Nat
  PROVE  \E f : /\ f[0] = dst
                /\ \A n \in 1 .. Len(points) : f[n] = Copied(f[n - 1], src, r, points[n])
                /\ CopyTo(dst, src, r, points) = f[Len(points)]
<1> DEFINE Is(f, N) == f = [n \in 0 .. N |-> IF n = 0 THEN dst ELSE Copied(f[n - 1], src, r, points[n])]
           Bad == {N \in Nat : ~\E f : Is(f, N)}
<1>1. \E f : Is(f, 0)
  <2>1. Is([n \in 0 .. 0 |-> dst], 0)
    OBVIOUS
  <2> QED BY <2>1
<1>2. ASSUME NEW N \in Nat, NEW f, Is(f, N)
      PROVE  \E g : Is(g, N + 1)
  <2> DEFINE g == [n \in 0 .. N + 1 |-> IF n = N + 1 THEN Copied(f[N], src, r, points[N + 1]) ELSE f[n]]
  <2>1. ASSUME NEW n \in 0 .. N + 1
        PROVE  g[n] = IF n = 0 THEN dst ELSE Copied(g[n - 1], src, r, points[n])
    <3>1. CASE n = 0
      BY <1>2, <3>1
    <3>2. CASE n = N + 1
      <4>1. g[n - 1] = f[N]
        BY <3>2
      <4> QED BY <3>2, <4>1
    <3>3. CASE n # 0 /\ n # N + 1
      <4>1. n \in 0 .. N /\ n - 1 \in 0 .. N + 1 /\ n - 1 # N + 1
        BY <3>3
      <4>2. g[n] = f[n] /\ g[n - 1] = f[n - 1]
        BY <3>3, <4>1
      <4>3. f[n] = Copied(f[n - 1], src, r, points[n])
        BY <1>2, <3>3, <4>1
      <4> QED BY <3>3, <4>2, <4>3
    <3> QED BY <3>1, <3>2, <3>3
  <2>2. Is(g, N + 1)
    BY <2>1
  <2> QED BY <2>2
<1>3. Bad = {}
  <2>1. SUFFICES ASSUME Bad # {} PROVE FALSE
    OBVIOUS
  <2>2. PICK N \in Bad : \A M \in Bad : N <= M
    <3> HIDE DEF Is
    <3> QED BY <2>1, LeastNat
  <2> HIDE DEF Is
  <2>3. N # 0
    BY <1>1
  <2>4. N - 1 \in Nat /\ N - 1 \notin Bad
    BY <2>2, <2>3
  <2> QED BY <1>2, <2>4
<1>4. \E f : Is(f, Len(points))
  <2> HIDE DEF Is
  <2> QED BY <1>3
<1>5. PICK f : f = CHOOSE g : Is(g, Len(points))
  OBVIOUS
<1>6. Is(f, Len(points))
  <2> HIDE DEF Is
  <2> QED BY <1>4, <1>5
<1>7. CopyTo(dst, src, r, points) = f[Len(points)]
  BY <1>5 DEF CopyTo, Copied
<1>8. f[0] = dst
  BY <1>6
<1>9. ASSUME NEW n \in 1 .. Len(points)
      PROVE  f[n] = Copied(f[n - 1], src, r, points[n])
  <2>1. n \in 0 .. Len(points) /\ n # 0
    OBVIOUS
  <2>2. f[n] = IF n = 0 THEN dst ELSE Copied(f[n - 1], src, r, points[n])
    BY <1>6, <2>1
  <2> QED BY <2>1, <2>2
<1> QED BY <1>7, <1>8, <1>9

LEMMA CopyToEffect ==
  ASSUME NEW dst, IsSurface(dst), NEW src, IsSurface(src), NEW points \in Seq(Nat \X Nat),
         NEW r, IsRect(r), r[1] <= r[3], r[2] <= r[4], Inside(src.size, r)
  PROVE  LET t == CopyTo(dst, src, r, points) IN
         /\ IsSurface(t) /\ SameShape(dst, t)
         /\ \A x \in CellsOf(dst.size) :
                Missed(points, Len(points), WidthOf(r), HeightOf(r), x) => PixelOf(t, x) = PixelOf(dst, x)
<1>0. Len(points) \in Nat
  OBVIOUS
<1>1. PICK f : /\ f[0] = dst
               /\ \A n \in 1 .. Len(points) : f[n] = Copied(f[n - 1], src, r, points[n])
               /\ CopyTo(dst, src, r, points) = f[Len(points)]
  <2>1. PICK t : t = CopyTo(dst, src, r, points)
    OBVIOUS
  <2> QED BY <1>0, <2>1, CopyToUnfolds
<1>2. PICK w, h, px :
          /\ w \in Nat /\ h \in Nat
          /\ w = WidthOf(r) /\ h = HeightOf(r) /\ px = ReadRect(src, r)
          /\ Source(px, w, h)
  BY ReadEffect
<1> DEFINE Kept1(n) ==
               /\ IsSurface(f[n]) /\ SameShape(dst, f[n])
               /\ \A x \in CellsOf(dst.size) :
                      Missed(points, n, w, h, x) => PixelOf(f[n], x) = PixelOf(dst, x)
           Bad == {n \in 0 .. Len(points) : ~Kept1(n)}
<1>3. Kept1(0)
  BY <1>1 DEF SameShape
<1>4. ASSUME NEW n \in 1 .. Len(points), Kept1(n - 1)
      PROVE  Kept1(n)
  <2>1. PICK old : old = f[n - 1]
    OBVIOUS
  <2>2. /\ IsSurface(old) /\ SameShape(dst, old)
        /\ \A x \in CellsOf(dst.size) :
               Missed(points, n - 1, w, h, x) => PixelOf(old, x) = PixelOf(dst, x)
    BY <1>4, <2>1
  <2>3. PICK p \in Nat \X Nat : p = points[n]
    OBVIOUS
  <2>4. PICK left \in Nat, top \in Nat : left = p[1] /\ top = p[2]
    OBVIOUS
  <2>5. PICK new : new = WriteRect(old, px, left, top, w, h)
    OBVIOUS
  <2>6. f[n] = new
    BY <1>1, <1>2, <2>1, <2>3, <2>4, <2>5 DEF Copied
  <2>7. /\ IsSurface(new) /\ SameShape(old, new)
        /\ \A x \in CellsOf(old.size) :
               ~(left <= x[1] /\ x[1] < left + w /\ top <= x[2] /\ x[2] < top + h)
                   => PixelOf(new, x) = PixelOf(old, x)
    <3>1. IsSurface(new) /\ SameShape(old, new) /\ Wrote(old, new, px, left, top, w, h)
      BY <1>2, <2>2, <2>5, WriteEffect
    <3> QED BY <3>1 DEF Wrote
  <2>8. ASSUME NEW x \in CellsOf(dst.size), Missed(points, n, w, h, x)
        PROVE  PixelOf(new, x) = PixelOf(dst, x)
    <3>1. Missed(points, n - 1, w, h, x) /\ ~In(At(p, w, h), x)
      BY <2>3, <2>8 DEF Missed
    <3>2. ~(left <= x[1] /\ x[1] < left + w /\ top <= x[2] /\ x[2] < top + h)
      BY <2>4, <3>1, InAt
    <3>3. x \in CellsOf(old.size)
      BY <2>2 DEF SameShape
    <3> QED BY <2>2, <2>7, <3>1, <3>2, <3>3
  <2>9. SameShape(dst, new)
    BY <2>2, <2>7 DEF SameShape
  <2> QED BY <2>6, <2>7, <2>8, <2>9
<1>5. Bad = {}
  <2>1. SUFFICES ASSUME Bad # {} PROVE FALSE
    OBVIOUS
  <2> HIDE DEF Kept1
  <2>2. PICK n \in Bad : \A m \in Bad : n <= m
    <3>1. Bad \subseteq Nat
      OBVIOUS
    <3> QED BY <2>1, <3>1, LeastNat
  <2>3. n # 0
    BY <1>3
  <2>4. n \in 1 .. Len(points) /\ n - 1 \in 0 .. Len(points) /\ n - 1 \notin Bad
    BY <2>2, <2>3
  <2> QED BY <1>4, <2>4
<1>6. Len(points) \in 0 .. Len(points)
  OBVIOUS
<1> HIDE DEF Kept1
<1>7. Kept1(Len(points))
  BY <1>5, <1>6
<1> QED BY <1>1, <1>2, <1>7 DEF Kept1

(* One round of copying a cache entry: written, then flushed. *)
Stamp(acc, id, entry, p) ==
    LET s == WriteRect(acc.s, entry.px, p[1], p[2], entry.size[1], entry.size[2])
    IN [s |-> s, o |-> Flush(acc.o, id, s, At(p, entry.size[1], entry.size[2]))]

StampedBy(f, id, entry, points) ==
    /\ f[0] = [s |-> surfaces[id], o |-> Out]
    /\ \A n \in 1 .. Len(points) : f[n] = Stamp(f[n - 1], id, entry, points[n])
    /\ Stamped(id, entry, points) = f[Len(points)]

LEMMA StampedUnfolds ==
  ASSUME NEW id, NEW entry, NEW points, Len(points) \in Nat
  PROVE  \E f : StampedBy(f, id, entry, points)
<1> DEFINE Is(f, N) == f = [n \in 0 .. N |-> IF n = 0 THEN [s |-> surfaces[id], o |-> Out] ELSE Stamp(f[n - 1], id, entry, points[n])]
           Bad == {N \in Nat : ~\E f : Is(f, N)}
<1>1. \E f : Is(f, 0)
  <2>1. Is([n \in 0 .. 0 |-> [s |-> surfaces[id], o |-> Out]], 0)
    OBVIOUS
  <2> QED BY <2>1
<1>2. ASSUME NEW N \in Nat, NEW f, Is(f, N)
      PROVE  \E g : Is(g, N + 1)
  <2> DEFINE g == [n \in 0 .. N + 1 |-> IF n = N + 1 THEN Stamp(f[N], id, entry, points[N + 1]) ELSE f[n]]
  <2>1. ASSUME NEW n \in 0 .. N + 1
        PROVE  g[n] = IF n = 0 THEN [s |-> surfaces[id], o |-> Out] ELSE Stamp(g[n - 1], id, entry, points[n])
    <3>1. CASE n = 0
      BY <1>2, <3>1
    <3>2. CASE n = N + 1
      <4>1. g[n - 1] = f[N]
        BY <3>2
      <4> QED BY <3>2, <4>1
    <3>3. CASE n # 0 /\ n # N + 1
      <4>1. n \in 0 .. N /\ n - 1 \in 0 .. N + 1 /\ n - 1 # N + 1
        BY <3>3
      <4>2. g[n] = f[n] /\ g[n - 1] = f[n - 1]
        BY <3>3, <4>1
      <4>3. f[n] = Stamp(f[n - 1], id, entry, points[n])
        BY <1>2, <3>3, <4>1
      <4> QED BY <3>3, <4>2, <4>3
    <3> QED BY <3>1, <3>2, <3>3
  <2>2. Is(g, N + 1)
    BY <2>1
  <2> QED BY <2>2
<1>3. Bad = {}
  <2>1. SUFFICES ASSUME Bad # {} PROVE FALSE
    OBVIOUS
  <2>2. PICK N \in Bad : \A M \in Bad : N <= M
    <3> HIDE DEF Is
    <3> QED BY <2>1, LeastNat
  <2> HIDE DEF Is
  <2>3. N # 0
    BY <1>1
  <2>4. N - 1 \in Nat /\ N - 1 \notin Bad
    BY <2>2, <2>3
  <2> QED BY <1>2, <2>4
<1>4. \E f : Is(f, Len(points))
  <2> HIDE DEF Is
  <2> QED BY <1>3
<1>5. PICK f : f = CHOOSE g : Is(g, Len(points))
  OBVIOUS
<1>6. Is(f, Len(points))
  <2> HIDE DEF Is
  <2> QED BY <1>4, <1>5
<1>7. Stamped(id, entry, points) = f[Len(points)]
  BY <1>5 DEF Stamped, Stamp
<1>8. f[0] = [s |-> surfaces[id], o |-> Out]
  BY <1>6
<1>9. ASSUME NEW n \in 1 .. Len(points)
      PROVE  f[n] = Stamp(f[n - 1], id, entry, points[n])
  <2>1. n \in 0 .. Len(points) /\ n # 0
    OBVIOUS
  <2>2. f[n] = IF n = 0 THEN [s |-> surfaces[id], o |-> Out] ELSE Stamp(f[n - 1], id, entry, points[n])
    BY <1>6, <2>1
  <2> QED BY <2>1, <2>2
<1> QED BY <1>7, <1>8, <1>9 DEF StampedBy

(* What is stored in the cache. *)
IsEntry(entry) ==
    entry.size[1] \in Nat /\ entry.size[2] \in Nat /\ Source(entry.px, entry.size[1], entry.size[2])

LEMMA StampedEffect ==
  ASSUME NEW id \in DOMAIN surfaces, id # None, size \in Nat \X Nat, Mappable(surfaces[id]),
         Good(Out, id, surfaces[id], {}), NEW entry, IsEntry(entry), NEW points \in Seq(Nat \X Nat)
  PROVE  LET done == Stamped(id, entry, points) IN
         IsSurface(done.s) /\ SameShape(surfaces[id], done.s) /\ Good(done.o, id, done.s, {})
<1>0. Len(points) \in Nat
  OBVIOUS
<1>1. PICK f : /\ f[0] = [s |-> surfaces[id], o |-> Out]
               /\ \A n \in 1 .. Len(points) : f[n] = Stamp(f[n - 1], id, entry, points[n])
               /\ Stamped(id, entry, points) = f[Len(points)]
  <2>1. PICK f : StampedBy(f, id, entry, points)
    BY <1>0, StampedUnfolds
  <2> QED BY <2>1 DEF StampedBy
<1>2. PICK w, h, px : /\ w \in Nat /\ h \in Nat
                      /\ w = entry.size[1] /\ h = entry.size[2] /\ px = entry.px /\ Source(px, w, h)
  BY DEF IsEntry
<1> DEFINE Sound(a) ==
               IsSurface(a.s) /\ SameShape(surfaces[id], a.s) /\ Good(a.o, id, a.s, {})
           Bad == {n \in 0 .. Len(points) : ~Sound(f[n])}
<1>3. Sound(f[0])
  <2>1. f[0].s = surfaces[id] /\ f[0].o = Out
    BY <1>1
  <2> QED BY <2>1 DEF Mappable, SameShape
<1>4. ASSUME NEW n \in 1 .. Len(points), Sound(f[n - 1])
      PROVE  Sound(f[n])
  <2>1. PICK s0, o0, p : p \in Nat \X Nat /\ s0 = f[n - 1].s /\ o0 = f[n - 1].o /\ p = points[n]
    OBVIOUS
  <2>2. IsSurface(s0) /\ SameShape(surfaces[id], s0) /\ Good(o0, id, s0, {})
    BY <1>4, <2>1
  <2>3. PICK left \in Nat, top \in Nat : left = p[1] /\ top = p[2]
    BY <2>1
  <2>4. PICK s1 : s1 = WriteRect(s0, px, left, top, w, h)
    OBVIOUS
  <2>5. PICK r : r = At(p, w, h)
    OBVIOUS
  <2>6. f[n] = [s |-> s1, o |-> Flush(o0, id, s1, r)]
    BY <1>1, <1>2, <2>1, <2>3, <2>4, <2>5 DEF Stamp
  <2>7. IsSurface(s1) /\ SameShape(s0, s1) /\ Wrote(s0, s1, px, left, top, w, h)
    BY <1>2, <2>2, <2>4, WriteEffect
  <2>8. Mappable(s0) /\ Mappable(s1) /\ SameShape(surfaces[id], s1)
    BY <2>2, <2>7 DEF Mappable, SameShape
  <2>a. PICK W : W = {x \in CellsOf(s1.size) : In(r, x)}
    OBVIOUS
  <2>9. \A x \in CellsOf(s0.size) : x \notin W => PixelOf(s1, x) = PixelOf(s0, x)
    <3>1. \A x : In(r, x) <=> left <= x[1] /\ x[1] < left + w /\ top <= x[2] /\ x[2] < top + h
      BY <2>3, <2>5, InAt
    <3>2. CellsOf(s1.size) = CellsOf(s0.size)
      BY <2>7 DEF SameShape
    <3> QED BY <2>7, <2>a, <3>1, <3>2 DEF Wrote
  <2>10. Good(o0, id, s1, {} \cup W)
    BY <2>2, <2>7, <2>8, <2>9, WriteMakesStale
  <2>11. Good(o0, id, s1, W)
    BY <2>10
  <2>12. IsRect(r)
    BY <1>2, <2>1, <2>5, AtPoint
  <2>13. W \subseteq CellsOf(s1.size)
    BY <2>a
  <2>14. \A x \in W : x \in {} \/ In(r, x)
    BY <2>a
  <2>15. Good(Flush(o0, id, s1, r), id, s1, {})
    BY <2>8, <2>11, <2>12, <2>13, <2>14, FlushEffect
  <2>16. f[n].s = s1 /\ f[n].o = Flush(o0, id, s1, r)
    BY <2>6
  <2> QED BY <2>7, <2>8, <2>15, <2>16
<1>5. Bad = {}
  <2>1. SUFFICES ASSUME Bad # {} PROVE FALSE
    OBVIOUS
  <2> HIDE DEF Sound
  <2>2. PICK n \in Bad : \A m \in Bad : n <= m
    <3>1. Bad \subseteq Nat
      OBVIOUS
    <3> QED BY <2>1, <3>1, LeastNat
  <2>3. n # 0
    BY <1>3
  <2>4. n \in 1 .. Len(points) /\ n - 1 \in 0 .. Len(points) /\ n - 1 \notin Bad
    BY <2>2, <2>3
  <2> QED BY <1>4, <2>4
<1>6. Len(points) \in 0 .. Len(points)
  OBVIOUS
<1> HIDE DEF Sound
<1>7. Sound(f[Len(points)])
  BY <1>5, <1>6
<1> QED BY <1>1, <1>7 DEF Sound

-----------------------------------------------------------------------------
(* The inductive invariant.  ScreenShowsSurfaces alone does not say where  *)
(* on its surface a painted pixel lies, and a pixel off the surface would  *)
(* be one of another row: a surface that painted a pixel is still mapped,  *)
(* and over it.  What a surface that is gone last held is what is retired. *)

Typing ==
    /\ DOMAIN surfaces \cap DOMAIN retired = {}
    /\ \A id \in DOMAIN surfaces :
           id \in Ids /\ Mappable(surfaces[id]) /\ surfaces[id].size \in SurfaceSizes
    /\ \A id \in DOMAIN retired :
           id \in Ids /\ Mappable(retired[id]) /\ retired[id].size \in SurfaceSizes
    /\ \A k \in DOMAIN cache : k \in Slots /\ IsEntry(cache[k])
    /\ size \in ScreenSizes /\ screen \in [CellsOf(size) -> Colors]
    /\ told \in {"nothing", "updated", "resized"}
    /\ strayed \in BOOLEAN
    /\ painter \in [CellsOf(size) -> DOMAIN surfaces \cup {None, Gone}]
PaintedBy(s, c) ==
    /\ s.origin # None /\ On(s, c) \in CellsOf(s.size)
    /\ ~strayed => screen[c] = PixelOf(s, On(s, c))
Pixels == \A c \in CellsOf(size) : Has(painter[c]) => PaintedBy(surfaces[painter[c]], c)
RetiredAsSeen ==
    /\ DOMAIN lastSeen = Ids
    /\ \A id \in Ids : ~Has(id) /\ lastSeen[id] # None =>
                           id \in DOMAIN retired /\ retired[id] = lastSeen[id]
IInv == Typing /\ Pixels /\ MappedIsPainted /\ RetiredAsSeen

LEMMA TypingImpliesTypeOK == Typing => TypeOK
<1> SUFFICES ASSUME Typing PROVE TypeOK
  OBVIOUS
<1>1. ASSUME NEW id \in DOMAIN surfaces \cup DOMAIN retired
      PROVE  LET s == IF Has(id) THEN surfaces[id] ELSE retired[id] IN
             /\ id \in Ids /\ s.size \in SurfaceSizes /\ s.origin \in Origins \cup {None}
             /\ s.px \in Memory(s.size)
  BY DEF Typing, Has, Mappable, IsSurface
<1>2. ASSUME NEW k \in DOMAIN cache
      PROVE  k \in Slots /\ cache[k].px \in Memory(cache[k].size)
  BY DEF Typing, IsEntry, Source, Memory
<1> QED BY <1>1, <1>2 DEF Typing, TypeOK

LEMMA SizesAreSizes ==
  ASSUME Typing
  PROVE  size \in Nat \X Nat
BY GfxAssumption DEF Typing

(* Before anything is drawn nothing is stale. *)
LEMMA OutIsGood ==
  ASSUME Typing, Pixels, Working, NEW id \in DOMAIN surfaces
  PROVE  id # None /\ Good(Out, id, surfaces[id], {})
<1>1. id # None
  BY GfxAssumption DEF Typing
<1>2. /\ Out.screen = screen /\ Out.painter = painter /\ Out.told = "nothing" /\ Out.strayed = FALSE
      /\ Out = [screen |-> screen, painter |-> painter, told |-> "nothing", strayed |-> FALSE]
  BY DEF Out
<1>3. Typed(Out)
  BY <1>2 DEF Typing, Typed
<1>4. ASSUME NEW c \in CellsOf(size)
      PROVE  Owned(Out, id, surfaces[id], c) /\ Fresh(Out, id, surfaces[id], c, {})
  <2>1. painter[c] = id => PaintedBy(surfaces[id], c)
    BY DEF Pixels, Has
  <2> QED BY <1>2, <2>1 DEF Owned, Fresh, PaintedBy, Working
<1> QED BY <1>1, <1>3, <1>4 DEF Good

(* What is drawn inside a rectangle is shown by a flush of it. *)
LEMMA DrawnIsFlushed ==
  ASSUME Typing, Pixels, Working, NEW id \in DOMAIN surfaces,
         NEW s, IsSurface(s), SameShape(surfaces[id], s), NEW r, IsRect(r),
         \A x \in CellsOf(s.size) : ~In(r, x) => PixelOf(s, x) = PixelOf(surfaces[id], x)
  PROVE  /\ Good(Flush(Out, id, s, r), id, s, {})
         /\ Inside(s.size, r) => ~Flush(Out, id, s, r).strayed
<1>1. PICK old : old = surfaces[id]
  OBVIOUS
<1>2. Mappable(old) /\ Mappable(s)
  BY <1>1 DEF Typing, Mappable, SameShape
<1>3. id # None /\ Good(Out, id, old, {})
  BY <1>1, OutIsGood
<1>4. PICK W : W = {x \in CellsOf(s.size) : In(r, x)}
  OBVIOUS
<1>5. \A x \in CellsOf(old.size) : x \notin W => PixelOf(s, x) = PixelOf(old, x)
  BY <1>1, <1>4 DEF SameShape
<1>6. Good(Out, id, s, {} \cup W)
  BY <1>1, <1>2, <1>3, <1>5, WriteMakesStale
<1>7. Good(Out, id, s, W) /\ W \subseteq CellsOf(s.size) /\ \A x \in W : x \in {} \/ In(r, x)
  BY <1>4, <1>6
<1>8. /\ Good(Flush(Out, id, s, r), id, s, {})
      /\ Inside(s.size, r) => Flush(Out, id, s, r).strayed = Out.strayed
  BY <1>2, <1>3, <1>7, SizesAreSizes, FlushEffect
<1>9. Out.strayed = FALSE
  BY DEF Out
<1> QED BY <1>8, <1>9

(* A callback that draws on a surface, or moves it, keeps the invariant.   *)
LEMMA DrawStep ==
  ASSUME IInv, Working, NEW id \in DOMAIN surfaces,
         NEW s, Mappable(s), s.size = surfaces[id].size,
         NEW o, Good(o, id, s, {}),
         s.origin # None => \A c \in Covered(s, WholeOf(s)) : o.painter[c] # None,
         Draws(id, s, o)
  PROVE  /\ IInv'
         /\ strayed' = o.strayed
         /\ screen' # screen => told' # "nothing"
         /\ cache' = cache /\ DOMAIN surfaces' = DOMAIN surfaces
<1>1. /\ surfaces' = [surfaces EXCEPT ![id] = s]
      /\ screen' = o.screen /\ painter' = o.painter /\ told' = o.told /\ strayed' = o.strayed
      /\ size' = size /\ retired' = retired /\ cache' = cache /\ lastSeen' = lastSeen
  BY DEF Draws, Shows
<1>2. /\ DOMAIN surfaces' = DOMAIN surfaces
      /\ surfaces'[id] = s
      /\ \A j \in DOMAIN surfaces : j # id => surfaces'[j] = surfaces[j]
  BY <1>1
<1>3. Typed(o) /\ \A c \in CellsOf(size) : Owned(o, id, s, c) /\ Fresh(o, id, s, c, {})
  BY DEF Good
<1>4. Typing'
  <2>1. \A j \in DOMAIN surfaces' :
            j \in Ids /\ Mappable(surfaces'[j]) /\ surfaces'[j].size \in SurfaceSizes
    BY <1>2 DEF IInv, Typing
  <2>2. /\ screen' \in [CellsOf(size') -> Colors]
        /\ painter' \in [CellsOf(size') -> DOMAIN surfaces' \cup {None, Gone}]
        /\ told' \in {"nothing", "updated", "resized"} /\ strayed' \in BOOLEAN
    BY <1>1, <1>2, <1>3 DEF Typed
  <2> QED BY <1>1, <1>2, <2>1, <2>2 DEF IInv, Typing, Mappable, IsSurface, IsEntry, Source
<1>5. Pixels'
  <2>1. ASSUME NEW c \in CellsOf(size), o.painter[c] \in DOMAIN surfaces
        PROVE  LET t == surfaces'[o.painter[c]] IN
               /\ t.origin # None /\ On(t, c) \in CellsOf(t.size)
               /\ ~o.strayed => o.screen[c] = PixelOf(t, On(t, c))
    <3>1. CASE o.painter[c] = id
      BY <1>2, <1>3, <3>1 DEF Owned, Fresh
    <3>2. CASE o.painter[c] # id
      <4>1. o.painter[c] = painter[c] /\ o.screen[c] = screen[c]
        BY <1>3, <2>1, <3>2 DEF Owned, Has
      <4>2. PaintedBy(surfaces[painter[c]], c)
        BY <2>1, <4>1 DEF IInv, Pixels, Has
      <4>3. surfaces'[o.painter[c]] = surfaces[painter[c]]
        BY <1>2, <2>1, <3>2, <4>1
      <4> QED BY <4>1, <4>2, <4>3 DEF PaintedBy, Working
    <3> QED BY <3>1, <3>2
  <2>2. ASSUME NEW c \in CellsOf(size)', Has(painter[c])'
        PROVE  PaintedBy(surfaces[painter[c]], c)'
    <3>1. c \in CellsOf(size) /\ o.painter[c] \in DOMAIN surfaces
      BY <1>1, <1>2, <2>2 DEF CellsOf, Has
    <3>2. PICK t : t = surfaces'[o.painter[c]]
      OBVIOUS
    <3>3. /\ t.origin # None /\ On(t, c) \in CellsOf(t.size)
          /\ ~o.strayed => o.screen[c] = PixelOf(t, On(t, c))
      BY <2>1, <3>1, <3>2
    <3>4. surfaces'[painter'[c]] = t
      BY <1>1, <3>2
    <3> QED BY <1>1, <3>3, <3>4 DEF PaintedBy, On, PixelOf, CellsOf
  <2> QED BY <2>2 DEF Pixels
<1>6. MappedIsPainted'
  <2>1. ASSUME NEW j \in DOMAIN surfaces, surfaces'[j].origin # None,
               NEW c \in Covered(surfaces'[j], WholeOf(surfaces'[j]))
        PROVE  o.painter[c] # None
    <3>1. CASE j = id
      BY <1>2, <2>1, <3>1
    <3>2. CASE j # id
      <4>1. surfaces'[j] = surfaces[j]
        BY <1>2, <3>2
      <4>2. painter[c] # None
        BY <2>1, <4>1 DEF IInv, MappedIsPainted
      <4>3. c \in CellsOf(size)
        BY DEF Covered
      <4> QED BY <1>3, <4>2, <4>3 DEF Owned
    <3> QED BY <3>1, <3>2
  <2>2. ASSUME NEW j \in DOMAIN surfaces', (surfaces[j].origin # None)',
               NEW c \in Covered(surfaces[j], WholeOf(surfaces[j]))'
        PROVE  painter'[c] # None
    <3>1. c \in Covered(surfaces'[j], WholeOf(surfaces'[j]))
      BY <1>1 DEF Covered, WholeOf, CellsOf
    <3> QED BY <1>1, <1>2, <2>1, <2>2, <3>1
  <2> QED BY <2>2 DEF MappedIsPainted
<1>7. RetiredAsSeen'
  BY <1>1, <1>2 DEF IInv, RetiredAsSeen, Has
<1>8. screen' # screen => told' # "nothing"
  BY <1>1, <1>3 DEF Typed
<1> QED BY <1>1, <1>2, <1>4, <1>5, <1>6, <1>7, <1>8 DEF IInv

(* A surface that stays where it is stays painted. *)
LEMMA StillPainted ==
  ASSUME IInv, NEW id \in DOMAIN surfaces, NEW s, SameShape(surfaces[id], s), s.origin # None,
         NEW o, NEW stale, Good(o, id, s, stale), NEW c \in Covered(s, WholeOf(s))
  PROVE  o.painter[c] # None
<1>1. c \in CellsOf(size)
  BY DEF Covered
<1>2. c \in Covered(surfaces[id], WholeOf(surfaces[id]))
  BY DEF Covered, WholeOf, SameShape
<1>3. painter[c] # None
  BY <1>2 DEF IInv, MappedIsPainted, SameShape
<1> QED BY <1>1, <1>3 DEF Good, Owned

LEMMA DrawnStep ==
  ASSUME IInv, Working, NEW id \in DOMAIN surfaces,
         NEW s, IsSurface(s), SameShape(surfaces[id], s), NEW o, Good(o, id, s, {}), Draws(id, s, o)
  PROVE  /\ IInv'
         /\ strayed' = o.strayed
         /\ screen' # screen => told' # "nothing"
         /\ cache' = cache /\ DOMAIN surfaces' = DOMAIN surfaces
<1>1. Mappable(s) /\ s.size = surfaces[id].size
  BY DEF Mappable, SameShape, IInv, Typing
<1>2. s.origin # None => \A c \in Covered(s, WholeOf(s)) : o.painter[c] # None
  BY StillPainted
<1> QED BY <1>1, <1>2, DrawStep

-----------------------------------------------------------------------------
(* The callbacks that draw. *)

(* What drawing does not do: change the cache, add or remove a surface, or *)
(* change the screen unheard.                                              *)
Drawn ==
    /\ IInv'
    /\ screen' # screen => told' # "nothing"
    /\ cache' = cache /\ DOMAIN surfaces' = DOMAIN surfaces

LEMMA MapSurfaceStep ==
  ASSUME IInv, NEW id, NEW origin \in Origins, MapSurface(id, origin)
  PROVE  Drawn /\ ~strayed'
<1>1. id \in DOMAIN surfaces /\ Working
  BY DEF MapSurface, Has
<1>2. PICK s : s = [surfaces[id] EXCEPT !.origin = origin]
  OBVIOUS
<1>3. PICK old : old = surfaces[id]
  OBVIOUS
<1>4. IsSurface(old)
  BY <1>1, <1>3 DEF IInv, Typing, Mappable
<1>5. s = Surface(old.size, origin, old.px)
  <2>1. [Surface(old.size, old.origin, old.px) EXCEPT !.origin = origin] = Surface(old.size, origin, old.px)
    BY Moved
  <2> QED BY <1>2, <1>3, <1>4, <2>1 DEF IsSurface
<1>6. s.size = old.size /\ s.origin = origin /\ s.px = old.px
  BY <1>5 DEF Surface
<1>7. Mappable(s) /\ s.origin # None
  BY <1>4, <1>5, <1>6, GfxAssumption DEF Mappable, IsSurface
<1>8. PICK own : own = Disown({id})
  OBVIOUS
<1>9. PICK o : o = [Out EXCEPT !.painter = own]
  OBVIOUS
<1>10. o = Output(screen, own, "nothing", FALSE)
  <2>1. Out = Output(screen, painter, "nothing", FALSE)
    BY DEF Out, Output
  <2>2. PICK no : no = FALSE
    OBVIOUS
  <2>3. [Output(screen, painter, "nothing", no) EXCEPT !.painter = own] = Output(screen, own, "nothing", no)
    BY OutputDisowned
  <2> QED BY <1>9, <2>1, <2>2, <2>3
<1>11. o.screen = screen /\ o.painter = own /\ o.told = "nothing" /\ o.strayed = FALSE
  BY <1>10 DEF Output
<1>12. /\ own \in [CellsOf(size) -> DOMAIN surfaces \cup {None, Gone}]
       /\ \A c \in CellsOf(size) : own[c] = IF painter[c] = id THEN Gone ELSE painter[c]
  BY <1>8 DEF Disown, IInv, Typing
<1>13. Gone # None /\ Gone # id /\ id # None
  BY <1>1, GfxAssumption DEF IInv, Typing
<1>14. Good(o, id, s, {})
  <2>1. Typed(o)
    BY <1>10, <1>11, <1>12 DEF Typed, Output, IInv, Typing
  <2>2. ASSUME NEW c \in CellsOf(size)
        PROVE  Owned(o, id, s, c) /\ Fresh(o, id, s, c, {})
    <3>1. own[c] # id /\ (own[c] = None => painter[c] = None) /\ (own[c] = painter[c] \/ own[c] = Gone)
      BY <1>12, <1>13
    <3>2. ~Has(Gone)
      BY GfxAssumption DEF Has, IInv, Typing
    <3> QED BY <1>11, <3>1, <3>2 DEF Owned, Fresh
  <2> QED BY <2>1, <2>2 DEF Good
<1>15. PICK r : r = WholeOf(s)
  OBVIOUS
<1>16. IsRect(r) /\ Inside(s.size, r)
  BY <1>7, <1>15 DEF WholeOf, IsRect, Inside, Mappable, IsSurface
<1>17. PICK p : p = Flush(o, id, s, r)
  OBVIOUS
<1>18. /\ Good(p, id, s, {}) /\ p.strayed = o.strayed
       /\ Visible(s, r) => \A c \in Covered(s, r) : p.painter[c] = id
  <2>1. {} \subseteq CellsOf(s.size) /\ \A x \in {} : x \in {} \/ In(r, x)
    OBVIOUS
  <2>2. size \in Nat \X Nat
    BY SizesAreSizes DEF IInv
  <2>3. PICK none : none = {}
    OBVIOUS
  <2>4. /\ Good(o, id, s, none) /\ none \subseteq CellsOf(s.size)
        /\ \A x \in none : x \in none \/ In(r, x)
    BY <1>14, <2>1, <2>3
  <2>5. /\ Good(Flush(o, id, s, r), id, s, none)
        /\ Inside(s.size, r) => Flush(o, id, s, r).strayed = o.strayed
        /\ Visible(s, r) /\ Inside(s.size, r) => \A c \in Covered(s, r) : Flush(o, id, s, r).painter[c] = id
    BY <1>1, <1>7, <1>13, <1>16, <2>2, <2>4, FlushEffect
  <2> QED BY <1>16, <1>17, <2>3, <2>5
<1>19. \A c \in Covered(s, WholeOf(s)) : p.painter[c] # None
  <2>1. CASE Visible(s, r)
    BY <1>13, <1>15, <1>18, <2>1
  <2>2. CASE ~Visible(s, r)
    <3>1. r[1] >= r[3] \/ r[2] >= r[4]
      BY <1>7, <2>2 DEF Visible, IsEmpty
    <3>2. Covered(s, r) = {}
      BY <1>16, <3>1 DEF Covered, IsRect
    <3> QED BY <1>15, <3>2
  <2> QED BY <2>1, <2>2
<1>20. Draws(id, s, p)
  BY <1>2, <1>8, <1>9, <1>15, <1>17 DEF MapSurface, Draws
<1>21. /\ IInv' /\ strayed' = p.strayed
       /\ screen' # screen => told' # "nothing"
       /\ cache' = cache /\ DOMAIN surfaces' = DOMAIN surfaces
  BY <1>1, <1>3, <1>6, <1>7, <1>18, <1>19, <1>20, DrawStep
<1> QED BY <1>11, <1>18, <1>21 DEF Drawn

LEMMA FlushedStep ==
  ASSUME IInv, Working, NEW id \in DOMAIN surfaces,
         NEW s, IsSurface(s), SameShape(surfaces[id], s), NEW r, IsRect(r),
         \A x \in CellsOf(s.size) : ~In(r, x) => PixelOf(s, x) = PixelOf(surfaces[id], x),
         Draws(id, s, Flush(Out, id, s, r))
  PROVE  Drawn /\ (Inside(s.size, r) => ~strayed')
<1>1. PICK o : o = Flush(Out, id, s, r)
  OBVIOUS
<1>2. Good(o, id, s, {}) /\ (Inside(s.size, r) => ~o.strayed)
  BY <1>1, DrawnIsFlushed DEF IInv
<1>3. Draws(id, s, o)
  BY <1>1
<1>4. /\ IInv' /\ strayed' = o.strayed
      /\ screen' # screen => told' # "nothing"
      /\ cache' = cache /\ DOMAIN surfaces' = DOMAIN surfaces
  BY <1>2, <1>3, DrawnStep
<1> QED BY <1>2, <1>4 DEF Drawn

(* A command that names nothing of the surface changes nothing. *)
LEMMA NothingDrawnStep ==
  ASSUME IInv, Working, NEW id \in DOMAIN surfaces, Draws(id, surfaces[id], Out)
  PROVE  Drawn /\ ~strayed'
<1>1. PICK s, o : s = surfaces[id] /\ o = Out
  OBVIOUS
<1>2. IsSurface(s) /\ SameShape(surfaces[id], s)
  BY <1>1 DEF IInv, Typing, Mappable, SameShape
<1>3. Good(o, id, s, {}) /\ Draws(id, s, o)
  BY <1>1, OutIsGood DEF IInv
<1>4. /\ IInv' /\ strayed' = o.strayed
      /\ screen' # screen => told' # "nothing"
      /\ cache' = cache /\ DOMAIN surfaces' = DOMAIN surfaces
  BY <1>2, <1>3, DrawnStep
<1>5. o.strayed = FALSE
  BY <1>1 DEF Out
<1> QED BY <1>4, <1>5 DEF Drawn

(* A rectangle taken out of a wider buffer. *)
Crop(px, width, w, h) == [i \in 0 .. w * h - 1 |-> px[(i \div w) * width + (i % w)]]

LEMMA Cropped ==
  ASSUME NEW width \in Nat, NEW height \in Nat, NEW w \in Nat, NEW h \in Nat,
         w <= width, h <= height, NEW px, Source(px, width, height)
  PROVE  Source(Crop(px, width, w, h), w, h)
<1>1. ASSUME NEW i \in 0 .. w * h - 1
      PROVE  px[(i \div w) * width + (i % w)] \in Colors
  <2>1. PICK a \in 0 .. w - 1, b \in 0 .. h - 1 : a = i % w /\ b = i \div w
    BY Position
  <2>2. a \in 0 .. width - 1 /\ b \in 0 .. height - 1
    OBVIOUS
  <2>3. b * width + a \in 0 .. width * height - 1
    BY <2>2, Place
  <2>4. px[b * width + a] \in Colors
    BY <2>3 DEF Source
  <2> QED BY <2>1, <2>4
<1> QED BY <1>1 DEF Source, Crop

LEMMA RectParts ==
  ASSUME NEW r \in Rects
  PROVE  /\ IsRect(r) /\ WidthOf(r) \in Nat /\ HeightOf(r) \in Nat
         /\ r[1] \in Nat /\ r[2] \in Nat /\ r[3] \in Nat /\ r[4] \in Nat
         /\ r[1] < r[3] /\ r[2] < r[4]
BY GfxAssumption DEF IsRect, WidthOf, HeightOf

LEMMA BitmapUpdatedStep ==
  ASSUME IInv, NEW id, NEW r \in Rects, NEW bitmap \in Bitmaps, BitmapUpdated(id, r, bitmap)
  PROVE  Drawn
<1>1. id \in DOMAIN surfaces /\ Working
  BY DEF BitmapUpdated, Has
<1>2. PICK width, height, px : /\ width = bitmap.size[1] /\ height = bitmap.size[2] /\ px = bitmap.px
                               /\ width \in Nat /\ height \in Nat /\ Source(px, width, height)
  BY GfxAssumption DEF Source
<1>3. PICK w, h : /\ w = Least(width, WidthOf(r)) /\ h = Least(height, HeightOf(r))
                  /\ w \in Nat /\ h \in Nat /\ w <= width /\ h <= height
  BY <1>2, RectParts DEF Least
<1>4. PICK part : part = Crop(px, width, w, h)
  OBVIOUS
<1>5. Source(part, w, h)
  BY <1>2, <1>3, <1>4, Cropped
<1>6. PICK left \in Nat, top \in Nat : left = r[1] /\ top = r[2]
  BY RectParts
<1>7. PICK old, s : old = surfaces[id] /\ s = WriteRect(old, part, left, top, w, h)
  OBVIOUS
<1>8. IsSurface(old)
  BY <1>1, <1>7 DEF IInv, Typing, Mappable
<1>9. IsSurface(s) /\ SameShape(old, s) /\ Wrote(old, s, part, left, top, w, h)
  BY <1>3, <1>5, <1>7, <1>8, WriteEffect
<1>10. PICK q : q = At(r, w, h)
  OBVIOUS
<1>11. IsRect(q)
  BY <1>3, <1>6, <1>10 DEF At, IsRect
<1>12. \A x \in CellsOf(s.size) : ~In(q, x) => PixelOf(s, x) = PixelOf(old, x)
  <2>1. \A x : In(q, x) <=> left <= x[1] /\ x[1] < left + w /\ top <= x[2] /\ x[2] < top + h
    BY <1>6, <1>10, InAt
  <2> QED BY <1>9, <2>1 DEF Wrote, SameShape
<1>13. Draws(id, s, Flush(Out, id, s, q))
  BY <1>2, <1>3, <1>4, <1>6, <1>7, <1>10 DEF BitmapUpdated, Crop
<1> QED BY <1>1, <1>7, <1>9, <1>11, <1>12, <1>13, FlushedStep

(* Pixels decoded for a rectangle, of which the part on the surface is     *)
(* drawn.                                                                  *)
LEMMA ApplyBgraStep ==
  ASSUME IInv, Working, NEW id \in DOMAIN surfaces, NEW r \in Rects,
         NEW px, Source(px, WidthOf(r), HeightOf(r)), ApplyBgra(id, r, px)
  PROVE  Drawn /\ ~strayed'
<1>1. PICK old : old = surfaces[id]
  OBVIOUS
<1>2. IsSurface(old) /\ old.size \in Nat \X Nat
  BY <1>1 DEF IInv, Typing, Mappable, IsSurface
<1>3. PICK c : c = Clamp(old.size, r)
  OBVIOUS
<1>4. /\ IsRect(c) /\ c[1] <= c[3] /\ c[2] <= c[4] /\ Inside(old.size, c)
      /\ WidthOf(c) \in Nat /\ HeightOf(c) \in Nat
  BY <1>2, <1>3, RectParts, ClampEffect
<1>5. CASE IsEmpty(c)
  <2>1. Draws(id, surfaces[id], Out)
    BY <1>1, <1>3, <1>5 DEF ApplyBgra
  <2> QED BY <2>1, NothingDrawnStep
<1>6. CASE ~IsEmpty(c)
  <2>1. PICK w, h, left, top :
            /\ w = WidthOf(c) /\ h = HeightOf(c) /\ left = c[1] /\ top = c[2]
            /\ w \in Nat /\ h \in Nat /\ left \in Nat /\ top \in Nat
    BY <1>4 DEF IsRect
  <2>2. PICK width, height : /\ width = WidthOf(r) /\ height = HeightOf(r)
                             /\ width \in Nat /\ height \in Nat
    BY RectParts
  <2>3. w <= width /\ h <= height
    <3>1. /\ r[1] \in Nat /\ r[2] \in Nat /\ r[3] \in Nat /\ r[4] \in Nat
          /\ r[1] < r[3] /\ r[2] < r[4]
          /\ old.size[1] \in Nat /\ old.size[2] \in Nat
      BY <1>2, RectParts
    <3>2. \A a, b, m \in Nat : a < b => Most(Least(b, m), Least(a, m)) - Least(a, m) <= b - a
      BY DEF Most, Least
    <3>3. /\ w = Most(Least(r[3], old.size[1]), Least(r[1], old.size[1])) - Least(r[1], old.size[1])
          /\ h = Most(Least(r[4], old.size[2]), Least(r[2], old.size[2])) - Least(r[2], old.size[2])
      BY <1>3, <2>1 DEF Clamp, WidthOf, HeightOf
    <3>4. w <= r[3] - r[1] /\ h <= r[4] - r[2]
      BY <3>1, <3>2, <3>3
    <3> QED BY <2>2, <3>4 DEF WidthOf, HeightOf
  <2>4. PICK tight : tight = Crop(px, width, w, h)
    OBVIOUS
  <2>5. Source(tight, w, h)
    BY <2>1, <2>2, <2>3, <2>4, Cropped
  <2>6. PICK s : s = WriteRect(old, tight, left, top, w, h)
    OBVIOUS
  <2>7. IsSurface(s) /\ SameShape(old, s) /\ Wrote(old, s, tight, left, top, w, h)
    BY <1>2, <2>1, <2>5, <2>6, WriteEffect
  <2>8. \A x \in CellsOf(s.size) : ~In(c, x) => PixelOf(s, x) = PixelOf(old, x)
    <3>1. c[3] = left + w /\ c[4] = top + h
      BY <1>4, <2>1 DEF WidthOf, HeightOf, IsRect
    <3>2. \A x : In(c, x) <=> left <= x[1] /\ x[1] < left + w /\ top <= x[2] /\ x[2] < top + h
      BY <2>1, <3>1 DEF In
    <3> QED BY <2>7, <3>2 DEF Wrote, SameShape
  <2>9. Draws(id, s, Flush(Out, id, s, c))
    BY <1>1, <1>3, <1>6, <2>1, <2>2, <2>4, <2>6 DEF ApplyBgra, Crop
  <2>10. Inside(s.size, c)
    BY <1>4, <2>7 DEF SameShape
  <2> QED BY <1>1, <1>4, <2>7, <2>8, <2>9, <2>10, FlushedStep
<1> QED BY <1>5, <1>6

LEMMA WireToSurface1Step ==
  ASSUME IInv, NEW id, NEW r \in Rects, NEW color \in Colors, NEW all, WireToSurface1(id, r, color, all)
  PROVE  Drawn /\ ~strayed'
<1>1. id \in DOMAIN surfaces /\ Working
  BY DEF WireToSurface1, Has
<1>2. PICK s, w, h : s = surfaces[id] /\ w = WidthOf(r) /\ h = HeightOf(r)
  OBVIOUS
<1>3. IsSurface(s)
  BY <1>1, <1>2 DEF IInv, Typing, Mappable
<1>4. PICK base : base = IF Inside(s.size, r) THEN ReadRect(s, r) ELSE Blank(<<w, h>>)
  OBVIOUS
<1>5. Source(base, w, h)
  <2>1. CASE Inside(s.size, r)
    BY <1>2, <1>3, <1>4, <2>1, RectParts, ReadEffect
  <2>2. CASE ~Inside(s.size, r)
    <3>1. Blank(<<w, h>>) \in Memory(<<w, h>>)
      BY BlankIsMemory
    <3> QED BY <1>4, <2>2, <3>1 DEF Source, Memory
  <2> QED BY <2>1, <2>2
<1>6. PICK px : px = [i \in DOMAIN base |-> IF all \/ i = 0 THEN color ELSE base[i]]
  OBVIOUS
<1>7. Source(px, w, h)
  BY <1>5, <1>6 DEF Source
<1>8. ApplyBgra(id, r, px)
  BY <1>2, <1>4, <1>6 DEF WireToSurface1
<1> QED BY <1>1, <1>2, <1>7, <1>8, ApplyBgraStep

(* Rectangles of one colour, and a flush around them. *)
LEMMA FilledStep ==
  ASSUME IInv, Working, NEW id \in DOMAIN surfaces, NEW color \in Colors,
         NEW rs, rs # {},
         \A r \in rs : IsRect(r) /\ r[1] <= r[3] /\ r[2] <= r[4] /\ Inside(surfaces[id].size, r),
         NEW s, s = Fill(surfaces[id], color, rs), Draws(id, s, Flush(Out, id, s, BoundsOf(rs)))
  PROVE  Drawn /\ ~strayed'
<1>1. PICK old : old = surfaces[id]
  OBVIOUS
<1>2. IsSurface(old) /\ old.size \in Nat \X Nat
  BY <1>1 DEF IInv, Typing, Mappable, IsSurface
<1>3. /\ IsSurface(s) /\ SameShape(old, s)
      /\ \A x \in CellsOf(old.size) :
             PixelOf(s, x) = IF \E r \in rs : In(r, x) THEN color ELSE PixelOf(old, x)
  BY <1>1, <1>2, FillEffect
<1>4. PICK b : b = BoundsOf(rs)
  OBVIOUS
<1>5. /\ IsRect(b) /\ Inside(old.size, b)
      /\ \A r \in rs, x \in Nat \X Nat : In(r, x) => In(b, x)
  BY <1>1, <1>2, <1>4, BoundsEffect
<1>6. ASSUME NEW x \in CellsOf(s.size), ~In(b, x)
      PROVE  PixelOf(s, x) = PixelOf(old, x)
  <2>1. x \in CellsOf(old.size) /\ x \in Nat \X Nat
    BY <1>2, <1>3 DEF SameShape, CellsOf
  <2>2. ~\E r \in rs : In(r, x)
    BY <1>5, <1>6, <2>1
  <2> QED BY <1>3, <2>1, <2>2
<1>7. Inside(s.size, b)
  BY <1>3, <1>5 DEF SameShape
<1> QED BY <1>1, <1>3, <1>4, <1>5, <1>6, <1>7, FlushedStep

LEMMA NothingFilledStep ==
  ASSUME IInv, Working, NEW id \in DOMAIN surfaces, NEW color \in Colors, NEW rs, rs = {},
         NEW s, s = Fill(surfaces[id], color, rs), Draws(id, s, Out)
  PROVE  Drawn /\ ~strayed'
<1>1. PICK old : old = surfaces[id]
  OBVIOUS
<1>2. IsSurface(old)
  BY <1>1 DEF IInv, Typing, Mappable
<1>3. /\ IsSurface(s) /\ SameShape(old, s)
      /\ \A x \in CellsOf(old.size) :
             PixelOf(s, x) = IF \E r \in rs : In(r, x) THEN color ELSE PixelOf(old, x)
  BY <1>1, <1>2, FillEffect
<1>4. PICK none, o : none = {} /\ o = Out
  OBVIOUS
<1>5. \A x \in CellsOf(old.size) : x \notin none => PixelOf(s, x) = PixelOf(old, x)
  BY <1>3
<1>6. id # None /\ Good(o, id, old, none) /\ Mappable(old)
  BY <1>1, <1>4, OutIsGood DEF IInv, Typing
<1>7. Good(o, id, s, none \cup none)
  BY <1>3, <1>5, <1>6, WriteMakesStale
<1>8. Good(o, id, s, {}) /\ Draws(id, s, o) /\ o.strayed = FALSE
  BY <1>4, <1>7 DEF Out
<1>9. /\ IInv' /\ strayed' = o.strayed
      /\ screen' # screen => told' # "nothing"
      /\ cache' = cache /\ DOMAIN surfaces' = DOMAIN surfaces
  BY <1>1, <1>3, <1>8, DrawnStep
<1> QED BY <1>8, <1>9 DEF Drawn

LEMMA WireToSurface2Step ==
  ASSUME IInv, NEW id, NEW stream \in Streams, NEW color \in Colors, WireToSurface2(id, stream, color)
  PROVE  Drawn /\ ~strayed'
<1>1. id \in DOMAIN surfaces /\ Working
  BY DEF WireToSurface2, Has
<1>2. PICK sz : sz = surfaces[id].size /\ sz \in Nat \X Nat
  BY <1>1 DEF IInv, Typing, Mappable, IsSurface
<1>3. PICK rs : rs = {r \in PartsOf(sz, stream) : ~IsEmpty(r)}
  OBVIOUS
<1>4. ASSUME NEW r \in rs
      PROVE  IsRect(r) /\ r[1] <= r[3] /\ r[2] <= r[4] /\ Inside(sz, r)
  <2>1. PICK u \in stream :
            r = <<Most(u.rect[1], u.x * Tile), Most(u.rect[2], u.y * Tile),
                  Least(Least(u.rect[3], (u.x + 1) * Tile), sz[1]),
                  Least(Least(u.rect[4], (u.y + 1) * Tile), sz[2])>>
    BY <1>3 DEF PartsOf
  <2>2. /\ u.x \in Nat /\ u.y \in Nat /\ Tile \in Nat /\ u.rect \in Nat \X Nat \X Nat \X Nat
        /\ sz[1] \in Nat /\ sz[2] \in Nat
    BY <1>2, GfxAssumption
  <2>3. PICK a, b, c, d : /\ a = u.x * Tile /\ b = u.y * Tile
                          /\ c = (u.x + 1) * Tile /\ d = (u.y + 1) * Tile
                          /\ a \in Nat /\ b \in Nat /\ c \in Nat /\ d \in Nat
    BY <2>2
  <2>4. u.rect[1] \in Nat /\ u.rect[2] \in Nat /\ u.rect[3] \in Nat /\ u.rect[4] \in Nat
    BY <2>2
  <2>5. /\ r[1] = Most(u.rect[1], a) /\ r[2] = Most(u.rect[2], b)
        /\ r[3] = Least(Least(u.rect[3], c), sz[1]) /\ r[4] = Least(Least(u.rect[4], d), sz[2])
        /\ r = <<r[1], r[2], r[3], r[4]>>
    BY <2>1, <2>3
  <2>6. /\ r[1] \in Nat /\ r[2] \in Nat /\ r[3] \in Nat /\ r[4] \in Nat
        /\ r[3] <= sz[1] /\ r[4] <= sz[2]
    BY <2>2, <2>3, <2>4, <2>5 DEF Most, Least
  <2>7. r[1] < r[3] /\ r[2] < r[4]
    BY <1>3, <2>6 DEF IsEmpty
  <2>8. r \in Nat \X Nat \X Nat \X Nat
    BY <2>5, <2>6
  <2> QED BY <2>6, <2>7, <2>8 DEF IsRect, Inside
<1>5. PICK s : s = Fill(surfaces[id], color, rs)
  OBVIOUS
<1>6. IF rs = {} THEN Draws(id, s, Out) ELSE Draws(id, s, Flush(Out, id, s, BoundsOf(rs)))
  BY <1>2, <1>3, <1>5 DEF WireToSurface2
<1>7. CASE rs = {}
  BY <1>1, <1>5, <1>6, <1>7, NothingFilledStep
<1>8. CASE rs # {}
  BY <1>1, <1>2, <1>4, <1>5, <1>6, <1>8, FilledStep
<1> QED BY <1>7, <1>8

LEMMA ListsAreLists ==
  ASSUME NEW S, NEW l \in Lists(S)
  PROVE  l \in Seq(S) /\ (l # <<>> => DOMAIN l # {})
<1>1. PICK n \in 0 .. MaxList : l \in [1 .. n -> S]
  BY DEF Lists
<1>2. n \in Nat
  BY GfxAssumption
<1>3. l \in Seq(S)
  BY <1>1, <1>2
<1>4. Len(l) = n
  BY <1>1, <1>2, <1>3
<1>5. l # <<>> => n # 0
  BY <1>3, <1>4
<1>6. n # 0 => 1 \in 1 .. n
  BY <1>2
<1>7. DOMAIN l = 1 .. n
  BY <1>1
<1> QED BY <1>3, <1>5, <1>6, <1>7

LEMMA SolidFillStep ==
  ASSUME IInv, NEW id, NEW color \in Colors, NEW rects \in Lists(Rects), SolidFill(id, color, rects)
  PROVE  Drawn /\ ~strayed'
<1>1. id \in DOMAIN surfaces /\ Working
  BY DEF SolidFill, Has
<1>2. PICK sz : sz = surfaces[id].size /\ sz \in Nat \X Nat
  BY <1>1 DEF IInv, Typing, Mappable, IsSurface
<1>3. PICK clamped : clamped = [n \in DOMAIN rects |-> Clamp(sz, rects[n])]
  OBVIOUS
<1>4. PICK rs : rs = ToSet(clamped)
  OBVIOUS
<1>5. rects \in Seq(Rects) /\ (rects # <<>> => DOMAIN rects # {})
  BY ListsAreLists
<1>6. rs = {clamped[n] : n \in DOMAIN rects}
  BY <1>3, <1>4 DEF ToSet
<1>7. ASSUME NEW r \in rs
      PROVE  IsRect(r) /\ r[1] <= r[3] /\ r[2] <= r[4] /\ Inside(sz, r)
  <2>1. PICK n \in DOMAIN rects : r = Clamp(sz, rects[n])
    BY <1>3, <1>6
  <2>2. PICK q : q = rects[n] /\ q \in Rects
    BY <1>5
  <2>3. IsRect(q)
    BY <2>2, RectParts
  <2>4. LET c == Clamp(sz, q) IN
        /\ IsRect(c) /\ c[1] <= c[3] /\ c[2] <= c[4] /\ Inside(sz, c)
        /\ WidthOf(c) \in Nat /\ HeightOf(c) \in Nat
    BY <1>2, <2>3, ClampEffect
  <2> QED BY <2>1, <2>2, <2>4
<1>8. PICK s : s = Fill(surfaces[id], color, rs)
  OBVIOUS
<1>9. IF rects = <<>> THEN Draws(id, s, Out) ELSE Draws(id, s, Flush(Out, id, s, BoundsOf(rs)))
  BY <1>2, <1>3, <1>4, <1>8 DEF SolidFill, FilledRegion
<1>10. CASE rects = <<>>
  <2>1. rs = {}
    BY <1>6, <1>10
  <2> QED BY <1>1, <1>8, <1>9, <1>10, <2>1, NothingFilledStep
<1>11. CASE rects # <<>>
  <2>1. rs # {}
    BY <1>5, <1>6, <1>11
  <2> QED BY <1>1, <1>2, <1>7, <1>8, <1>9, <1>11, <2>1, FilledStep
<1> QED BY <1>10, <1>11

LEMMA SurfaceToSurfaceStep ==
  ASSUME IInv, NEW from, NEW to, NEW r \in Rects, NEW points \in Lists(Points),
         SurfaceToSurface(from, r, to, points)
  PROVE  Drawn
<1>1. from \in DOMAIN surfaces /\ to \in DOMAIN surfaces /\ Working
  BY DEF SurfaceToSurface, Has
<1>2. PICK src, old : src = surfaces[from] /\ old = surfaces[to]
  OBVIOUS
<1>3. IsSurface(src) /\ IsSurface(old) /\ Mappable(old) /\ src.size \in Nat \X Nat
  BY <1>1, <1>2 DEF IInv, Typing, Mappable, IsSurface
<1>4. PICK c : c = Clamp(src.size, r)
  OBVIOUS
<1>5. /\ IsRect(c) /\ c[1] <= c[3] /\ c[2] <= c[4] /\ Inside(src.size, c)
      /\ WidthOf(c) \in Nat /\ HeightOf(c) \in Nat
  BY <1>3, <1>4, RectParts, ClampEffect
<1>6. points \in Seq(Nat \X Nat)
  <2>1. points \in Seq(Points) /\ Points \subseteq Nat \X Nat
    BY ListsAreLists, GfxAssumption
  <2> QED BY <2>1
<1>7. PICK s : s = CopyTo(old, src, c, points)
  OBVIOUS
<1>8. PICK w, h : w = WidthOf(c) /\ h = HeightOf(c) /\ w \in Nat /\ h \in Nat
  BY <1>5
<1>9. /\ IsSurface(s) /\ SameShape(old, s)
      /\ \A x \in CellsOf(old.size) : Missed(points, Len(points), w, h, x) => PixelOf(s, x) = PixelOf(old, x)
  BY <1>3, <1>5, <1>6, <1>7, <1>8, CopyToEffect
<1>10. PICK W : W = {x \in CellsOf(s.size) : ~Missed(points, Len(points), w, h, x)}
  OBVIOUS
<1>11. PICK o : o = Out
  OBVIOUS
<1>12. PICK none : none = {}
  OBVIOUS
<1>13. to # None /\ Good(o, to, old, none)
  BY <1>1, <1>2, <1>11, <1>12, OutIsGood DEF IInv
<1>14. Good(o, to, s, none \cup W)
  <2>1. \A x \in CellsOf(old.size) : x \notin W => PixelOf(s, x) = PixelOf(old, x)
    BY <1>9, <1>10 DEF SameShape
  <2> QED BY <1>1, <1>3, <1>9, <1>13, <2>1, WriteMakesStale
<1>15. Good(o, to, s, W) /\ W \subseteq CellsOf(s.size) /\ Mappable(s)
  BY <1>3, <1>9, <1>10, <1>12, <1>14 DEF Mappable, SameShape
<1>16. PICK p : p = FlushEach(o, to, s, w, h, points)
  OBVIOUS
<1>17. Good(p, to, s, {})
  <2>1. size \in Nat \X Nat
    BY SizesAreSizes DEF IInv
  <2>2. Good(p, to, s, {x \in W : Missed(points, Len(points), w, h, x)})
    BY <1>1, <1>6, <1>8, <1>13, <1>15, <1>16, <2>1, FlushEachEffect
  <2>3. {x \in W : Missed(points, Len(points), w, h, x)} = {}
    BY <1>10
  <2> QED BY <2>2, <2>3
<1>18. Draws(to, s, p)
  BY <1>2, <1>4, <1>7, <1>8, <1>11, <1>16 DEF SurfaceToSurface
<1> QED BY <1>1, <1>2, <1>9, <1>17, <1>18, DrawnStep DEF Drawn

LEMMA CacheToSurfaceStep ==
  ASSUME IInv, NEW slot, NEW id, NEW points \in Lists(Points), CacheToSurface(slot, id, points)
  PROVE  Drawn
<1>1. id \in DOMAIN surfaces /\ Working /\ slot \in DOMAIN cache
  BY DEF CacheToSurface, Has
<1>2. PICK entry : entry = cache[slot]
  OBVIOUS
<1>3. IsEntry(entry) /\ Mappable(surfaces[id])
  BY <1>1, <1>2 DEF IInv, Typing
<1>4. points \in Seq(Nat \X Nat)
  <2>1. points \in Seq(Points) /\ Points \subseteq Nat \X Nat
    BY ListsAreLists, GfxAssumption
  <2> QED BY <2>1
<1>5. id # None /\ Good(Out, id, surfaces[id], {})
  BY <1>1, OutIsGood DEF IInv
<1>6. size \in Nat \X Nat
  BY SizesAreSizes DEF IInv
<1>7. PICK done : done = Stamped(id, entry, points)
  OBVIOUS
<1>8. IsSurface(done.s) /\ SameShape(surfaces[id], done.s) /\ Good(done.o, id, done.s, {})
  BY <1>1, <1>3, <1>4, <1>5, <1>6, <1>7, StampedEffect
<1>9. Draws(id, done.s, done.o)
  BY <1>2, <1>7 DEF CacheToSurface
<1>10. PICK s, o : s = done.s /\ o = done.o
  OBVIOUS
<1>11. IsSurface(s) /\ SameShape(surfaces[id], s) /\ Good(o, id, s, {}) /\ Draws(id, s, o)
  BY <1>8, <1>9, <1>10
<1> QED BY <1>1, <1>11, DrawnStep DEF Drawn

-----------------------------------------------------------------------------
(* The callbacks that do not draw. *)

(* A surface that comes or goes owns nothing of the screen any more. *)
LEMMA DisownedStep ==
  ASSUME IInv, NEW id \in Ids, painter' = Disown({id}), size' = size, screen' = screen, strayed' = strayed,
         \A j \in DOMAIN surfaces : j # id => j \in DOMAIN surfaces' /\ surfaces'[j] = surfaces[j],
         \A j \in DOMAIN surfaces' : j # id => j \in DOMAIN surfaces,
         id \in DOMAIN surfaces' => surfaces'[id].origin = None
  PROVE  /\ painter' \in [CellsOf(size') -> DOMAIN surfaces' \cup {None, Gone}]
         /\ Pixels' /\ MappedIsPainted'
<1>1. /\ DOMAIN painter' = CellsOf(size)
      /\ \A c \in CellsOf(size) : painter'[c] = IF painter[c] = id THEN Gone ELSE painter[c]
      /\ painter' = [c \in CellsOf(size) |-> painter'[c]]
  BY DEF Disown, IInv, Typing
<1>2. ASSUME NEW c \in CellsOf(size)
      PROVE  painter'[c] \in DOMAIN surfaces' \cup {None, Gone}
  <2>1. painter[c] \in DOMAIN surfaces \cup {None, Gone}
    BY DEF IInv, Typing
  <2> QED BY <1>1, <2>1
<1>3. painter' \in [CellsOf(size') -> DOMAIN surfaces' \cup {None, Gone}]
  BY <1>1, <1>2
<1>4. Gone \notin Ids
  BY GfxAssumption
<1>5. ASSUME NEW c \in CellsOf(size), painter'[c] \in DOMAIN surfaces'
      PROVE  LET t == surfaces'[painter'[c]] IN
             /\ t.origin # None /\ On(t, c) \in CellsOf(t.size)
             /\ ~strayed => screen[c] = PixelOf(t, On(t, c))
  <2>1. CASE painter[c] = id
    <3>1. Gone \notin DOMAIN surfaces /\ Gone # id
      BY <1>4 DEF IInv, Typing
    <3> QED BY <1>1, <1>5, <2>1, <3>1
  <2>2. CASE painter[c] # id
    <3>1. painter'[c] = painter[c] /\ painter[c] \in DOMAIN surfaces
      BY <1>1, <1>5, <2>2
    <3>2. surfaces'[painter'[c]] = surfaces[painter[c]]
      BY <2>2, <3>1
    <3>3. PaintedBy(surfaces[painter[c]], c)
      BY <3>1 DEF IInv, Pixels, Has
    <3> QED BY <3>2, <3>3 DEF PaintedBy
  <2> QED BY <2>1, <2>2
<1>6. Pixels'
  <2>1. ASSUME NEW c \in CellsOf(size)', Has(painter[c])'
        PROVE  PaintedBy(surfaces[painter[c]], c)'
    <3>1. c \in CellsOf(size) /\ painter'[c] \in DOMAIN surfaces'
      BY <2>1 DEF CellsOf, Has
    <3>2. PICK t : t = surfaces'[painter'[c]]
      OBVIOUS
    <3>3. /\ t.origin # None /\ On(t, c) \in CellsOf(t.size)
          /\ ~strayed => screen[c] = PixelOf(t, On(t, c))
      BY <1>5, <3>1, <3>2
    <3> QED BY <3>2, <3>3 DEF PaintedBy, On, PixelOf, CellsOf
  <2> QED BY <2>1 DEF Pixels
<1>7. MappedIsPainted'
  <2>1. ASSUME NEW j \in DOMAIN surfaces', (surfaces[j].origin # None)',
               NEW c \in Covered(surfaces[j], WholeOf(surfaces[j]))'
        PROVE  painter'[c] # None
    <3>1. j # id /\ j \in DOMAIN surfaces /\ surfaces'[j] = surfaces[j]
      BY <2>1
    <3>2. c \in Covered(surfaces[j], WholeOf(surfaces[j]))
      BY <3>1 DEF Covered, WholeOf, CellsOf
    <3>3. painter[c] # None /\ c \in CellsOf(size)
      BY <2>1, <3>1, <3>2 DEF IInv, MappedIsPainted, Covered
    <3>4. Gone # None
      BY GfxAssumption
    <3> QED BY <1>1, <3>3, <3>4
  <2> QED BY <2>1 DEF MappedIsPainted
<1> QED BY <1>3, <1>6, <1>7

(* What no callback does: change the cache together with something else,   *)
(* create a surface with other pixels than it had, or change the screen    *)
(* unheard.                                                                *)
Orderly ==
    /\ cache' # cache => UNCHANGED <<surfaces, retired, size, screen>>
    /\ \A id \in Ids : /\ ~Has(id) /\ id \in DOMAIN surfaces'
                       /\ lastSeen[id] # None
                       /\ lastSeen[id].size = surfaces'[id].size
                       => surfaces'[id].px = lastSeen[id].px
    /\ screen' # screen => told' # "nothing"

LEMMA CreateSurfaceStep ==
  ASSUME IInv, NEW id \in Ids, NEW sz \in SurfaceSizes, CreateSurface(id, sz)
  PROVE  IInv' /\ Orderly
<1>1. PICK px : px = Kept(id, sz)
  OBVIOUS
<1>2. PICK s : s = Surface(sz, None, px)
  OBVIOUS
<1>3. /\ DOMAIN surfaces' = DOMAIN surfaces \cup {id} /\ surfaces'[id] = s
      /\ \A j \in DOMAIN surfaces : j # id => surfaces'[j] = surfaces[j]
      /\ DOMAIN retired' = DOMAIN retired \ {id}
      /\ \A j \in DOMAIN retired' : retired'[j] = retired[j]
      /\ lastSeen' = [lastSeen EXCEPT ![id] = None]
      /\ painter' = Disown({id}) /\ told' = "nothing"
      /\ cache' = cache /\ size' = size /\ screen' = screen /\ strayed' = strayed
  BY <1>1, <1>2 DEF CreateSurface, Put, Without, Restrict
<1>4. px \in Memory(sz)
  BY <1>1, BlankIsMemory DEF Kept, IInv, Typing, Mappable, IsSurface
<1>5. s.size = sz /\ s.origin = None /\ s.px = px
  BY <1>2 DEF Surface
<1>6. Mappable(s)
  BY <1>2, <1>4, <1>5, GfxAssumption DEF Mappable, IsSurface
<1>7. /\ painter' \in [CellsOf(size') -> DOMAIN surfaces' \cup {None, Gone}]
      /\ Pixels' /\ MappedIsPainted'
  BY <1>3, <1>5, DisownedStep
<1>8. Typing'
  <2>1. \A j \in DOMAIN surfaces' :
            j \in Ids /\ Mappable(surfaces'[j]) /\ surfaces'[j].size \in SurfaceSizes
    BY <1>3, <1>5, <1>6 DEF IInv, Typing
  <2>2. \A j \in DOMAIN retired' :
            j \in Ids /\ Mappable(retired'[j]) /\ retired'[j].size \in SurfaceSizes
    BY <1>3 DEF IInv, Typing
  <2>3. DOMAIN surfaces' \cap DOMAIN retired' = {}
    BY <1>3 DEF IInv, Typing
  <2>4. screen' \in [CellsOf(size') -> Colors]
    BY <1>3 DEF IInv, Typing
  <2> QED BY <1>3, <1>7, <2>1, <2>2, <2>3, <2>4 DEF IInv, Typing, Mappable, IsSurface, IsEntry, Source
<1>9. RetiredAsSeen'
  BY <1>3 DEF IInv, RetiredAsSeen, Has
<1>10. Orderly
  <2>1. ASSUME NEW j \in Ids, ~Has(j), j \in DOMAIN surfaces', lastSeen[j] # None,
               lastSeen[j].size = surfaces'[j].size
        PROVE  surfaces'[j].px = lastSeen[j].px
    <3>1. j = id
      BY <1>3, <2>1 DEF Has
    <3>2. id \in DOMAIN retired /\ retired[id] = lastSeen[id] /\ retired[id].size = sz
      BY <1>3, <1>5, <2>1, <3>1 DEF IInv, RetiredAsSeen
    <3>3. px = retired[id].px
      BY <1>1, <3>2 DEF Kept
    <3> QED BY <1>3, <1>5, <3>1, <3>2, <3>3
  <2> QED BY <1>3, <2>1 DEF Orderly
<1> QED BY <1>7, <1>8, <1>9, <1>10 DEF IInv

LEMMA DeleteSurfaceStep ==
  ASSUME IInv, NEW id \in Ids, DeleteSurface(id)
  PROVE  IInv' /\ Orderly
<1>1. id \in DOMAIN surfaces
  BY DEF DeleteSurface, Has
<1>2. /\ DOMAIN surfaces' = DOMAIN surfaces \ {id}
      /\ \A j \in DOMAIN surfaces' : surfaces'[j] = surfaces[j]
      /\ DOMAIN retired' = DOMAIN retired \cup {id} /\ retired'[id] = surfaces[id]
      /\ \A j \in DOMAIN retired : j # id => retired'[j] = retired[j]
      /\ lastSeen' = [lastSeen EXCEPT ![id] = surfaces[id]]
      /\ painter' = Disown({id}) /\ told' = "nothing"
      /\ cache' = cache /\ size' = size /\ screen' = screen /\ strayed' = strayed
  BY DEF DeleteSurface, Put, Without, Restrict
<1>3. /\ painter' \in [CellsOf(size') -> DOMAIN surfaces' \cup {None, Gone}]
      /\ Pixels' /\ MappedIsPainted'
  <2>1. /\ \A j \in DOMAIN surfaces : j # id => j \in DOMAIN surfaces' /\ surfaces'[j] = surfaces[j]
        /\ \A j \in DOMAIN surfaces' : j # id => j \in DOMAIN surfaces
        /\ id \in DOMAIN surfaces' => surfaces'[id].origin = None
    BY <1>2
  <2> QED BY <1>2, <2>1, DisownedStep
<1>4. Typing'
  <2>1. \A j \in DOMAIN surfaces' :
            j \in Ids /\ Mappable(surfaces'[j]) /\ surfaces'[j].size \in SurfaceSizes
    BY <1>2 DEF IInv, Typing
  <2>2. \A j \in DOMAIN retired' :
            j \in Ids /\ Mappable(retired'[j]) /\ retired'[j].size \in SurfaceSizes
    BY <1>1, <1>2 DEF IInv, Typing
  <2>3. DOMAIN surfaces' \cap DOMAIN retired' = {}
    BY <1>2 DEF IInv, Typing
  <2>4. screen' \in [CellsOf(size') -> Colors]
    BY <1>2 DEF IInv, Typing
  <2> QED BY <1>2, <1>3, <2>1, <2>2, <2>3, <2>4 DEF IInv, Typing, Mappable, IsSurface, IsEntry, Source
<1>5. RetiredAsSeen'
  BY <1>2 DEF IInv, RetiredAsSeen, Has
<1>6. Orderly
  BY <1>2 DEF Orderly, Has
<1> QED BY <1>3, <1>4, <1>5, <1>6 DEF IInv

LEMMA ResetGraphicsStep ==
  ASSUME IInv, NEW sz \in ScreenSizes, ResetGraphics(sz)
  PROVE  IInv' /\ Orderly
<1>1. /\ DOMAIN surfaces' = {}
      /\ DOMAIN retired' = DOMAIN retired \cup DOMAIN surfaces
      /\ \A j \in DOMAIN retired' : retired'[j] = IF Has(j) THEN surfaces[j] ELSE retired[j]
      /\ DOMAIN lastSeen' = Ids
      /\ \A j \in Ids : lastSeen'[j] = IF Has(j) THEN surfaces[j] ELSE lastSeen[j]
      /\ size' = sz /\ screen' = [c \in CellsOf(sz) |-> Zero]
      /\ painter' = [c \in CellsOf(sz) |-> None]
      /\ told' = "resized" /\ strayed' = strayed /\ cache' = cache
  <2>1. DOMAIN surfaces' = {}
    BY DEF ResetGraphics
  <2> QED BY <2>1 DEF ResetGraphics, RetireAll, KeepCache
<1>2. screen' \in [CellsOf(size') -> Colors]
  <2>1. Zero \in Colors
    BY GfxAssumption
  <2> QED BY <1>1, <2>1
<1>3. painter' \in [CellsOf(size') -> DOMAIN surfaces' \cup {None, Gone}]
  BY <1>1
<1>4. Typing'
  <2>1. \A j \in DOMAIN retired' :
            j \in Ids /\ Mappable(retired'[j]) /\ retired'[j].size \in SurfaceSizes
    BY <1>1 DEF IInv, Typing, Has
  <2> QED BY <1>1, <1>2, <1>3, <2>1 DEF IInv, Typing, Mappable, IsSurface, IsEntry, Source
<1>5. Pixels' /\ MappedIsPainted'
  BY <1>1 DEF Pixels, MappedIsPainted, Has
<1>6. RetiredAsSeen'
  BY <1>1 DEF IInv, Typing, RetiredAsSeen, Has
<1>7. Orderly
  BY <1>1 DEF Orderly
<1> QED BY <1>4, <1>5, <1>6, <1>7 DEF IInv

(* The cache is all that changes. *)
LEMMA CacheStep ==
  ASSUME IInv, \A k \in DOMAIN cache' : k \in Slots /\ IsEntry(cache'[k]), told' = "nothing",
         UNCHANGED <<surfaces, retired, size, screen, strayed, painter, lastSeen>>
  PROVE  IInv' /\ Orderly
<1>1. /\ surfaces' = surfaces /\ retired' = retired /\ size' = size /\ screen' = screen
      /\ strayed' = strayed /\ painter' = painter /\ lastSeen' = lastSeen
  OBVIOUS
<1>2. Typing'
  BY <1>1 DEF IInv, Typing, Mappable, IsSurface, IsEntry, Source
<1>3. Pixels'
  BY <1>1 DEF IInv, Pixels, PaintedBy, Has, On, PixelOf
<1>4. MappedIsPainted'
  BY <1>1 DEF IInv, MappedIsPainted, Covered, WholeOf
<1>5. RetiredAsSeen'
  BY <1>1 DEF IInv, RetiredAsSeen, Has
<1>6. Orderly
  BY <1>1 DEF Orderly, Has
<1> QED BY <1>2, <1>3, <1>4, <1>5, <1>6 DEF IInv

LEMMA SurfaceToCacheStep ==
  ASSUME IInv, NEW id, NEW r \in Rects, NEW slot \in Slots, SurfaceToCache(id, r, slot)
  PROVE  IInv' /\ Orderly
<1>1. id \in DOMAIN surfaces
  BY DEF SurfaceToCache, Has
<1>2. PICK s : s = surfaces[id]
  OBVIOUS
<1>3. IsSurface(s) /\ s.size \in Nat \X Nat
  BY <1>1, <1>2 DEF IInv, Typing, Mappable, IsSurface
<1>4. PICK c : c = Clamp(s.size, r)
  OBVIOUS
<1>5. /\ IsRect(c) /\ c[1] <= c[3] /\ c[2] <= c[4] /\ Inside(s.size, c)
      /\ WidthOf(c) \in Nat /\ HeightOf(c) \in Nat
  BY <1>3, <1>4, RectParts, ClampEffect
<1>6. Source(ReadRect(s, c), WidthOf(c), HeightOf(c))
  BY <1>3, <1>5, ReadEffect
<1>7. PICK entry : entry = [size |-> <<WidthOf(c), HeightOf(c)>>, px |-> ReadRect(s, c)]
  OBVIOUS
<1>8. IsEntry(entry)
  BY <1>5, <1>6, <1>7 DEF IsEntry
<1>9. cache' = Put(cache, slot, entry)
  BY <1>2, <1>4, <1>7 DEF SurfaceToCache
<1>10. \A k \in DOMAIN cache' : k \in Slots /\ IsEntry(cache'[k])
  BY <1>8, <1>9 DEF Put, IInv, Typing
<1> QED BY <1>10, CacheStep DEF SurfaceToCache

LEMMA EvictCacheEntryStep ==
  ASSUME IInv, NEW slot, EvictCacheEntry(slot)
  PROVE  IInv' /\ Orderly
<1>1. DOMAIN cache' \subseteq DOMAIN cache /\ \A k \in DOMAIN cache' : cache'[k] = cache[k]
  BY DEF EvictCacheEntry, Without, Restrict
<1>2. \A k \in DOMAIN cache' : k \in Slots /\ IsEntry(cache'[k])
  BY <1>1 DEF IInv, Typing
<1> QED BY <1>2, CacheStep DEF EvictCacheEntry

-----------------------------------------------------------------------------
(* Together. *)

LEMMA InitStep == Init => IInv
<1> SUFFICES ASSUME Init PROVE IInv
  OBVIOUS
<1>1. /\ DOMAIN surfaces = {} /\ DOMAIN retired = {} /\ DOMAIN cache = {}
  BY DEF Init
<1>2. /\ size \in ScreenSizes /\ screen = [c \in CellsOf(size) |-> Zero]
      /\ told = "nothing" /\ strayed = FALSE
      /\ painter = [c \in CellsOf(size) |-> None]
      /\ lastSeen = [id \in Ids |-> None]
  BY DEF Init
<1>3. screen \in [CellsOf(size) -> Colors]
  <2>1. Zero \in Colors
    BY GfxAssumption
  <2> QED BY <1>2, <2>1
<1>4. painter \in [CellsOf(size) -> DOMAIN surfaces \cup {None, Gone}]
  BY <1>2
<1>5. Typing
  BY <1>1, <1>2, <1>3, <1>4 DEF Typing
<1>6. Pixels /\ MappedIsPainted
  BY <1>1 DEF Pixels, MappedIsPainted, Has
<1>7. RetiredAsSeen
  BY <1>2 DEF RetiredAsSeen
<1> QED BY <1>5, <1>6, <1>7 DEF IInv

LEMMA DrawnIsOrderly ==
  ASSUME Drawn
  PROVE  IInv' /\ Orderly
BY DEF Drawn, Orderly, Has

(* One step for each callback. *)
LEMMA CallbackStep ==
  ASSUME IInv, Callback
  PROVE  IInv' /\ Orderly
<1>1. ASSUME NEW id \in Ids, NEW sz \in SurfaceSizes, CreateSurface(id, sz)
      PROVE  IInv' /\ Orderly
  BY <1>1, CreateSurfaceStep
<1>2. ASSUME NEW id \in Ids, DeleteSurface(id)
      PROVE  IInv' /\ Orderly
  BY <1>2, DeleteSurfaceStep
<1>3. ASSUME NEW id \in Ids, NEW o \in Origins, MapSurface(id, o)
      PROVE  IInv' /\ Orderly
  BY <1>3, MapSurfaceStep, DrawnIsOrderly
<1>4. ASSUME NEW sz \in ScreenSizes, ResetGraphics(sz)
      PROVE  IInv' /\ Orderly
  BY <1>4, ResetGraphicsStep
<1>5. ASSUME NEW id \in Ids, NEW r \in Rects, NEW b \in Bitmaps, BitmapUpdated(id, r, b)
      PROVE  IInv' /\ Orderly
  BY <1>5, BitmapUpdatedStep, DrawnIsOrderly
<1>6. ASSUME NEW id \in Ids, NEW r \in Rects, NEW c \in Colors, NEW all \in BOOLEAN,
             WireToSurface1(id, r, c, all)
      PROVE  IInv' /\ Orderly
  BY <1>6, WireToSurface1Step, DrawnIsOrderly
<1>7. ASSUME NEW id \in Ids, NEW u \in Streams, NEW c \in Colors, WireToSurface2(id, u, c)
      PROVE  IInv' /\ Orderly
  BY <1>7, WireToSurface2Step, DrawnIsOrderly
<1>8. ASSUME NEW id \in Ids, NEW c \in Colors, NEW rs \in Lists(Rects), SolidFill(id, c, rs)
      PROVE  IInv' /\ Orderly
  BY <1>8, SolidFillStep, DrawnIsOrderly
<1>9. ASSUME NEW from \in Ids, NEW to \in Ids, NEW r \in Rects, NEW ps \in Lists(Points),
             SurfaceToSurface(from, r, to, ps)
      PROVE  IInv' /\ Orderly
  BY <1>9, SurfaceToSurfaceStep, DrawnIsOrderly
<1>10. ASSUME NEW id \in Ids, NEW r \in Rects, NEW k \in Slots, SurfaceToCache(id, r, k)
       PROVE  IInv' /\ Orderly
  BY <1>10, SurfaceToCacheStep
<1>11. ASSUME NEW k \in Slots, NEW id \in Ids, NEW ps \in Lists(Points), CacheToSurface(k, id, ps)
       PROVE  IInv' /\ Orderly
  BY <1>11, CacheToSurfaceStep, DrawnIsOrderly
<1>12. ASSUME NEW k \in Slots, EvictCacheEntry(k)
       PROVE  IInv' /\ Orderly
  BY <1>12, EvictCacheEntryStep
<1> QED BY <1>1, <1>2, <1>3, <1>4, <1>5, <1>6, <1>7, <1>8, <1>9, <1>10, <1>11, <1>12, Zenon DEF Callback

(* Where nothing happens nothing is lost either. *)
LEMMA StutterStep ==
  ASSUME IInv, UNCHANGED vars
  PROVE  IInv' /\ Orderly
<1>1. /\ surfaces' = surfaces /\ retired' = retired /\ cache' = cache /\ size' = size
      /\ screen' = screen /\ told' = told /\ strayed' = strayed /\ painter' = painter
      /\ lastSeen' = lastSeen
  BY DEF vars, drawing, output
<1>2. Typing'
  BY <1>1 DEF IInv, Typing, Mappable, IsSurface, IsEntry, Source
<1>3. Pixels'
  BY <1>1 DEF IInv, Pixels, PaintedBy, Has, On, PixelOf
<1>4. MappedIsPainted'
  BY <1>1 DEF IInv, MappedIsPainted, Covered, WholeOf
<1>5. RetiredAsSeen'
  BY <1>1 DEF IInv, RetiredAsSeen, Has
<1>6. Orderly
  BY <1>1 DEF Orderly, Has
<1> QED BY <1>2, <1>3, <1>4, <1>5, <1>6 DEF IInv

LEMMA EveryStep ==
  ASSUME IInv, [Next]_vars
  PROVE  IInv' /\ Orderly
BY CallbackStep, StutterStep DEF Next

(* A flush that leaves its surface is never that of a clamped callback,    *)
(* and there is no callback after it.                                      *)
LEMMA ClampedStep ==
  ASSUME IInv, Clamped
  PROVE  ~strayed'
<1>1. ASSUME NEW id \in Ids, NEW o \in Origins, MapSurface(id, o)
      PROVE  ~strayed'
  BY <1>1, MapSurfaceStep
<1>2. ASSUME NEW id \in Ids, NEW r \in Rects, NEW c \in Colors, NEW all \in BOOLEAN,
             WireToSurface1(id, r, c, all)
      PROVE  ~strayed'
  BY <1>2, WireToSurface1Step
<1>3. ASSUME NEW id \in Ids, NEW u \in Streams, NEW c \in Colors, WireToSurface2(id, u, c)
      PROVE  ~strayed'
  BY <1>3, WireToSurface2Step
<1>4. ASSUME NEW id \in Ids, NEW c \in Colors, NEW rs \in Lists(Rects), SolidFill(id, c, rs)
      PROVE  ~strayed'
  BY <1>4, SolidFillStep
<1> QED BY <1>1, <1>2, <1>3, <1>4, Zenon DEF Clamped

LEMMA Always == Spec => []IInv
<1>1. IInv /\ [Next]_vars => IInv'
  BY EveryStep
<1> QED BY InitStep, <1>1, PTL DEF Spec

(* The pixel on the screen is that of the surface, cell by cell. *)
LEMMA PixelsAreShown ==
  ASSUME IInv
  PROVE  ScreenShowsSurfaces
<1>1. ASSUME ~strayed, NEW c \in DOMAIN screen, Has(painter[c])
      PROVE  LET s == surfaces[painter[c]] IN
             screen[c] = s.px[(c[2] - s.origin[2]) * s.size[1] + c[1] - s.origin[1]]
  <2>1. c \in CellsOf(size)
    BY DEF IInv, Typing
  <2>2. PICK s : s = surfaces[painter[c]]
    OBVIOUS
  <2>3. PaintedBy(s, c) /\ Mappable(s)
    BY <1>1, <2>1, <2>2 DEF IInv, Typing, Pixels, Has
  <2>4. screen[c] = s.px[(c[2] - s.origin[2]) * s.size[1] + (c[1] - s.origin[1])]
    BY <1>1, <2>3 DEF PaintedBy, On, PixelOf
  <2>5. c[1] \in Nat /\ c[2] \in Nat
    <3>1. size \in Nat \X Nat
      BY SizesAreSizes DEF IInv
    <3> QED BY <2>1, <3>1 DEF CellsOf
  <2>6. s.origin[1] \in Nat /\ s.origin[2] \in Nat /\ s.size[1] \in Nat
    BY <2>3, OriginParts DEF PaintedBy, Mappable, IsSurface
  <2>7. PICK m \in Int : m = (c[2] - s.origin[2]) * s.size[1]
    BY <2>5, <2>6
  <2>8. m + (c[1] - s.origin[1]) = m + c[1] - s.origin[1]
    BY <2>5, <2>6
  <2> QED BY <2>2, <2>4, <2>7, <2>8
<1> QED BY <1>1 DEF ScreenShowsSurfaces

(* A copy to one point moves the pixels of the region there. *)
LEMMA CopyIsExact ==
  ASSUME NEW src, IsSurface(src), NEW dst, IsSurface(dst), NEW r \in Rects, NEW p \in Points
  PROVE  LET c == Clamp(src.size, r)
             copied == CopyTo(dst, src, c, <<p>>)
         IN \A x \in CellsOf(dst.size) :
                LET y == <<x[1] - p[1] + c[1], x[2] - p[2] + c[2]>> IN
                PixelOf(copied, x) =
                    IF c[1] <= y[1] /\ y[1] < c[3] /\ c[2] <= y[2] /\ y[2] < c[4]
                    THEN PixelOf(src, y) ELSE PixelOf(dst, x)
<1>1. PICK c : c = Clamp(src.size, r)
  OBVIOUS
<1>2. src.size \in Nat \X Nat /\ dst.size \in Nat \X Nat
  BY DEF IsSurface
<1>3. /\ IsRect(c) /\ c[1] <= c[3] /\ c[2] <= c[4] /\ Inside(src.size, c)
      /\ WidthOf(c) \in Nat /\ HeightOf(c) \in Nat
  BY <1>1, <1>2, RectParts, ClampEffect
<1>4. PICK left \in Nat, top \in Nat : left = p[1] /\ top = p[2]
  BY GfxAssumption
<1>5. PICK w, h, px : w = WidthOf(c) /\ h = HeightOf(c) /\ px = ReadRect(src, c)
  OBVIOUS
<1>6. w \in Nat /\ h \in Nat /\ Source(px, w, h)
  BY <1>3, <1>5, ReadEffect
<1>7. \A a \in 0 .. w - 1, b \in 0 .. h - 1 : px[b * w + a] = PixelOf(src, <<c[1] + a, c[2] + b>>)
  BY <1>3, <1>5, ReadEffect
<1>8. PICK points : points = <<p>>
  OBVIOUS
<1>9. Len(points) = 1 /\ points[1] = p
  BY <1>8
<1>10. PICK t : t = CopyTo(dst, src, c, points)
  OBVIOUS
<1>11. t = WriteRect(dst, px, left, top, w, h)
  <2>1. PICK f : /\ f[0] = dst
                 /\ \A n \in 1 .. Len(points) : f[n] = Copied(f[n - 1], src, c, points[n])
                 /\ t = f[Len(points)]
    BY <1>9, <1>10, CopyToUnfolds
  <2>2. f[1] = Copied(f[1 - 1], src, c, points[1])
    BY <1>9, <2>1
  <2>3. t = Copied(dst, src, c, p)
    BY <1>9, <2>1, <2>2
  <2> QED BY <1>4, <1>5, <2>3 DEF Copied
<1>12. Wrote(dst, t, px, left, top, w, h)
  BY <1>6, <1>11, WriteEffect
<1>13. ASSUME NEW x \in CellsOf(dst.size),
              NEW y, y = <<x[1] - p[1] + c[1], x[2] - p[2] + c[2]>>
       PROVE  PixelOf(t, x) =
                  IF c[1] <= y[1] /\ y[1] < c[3] /\ c[2] <= y[2] /\ y[2] < c[4]
                  THEN PixelOf(src, y) ELSE PixelOf(dst, x)
  <2>1. PICK x1 \in Nat, x2 \in Nat : x1 = x[1] /\ x2 = x[2]
    BY <1>2 DEF CellsOf
  <2>2. PICK c1 \in Nat, c2 \in Nat, c3 \in Nat, c4 \in Nat :
            c1 = c[1] /\ c2 = c[2] /\ c3 = c[3] /\ c4 = c[4]
    BY <1>3 DEF IsRect
  <2>3. w = c3 - c1 /\ h = c4 - c2
    BY <1>5, <2>2 DEF WidthOf, HeightOf
  <2>4. y[1] = x1 - left + c1 /\ y[2] = x2 - top + c2
    BY <1>4, <1>13, <2>1, <2>2
  <2>5. (c[1] <= y[1] /\ y[1] < c[3] /\ c[2] <= y[2] /\ y[2] < c[4])
            <=> (left <= x1 /\ x1 < left + w /\ top <= x2 /\ x2 < top + h)
    BY <2>2, <2>3, <2>4
  <2>6. PixelOf(t, x) =
            IF left <= x1 /\ x1 < left + w /\ top <= x2 /\ x2 < top + h
            THEN px[(x2 - top) * w + x1 - left] ELSE PixelOf(dst, x)
    BY <1>12, <2>1 DEF Wrote
  <2>7. CASE left <= x1 /\ x1 < left + w /\ top <= x2 /\ x2 < top + h
    <3>1. PICK a \in 0 .. w - 1, b \in 0 .. h - 1 : a = x1 - left /\ b = x2 - top
      BY <1>6, <2>7
    <3>2. (x2 - top) * w + x1 - left = b * w + a
      <4>1. PICK m \in Nat : m = b * w
        BY <1>6, <3>1
      <4>2. m + x1 - left = m + a
        BY <3>1
      <4> QED BY <3>1, <4>1, <4>2
    <3>3. y = <<c[1] + a, c[2] + b>>
      BY <1>4, <1>13, <2>1, <2>2, <3>1
    <3>4. PixelOf(t, x) = PixelOf(src, y)
      BY <1>7, <2>6, <2>7, <3>1, <3>2, <3>3
    <3> QED BY <2>5, <2>7, <3>4
  <2>8. CASE ~(left <= x1 /\ x1 < left + w /\ top <= x2 /\ x2 < top + h)
    BY <2>5, <2>6, <2>8
  <2> QED BY <2>7, <2>8
<1> QED BY <1>1, <1>8, <1>10, <1>13

LEMMA CopiesAlwaysExact ==
  ASSUME IInv
  PROVE  CopiesAreExact
<1>1. \A id \in DOMAIN surfaces : IsSurface(surfaces[id])
  BY DEF IInv, Typing, Mappable
<1>2. ASSUME NEW from \in DOMAIN surfaces, NEW to \in DOMAIN surfaces, NEW r \in Rects, NEW p \in Points
      PROVE  LET src == surfaces[from]
                 dst == surfaces[to]
                 c == Clamp(src.size, r)
                 copied == CopyTo(dst, src, c, <<p>>)
             IN \A x \in CellsOf(dst.size) :
                    LET y == <<x[1] - p[1] + c[1], x[2] - p[2] + c[2]>> IN
                    PixelOf(copied, x) =
                        IF c[1] <= y[1] /\ y[1] < c[3] /\ c[2] <= y[2] /\ y[2] < c[4]
                        THEN PixelOf(src, y) ELSE PixelOf(dst, x)
  <2>1. PICK src, dst : src = surfaces[from] /\ dst = surfaces[to]
    OBVIOUS
  <2>2. IsSurface(src) /\ IsSurface(dst)
    BY <1>1, <2>1
  <2> QED BY <2>1, <2>2, CopyIsExact
<1> QED BY <1>2, Zenon DEF CopiesAreExact

LEMMA IInvImpliesInv == IInv => Inv
BY TypingImpliesTypeOK, PixelsAreShown, CopiesAlwaysExact DEF IInv, Inv

(* What the server draws into a mapped surface is what the user sees, for  *)
(* surfaces, rectangles, bitmaps and lists of any size: the handlers of    *)
(* gfx.rs keep the screen and the surfaces together, paint what is mapped, *)
(* and copy exactly the pixels the server names.                           *)
THEOREM SurfacesAreShown == Spec => []Inv
BY Always, IInvImpliesInv, PTL

(* What the server keeps with the client survives a RESETGRAPHICS: the     *)
(* cache changes by its own two operations only, and a surface that is     *)
(* created again with its size has the pixels it was retired with.         *)
THEOREM PicturesAreKept == Spec => ResetsKeepPictures
<1>1. IInv /\ [Next]_vars => [cache' # cache => UNCHANGED <<surfaces, retired, size, screen>>]_vars
  BY EveryStep DEF Orderly
<1>2. IInv /\ [Next]_vars =>
          [\A id \in Ids : /\ ~Has(id) /\ id \in DOMAIN surfaces'
                           /\ lastSeen[id] # None
                           /\ lastSeen[id].size = surfaces'[id].size
                           => surfaces'[id].px = lastSeen[id].px]_vars
  BY EveryStep DEF Orderly
<1> QED BY <1>1, <1>2, Always, PTL DEF Spec, ResetsKeepPictures, CacheOutlivesReset, RecreatedKeepsPixels

(* No mapping, fill or codec flushes outside its surface, whatever         *)
(* rectangles and tiles the server names, and the UI hears of every change *)
(* of the screen.                                                          *)
THEOREM FlushesStayInside == Spec => FlushesAreSound
<1>1. IInv => [strayed' => ~Clamped]_vars
  BY ClampedStep
<1>2. IInv /\ [Next]_vars => [screen' # screen => told' # "nothing"]_vars
  BY EveryStep DEF Orderly
<1> QED BY <1>1, <1>2, Always, PTL DEF Spec, FlushesAreSound, ClampedNeverStrays, ChangesAreTold
=============================================================================
