------------------------ MODULE FramePipelineProofs ------------------------
(***************************************************************************)
(* Proofs about FramePipeline, Framebuffer and the two together in         *)
(* Presentation, for every set of sizes, of buffers and of colours, every  *)
(* length of the dirty log and any number of events on the main queue.     *)
(***************************************************************************)
EXTENDS Presentation, FiniteSetTheorems, TLAPS

Blocks == {"paint", "connected", "close"}
Queued(block) == \E i \in DOMAIN mainQueue : mainQueue[i] = block
Once(block) ==
    \A i, j \in DOMAIN mainQueue : mainQueue[i] = block /\ mainQueue[j] = block => i = j

Bits == /\ fresh \in BOOLEAN /\ owed \in BOOLEAN
        /\ framePending \in BOOLEAN /\ frameDirty \in BOOLEAN /\ timer \in BOOLEAN
Places == /\ size \in Desktops
          /\ session \in {"off", "run", "coalesce", "leading", "trailing"}
          /\ mainQueue \in Seq(Blocks)
          /\ main \in {"idle", "closing", "refresh", "present"}
          /\ dims \in IF main = "present" THEN Desktops ELSE {Unknown}

(* An open window has one end ahead of it, wherever that is by now: in the *)
(* callback, with the timer or in the queue, behind the window's paint.    *)
Opening == session \in {"leading", "trailing"}
WindowEnds ==
    /\ framePending <=> Opening \/ timer \/ Queued("close")
    /\ ~(Opening /\ timer) /\ ~(Opening /\ Queued("close")) /\ ~(timer /\ Queued("close"))
PaintsInOrder ==
    /\ ~framePending \/ session = "leading" => ~Queued("paint")
    /\ \A i, j \in DOMAIN mainQueue :
           mainQueue[i] = "paint" /\ mainQueue[j] = "close" => i < j
OnceEach == Once("paint") /\ Once("close")
WindowInv == WindowEnds /\ PaintsInOrder /\ OnceEach

(* A stale screen is about to be painted, or the update is still noted.    *)
Noted == owed \/ session \in {"off", "coalesce", "leading"} \/ frameDirty
         \/ Queued("paint") \/ Queued("connected")
StaleIsNoted ==
    /\ ~fresh => Noted \/ main \in {"refresh", "present"}
    /\ main = "present" /\ dims # size => Noted

-----------------------------------------------------------------------------
(* Sequences. *)

LEMMA AppendAt ==
  ASSUME NEW S, NEW q \in Seq(S), NEW e \in S
  PROVE  /\ Append(q, e) \in Seq(S)
         /\ DOMAIN Append(q, e) = DOMAIN q \cup {Len(q) + 1}
         /\ \A i \in DOMAIN q : i \in Nat /\ i < Len(q) + 1 /\ Append(q, e)[i] = q[i]
         /\ Append(q, e)[Len(q) + 1] = e
         /\ Len(q) + 1 \notin DOMAIN q
OBVIOUS

LEMMA TailAt ==
  ASSUME NEW S, NEW q \in Seq(S), q # <<>>
  PROVE  /\ Tail(q) \in Seq(S)
         /\ \A i \in DOMAIN Tail(q) :
                /\ i \in Nat /\ i + 1 \in DOMAIN q /\ Tail(q)[i] = q[i + 1]
         /\ \A i \in DOMAIN q : i # 1 =>
                /\ i - 1 \in DOMAIN Tail(q) /\ Tail(q)[i - 1] = q[i]
         /\ 1 \in DOMAIN q /\ Head(q) = q[1] /\ Head(q) \in S
         /\ \A i \in DOMAIN q : i \in Nat /\ i >= 1
OBVIOUS

(* What the two steps on the queue do to what is queued. *)
LEMMA AppendEffect ==
  ASSUME Places, NEW b \in Blocks, mainQueue' = Append(mainQueue, b)
  PROVE  /\ mainQueue' \in Seq(Blocks)
         /\ \A c \in Blocks : Queued(c)' <=> Queued(c) \/ b = c
         /\ \A c \in Blocks : Once(c) /\ (b = c => ~Queued(c)) => Once(c)'
<1>1. mainQueue \in Seq(Blocks)
  BY DEF Places
<1> DEFINE q == mainQueue
           r == mainQueue'
           n == Len(mainQueue) + 1
<1>2. /\ r \in Seq(Blocks) /\ DOMAIN r = DOMAIN q \cup {n}
      /\ \A i \in DOMAIN q : r[i] = q[i]
      /\ r[n] = b /\ n \notin DOMAIN q
  BY <1>1, AppendAt
<1> HIDE DEF n, r
<1>3. \A c \in Blocks : Queued(c)' <=> \E i \in DOMAIN r : r[i] = c
  BY DEF Queued, r
<1>4. \A c \in Blocks : Once(c)' <=> \A i, j \in DOMAIN r : r[i] = c /\ r[j] = c => i = j
  BY DEF Once, r
<1>5. \A c \in Blocks : Queued(c)' <=> Queued(c) \/ b = c
  BY <1>2, <1>3 DEF Queued
<1>6. \A c \in Blocks : Once(c) /\ (b = c => ~Queued(c)) => Once(c)'
  BY <1>2, <1>4 DEF Queued, Once
<1> QED BY <1>2, <1>5, <1>6 DEF r

LEMMA TailEffect ==
  ASSUME Places, mainQueue # <<>>, mainQueue' = Tail(mainQueue)
  PROVE  /\ mainQueue' \in Seq(Blocks)
         /\ \A c \in Blocks : Queued(c)' => Queued(c)
         /\ \A c \in Blocks : Queued(c) /\ Head(mainQueue) # c => Queued(c)'
         /\ \A c \in Blocks : Once(c) => Once(c)'
         /\ \A c \in Blocks : Once(c) /\ Head(mainQueue) = c => Queued(c) /\ ~Queued(c)'
<1>1. mainQueue \in Seq(Blocks)
  BY DEF Places
<1> DEFINE q == mainQueue
           r == mainQueue'
<1>2. /\ r \in Seq(Blocks)
      /\ \A i \in DOMAIN r : i \in Nat /\ i + 1 \in DOMAIN q /\ r[i] = q[i + 1]
      /\ \A i \in DOMAIN q : i # 1 => i - 1 \in DOMAIN r /\ r[i - 1] = q[i]
      /\ 1 \in DOMAIN q /\ Head(q) = q[1]
      /\ \A i \in DOMAIN q : i \in Nat /\ i >= 1
      /\ \A i \in DOMAIN r : i >= 1
  <2>1. \A i \in DOMAIN r : i >= 1
    BY <1>1
  <2> QED BY <1>1, <2>1, TailAt
<1> HIDE DEF r
<1>3. \A c \in Blocks : Queued(c)' <=> \E i \in DOMAIN r : r[i] = c
  BY DEF Queued, r
<1>4. \A c \in Blocks : Once(c)' <=> \A i, j \in DOMAIN r : r[i] = c /\ r[j] = c => i = j
  BY DEF Once, r
<1>5. \A c \in Blocks : Queued(c)' => Queued(c)
  BY <1>2, <1>3 DEF Queued
<1>6. \A c \in Blocks : Queued(c) /\ Head(mainQueue) # c => Queued(c)'
  <2> SUFFICES ASSUME NEW c \in Blocks, NEW i \in DOMAIN q, q[i] = c, Head(mainQueue) # c
               PROVE  \E j \in DOMAIN r : r[j] = c
    BY <1>3 DEF Queued
  <2>1. i # 1
    BY <1>2
  <2>2. i - 1 \in DOMAIN r /\ r[i - 1] = c
    BY <1>2, <2>1
  <2> QED BY <2>2
<1>7. \A c \in Blocks : Once(c) => Once(c)'
  BY <1>2, <1>4 DEF Once
<1>8. \A c \in Blocks : Once(c) /\ Head(mainQueue) = c => Queued(c) /\ ~Queued(c)'
  <2> SUFFICES ASSUME NEW c \in Blocks, Once(c), Head(mainQueue) = c
               PROVE  Queued(c) /\ ~Queued(c)'
    OBVIOUS
  <2>1. Queued(c)
    BY <1>2 DEF Queued
  <2>2. ASSUME NEW i \in DOMAIN r, r[i] = c PROVE FALSE
    <3>1. i + 1 \in DOMAIN q /\ q[i + 1] = c /\ i + 1 # 1
      BY <1>2, <2>2
    <3>2. 1 \in DOMAIN q /\ q[1] = c
      BY <1>2
    <3> QED BY <3>1, <3>2 DEF Once
  <2> QED BY <2>1, <2>2, <1>3
<1> QED BY <1>2, <1>5, <1>6, <1>7, <1>8 DEF r

(* A window's end stays behind its paint. *)
LEMMA OrderEffect ==
  ASSUME Places, PaintsInOrder,
         \/ mainQueue # <<>> /\ mainQueue' = Tail(mainQueue)
         \/ mainQueue' = Append(mainQueue, "close")
         \/ mainQueue' = Append(mainQueue, "connected")
         \/ ~Queued("close") /\ mainQueue' = Append(mainQueue, "paint")
  PROVE  \A i, j \in DOMAIN mainQueue' :
             mainQueue'[i] = "paint" /\ mainQueue'[j] = "close" => i < j
<1> DEFINE q == mainQueue
           r == mainQueue'
<1>0. q \in Seq(Blocks)
  BY DEF Places
<1>1. \A i, j \in DOMAIN q : q[i] = "paint" /\ q[j] = "close" => i < j
  BY DEF PaintsInOrder
<1> SUFFICES \A i, j \in DOMAIN r : r[i] = "paint" /\ r[j] = "close" => i < j
  OBVIOUS
<1>2. CASE mainQueue # <<>> /\ mainQueue' = Tail(mainQueue)
  <2>1. \A i \in DOMAIN r : i \in Nat /\ i + 1 \in DOMAIN q /\ r[i] = q[i + 1]
    BY <1>0, <1>2, TailAt
  <2> HIDE DEF r
  <2> QED BY <1>1, <2>1
<1>3. ASSUME NEW b \in Blocks, r = Append(q, b), b = "paint" => ~Queued("close")
      PROVE  \A i, j \in DOMAIN r : r[i] = "paint" /\ r[j] = "close" => i < j
  <2> DEFINE n == Len(q) + 1
  <2>1. /\ DOMAIN r = DOMAIN q \cup {n}
        /\ \A i \in DOMAIN q : i \in Nat /\ i < n /\ r[i] = q[i]
        /\ r[n] = b
    BY <1>0, <1>3, AppendAt
  <2>2. b = "paint" => \A j \in DOMAIN q : q[j] # "close"
    BY <1>3 DEF Queued
  <2> HIDE DEF n, r
  <2> QED BY <1>1, <2>1, <2>2
<1> QED BY <1>2, <1>3 DEF Blocks

-----------------------------------------------------------------------------
(* Types. *)

LEMMA TypeParts == TypeOK <=> Bits /\ Places
BY DEF TypeOK, Bits, Places, Blocks

LEMMA BitsStep == Bits /\ [Next]_vars => Bits'
<1> SUFFICES ASSUME Bits, [Next]_vars PROVE Bits'
  OBVIOUS
<1> USE DEF Bits
<1>1. CASE Write \/ SessionEnds
  BY <1>1 DEF Write, SessionEnds, picture, flags
<1>2. CASE \E sz \in Sizes : ResizeDesktop(sz) \/ Connect(sz)
  BY <1>2 DEF ResizeDesktop, Connect, flags
<1>3. CASE Session
  BY <1>3 DEF Session, RaiseFrameEvent, Coalesce, QueueLeadingPaint, ScheduleTrailing,
     picture, flags
<1>4. CASE TimerDue
  BY <1>4 DEF TimerDue, picture, flags
<1>5. CASE NextBlock
  BY <1>5 DEF NextBlock, picture
<1>6. CASE TrailingPaint \/ ReadDimensions \/ Present
  BY <1>6 DEF TrailingPaint, ReadDimensions, Present, picture, flags
<1>7. CASE UNCHANGED vars
  BY <1>7 DEF vars
<1> QED BY <1>1, <1>2, <1>3, <1>4, <1>5, <1>6, <1>7 DEF Next, MainThread

LEMMA PlacesStep == Places /\ [Next]_vars => Places'
<1> SUFFICES ASSUME Places, [Next]_vars PROVE Places'
  OBVIOUS
<1>a. \A b \in Blocks : mainQueue' = Append(mainQueue, b) => mainQueue' \in Seq(Blocks)
  BY AppendEffect
<1>b. mainQueue # <<>> /\ mainQueue' = Tail(mainQueue) => mainQueue' \in Seq(Blocks)
  BY TailEffect
<1>c. "paint" \in Blocks /\ "connected" \in Blocks /\ "close" \in Blocks
  BY DEF Blocks
<1> USE <1>a, <1>b, <1>c DEF Places
<1>1. CASE Write \/ SessionEnds
  BY <1>1 DEF Write, SessionEnds, picture
<1>2. CASE \E sz \in Sizes : ResizeDesktop(sz) \/ Connect(sz)
  BY <1>2 DEF ResizeDesktop, Connect, Desktops
<1>3. CASE Session
  BY <1>3 DEF Session, RaiseFrameEvent, Coalesce, QueueLeadingPaint, ScheduleTrailing,
     picture
<1>4. CASE TimerDue
  BY <1>4 DEF TimerDue, picture
<1>5. CASE MainThread
  BY <1>5 DEF MainThread, NextBlock, TrailingPaint, ReadDimensions, Present, picture
<1>7. CASE UNCHANGED vars
  BY <1>7 DEF vars
<1> QED BY <1>1, <1>2, <1>3, <1>4, <1>5, <1>7 DEF Next

-----------------------------------------------------------------------------
(* The window. *)

(* Steps that move nothing of the window. *)
LEMMA WindowKept ==
  ASSUME WindowInv, UNCHANGED <<framePending, timer, mainQueue>>,
         \/ session' = session
         \/ session \in {"off", "run", "coalesce"} /\ session' \in {"off", "run", "coalesce"}
  PROVE  WindowInv'
<1>1. \A b \in Blocks : (Queued(b)' <=> Queued(b)) /\ (Once(b)' <=> Once(b))
  BY DEF Queued, Once
<1>2. WindowEnds'
  BY <1>1 DEF WindowInv, WindowEnds, Opening, Blocks
<1>3. PaintsInOrder'
  BY <1>1 DEF WindowInv, PaintsInOrder, Blocks
<1>4. OnceEach'
  BY <1>1 DEF WindowInv, OnceEach, Blocks
<1> QED BY <1>2, <1>3, <1>4 DEF WindowInv

(* Once(b)' and the order, when a block is queued or taken. *)
LEMMA WindowStep == Bits /\ Places /\ WindowInv /\ [Next]_vars => WindowInv'
<1> SUFFICES ASSUME Bits, Places, WindowInv, [Next]_vars PROVE WindowInv'
  OBVIOUS
<1>a. "paint" \in Blocks /\ "connected" \in Blocks /\ "close" \in Blocks
      /\ "paint" # "close" /\ "connected" # "close" /\ "connected" # "paint"
  BY DEF Blocks
<1>b. \A b \in Blocks : mainQueue' = mainQueue =>
        (Queued(b)' <=> Queued(b)) /\ (Once(b)' <=> Once(b))
  BY DEF Queued, Once
<1>c. \A b, c \in Blocks : mainQueue' = Append(mainQueue, b) =>
        /\ Queued(c)' <=> Queued(c) \/ b = c
        /\ Once(c) /\ (b = c => ~Queued(c)) => Once(c)'
  BY AppendEffect
<1> DEFINE InOrder == \A i, j \in DOMAIN mainQueue :
                        mainQueue[i] = "paint" /\ mainQueue[j] = "close" => i < j
<1>d. mainQueue' = mainQueue /\ InOrder => InOrder'
  OBVIOUS
<1>e. \/ mainQueue # <<>> /\ mainQueue' = Tail(mainQueue)
      \/ mainQueue' = Append(mainQueue, "close")
      \/ mainQueue' = Append(mainQueue, "connected")
      \/ ~Queued("close") /\ mainQueue' = Append(mainQueue, "paint")
      => InOrder'
  BY OrderEffect DEF WindowInv
<1>f. PaintsInOrder <=> (~framePending \/ session = "leading" => ~Queued("paint")) /\ InOrder
  BY DEF PaintsInOrder
<1>g. PaintsInOrder' <=> (~framePending' \/ session' = "leading" => ~Queued("paint")') /\ InOrder'
  BY DEF PaintsInOrder
<1> HIDE DEF InOrder
<1> USE DEF WindowInv, WindowEnds, OnceEach, Opening
<1>1. CASE Write \/ Coalesce \/ TrailingPaint \/ ReadDimensions \/ Present \/ UNCHANGED vars
           \/ SessionEnds \/ \E sz \in Sizes : ResizeDesktop(sz)
  <2>1. /\ UNCHANGED <<framePending, timer, mainQueue>>
        /\ \/ session' = session
           \/ session \in {"off", "run", "coalesce"} /\ session' \in {"off", "run", "coalesce"}
    BY <1>1 DEF Write, Coalesce, TrailingPaint, ReadDimensions, Present, ResizeDesktop, SessionEnds,
       vars, flags
  <2> QED BY <2>1, WindowKept
<1>2. CASE \E sz \in Sizes : Connect(sz)
  <2>1. mainQueue' = Append(mainQueue, "connected")
        /\ session = "off" /\ session' = "run" /\ UNCHANGED <<framePending, timer>>
    BY <1>2 DEF Connect, flags
  <2>2. (Queued("close")' <=> Queued("close")) /\ (Queued("paint")' <=> Queued("paint"))
        /\ (Once("close") => Once("close")') /\ (Once("paint") => Once("paint")')
    BY <2>1, <1>a, <1>c
  <2> QED BY <2>1, <2>2, <1>e, <1>f, <1>g
<1>3. CASE RaiseFrameEvent
  <2>1. /\ mainQueue' = mainQueue /\ framePending' = TRUE /\ session = "run" /\ timer' = timer
        /\ session' = IF framePending THEN "coalesce" ELSE "leading"
    BY <1>3 DEF RaiseFrameEvent
  <2>2. (Queued("close")' <=> Queued("close")) /\ (Queued("paint")' <=> Queued("paint"))
        /\ (Once("close") => Once("close")') /\ (Once("paint") => Once("paint")')
    BY <2>1, <1>a, <1>b
  <2> QED BY <2>1, <2>2, <1>d, <1>f, <1>g DEF Bits
<1>4. CASE QueueLeadingPaint
  <2>1. /\ mainQueue' = Append(mainQueue, "paint") /\ framePending' = framePending
        /\ session = "leading" /\ session' = "trailing" /\ timer' = timer
    BY <1>4 DEF QueueLeadingPaint, flags
  <2>2. ~Queued("paint") /\ ~Queued("close")
    BY <2>1, <1>f
  <2>3. (Queued("close")' <=> Queued("close"))
        /\ (Once("close") => Once("close")') /\ (Once("paint") => Once("paint")')
    BY <2>1, <2>2, <1>a, <1>c
  <2> QED BY <2>1, <2>2, <2>3, <1>e, <1>f, <1>g
<1>5. CASE ScheduleTrailing
  <2>1. /\ mainQueue' = mainQueue /\ framePending' = framePending
        /\ session = "trailing" /\ session' = "run" /\ timer' = TRUE
    BY <1>5 DEF ScheduleTrailing, flags
  <2>2. (Queued("close")' <=> Queued("close")) /\ (Queued("paint")' <=> Queued("paint"))
        /\ (Once("close") => Once("close")') /\ (Once("paint") => Once("paint")')
    BY <2>1, <1>a, <1>b
  <2> QED BY <2>1, <2>2, <1>d, <1>f, <1>g
<1>6. CASE TimerDue
  <2>1. /\ mainQueue' = Append(mainQueue, "close") /\ framePending' = framePending
        /\ session' = session /\ timer /\ ~timer'
    BY <1>6 DEF TimerDue, flags
  <2>2. Queued("close")' /\ ~Queued("close") /\ (Queued("paint")' <=> Queued("paint"))
        /\ (Once("close") => Once("close")') /\ (Once("paint") => Once("paint")')
    <3>1. ~Queued("close")
      BY <2>1
    <3> QED BY <2>1, <3>1, <1>a, <1>c
  <2> QED BY <2>1, <2>2, <1>e, <1>f, <1>g
<1>7. CASE NextBlock
  <2>1. /\ mainQueue # <<>> /\ mainQueue' = Tail(mainQueue)
        /\ session' = session /\ timer' = timer
        /\ framePending' = IF Head(mainQueue) = "close" THEN FALSE ELSE framePending
    BY <1>7 DEF NextBlock
  <2>2. \A c \in Blocks : /\ Queued(c)' => Queued(c)
                          /\ Queued(c) /\ Head(mainQueue) # c => Queued(c)'
                          /\ Once(c) => Once(c)'
                          /\ Once(c) /\ Head(mainQueue) = c => Queued(c) /\ ~Queued(c)'
    BY <2>1, TailEffect
  <2>3. CASE Head(mainQueue) = "close"
    <3>1. Queued("close") /\ ~Queued("close")' /\ Once("close")' /\ Once("paint")'
      BY <2>2, <2>3, <1>a
    <3>2. ~Queued("paint")
      <4>1. mainQueue \in Seq(Blocks)
        BY DEF Places
      <4>2. 1 \in DOMAIN mainQueue /\ mainQueue[1] = "close"
            /\ \A i \in DOMAIN mainQueue : i \in Nat /\ i >= 1
        BY <4>1, <2>1, <2>3, TailAt
      <4>3. \A i \in DOMAIN mainQueue : mainQueue[i] = "paint" => i < 1
        BY <4>2, <1>f DEF InOrder
      <4> QED BY <4>2, <4>3 DEF Queued
    <3>3. ~Queued("paint")'
      BY <3>2, <2>2, <1>a
    <3>4. ~framePending' /\ framePending /\ ~(session \in {"leading", "trailing"}) /\ ~timer
      BY <2>1, <2>3, <3>1
    <3> QED BY <2>1, <3>1, <3>3, <3>4, <1>e, <1>g
  <2>4. CASE Head(mainQueue) # "close"
    <3>1. (Queued("close")' <=> Queued("close")) /\ (Queued("paint")' => Queued("paint"))
          /\ Once("close")' /\ Once("paint")'
      BY <2>2, <2>4, <1>a
    <3> QED BY <2>1, <2>4, <3>1, <1>e, <1>f, <1>g
  <2> QED BY <2>3, <2>4
<1> QED BY <1>1, <1>2, <1>3, <1>4, <1>5, <1>6, <1>7 DEF Next, Session, MainThread

-----------------------------------------------------------------------------
(* What is noted. *)

LEMMA NotedStep == Bits /\ Places /\ StaleIsNoted /\ [Next]_vars => StaleIsNoted'
<1> SUFFICES ASSUME Bits, Places, StaleIsNoted, [Next]_vars PROVE StaleIsNoted'
  OBVIOUS
<1>a. "paint" \in Blocks /\ "connected" \in Blocks /\ "close" \in Blocks
      /\ "paint" # "close" /\ "connected" # "close" /\ "connected" # "paint"
  BY DEF Blocks
<1>b. \A b \in Blocks : mainQueue' = mainQueue => (Queued(b)' <=> Queued(b))
  BY DEF Queued
<1>c. \A b, c \in Blocks : mainQueue' = Append(mainQueue, b) =>
        (Queued(c)' <=> Queued(c) \/ b = c)
  BY AppendEffect
<1>k. ASSUME mainQueue' = mainQueue
      PROVE  (Queued("paint")' <=> Queued("paint")) /\ (Queued("connected")' <=> Queued("connected"))
  BY <1>a, <1>b, <1>k
<1> USE DEF StaleIsNoted, Noted
<1>1. CASE Write
  <2>1. owed' = TRUE
    BY <1>1 DEF Write
  <2> QED BY <2>1
<1>2. CASE \E sz \in Sizes : ResizeDesktop(sz)
  <2>1. owed' = TRUE
    BY <1>2 DEF ResizeDesktop
  <2> QED BY <2>1
<1>3. CASE \E sz \in Sizes : Connect(sz)
  <2>1. mainQueue' = Append(mainQueue, "connected")
    BY <1>3 DEF Connect
  <2>2. Queued("connected")'
    BY <2>1, <1>a, <1>c
  <2> QED BY <2>2
<1>4. CASE RaiseFrameEvent
  <2>1. session' = "coalesce" \/ session' = "leading"
    BY <1>4 DEF RaiseFrameEvent
  <2> QED BY <2>1
<1>5. CASE Coalesce
  <2>1. frameDirty' = TRUE
    BY <1>5 DEF Coalesce
  <2> QED BY <2>1
<1>6. CASE QueueLeadingPaint
  <2>1. mainQueue' = Append(mainQueue, "paint")
    BY <1>6 DEF QueueLeadingPaint
  <2>2. Queued("paint")'
    BY <2>1, <1>a, <1>c
  <2> QED BY <2>2
<1>7. CASE ScheduleTrailing
  <2>1. /\ UNCHANGED <<picture, owed, flags, main, dims, mainQueue>>
        /\ session = "trailing"
    BY <1>7 DEF ScheduleTrailing
  <2> QED BY <2>1, <1>k DEF picture, flags
<1>8. CASE TimerDue
  <2>1. mainQueue' = Append(mainQueue, "close")
        /\ UNCHANGED <<picture, owed, session, flags, main, dims>>
    BY <1>8 DEF TimerDue
  <2>2. (Queued("paint")' <=> Queued("paint")) /\ (Queued("connected")' <=> Queued("connected"))
    BY <2>1, <1>a, <1>c
  <2> QED BY <2>1, <2>2 DEF picture, flags
<1>9. CASE NextBlock
  <2>1. /\ mainQueue # <<>> /\ mainQueue' = Tail(mainQueue) /\ main = "idle"
        /\ main' = IF Head(mainQueue) = "close" THEN "closing" ELSE "refresh"
        /\ UNCHANGED <<picture, owed, session, frameDirty>>
    BY <1>9 DEF NextBlock
  <2>2. \A c \in Blocks : Queued(c) /\ Head(mainQueue) # c => Queued(c)'
    BY <2>1, TailEffect
  <2>3. CASE Head(mainQueue) = "close"
    BY <2>1, <2>2, <2>3, <1>a DEF picture
  <2>4. CASE Head(mainQueue) # "close"
    BY <2>1, <2>4
  <2> QED BY <2>3, <2>4
<1>10. CASE TrailingPaint
  <2>1. /\ main = "closing" /\ main' = IF frameDirty THEN "refresh" ELSE "idle"
        /\ UNCHANGED <<picture, owed, session, mainQueue>>
    BY <1>10 DEF TrailingPaint
  <2> QED BY <2>1, <1>k DEF picture
<1>11. CASE ReadDimensions
  <2>1. main' = "present" /\ dims' = size /\ UNCHANGED picture
    BY <1>11 DEF ReadDimensions
  <2> QED BY <2>1 DEF picture
<1>12. CASE Present
  <2>1. /\ main = "present" /\ main' = "idle"
        /\ dims = size => fresh'
        /\ UNCHANGED <<size, owed, session, flags, mainQueue>>
    BY <1>12 DEF Present
  <2> QED BY <2>1, <1>k DEF flags
<1>13. CASE UNCHANGED vars
  BY <1>13, <1>k DEF vars
<1>14. CASE SessionEnds
  <2>1. session' = "off" /\ UNCHANGED <<picture, main, dims>>
    BY <1>14 DEF SessionEnds
  <2> QED BY <2>1 DEF picture
<1> QED BY <1>1, <1>2, <1>3, <1>4, <1>5, <1>6, <1>7, <1>8, <1>9, <1>10, <1>11, <1>12, <1>13, <1>14
    DEF Next, Session, MainThread

-----------------------------------------------------------------------------
(***************************************************************************)
(* The inductive invariant: the window's end and its paint are queued once *)
(* and in order, and what the screen lacks is noted somewhere.             *)
(***************************************************************************)
IInv == Bits /\ Places /\ WindowInv /\ StaleIsNoted

LEMMA InitIInv == Init => IInv
<1> SUFFICES ASSUME Init PROVE IInv
  OBVIOUS
<1>1. Bits
  BY DEF Init, Bits
<1>2. Places
  BY DEF Init, Places, Desktops
<1>3. mainQueue = <<>> /\ \A b \in Blocks : ~Queued(b) /\ Once(b)
  BY DEF Init, Queued, Once
<1>4. WindowInv
  BY <1>3 DEF Init, WindowInv, WindowEnds, Opening, PaintsInOrder, OnceEach, Blocks
<1>5. StaleIsNoted
  BY DEF Init, StaleIsNoted
<1> QED BY <1>1, <1>2, <1>4, <1>5 DEF IInv

LEMMA Inductive == Spec => []IInv
<1>1. IInv /\ [Next]_vars => IInv'
  BY BitsStep, PlacesStep, WindowStep, NotedStep DEF IInv
<1> QED BY InitIInv, <1>1, PTL DEF Spec

(* A block that is queued at most once makes a set of at most one place.   *)
LEMMA WaitingAtMostOnce ==
  ASSUME NEW block, Once(block)
  PROVE  /\ Waiting(block) \in {0, 1}
         /\ Waiting(block) = 1 => Queued(block)
<1> DEFINE W == {i \in DOMAIN mainQueue : mainQueue[i] = block}
<1>1. CASE W = {}
  BY <1>1, FS_EmptySet DEF Waiting
<1>2. CASE W # {}
  <2>1. PICK i \in W : TRUE
    BY <1>2
  <2>2. W = {i}
    BY <2>1 DEF Once
  <2>3. Cardinality(W) = 1
    BY <2>2, FS_Singleton
  <2> QED BY <2>1, <2>3 DEF Waiting, Queued
<1> QED BY <1>1, <1>2

(***************************************************************************)
(* Every reachable state of the frame pipeline is well typed.              *)
(***************************************************************************)
THEOREM TypeCorrect == Spec => []TypeOK
BY Inductive, TypeParts, PTL DEF IInv

(***************************************************************************)
(* However fast frames arrive, one paint of a window and one end of it     *)
(* wait on the main queue at most: start_session's two flags bound the     *)
(* work it gives the main thread.                                          *)
(***************************************************************************)
THEOREM QueueStaysShort == Spec => []MainQueueNotFlooded
<1>1. ASSUME IInv PROVE MainQueueNotFlooded
  <2>1. Once("paint") /\ Once("close")
    BY <1>1 DEF IInv, WindowInv, OnceEach
  <2>2. Waiting("paint") \in {0, 1} /\ Waiting("close") \in {0, 1}
        /\ (Waiting("close") = 1 => Queued("close"))
    BY <2>1, WaitingAtMostOnce
  <2>3. timer => ~Queued("close")
    BY <1>1 DEF IInv, WindowInv, WindowEnds
  <2> QED BY <2>2, <2>3 DEF MainQueueNotFlooded
<1> QED BY <1>1, Inductive, PTL

(***************************************************************************)
(* When both threads are at rest and the screen lacks an update, also one  *)
(* that raced a resize, frame_dirty says so.                               *)
(***************************************************************************)
THEOREM MissedUpdateStaysMarked == Spec => []MissedUpdateIsMarked
<1>1. ASSUME IInv PROVE MissedUpdateIsMarked
  <2> SUFFICES ASSUME AtRest, ~fresh PROVE frameDirty
    BY DEF MissedUpdateIsMarked
  <2>1. mainQueue = <<>> /\ session = "run" /\ ~owed /\ main = "idle"
    BY DEF AtRest
  <2>2. ~Queued("paint") /\ ~Queued("connected")
    BY <2>1 DEF Queued
  <2> QED BY <1>1, <2>1, <2>2 DEF IInv, StaleIsNoted, Noted
<1> QED BY <1>1, Inductive, PTL

-----------------------------------------------------------------------------
(* What a repaint copies: SharedFramebuffer, for every pool of buffers and *)
(* every length of the dirty log.                                          *)

-----------------------------------------------------------------------------
(* Offsets: cells of the desktop have distinct places in a wide enough row. *)

LEMMA MulMonotone ==
  ASSUME NEW a \in Nat, NEW b \in Nat, NEW w \in Nat, a <= b
  PROVE  a * w <= b * w
<1> DEFINE d == b - a
<1>1. d \in Nat /\ b = a + d
  OBVIOUS
<1>2. d * w \in Nat /\ a * w \in Nat
  BY <1>1
<1> HIDE DEF d
<1>3. (a + d) * w = a * w + d * w
  BY <1>1
<1> QED BY <1>1, <1>2, <1>3

LEMMA OffsetInjective ==
  ASSUME NEW sz \in Nat \X Nat, NEW stride \in Nat, sz[1] <= stride,
         NEW c \in Cells(sz), NEW d \in Cells(sz),
         Offset(stride, c) = Offset(stride, d)
  PROVE  c = d
<1>1. /\ c[1] \in Nat /\ d[1] \in Nat /\ c[2] \in Nat /\ d[2] \in Nat
      /\ c[1] < stride /\ d[1] < stride
      /\ c = <<c[1], c[2]>> /\ d = <<d[1], d[2]>>
  BY DEF Cells
<1>2. c[2] * stride + c[1] = d[2] * stride + d[1]
  BY DEF Offset
<1>3. ASSUME NEW x \in Nat, NEW y \in Nat, x < y
      PROVE  x * stride + stride <= y * stride
  <2>1. (x + 1) * stride <= y * stride
    BY <1>3, MulMonotone
  <2>2. (x + 1) * stride = x * stride + stride
    OBVIOUS
  <2> QED BY <2>1, <2>2
<1>4. c[2] * stride \in Nat /\ d[2] * stride \in Nat
  BY <1>1
<1>5. ~(c[2] < d[2]) /\ ~(d[2] < c[2])
  BY <1>1, <1>2, <1>3, <1>4
<1>6. c[2] = d[2]
  BY <1>1, <1>5
<1>7. c[1] = d[1]
  BY <1>1, <1>2, <1>4, <1>6
<1> QED BY <1>1, <1>6, <1>7

LEMMA OffsetInRange ==
  ASSUME NEW sz \in Nat \X Nat, NEW stride \in Nat, NEW n \in Nat,
         (sz[2] - 1) * stride + sz[1] <= n, NEW c \in Cells(sz)
  PROVE  Offset(stride, c) \in 0 .. n - 1
<1>1. /\ c[1] \in Nat /\ c[2] \in Nat /\ c[1] <= sz[1] - 1 /\ c[2] <= sz[2] - 1
      /\ sz[1] \in Nat /\ sz[2] - 1 \in Nat
  BY DEF Cells
<1>2. c[2] * stride <= (sz[2] - 1) * stride
  BY <1>1, MulMonotone
<1>3. c[2] * stride \in Nat /\ (sz[2] - 1) * stride \in Nat
  BY <1>1
<1> HIDE DEF Cells
<1> QED BY <1>1, <1>2, <1>3 DEF Offset

-----------------------------------------------------------------------------
LEMMA EntryOfLog ==
  ASSUME dirty \in Seq(Entries)
  PROVE  \A i \in DOMAIN dirty : dirty[i] \in Entries /\ dirty[i].gen \in Nat
<1>1. \A i \in DOMAIN dirty : dirty[i] \in Entries
  OBVIOUS
<1> QED BY <1>1 DEF Entries

(***************************************************************************)
(* The inductive invariant: nothing in the log is from the future, no full *)
(* copy is due only while the framebuffer has never been sized, and the    *)
(* log covers what stale buffers have missed.                              *)
(***************************************************************************)
LogIsPast == \A i \in DOMAIN dirty : dirty[i].gen <= generation
NeverSized == fullDirty = 0 => size = <<0, 0>>

BufferInv == BufferTypeOK /\ LogIsPast /\ NeverSized /\ LogCoversStale

(* Copying cells into memory that has room for them. *)
LEMMA CopiedEffect ==
  ASSUME BufferTypeOK, NEW n \in Nat, NEW m \in [0 .. n - 1 -> Colors],
         NEW stride \in Nat, size[1] <= stride,
         (size[2] - 1) * stride + size[1] <= n,
         NEW cells \in SUBSET Cells(size)
  PROVE  /\ Copied(m, stride, cells) \in [0 .. n - 1 -> Colors]
         /\ \A c \in Cells(size) :
              Copied(m, stride, cells)[Offset(stride, c)] =
                IF c \in cells THEN pixels[c] ELSE m[Offset(stride, c)]
<1> DEFINE r == Copied(m, stride, cells)
<1>1. size \in Nat \X Nat /\ pixels \in [Cells(size) -> Colors]
  BY FramebufferAssumption, DesktopAssumption DEF Desktops, Unsized, BufferTypeOK
<1>2. r \in [0 .. n - 1 -> Colors]
  <2>1. ASSUME NEW o \in 0 .. n - 1, \E c \in cells : Offset(stride, c) = o
        PROVE  pixels[CHOOSE c \in cells : Offset(stride, c) = o] \in Colors
    BY <1>1, <2>1
  <2> QED BY <2>1 DEF Copied
<1>3. ASSUME NEW c \in Cells(size)
      PROVE  r[Offset(stride, c)] =
               IF c \in cells THEN pixels[c] ELSE m[Offset(stride, c)]
  <2> DEFINE o == Offset(stride, c)
  <2>1. o \in DOMAIN m
    BY <1>1, OffsetInRange
  <2>2. \A d \in cells : Offset(stride, d) = o => d = c
    BY <1>1, OffsetInjective
  <2> HIDE DEF o
  <2>3. CASE c \in cells
    <3>1. Offset(stride, c) = o
      BY DEF o
    <3>2. (CHOOSE d \in cells : Offset(stride, d) = o) = c
      BY <2>2, <2>3, <3>1
    <3> QED BY <2>1, <2>3, <3>1, <3>2 DEF Copied, o
  <2>4. CASE c \notin cells
    <3>1. ~\E d \in cells : Offset(stride, d) = o
      BY <2>2, <2>4
    <3> QED BY <2>1, <2>4, <3>1 DEF Copied, o
  <2> QED BY <2>3, <2>4
<1> QED BY <1>2, <1>3

(* A buffer that can be used has room for the whole desktop. *)
LEMMA UsableHasRoom ==
  ASSUME BufferTypeOK, NEW b \in Buffers, Usable(b)
  PROVE  /\ Stride(b) \in Nat /\ size[1] <= Stride(b)
         /\ \E n \in Lengths(b) \cap Nat :
              /\ data[b] \in [0 .. n - 1 -> Colors]
              /\ (size[2] - 1) * Stride(b) + size[1] <= n
<1>1. /\ size \in Nat \X Nat /\ size[1] \in Nat /\ size[2] \in Nat
      /\ size \in Sizes \cup {<<0, 0>>}
  BY FramebufferAssumption, DesktopAssumption DEF Desktops, Unsized, BufferTypeOK
<1>2. PICK n \in Lengths(b) : data[b] \in [0 .. n - 1 -> Colors]
  BY DEF BufferTypeOK
<1>3. CASE b \in Vecs
  <2>1. Area(size) \in Nat /\ (size[2] - 1) * size[1] + size[1] = Area(size)
    BY <1>1 DEF Area
  <2>2. Area(size) \in Lengths(b)
    BY <1>1, <1>3 DEF Lengths, Area
  <2>3. data[b] \in [0 .. Area(size) - 1 -> Colors]
    BY <1>2, <1>3 DEF Usable
  <2> QED BY <1>1, <1>3, <2>1, <2>2, <2>3 DEF Stride
<1>4. CASE b \notin Vecs
  <2>1. b \in Surfaces /\ Geometry[b] \in Nat \X Nat
    BY <1>4, FramebufferAssumption, DesktopAssumption DEF Desktops, Unsized, Buffers
  <2>2. n = Area(Geometry[b]) /\ n \in Nat
    BY <1>2, <1>4, <2>1 DEF Lengths, Area
  <2> QED BY <1>1, <1>2, <1>4, <2>1, <2>2 DEF Stride, Usable, Fits, HasRoom
<1> QED BY <1>3, <1>4

-----------------------------------------------------------------------------
LEMMA BufferStart == BufferInit => BufferInv
<1> SUFFICES ASSUME BufferInit PROVE BufferInv
  OBVIOUS
<1>1. size = <<0, 0>> /\ Cells(size) = {}
  BY DEF BufferInit, Cells, Unsized
<1>2. BufferTypeOK
  <2>1. \A b \in Buffers : FreshLength(b) \in Lengths(b)
    BY DEF FreshLength, Lengths
  <2>2. \A b \in Buffers : data[b] \in [0 .. FreshLength(b) - 1 -> Colors]
    BY FramebufferAssumption, DesktopAssumption
      DEF Desktops, Unsized, BufferInit, Blank
  <2>3. /\ size \in Sizes \cup {<<0, 0>>}
        /\ pixels \in [Cells(size) -> Colors]
        /\ generation \in Nat /\ dirty = <<>> /\ fullDirty \in 0 .. generation
        /\ DOMAIN data = Buffers /\ synced \in [Buffers -> 0 .. generation]
    BY <1>1, FramebufferAssumption, DesktopAssumption
      DEF Desktops, Unsized, BufferInit
  <2> QED BY <2>1, <2>2, <2>3, FramebufferAssumption, DesktopAssumption
    DEF Desktops, Unsized, BufferTypeOK
<1>3. LogIsPast /\ NeverSized /\ LogCoversStale
  BY <1>1 DEF BufferInit, LogIsPast, NeverSized, LogCoversStale
<1> QED BY <1>2, <1>3 DEF BufferInv

LEMMA BufferResizeStep ==
  ASSUME BufferInv, NEW sz \in Sizes, Resize(sz)
  PROVE  BufferInv'
<1>1. /\ generation \in Nat /\ generation' = generation + 1
      /\ fullDirty' = generation + 1 /\ dirty' = <<>> /\ size' = sz
      /\ UNCHANGED <<data, synced>> /\ synced \in [Buffers -> 0 .. generation]
  BY DEF BufferInv, BufferTypeOK, Resize
<1>2. BufferTypeOK'
  <2>1. pixels' \in [Cells(size') -> Colors]
    BY FramebufferAssumption, DesktopAssumption DEF Desktops, Unsized, Resize
  <2>2. synced' \in [Buffers -> 0 .. generation']
    BY <1>1
  <2> QED BY <1>1, <2>1, <2>2, FramebufferAssumption, DesktopAssumption
    DEF Desktops, Unsized, BufferInv, BufferTypeOK
<1>3. \A b \in Buffers : ~(synced'[b] >= fullDirty')
  BY <1>1
<1> QED BY <1>1, <1>2, <1>3 DEF BufferInv, LogIsPast, NeverSized, LogCoversStale

LEMMA BufferPaintStep ==
  ASSUME BufferInv, NEW cells \in SUBSET Cells(size), NEW color \in Colors,
         Paint(cells, color)
  PROVE  BufferInv'
<1>1. /\ generation \in Nat /\ generation' = generation + 1
      /\ UNCHANGED <<size, data, synced>> /\ synced \in [Buffers -> 0 .. generation]
      /\ dirty \in Seq(Entries)
      /\ pixels' = [c \in Cells(size) |-> IF c \in cells THEN color ELSE pixels[c]]
      /\ fullDirty \in 0 .. generation /\ Len(dirty) <= MaxDirtyEntries
  BY DEF BufferInv, BufferTypeOK, Paint, MarkDirty
<1>2. pixels' \in [Cells(size) -> Colors] /\ synced' \in [Buffers -> 0 .. generation']
  BY <1>1 DEF BufferInv, BufferTypeOK
<1>3. CASE dirty' = <<>> /\ fullDirty' = generation'
  <2>1. BufferTypeOK'
    BY <1>1, <1>2, <1>3, FramebufferAssumption, DesktopAssumption
      DEF Desktops, Unsized, BufferInv, BufferTypeOK
  <2>2. \A b \in Buffers : ~(synced'[b] >= fullDirty')
    BY <1>1, <1>3
  <2> QED
    BY <1>1, <1>3, <2>1, <2>2 DEF BufferInv, LogIsPast, NeverSized, LogCoversStale
<1>4. CASE /\ ~(Len(dirty) >= MaxDirtyEntries)
           /\ dirty' = Append(dirty, [gen |-> generation', cells |-> cells])
           /\ UNCHANGED fullDirty
  <2> DEFINE e == [gen |-> generation', cells |-> cells]
  <2>1. /\ dirty' \in Seq(Entries)
        /\ Len(dirty') = Len(dirty) + 1
        /\ \A i \in DOMAIN dirty : i \in DOMAIN dirty' /\ dirty'[i] = dirty[i]
        /\ Len(dirty) + 1 \in DOMAIN dirty' /\ dirty'[Len(dirty) + 1] = e
        /\ \A i \in DOMAIN dirty' : i \in DOMAIN dirty \/ i = Len(dirty) + 1
    <3>1. e \in Entries
      BY <1>1 DEF Entries
    <3> HIDE DEF e
    <3> QED BY <1>1, <1>4, <3>1 DEF e
  <2>2. BufferTypeOK'
    <3>1. Entries' = Entries
      BY <1>1 DEF Entries
    <3>2. Len(dirty') <= MaxDirtyEntries
      BY <1>1, <1>4, <2>1, FramebufferAssumption, DesktopAssumption
        DEF Desktops, Unsized
    <3> QED BY <1>1, <1>2, <1>4, <2>1, <3>1, <3>2 DEF BufferInv, BufferTypeOK
  <2>3. LogIsPast' /\ NeverSized'
    <3>1. \A i \in DOMAIN dirty : dirty[i] \in Entries /\ dirty[i].gen \in Nat
      BY <1>1, EntryOfLog
    <3>2. \A i \in DOMAIN dirty : dirty[i].gen <= generation'
      BY <1>1, <3>1 DEF BufferInv, LogIsPast
    <3>3. e.gen <= generation'
      BY <1>1
    <3> HIDE DEF e
    <3> QED BY <1>1, <1>4, <2>1, <3>2, <3>3 DEF BufferInv, LogIsPast, NeverSized
  <2>4. LogCoversStale'
    <3>1. ASSUME NEW b \in Buffers, Usable(b), synced[b] >= fullDirty,
                 NEW c \in Cells(size)
          PROVE  \/ data[b][Offset(Stride(b), c)] = pixels'[c]
                 \/ c \in ChangedSince(synced[b])'
      <4>1. CASE c \in cells
        BY <1>1, <2>1, <4>1 DEF ChangedSince
      <4>2. CASE c \notin cells
        <5>1. pixels'[c] = pixels[c]
          BY <1>1, <4>2
        <5>2. c \in ChangedSince(synced[b]) => c \in ChangedSince(synced[b])'
          BY <1>1, <2>1 DEF ChangedSince
        <5> QED BY <3>1, <5>1, <5>2 DEF BufferInv, LogCoversStale
      <4> QED BY <4>1, <4>2
    <3> QED BY <1>1, <1>4, <3>1 DEF LogCoversStale, Usable, Fits, Stride
  <2> QED BY <2>2, <2>3, <2>4 DEF BufferInv
<1> QED BY <1>3, <1>4 DEF Paint, MarkDirty

(* What presenting leaves in the buffer, whichever kind it is. *)
LEMMA PresentedStep ==
  ASSUME BufferInv, NEW b \in Buffers, UNCHANGED inner,
         NEW m, data' = [data EXCEPT ![b] = m],
         \E n \in Lengths(b) : m \in [0 .. n - 1 -> Colors],
         Usable(b)' => \A c \in Cells(size) : m[Offset(Stride(b), c)] = pixels[c],
         synced' = [synced EXCEPT ![b] = generation]
  PROVE  BufferInv'
<1>1. /\ DOMAIN data = Buffers /\ synced \in [Buffers -> 0 .. generation]
      /\ generation \in Nat
  BY DEF BufferInv, BufferTypeOK
<1>2. data'[b] = m /\ \A d \in Buffers \ {b} : data'[d] = data[d] /\ synced'[d] = synced[d]
  BY <1>1
<1>3. BufferTypeOK'
  <2>1. \A d \in Buffers : \E n \in Lengths(d) : data'[d] \in [0 .. n - 1 -> Colors]
    BY <1>2 DEF BufferInv, BufferTypeOK
  <2>2. DOMAIN data' = Buffers /\ synced' \in [Buffers -> 0 .. generation']
    BY <1>1 DEF inner
  <2> QED BY <2>1, <2>2 DEF BufferInv, BufferTypeOK, Entries, inner
<1>4. LogCoversStale'
  <2>1. \A d \in Buffers \ {b} : Usable(d)' = Usable(d)
    BY <1>2 DEF Usable, inner, Fits
  <2>2. \A d : Stride(d)' = Stride(d)
    BY DEF Stride, inner
  <2>3. \A d \in Buffers \ {b} : ChangedSince(synced[d])' = ChangedSince(synced[d])
    BY <1>2 DEF ChangedSince, inner
  <2>4. ASSUME NEW d \in Buffers, Usable(d)', synced'[d] >= fullDirty,
               NEW c \in Cells(size)
        PROVE  \/ data'[d][Offset(Stride(d), c)] = pixels[c]
               \/ c \in ChangedSince(synced[d])'
    <3>1. CASE d = b
      BY <1>2, <2>4, <3>1
    <3>2. CASE d # b
      BY <1>2, <2>1, <2>3, <2>4, <3>2 DEF BufferInv, LogCoversStale
    <3> QED BY <3>1, <3>2
  <2>5. /\ size' = size /\ pixels' = pixels /\ fullDirty' = fullDirty
        /\ Cells(size)' = Cells(size) /\ Buffers' = Buffers
    BY DEF inner, Buffers, Cells
  <2>6. ASSUME NEW d \in Buffers', Usable(d)', (synced[d] >= fullDirty)',
               NEW c \in Cells(size)'
        PROVE  (\/ data[d][Offset(Stride(d), c)] = pixels[c]
                \/ c \in ChangedSince(synced[d]))'
    <3>1. Offset(Stride(d), c)' = Offset(Stride(d), c)
      BY <2>2 DEF Offset
    <3> QED BY <2>4, <2>5, <2>6, <3>1
  <2> QED BY <2>6 DEF LogCoversStale
<1> QED BY <1>3, <1>4 DEF BufferInv, LogIsPast, NeverSized, inner

LEMMA PresentSurfaceStep ==
  ASSUME BufferInv, NEW s \in Surfaces, PresentSurface(s)
  PROVE  BufferInv'
<1> DEFINE cells == IF synced[s] < fullDirty THEN Cells(size)
                    ELSE ChangedSince(synced[s])
           m == Copied(data[s], Geometry[s][1], cells)
<1>1. /\ s \in Buffers /\ s \notin Vecs /\ Usable(s) /\ Stride(s) = Geometry[s][1]
      /\ BufferTypeOK /\ synced[s] \in Int /\ fullDirty \in Int
  BY FramebufferAssumption, DesktopAssumption
    DEF Desktops, Unsized, Buffers, PresentSurface, Usable, Stride,
         BufferInv, BufferTypeOK
<1>2. PICK n \in Lengths(s) \cap Nat :
        /\ data[s] \in [0 .. n - 1 -> Colors]
        /\ (size[2] - 1) * Stride(s) + size[1] <= n
  BY <1>1, UsableHasRoom
<1>3. cells \in SUBSET Cells(size)
  BY DEF ChangedSince
<1>4. /\ m \in [0 .. n - 1 -> Colors]
      /\ \A c \in Cells(size) :
           m[Offset(Stride(s), c)] =
             IF c \in cells THEN pixels[c] ELSE data[s][Offset(Stride(s), c)]
  <2> HIDE DEF cells
  <2> QED BY <1>1, <1>2, <1>3, UsableHasRoom, CopiedEffect
<1>5. \A c \in Cells(size) :
        c \in cells \/ data[s][Offset(Stride(s), c)] = pixels[c]
  BY <1>1 DEF BufferInv, LogCoversStale
<1>6. data' = [data EXCEPT ![s] = m] /\ UNCHANGED inner
      /\ synced' = [synced EXCEPT ![s] = generation]
  BY DEF PresentSurface
<1> HIDE DEF m, cells
<1>7. \A c \in Cells(size) : m[Offset(Stride(s), c)] = pixels[c]
  BY <1>4, <1>5
<1> QED BY <1>1, <1>2, <1>4, <1>6, <1>7, PresentedStep

LEMMA PresentVecStep ==
  ASSUME BufferInv, NEW b \in Vecs, PresentVec(b)
  PROVE  BufferInv'
<1> DEFINE full == DOMAIN data[b] # 0 .. Area(size) - 1 \/ synced[b] < fullDirty
           n == Area(size)
           base == IF full THEN Blank(n) ELSE data[b]
           cells == IF full THEN Cells(size) ELSE ChangedSince(synced[b])
           m == Copied(base, size[1], cells)
<1>1. /\ b \in Buffers /\ Stride(b) = size[1] /\ BufferTypeOK
      /\ size \in Sizes \cup {<<0, 0>>} /\ size \in Nat \X Nat
      /\ size[1] \in Nat /\ size[2] \in Nat
      /\ synced[b] \in Int /\ fullDirty \in Int
  BY FramebufferAssumption, DesktopAssumption
    DEF Desktops, Unsized, Buffers, Stride, BufferInv, BufferTypeOK
<1>2. n \in Lengths(b) /\ n \in Nat /\ (size[2] - 1) * size[1] + size[1] = n
  BY <1>1 DEF Lengths, Area
<1>3. base \in [0 .. n - 1 -> Colors]
  <2>1. CASE full
    BY <2>1, FramebufferAssumption, DesktopAssumption DEF Desktops, Unsized, Blank
  <2>2. CASE ~full
    <3>1. PICK k \in Lengths(b) : data[b] \in [0 .. k - 1 -> Colors]
      BY <1>1 DEF BufferTypeOK
    <3>2. 0 .. k - 1 = 0 .. n - 1
      BY <2>2, <3>1
    <3> QED BY <2>2, <3>1, <3>2
  <2> QED BY <2>1, <2>2
<1>4. cells \in SUBSET Cells(size)
  BY DEF ChangedSince
<1>5. /\ m \in [0 .. n - 1 -> Colors]
      /\ \A c \in Cells(size) :
           m[Offset(size[1], c)] =
             IF c \in cells THEN pixels[c] ELSE base[Offset(size[1], c)]
  <2> HIDE DEF cells, base, n
  <2> DEFINE w == size[1]
  <2>1. (size[2] - 1) * w + size[1] <= n /\ n \in Nat /\ w \in Nat /\ size[1] <= w
    BY <1>1, <1>2
  <2>2. BufferTypeOK
    BY <1>1
  <2> HIDE DEF w
  <2>3. /\ Copied(base, w, cells) \in [0 .. n - 1 -> Colors]
        /\ \A c \in Cells(size) :
             Copied(base, w, cells)[Offset(w, c)] =
               IF c \in cells THEN pixels[c] ELSE base[Offset(w, c)]
    BY <1>3, <1>4, <2>1, <2>2, CopiedEffect
  <2> QED BY <2>3 DEF w
<1>6. \A c \in Cells(size) : c \in cells \/ base[Offset(size[1], c)] = pixels[c]
  <2>1. CASE full
    BY <2>1
  <2>2. CASE ~full
    <3>1. Usable(b) /\ synced[b] >= fullDirty
      BY <1>1, <2>2 DEF Usable
    <3> QED BY <1>1, <2>2, <3>1 DEF BufferInv, LogCoversStale
  <2> QED BY <2>1, <2>2
<1>7. data' = [data EXCEPT ![b] = m] /\ UNCHANGED inner
      /\ synced' = [synced EXCEPT ![b] = generation]
  <2>1. DOMAIN data = Buffers
    BY DEF BufferInv, BufferTypeOK
  <2> QED BY <1>1, <2>1 DEF PresentVec
<1> HIDE DEF m, cells, base, n, full
<1>8. \A c \in Cells(size) : m[Offset(Stride(b), c)] = pixels[c]
  BY <1>1, <1>5, <1>6
<1> QED BY <1>1, <1>2, <1>5, <1>7, <1>8, PresentedStep

LEMMA RecycleStep ==
  ASSUME BufferInv, NEW b \in Buffers, Recycle(b)
  PROVE  BufferInv'
<1>1. /\ DOMAIN data = Buffers /\ synced \in [Buffers -> 0 .. generation]
      /\ generation \in Nat /\ fullDirty \in Nat
      /\ data' = [data EXCEPT ![b] = Blank(FreshLength(b))]
      /\ synced' = [synced EXCEPT ![b] = 0] /\ UNCHANGED inner
  BY DEF BufferInv, BufferTypeOK, Recycle
<1>2. /\ data'[b] = Blank(FreshLength(b)) /\ synced'[b] = 0
      /\ \A d \in Buffers \ {b} : data'[d] = data[d] /\ synced'[d] = synced[d]
  BY <1>1
<1>3. BufferTypeOK'
  <2>1. FreshLength(b) \in Lengths(b)
        /\ Blank(FreshLength(b)) \in [0 .. FreshLength(b) - 1 -> Colors]
    BY FramebufferAssumption, DesktopAssumption
      DEF Desktops, Unsized, FreshLength, Lengths, Blank
  <2>2. \A d \in Buffers : \E n \in Lengths(d) : data'[d] \in [0 .. n - 1 -> Colors]
    BY <1>2, <2>1 DEF BufferInv, BufferTypeOK
  <2>3. DOMAIN data' = Buffers /\ synced' \in [Buffers -> 0 .. generation']
    BY <1>1 DEF inner
  <2> QED BY <1>1, <2>2, <2>3 DEF BufferInv, BufferTypeOK, Entries, inner
<1>4. LogCoversStale'
  <2>1. \A d \in Buffers \ {b} : /\ Usable(d)' = Usable(d)
                                 /\ Stride(d)' = Stride(d)
                                 /\ ChangedSince(synced[d])' = ChangedSince(synced[d])
    BY <1>1, <1>2 DEF Usable, inner, Fits, Stride, ChangedSince
  <2>2. synced'[b] >= fullDirty' => Cells(size)' = {}
    BY <1>1, <1>2 DEF BufferInv, NeverSized, inner, Cells
  <2> QED BY <1>1, <1>2, <2>1, <2>2 DEF BufferInv, LogCoversStale, inner
<1> QED BY <1>1, <1>3, <1>4 DEF BufferInv, LogIsPast, NeverSized, inner

LEMMA BufferStep == BufferInv /\ [BufferNext]_bufferVars => BufferInv'
<1> SUFFICES ASSUME BufferInv, [BufferNext]_bufferVars PROVE BufferInv'
  OBVIOUS
<1>1. ASSUME NEW sz \in Sizes, Resize(sz) PROVE BufferInv'
  BY <1>1, BufferResizeStep
<1>2. ASSUME NEW left \in Coords, NEW top \in Coords, NEW width \in Coords,
             NEW height \in Coords, NEW color \in Colors,
             Paint(Rect(left, top, width, height), color)
      PROVE  BufferInv'
  <2>1. Rect(left, top, width, height) \in SUBSET Cells(size)
    BY DEF Rect
  <2> QED BY <1>2, <2>1, BufferPaintStep
<1>3. ASSUME NEW b \in Vecs, PresentVec(b) PROVE BufferInv'
  BY <1>3, PresentVecStep
<1>4. ASSUME NEW s \in Surfaces, PresentSurface(s) PROVE BufferInv'
  BY <1>4, PresentSurfaceStep
<1>5. ASSUME NEW b \in Buffers, Recycle(b) PROVE BufferInv'
  BY <1>5, RecycleStep
<1>6. CASE UNCHANGED bufferVars
  BY <1>6 DEF bufferVars, BufferInv, BufferTypeOK, Entries, LogIsPast, NeverSized,
              LogCoversStale, Usable, Fits, Stride, ChangedSince
<1> QED BY <1>1, <1>2, <1>3, <1>4, <1>5, <1>6 DEF BufferNext, WriteRect, BlitRect

(* The invariant holds in every reachable state. *)
THEOREM BufferAlways == BufferSpec => []BufferInv
BY BufferStart, BufferStep, PTL DEF BufferSpec

(* Every variable keeps its type; the dirty log never outgrows its cap. *)
THEOREM BufferTypeCorrect == BufferSpec => []BufferTypeOK
<1>1. BufferInv => BufferTypeOK
  BY DEF BufferInv
<1> QED BY <1>1, BufferAlways, PTL

(* What the dirty log omits, no stale buffer has missed. *)
THEOREM LogIsComplete == BufferSpec => []LogCoversStale
<1>1. BufferInv => LogCoversStale
  BY DEF BufferInv
<1> QED BY <1>1, BufferAlways, PTL

(* A buffer synced to the current generation shows the current pixels. *)
THEOREM PresentIsExact == BufferSpec => []SyncedShowsPixels
<1>1. ASSUME BufferInv PROVE SyncedShowsPixels
  <2>1. generation \in Nat /\ fullDirty <= generation /\ fullDirty \in Nat
        /\ dirty \in Seq(Entries)
    BY <1>1 DEF BufferInv, BufferTypeOK
  <2>2. ChangedSince(generation) = {}
    <3>1. \A i \in DOMAIN dirty : dirty[i] \in Entries /\ dirty[i].gen \in Nat
      BY <2>1, EntryOfLog
    <3>2. \A i \in DOMAIN dirty : ~(dirty[i].gen > generation)
      BY <1>1, <2>1, <3>1 DEF BufferInv, LogIsPast
    <3> QED BY <3>2 DEF ChangedSince
  <2> QED BY <1>1, <2>1, <2>2 DEF BufferInv, LogCoversStale, SyncedShowsPixels
<1> QED BY <1>1, BufferAlways, PTL
-----------------------------------------------------------------------------
(* The two together. *)

screenVars == <<vars, bufferVars, screen>>

LEMMA PipelineSteps == [ScreenNext]_screenVars => [Next]_vars
<1> SUFFICES ASSUME [ScreenNext]_screenVars PROVE [Next]_vars
  OBVIOUS
<1>1. CASE WritePixels
  BY <1>1 DEF WritePixels, Next
<1>2. ASSUME NEW sz \in Sizes, NewSize(sz) PROVE Next
  BY <1>2 DEF NewSize, Next
<1>3. ASSUME NEW s \in Surfaces, PaintSurface(s) PROVE Next
  BY <1>3 DEF PaintSurface, Next, MainThread
<1>4. ASSUME NEW b \in Vecs, PaintImage(b) PROVE Next
  BY <1>4 DEF PaintImage, Next, MainThread
<1>5. ASSUME NEW b \in Buffers, Drop(b) PROVE UNCHANGED vars
  BY <1>5 DEF Drop
<1>6. CASE Elsewhere
  BY <1>6 DEF Elsewhere, Next, MainThread
<1>7. CASE UNCHANGED screenVars
  BY <1>7 DEF screenVars
<1> QED BY <1>1, <1>2, <1>3, <1>4, <1>5, <1>6, <1>7 DEF ScreenNext

LEMMA BufferSteps == [ScreenNext]_screenVars => [BufferNext]_bufferVars
<1> SUFFICES ASSUME [ScreenNext]_screenVars PROVE [BufferNext]_bufferVars
  OBVIOUS
<1>1. CASE WritePixels
  BY <1>1 DEF WritePixels, BufferNext
<1>2. ASSUME NEW sz \in Sizes, NewSize(sz) PROVE BufferNext
  BY <1>2 DEF NewSize, BufferNext
<1>3. ASSUME NEW s \in Surfaces, PaintSurface(s) PROVE BufferNext
  BY <1>3 DEF PaintSurface, BufferNext
<1>4. ASSUME NEW b \in Vecs, PaintImage(b) PROVE BufferNext
  BY <1>4 DEF PaintImage, BufferNext
<1>5. ASSUME NEW b \in Buffers, Drop(b) PROVE BufferNext
  BY <1>5 DEF Drop, BufferNext
<1>6. CASE Elsewhere
  BY <1>6 DEF Elsewhere
<1>7. CASE UNCHANGED screenVars
  BY <1>7 DEF screenVars
<1> QED BY <1>1, <1>2, <1>3, <1>4, <1>5, <1>6, <1>7 DEF ScreenNext

(* Together, both do only what each does by itself: whatever was shown of   *)
(* the coalescing and of the dirty log holds of the picture on the screen.  *)
THEOREM ScreenComposes == ScreenSpec => Spec /\ BufferSpec
<1>1. ScreenInit => Init /\ BufferInit
  BY DEF ScreenInit
<1> QED BY <1>1, PipelineSteps, BufferSteps, PTL DEF ScreenSpec, Spec, BufferSpec, screenVars

(***************************************************************************)
(* What fresh stands for: the layer reads a buffer that has been synced to *)
(* the current generation and is shown at the current size.                *)
(***************************************************************************)
Shown == /\ layer \in Buffers /\ Usable(layer)
         /\ synced[layer] = generation
         /\ shownSize = size
FreshIsShown == fresh /\ Cells(size) # {} => Shown

LEMMA FreshStep ==
  BufferTypeOK /\ FreshIsShown /\ [ScreenNext]_screenVars => FreshIsShown'
<1> SUFFICES ASSUME BufferTypeOK, FreshIsShown, [ScreenNext]_screenVars PROVE FreshIsShown'
  OBVIOUS
<1>0. synced \in [Buffers -> 0 .. generation] /\ DOMAIN data = Buffers
  BY DEF BufferTypeOK
<1>1. CASE WritePixels
  BY <1>1 DEF WritePixels, Write, FreshIsShown
<1>2. ASSUME NEW sz \in Sizes, NewSize(sz) PROVE FreshIsShown'
  BY <1>2 DEF NewSize, ResizeDesktop, Connect, FreshIsShown
<1>3. ASSUME NEW s \in Surfaces, PaintSurface(s) PROVE FreshIsShown'
  <2>1. /\ s \in Buffers /\ s \notin Vecs /\ Fits(s)
        /\ layer' = s /\ shownSize' = dims /\ fresh' = (dims = size)
        /\ size' = size /\ generation' = generation /\ synced'[s] = generation
    BY <1>0, <1>3, FramebufferAssumption DEF PaintSurface, PresentSurface, Buffers, inner
  <2>2. Usable(s)'
    BY <2>1 DEF Usable, Fits
  <2> QED BY <2>1, <2>2 DEF FreshIsShown, Shown, Usable
<1>4. ASSUME NEW b \in Vecs, PaintImage(b) PROVE FreshIsShown'
  <2>1. /\ b \in Buffers /\ layer' = b /\ shownSize' = size
        /\ size' = size /\ generation' = generation /\ synced'[b] = generation
    BY <1>0, <1>4 DEF PaintImage, PresentVec, Buffers, inner
  <2>2. DOMAIN data'[b] = 0 .. Area(size) - 1
    BY <1>0, <1>4, <2>1 DEF PaintImage, PresentVec, Copied, Blank
  <2>3. Usable(b)'
    BY <2>1, <2>2 DEF Usable
  <2> QED BY <2>1, <2>3 DEF FreshIsShown, Shown, Usable
<1>5. ASSUME NEW b \in Buffers, Drop(b) PROVE FreshIsShown'
  <2>1. /\ UNCHANGED <<size, generation, fresh, layer, shownSize>> /\ layer # b
    BY <1>5 DEF Drop, Recycle, inner, vars, screen
  <2>2. layer \in Buffers => data'[layer] = data[layer] /\ synced'[layer] = synced[layer]
    BY <1>0, <1>5, <2>1 DEF Drop, Recycle
  <2> QED BY <2>1, <2>2 DEF FreshIsShown, Shown, Usable, Fits
<1>6. CASE Elsewhere
  <2>1. UNCHANGED fresh
    BY <1>6 DEF Elsewhere, SessionEnds, Session, RaiseFrameEvent, Coalesce, QueueLeadingPaint,
       ScheduleTrailing, TimerDue, NextBlock, TrailingPaint, ReadDimensions, picture
  <2>2. UNCHANGED <<size, generation, data, synced, layer, shownSize>>
    BY <1>6 DEF Elsewhere, bufferVars, screen
  <2> QED BY <2>1, <2>2 DEF FreshIsShown, Shown, Usable, Fits
<1>7. CASE UNCHANGED screenVars
  <2>1. UNCHANGED <<fresh, size, generation, data, synced, layer, shownSize>>
    BY <1>7 DEF screenVars, vars, bufferVars, screen
  <2> QED BY <2>1 DEF FreshIsShown, Shown, Usable, Fits
<1> QED BY <1>1, <1>2, <1>3, <1>4, <1>5, <1>6, <1>7 DEF ScreenNext

THEOREM FreshMeansShown == ScreenSpec => []FreshIsShown
<1>1. ScreenInit => FreshIsShown
  BY DEF ScreenInit, BufferInit, Unsized, Cells, FreshIsShown
<1>2. ScreenSpec => []BufferTypeOK
  BY ScreenComposes, BufferTypeCorrect, PTL
<1> QED BY <1>1, <1>2, FreshStep, PTL DEF ScreenSpec, screenVars

(* Whenever both threads are at rest and no update is marked as missed,    *)
(* every pixel on the screen is the framebuffer's.                         *)
THEOREM ScreenIsRight == ScreenSpec => []QuietScreenIsExact
<1>1. MissedUpdateIsMarked /\ SyncedShowsPixels /\ FreshIsShown => QuietScreenIsExact
  <2> SUFFICES ASSUME MissedUpdateIsMarked, SyncedShowsPixels, FreshIsShown,
                      AtRest, ~frameDirty, Cells(size) # {}
               PROVE  /\ layer # None /\ shownSize = size
                      /\ \A c \in Cells(size) :
                            data[layer][Offset(Stride(layer), c)] = pixels[c]
    BY DEF QuietScreenIsExact, ScreenIsExact
  <2>1. Shown
    BY DEF MissedUpdateIsMarked, FreshIsShown
  <2> QED BY <2>1, PresentationAssumption DEF Shown, SyncedShowsPixels
<1> QED BY <1>1, ScreenComposes, MissedUpdateStaysMarked, PresentIsExact, FreshMeansShown, PTL
=============================================================================
