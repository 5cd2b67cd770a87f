------------------------- MODULE CommandQueueProofs -------------------------
(***************************************************************************)
(* Proofs about CommandQueue, for every set of keys, positions and sizes   *)
(* and every capacity of the queue, and about OutputPath, what the loop    *)
(* that takes the commands makes of them.                                  *)
(***************************************************************************)
EXTENDS CommandQueue, OutputPath, TLAPS

(* Steps of the window and of the main thread, of the session, and of the  *)
(* session between two connections.                                        *)
Acts == Window \/ MainThread
Connection == Connected \/ ConnectionLost \/ ControlOpens
Loop == LoopTop \/ Handle \/ OtherArm \/ PasteArm

(* Zenon opens the whole next-state relation by these cases. *)
LEMMA NextCases ==
    Next <=> Acts \/ Connection \/ Loop \/ Offline
BY DEF Next, Acts, Connection, Loop
-----------------------------------------------------------------------------
(* Releasing keys. *)

(* Nothing is down on a host that is not connected, and the keys that must *)
(* be released are down.                                                   *)
ReleaseInv ==
    /\ phase \in Phases
    /\ DOMAIN flags = Flags /\ \A f \in Flags : flags[f] \in BOOLEAN
    /\ mustRelease \subseteq pressed
    /\ ~Online => pressed = {}
    /\ ReleaseNotSwallowed

LEMMA ReleaseInit == Init => ReleaseInv
BY DEF Init, ReleaseInv, ReleaseNotSwallowed, Flags, Phases, Online

LEMMA ReleaseStep == ReleaseInv /\ [Next]_vars => ReleaseInv'
<1> SUFFICES ASSUME ReleaseInv, [Next]_vars PROVE ReleaseInv'
  OBVIOUS
<1> USE DEF ReleaseInv, ReleaseNotSwallowed, Online, Phases, Flags
<1>1. CASE Window
  BY <1>1 DEF Window, PressKey, LiftKey, MoveMouse, ResizeWindow, QueueSlot, LoseFocus,
     GainFocus, CloseWindow, keyboard
<1>2. CASE RaiseFlag
  BY <1>2 DEF RaiseFlag
<1>3. CASE TrySend \/ UnqueueSlot \/ DropTheHandle
  BY <1>3 DEF TrySend, UnqueueSlot, DropTheHandle, keyboard
<1>4. CASE Connection
  BY <1>4 DEF Connection, Connected, ConnectionLost, ControlOpens, NothingDown, keyboard
<1>5. CASE LoopTop
  BY <1>5 DEF LoopTop, NothingDown, keyboard
<1>6. CASE OtherArm \/ PasteArm
  BY <1>6 DEF OtherArm, PasteArm, NothingDown, keyboard
<1>7. CASE HandleKey
  BY <1>7 DEF HandleKey
<1>8. CASE HandleMove \/ HandleResize
  BY <1>8 DEF HandleMove, HandleResize, TakeSlot, keyboard
<1>9. CASE HandleRelease \/ HandleShutdown \/ HandleNone
  BY <1>9 DEF HandleRelease, HandleShutdown, HandleNone, TakeFlag, NothingDown, keyboard
<1>10. CASE DrainTop \/ RetryTop
  <2>1. ~Online /\ phase' \in {"ended", "drain", "retryWait"} /\ UNCHANGED keyboard
    BY <1>10 DEF DrainTop, RetryTop, StopFlagged
  <2>2. DOMAIN flags' = Flags /\ \A f \in Flags : flags'[f] \in BOOLEAN
    <3>1. CASE DrainTop
      BY <3>1 DEF DrainTop
    <3>2. CASE RetryTop
      <4>1. DOMAIN flags' = Flags /\ flags'["shutdown"] = FALSE
        BY <3>2 DEF RetryTop
      <4>2. flags'["release"] = IF flags["shutdown"] THEN flags["release"] ELSE FALSE
        BY <3>2 DEF RetryTop
      <4>3. flags'["release"] \in BOOLEAN
        BY <4>2
      <4>4. QED
        BY <4>1, <4>3
    <3>3. QED
      BY <1>10, <3>1, <3>2
  <2>3. QED
    BY <2>1, <2>2 DEF keyboard
<1>11. CASE Drain \/ RetryWait \/ RetryDue
  BY <1>11 DEF Drain, RetryWait, RetryDue, Absorb, StopOffline, TakeSlot, TakeFlag, keyboard
<1>12. CASE UNCHANGED vars
  BY <1>12 DEF vars
<1>13. QED
  BY <1>1, <1>2, <1>3, <1>4, <1>5, <1>6, <1>7, <1>8, <1>9, <1>10, <1>11, <1>12,
     NextCases DEF Acts, MainThread, Loop, Handle, Offline

(* The flag stays up as long as a key that must be released is down.       *)
THEOREM ReleaseIsKept == Spec => []ReleaseNotSwallowed
<1>1. ReleaseInv => ReleaseNotSwallowed
  BY DEF ReleaseInv
<1>2. QED
  BY <1>1, ReleaseInit, ReleaseStep, PTL DEF Spec
-----------------------------------------------------------------------------
(* Types. *)

LEMMA SomeCommands ==
    /\ \A k \in Keys : Command("press", k) \in Commands /\ Command("lift", k) \in Commands
    /\ \A m \in Slots \cup Flags : Marker(m) \in Commands
BY DEF Commands, Command, Marker, Slots, Flags

LEMMA SomeSteps ==
    /\ \A c \in Commands : Send(c) \in Steps
    /\ \A m \in Slots : Unqueue(m) \in Steps
    /\ \A m \in Flags : SetFlag(m) \in Steps
    /\ DropHandle \in Steps
BY SomeCommands DEF Steps, Send, Unqueue, SetFlag, DropHandle, Flags

LEMMA StepFacts ==
    /\ \A x \in Steps : x.cmd \in Commands /\ x.op \in {"send", "unqueue", "flag", "drop"}
    /\ \A c \in Commands : c.kind \in {"press", "lift"} \cup Slots \cup Flags
    /\ \A c \in Commands : c.kind \in {"press", "lift"} => c.arg \in Keys
BY DEF Steps, Commands, Slots, Flags

LEMMA ShortSequences ==
    ASSUME NEW S, NEW a \in S, NEW b \in S, NEW c \in S, NEW d \in S, NEW z \in S
    PROVE  /\ <<>> \in Seq(S) /\ <<a>> \in Seq(S) /\ <<a, b>> \in Seq(S)
           /\ <<a, b, c, d, z>> \in Seq(S)
           /\ \A t \in Seq(S) : <<a>> \o t \in Seq(S)
OBVIOUS

LEMMA Appended ==
    ASSUME NEW S, NEW q \in Seq(S), NEW e \in S
    PROVE  Append(q, e) \in Seq(S) /\ Len(Append(q, e)) = Len(q) + 1 /\ Len(q) \in Nat
OBVIOUS

QueueTypes ==
    /\ todo \in Seq(Steps)
    /\ queue \in Seq(Commands) /\ Len(queue) <= QueueCap

LEMMA QueueTyped == ASSUME QueueTypes, [Next]_vars PROVE QueueTypes'
<1> DEFINE C == Commands
           T == Steps
<1>a. todo \in Seq(T) /\ queue \in Seq(C) /\ Len(queue) <= QueueCap /\ QueueCap \in Nat
  BY CommandAssumption DEF QueueTypes
<1>b. \A c \in C : Send(c) \in T
  BY SomeSteps
<1>c. /\ \A k \in Keys : Send(Command("press", k)) \in T /\ Send(Command("lift", k)) \in T
      /\ Send(Marker("move")) \in T /\ Send(Marker("resize")) \in T
      /\ Send(Marker("release")) \in T /\ Send(Marker("shutdown")) \in T
  BY SomeCommands, SomeSteps DEF Slots, Flags
<1>d. SetFlag("release") \in T /\ SetFlag("shutdown") \in T /\ DropHandle \in T
  BY SomeSteps DEF Flags
<1>e. \A m \in Slots : Unqueue(m) \in T
  BY SomeSteps
<1>f. todo # <<>> => Head(todo) \in T /\ Tail(todo) \in Seq(T)
  BY <1>a
<1>g. todo # <<>> => Head(todo).cmd \in C
  BY <1>f, StepFacts
<1> SUFFICES todo' \in Seq(T) /\ queue' \in Seq(C) /\ Len(queue') <= QueueCap
  BY DEF QueueTypes
<1> HIDE DEF C, T
<1>h. queue # <<>> => Tail(queue) \in Seq(C) /\ Len(Tail(queue)) <= QueueCap
  BY <1>a
<1>i. \A kinds : Takes(kinds) => queue' \in Seq(C) /\ Len(queue') <= QueueCap
  BY <1>h DEF Takes
<1>1. CASE Window
  <2> DEFINE p == Send(Marker("move"))
             r == Send(Marker("resize"))
             e == Send(Marker("release"))
             d == Send(Marker("shutdown"))
             fe == SetFlag("release")
             fd == SetFlag("shutdown")
             z == DropHandle
  <2>0. p \in T /\ r \in T /\ e \in T /\ d \in T /\ fe \in T /\ fd \in T /\ z \in T
    BY <1>c, <1>d
  <2>1. UNCHANGED queue
    BY <1>1 DEF Window, PressKey, LiftKey, MoveMouse, ResizeWindow, QueueSlot, LoseFocus,
       GainFocus, CloseWindow
  <2>2. \A x : Handles(x) => todo' = x
    BY DEF Handles
  <2>3. ASSUME NEW k \in Keys, PressKey(k) \/ LiftKey(k) PROVE todo' \in Seq(T)
    <3>1. \E x \in T : todo' = <<x>>
      BY <2>2, <2>3, <1>c DEF PressKey, LiftKey
    <3>2. QED
      BY <3>1
  <2>4. ASSUME NEW slot \in Slots, NEW v, QueueSlot(slot, v) PROVE todo' \in Seq(T)
    <3>1. todo' = <<>> \/ todo' = <<Send(Marker(slot))>>
      BY <2>2, <2>4 DEF QueueSlot
    <3>2. Send(Marker(slot)) \in T
      BY <2>4, <1>c DEF Slots
    <3>3. QED
      BY <3>1, <3>2, ShortSequences
  <2>5. LoseFocus \/ GainFocus \/ CloseWindow =>
          todo' \in {<<>>, <<fe, e>>, <<fe, e, fd, d, z>>}
    BY <2>2 DEF LoseFocus, GainFocus, CloseWindow
  <2> HIDE DEF p, r, e, d, fe, fd, z
  <2>6. LoseFocus \/ GainFocus \/ CloseWindow => todo' \in Seq(T)
    <3>1. {<<>>, <<fe, e>>, <<fe, e, fd, d, z>>} \subseteq Seq(T)
      BY <2>0, ShortSequences
    <3>2. QED
      BY <3>1, <2>5
  <2>7. QED
    BY <1>1, <1>a, <2>1, <2>3, <2>4, <2>6 DEF Window, MoveMouse, ResizeWindow, Slots
<1>2. CASE RaiseFlag
  BY <1>2, <1>a, <1>f DEF RaiseFlag
<1>3. CASE TrySend
  <2> DEFINE c == Head(todo).cmd
  <2>1. c \in C /\ Tail(todo) \in Seq(T)
    BY <1>3, <1>f, <1>g DEF TrySend
  <2>2. \/ Len(queue) < QueueCap /\ queue' = Append(queue, c) /\ todo' = Tail(todo)
        \/ queue' = queue /\ todo' = Tail(todo)
        \/ queue' = queue /\ c.kind \in Slots /\ todo' = <<Unqueue(c.kind)>> \o Tail(todo)
    BY <1>3 DEF TrySend
  <2> HIDE DEF c
  <2>3. c.kind \in Slots => <<Unqueue(c.kind)>> \o Tail(todo) \in Seq(T)
    <3>1. c.kind \in Slots => Unqueue(c.kind) \in T
      BY <1>e
    <3>2. QED
      BY <3>1, <2>1, ShortSequences
  <2>4. todo' \in Seq(T)
    BY <2>1, <2>2, <2>3
  <2>5. Append(queue, c) \in Seq(C) /\ Len(Append(queue, c)) = Len(queue) + 1 /\ Len(queue) \in Nat
    BY <2>1, <1>a, Appended
  <2>6. queue' \in Seq(C) /\ Len(queue') <= QueueCap
    BY <2>2, <2>5, <1>a
  <2>7. QED
    BY <2>4, <2>6
<1>4. CASE UnqueueSlot \/ DropTheHandle
  BY <1>4, <1>a, <1>f DEF UnqueueSlot, DropTheHandle
<1>5. CASE Connection \/ LoopTop \/ OtherArm \/ PasteArm \/ DrainTop \/ RetryTop \/ RetryDue
  BY <1>5, <1>a
     DEF Connection, Connected, ConnectionLost, ControlOpens, LoopTop, OtherArm, PasteArm,
         DrainTop, RetryTop, RetryDue, StopFlagged, SessionOnly
<1>6. CASE Handle
  BY <1>6, <1>a, <1>i
     DEF Handle, HandleKey, HandleMove, HandleResize, HandleRelease, HandleShutdown, HandleNone, SessionOnly
<1>7. CASE Drain \/ RetryWait
  BY <1>7, <1>a, <1>i DEF Drain, RetryWait, Absorb, StopOffline, SessionOnly
<1>8. CASE UNCHANGED vars
  BY <1>8, <1>a DEF vars
<1>9. QED
  BY <1>1, <1>2, <1>3, <1>4, <1>5, <1>6, <1>7, <1>8, NextCases
     DEF Acts, MainThread, Loop, Offline

SlotRecord(s) == [value : ValuesOf(s) \cup {None}, queued : BOOLEAN]
SlotTypes == DOMAIN slots = Slots /\ \A s \in Slots : slots[s] \in SlotRecord(s)

LEMMA SlotsTyped == ASSUME SlotTypes, QueueTypes, [Next]_vars PROVE SlotTypes'
<1>a. \A slot \in Slots : \A r \in SlotRecord(slot) :
        slots' = [slots EXCEPT ![slot] = r] => SlotTypes'
  BY DEF SlotTypes
<1>b. \A slot \in Slots : EmptySlot \in SlotRecord(slot)
  BY DEF EmptySlot, SlotRecord
<1>c. \A slot \in Slots : TakeSlot(slot) => SlotTypes'
  BY <1>a, <1>b DEF TakeSlot
<1>d. UNCHANGED slots => SlotTypes'
  BY DEF SlotTypes
<1>e. \A slot \in Slots : \A v \in ValuesOf(slot) :
        [value |-> v, queued |-> TRUE] \in SlotRecord(slot)
  BY DEF SlotRecord
<1>1. CASE Window
  <2>1. \A slot \in Slots : \A v \in ValuesOf(slot) : QueueSlot(slot, v) => SlotTypes'
    BY <1>a, <1>e DEF QueueSlot
  <2>2. /\ \A v \in Points : QueueSlot("move", v) => SlotTypes'
        /\ \A v \in Sizes : QueueSlot("resize", v) => SlotTypes'
    BY <2>1 DEF Slots, ValuesOf
  <2>3. QED
    BY <1>1, <1>d, <2>2 DEF Window, PressKey, LiftKey, MoveMouse, ResizeWindow, LoseFocus,
       GainFocus, CloseWindow
<1>2. CASE RaiseFlag \/ TrySend \/ DropTheHandle
  BY <1>2, <1>d DEF RaiseFlag, TrySend, DropTheHandle
<1>3. CASE UnqueueSlot
  <2> DEFINE slot == Head(todo).cmd.kind
  <2>0. slots' = [slots EXCEPT ![slot].queued = FALSE]
    BY <1>3 DEF UnqueueSlot
  <2> HIDE DEF slot
  <2>1. DOMAIN slots' = Slots
    BY <2>0 DEF SlotTypes
  <2>2. ASSUME NEW s \in Slots PROVE slots'[s] \in SlotRecord(s)
    <3>1. slots[s] \in SlotRecord(s)
      BY DEF SlotTypes
    <3>2. CASE s = slot
      <4>1. slots'[s] = [slots[s] EXCEPT !.queued = FALSE]
        BY <2>0, <3>2 DEF SlotTypes
      <4>2. QED
        BY <3>1, <4>1 DEF SlotRecord
    <3>3. CASE s # slot
      BY <2>0, <3>1, <3>3 DEF SlotTypes
    <3>4. QED
      BY <3>2, <3>3
  <2>3. QED
    BY <2>1, <2>2 DEF SlotTypes
<1>4. CASE Connection \/ LoopTop \/ OtherArm \/ PasteArm \/ DrainTop \/ RetryTop \/ RetryDue
  BY <1>4, <1>d
     DEF Connection, Connected, ConnectionLost, ControlOpens, LoopTop, OtherArm, PasteArm,
         DrainTop, RetryTop, RetryDue, StopFlagged
<1>5. CASE Handle
  BY <1>5, <1>c, <1>d
     DEF Handle, HandleKey, HandleMove, HandleResize, HandleRelease, HandleShutdown, HandleNone,
         TakeFlag, Slots
<1>6. CASE Drain \/ RetryWait
  BY <1>6, <1>c, <1>d DEF Drain, RetryWait, Absorb, StopOffline, TakeFlag, Slots
<1>7. CASE UNCHANGED vars
  BY <1>7, <1>d DEF vars
<1>8. QED
  BY <1>1, <1>2, <1>3, <1>4, <1>5, <1>6, <1>7, NextCases DEF Acts, MainThread, Loop, Offline

(* What is left of the types; the flags of the window are propositional. *)
Truths ==
    focused \in BOOLEAN /\ closed \in BOOLEAN /\ controlReady \in BOOLEAN /\ cut \in BOOLEAN
PlainTypes ==
    /\ held \subseteq Keys
    /\ winSize \in Sizes /\ connectSize \in Sizes /\ remoteSize \in Sizes
    /\ refused \subseteq {"key", "move", "resize"}
    /\ pressed \subseteq Keys /\ keysDown \in Nat


LEMMA FlagsTyped ==
    ASSUME flags \in [Flags -> BOOLEAN], [Next]_vars PROVE flags' \in [Flags -> BOOLEAN]
<1>a. \A f : \A b \in BOOLEAN :
        flags' = [flags EXCEPT ![f] = b] => flags' \in [Flags -> BOOLEAN]
  OBVIOUS
<1>b. \A f : TakeFlag(f) => flags' \in [Flags -> BOOLEAN]
  BY <1>a DEF TakeFlag
<1>1. CASE Window \/ TrySend \/ UnqueueSlot \/ DropTheHandle
  BY <1>1 DEF Window, PressKey, LiftKey, MoveMouse, ResizeWindow, LoseFocus, GainFocus,
     CloseWindow, TrySend, UnqueueSlot, DropTheHandle
<1>2. CASE RaiseFlag
  BY <1>2, <1>a DEF RaiseFlag
<1>3. CASE Connection \/ OtherArm \/ PasteArm \/ RetryDue
  BY <1>3 DEF Connection, Connected, ConnectionLost, ControlOpens, OtherArm, PasteArm, RetryDue
<1>4. CASE LoopTop \/ DrainTop
  BY <1>4, <1>a DEF LoopTop, DrainTop
<1>5. CASE Handle
  BY <1>5, <1>b DEF Handle, HandleKey, HandleMove, HandleResize, HandleRelease,
     HandleShutdown, HandleNone, TakeSlot
<1>6. CASE Drain \/ RetryWait
  BY <1>6, <1>b DEF Drain, RetryWait, Absorb, StopOffline, TakeSlot
<1>7. CASE RetryTop
  <2> DEFINE b == IF flags["shutdown"] THEN flags["release"] ELSE FALSE
  <2>1. b \in BOOLEAN
    BY DEF Flags
  <2>2. flags' = [release |-> b, shutdown |-> FALSE]
    BY <1>7 DEF RetryTop
  <2> HIDE DEF b
  <2>3. DOMAIN flags' = Flags
    BY <2>2 DEF Flags
  <2>4. flags'["release"] = b /\ flags'["shutdown"] = FALSE
    BY <2>2
  <2>5. flags' = [f \in Flags |-> IF f = "release" THEN b ELSE FALSE]
    BY <2>2, <2>3, <2>4, Zenon DEF Flags
  <2>6. b = TRUE \/ b = FALSE
    BY <2>1
  <2>7. QED
    BY <2>5, <2>6, Zenon
<1>8. CASE UNCHANGED vars
  BY <1>8 DEF vars
<1>9. QED
  BY <1>1, <1>2, <1>3, <1>4, <1>5, <1>6, <1>7, <1>8, NextCases
     DEF Acts, MainThread, Loop, Offline

LEMMA TruthsTyped == ASSUME Truths, [Next]_vars PROVE Truths'
<1>1. /\ focused' \in {TRUE, FALSE, focused} /\ closed' \in {TRUE, closed}
      /\ cut' \in {TRUE, cut}
  <2>1. CASE Acts
    BY <2>1 DEF Acts, Window, MainThread, PressKey, LiftKey, MoveMouse, ResizeWindow,
       LoseFocus, GainFocus, CloseWindow, RaiseFlag, TrySend, UnqueueSlot, DropTheHandle, window
  <2>2. CASE Connection \/ Loop \/ Offline
    BY <2>2 DEF Connection, Connected, ConnectionLost, ControlOpens, Loop, LoopTop, OtherArm,
       PasteArm, Handle, HandleKey, HandleMove, HandleResize, HandleRelease, HandleShutdown, HandleNone,
       Offline, DrainTop, Drain, RetryTop, RetryWait, RetryDue, SessionOnly, window
  <2>3. QED
    BY <2>1, <2>2, NextCases DEF vars
<1>2. controlReady' \in {TRUE, ReadyAtOnce, controlReady}
  <2>1. CASE Acts
    BY <2>1 DEF Acts, Window, MainThread, PressKey, LiftKey, MoveMouse, ResizeWindow,
       LoseFocus, GainFocus, CloseWindow, RaiseFlag, TrySend, UnqueueSlot, DropTheHandle, display
  <2>2. CASE Connection \/ Loop
    BY <2>2 DEF Connection, Connected, ConnectionLost, ControlOpens, Loop, LoopTop, OtherArm,
       PasteArm, Handle, HandleKey, HandleMove, HandleResize, HandleRelease, HandleShutdown, HandleNone,
       display
  <2>3. CASE Offline
    BY <2>3 DEF Offline, DrainTop, Drain, RetryTop, RetryWait, RetryDue, StopFlagged,
       StopOffline, Absorb, display
  <2>4. QED
    BY <2>1, <2>2, <2>3, NextCases DEF vars
<1>3. QED
  BY <1>1, <1>2, CommandAssumption DEF Truths

TypeInv == /\ QueueTypes /\ SlotTypes /\ Truths /\ PlainTypes /\ ReleaseInv
           /\ flags \in [Flags -> BOOLEAN]

LEMMA PlainTyped ==
    ASSUME PlainTypes, QueueTypes, SlotTypes, [Next]_vars PROVE PlainTypes'
<1> USE DEF PlainTypes
<1>a. queue # <<>> => /\ Head(queue).kind \in {"press", "lift"} => Head(queue).arg \in Keys
  BY StepFacts DEF QueueTypes
<1>b. slots["resize"].value # None => slots["resize"].value \in Sizes
  BY DEF SlotTypes, SlotRecord, Slots, ValuesOf
<1>c. todo # <<>> =>
        Head(todo).cmd.kind \in {"press", "lift", "move", "resize", "release", "shutdown"}
  BY StepFacts DEF QueueTypes, Slots, Flags
<1>d. NothingDown => pressed' \subseteq Keys /\ keysDown' \in Nat
  BY DEF NothingDown
<1>e. UNCHANGED keyboard => pressed' \subseteq Keys /\ keysDown' \in Nat
  BY DEF keyboard
<1>f. SessionOnly => /\ held' \subseteq Keys /\ winSize' \in Sizes
                     /\ refused' \subseteq {"key", "move", "resize"}
  BY DEF SessionOnly, window
<1>g. UNCHANGED display => connectSize' \in Sizes /\ remoteSize' \in Sizes
  BY DEF display
<1>1. CASE Window
  BY <1>1 DEF Window, PressKey, LiftKey, MoveMouse, ResizeWindow, QueueSlot, LoseFocus,
     GainFocus, CloseWindow, display, keyboard, window
<1>2. CASE RaiseFlag \/ UnqueueSlot \/ DropTheHandle
  BY <1>2 DEF RaiseFlag, UnqueueSlot, DropTheHandle, window, display, keyboard
<1>3. CASE TrySend
  <2>1. refused' \subseteq {"key", "move", "resize"}
    BY <1>3, <1>c DEF TrySend, KindOf, Slots, Flags
  <2>2. QED
    BY <1>3, <2>1 DEF TrySend, window, display, keyboard
<1>4. CASE Connection
  <2>1. SessionOnly
    BY <1>4 DEF Connection, Connected, ConnectionLost, ControlOpens
  <2>2. NothingDown \/ UNCHANGED keyboard
    BY <1>4 DEF Connection, Connected, ConnectionLost, ControlOpens, keyboard
  <2>3. connectSize' \in Sizes /\ remoteSize' \in Sizes
    BY <1>4 DEF Connection, Connected, ConnectionLost, ControlOpens, display
  <2>4. QED
    BY <2>1, <2>2, <2>3, <1>d, <1>e, <1>f
<1>5. CASE LoopTop
  BY <1>5 DEF LoopTop, SessionOnly, NothingDown, window, display, keyboard
<1>6. CASE OtherArm \/ PasteArm
  <2>1. SessionOnly /\ UNCHANGED display
    BY <1>6 DEF OtherArm, PasteArm, display
  <2>2. pressed' \subseteq Keys /\ keysDown' \in Nat
    BY <1>6, <1>d, <1>e DEF OtherArm, PasteArm
  <2>3. QED
    BY <2>1, <2>2, <1>f, <1>g
<1>7. CASE HandleKey
  BY <1>7, <1>a DEF HandleKey, Takes, SessionOnly, window, display
<1>8. CASE HandleMove \/ HandleResize
  BY <1>8, <1>b DEF HandleMove, HandleResize, SessionOnly, window, display, keyboard
<1>9. CASE HandleRelease \/ HandleShutdown \/ HandleNone
  <2>1. UNCHANGED <<window, refused, display>>
    BY <1>9 DEF HandleRelease, HandleShutdown, HandleNone, SessionOnly
  <2>2. NothingDown \/ UNCHANGED keyboard
    BY <1>9 DEF HandleRelease, HandleShutdown, HandleNone
  <2>3. QED
    BY <2>1, <2>2, <1>d, <1>e, <1>g DEF window
<1>10. CASE DrainTop \/ RetryTop \/ RetryDue
  BY <1>10 DEF DrainTop, RetryTop, RetryDue, StopFlagged, SessionOnly, window, display, keyboard
<1>11. CASE Drain \/ RetryWait
  BY <1>11, <1>b DEF Drain, RetryWait, Absorb, StopOffline, SessionOnly, window, display, keyboard
<1>12. CASE UNCHANGED vars
  BY <1>12 DEF vars
<1>13. QED
  BY <1>1, <1>2, <1>3, <1>4, <1>5, <1>6, <1>7, <1>8, <1>9, <1>10, <1>11, <1>12, NextCases
     DEF Acts, MainThread, Loop, Handle, Offline

LEMMA TypeAlways == Spec => []TypeInv
<1>1. Init => TypeInv
  <2>1. Init => QueueTypes
    <3>1. Init => todo = <<>> /\ queue = <<>>
      BY DEF Init
    <3>2. QED
      BY <3>1, CommandAssumption DEF QueueTypes
  <2>2. Init => SlotTypes
    BY DEF Init, SlotTypes, SlotRecord, EmptySlot
  <2>3. Init => Truths
    BY DEF Init, Truths
  <2>4. Init => PlainTypes
    BY DEF Init, PlainTypes
  <2>5. Init => flags \in [Flags -> BOOLEAN]
    BY DEF Init
  <2>6. QED
    BY <2>1, <2>2, <2>3, <2>4, <2>5, ReleaseInit DEF TypeInv
<1>2. TypeInv /\ [Next]_vars => TypeInv'
  BY QueueTyped, SlotsTyped, TruthsTyped, PlainTyped, FlagsTyped, ReleaseStep DEF TypeInv
<1>3. QED
  BY <1>1, <1>2, PTL DEF Spec

(* Every variable of the command queue keeps its type.                     *)
THEOREM TypeCorrect == Spec => []TypeOK
<1>1. TypeInv => TypeOK
  BY DEF TypeInv, TypeOK, QueueTypes, SlotTypes, SlotRecord, Truths, PlainTypes, ReleaseInv
<1>2. QED
  BY <1>1, TypeAlways, PTL

-----------------------------------------------------------------------------
(***************************************************************************)
(* Coalesced values.  The inductive invariant of a slot: it is marked as   *)
(* queued exactly while its one marker is on its way, in the queue or in   *)
(* the hands of the main thread, and a value whose marker is not on its    *)
(* way was refused.                                                        *)
(***************************************************************************)
Marked(s) == \E i \in DOMAIN queue : queue[i].kind = s
OneMarker(s) == \A i, j \in MarkersOf(s) : i = j
IsQueued(s) == slots[s].queued = TRUE

SlotInv(s) ==
    /\ OneMarker(s)
    /\ AboutToSend(s) => todo = <<Send(Marker(s))>> \/ todo = <<Unqueue(s)>>
    /\ IsQueued(s) <=> Marked(s) \/ AboutToSend(s)
    /\ ~(Marked(s) /\ AboutToSend(s))
    /\ todo = <<Unqueue(s)>> => s \in refused
    /\ slots[s].value # None /\ s \notin refused => IsQueued(s)
SlotsInv == \A s \in Slots : SlotInv(s)

(* A command that is taken or queued, as the markers of a slot see it.     *)
LEMMA QueuedCommand ==
  ASSUME QueueTypes, NEW c \in Commands, queue' = Append(queue, c), NEW s \in Slots,
         OneMarker(s), c.kind = s => ~Marked(s)
  PROVE  OneMarker(s)' /\ (Marked(s)' <=> Marked(s) \/ c.kind = s)
<1> DEFINE q == queue
           r == queue'
           n == Len(queue) + 1
           C == Commands
<1>0. q \in Seq(C) /\ c \in C
  BY DEF QueueTypes
<1> HIDE DEF C
<1>1. /\ DOMAIN r = DOMAIN q \cup {n} /\ n \notin DOMAIN q
      /\ \A i \in DOMAIN q : r[i] = q[i]
      /\ r[n] = c
  BY <1>0
<1> HIDE DEF n, r
<1>2. Marked(s)' <=> \E i \in DOMAIN r : r[i].kind = s
  BY DEF Marked, r
<1>3. OneMarker(s)' <=> \A i, j \in DOMAIN r : r[i].kind = s /\ r[j].kind = s => i = j
  BY DEF OneMarker, MarkersOf, r
<1>4. \A i, j \in DOMAIN q : q[i].kind = s /\ q[j].kind = s => i = j
  BY DEF OneMarker, MarkersOf
<1>5. Marked(s) <=> \E i \in DOMAIN q : q[i].kind = s
  BY DEF Marked
<1> HIDE DEF q
<1> QED BY <1>1, <1>2, <1>3, <1>4, <1>5

LEMMA TakenCommand ==
  ASSUME QueueTypes, queue # <<>>, queue' = Tail(queue), NEW s \in Slots, OneMarker(s)
  PROVE  /\ OneMarker(s)'
         /\ Head(queue).kind = s => ~Marked(s)'
         /\ Head(queue).kind # s => (Marked(s)' <=> Marked(s))
<1> DEFINE q == queue
           r == queue'
           h == Head(queue)
           C == Commands
<1>0. q \in Seq(C)
  BY DEF QueueTypes
<1> HIDE DEF C
<1>1. /\ \A i \in DOMAIN r : i \in Nat /\ i >= 1 /\ i + 1 \in DOMAIN q /\ r[i] = q[i + 1]
      /\ \A i \in DOMAIN q : i # 1 => i - 1 \in DOMAIN r /\ r[i - 1] = q[i]
      /\ 1 \in DOMAIN q /\ h = q[1]
      /\ \A i \in DOMAIN q : i \in Nat /\ i >= 1
  BY <1>0
<1> HIDE DEF r, h
<1>2. Marked(s)' <=> \E i \in DOMAIN r : r[i].kind = s
  BY DEF Marked, r
<1>3. OneMarker(s)' <=> \A i, j \in DOMAIN r : r[i].kind = s /\ r[j].kind = s => i = j
  BY DEF OneMarker, MarkersOf, r
<1>4. \A i, j \in DOMAIN q : q[i].kind = s /\ q[j].kind = s => i = j
  BY DEF OneMarker, MarkersOf
<1>5. Marked(s) <=> \E i \in DOMAIN q : q[i].kind = s
  BY DEF Marked
<1> HIDE DEF q
<1>6. OneMarker(s)'
  <2> SUFFICES ASSUME NEW i \in DOMAIN r, NEW j \in DOMAIN r, r[i].kind = s, r[j].kind = s
               PROVE  i = j
    BY <1>3
  <2>1. i + 1 = j + 1
    BY <1>1, <1>4
  <2> QED BY <2>1, <1>1
<1>7. ASSUME h.kind = s PROVE ~Marked(s)'
  <2> SUFFICES ASSUME NEW i \in DOMAIN r, r[i].kind = s PROVE FALSE
    BY <1>2
  <2>1. i + 1 = 1
    BY <1>1, <1>4, <1>7
  <2> QED BY <2>1, <1>1
<1>8. ASSUME h.kind # s, Marked(s) PROVE Marked(s)'
  <2>1. PICK i \in DOMAIN q : q[i].kind = s
    BY <1>5, <1>8
  <2>2. i # 1
    BY <1>1, <1>8, <2>1
  <2>3. i - 1 \in DOMAIN r /\ r[i - 1].kind = s
    BY <1>1, <2>1, <2>2
  <2> QED BY <1>2, <2>3
<1>9. ASSUME Marked(s)' PROVE Marked(s)
  <2>1. PICK i \in DOMAIN r : r[i].kind = s
    BY <1>2, <1>9
  <2>2. i + 1 \in DOMAIN q /\ q[i + 1].kind = s
    BY <1>1, <2>1
  <2> QED BY <1>5, <2>2
<1> QED BY <1>6, <1>7, <1>8, <1>9 DEF h

(* A step that leaves a slot alone and no marker of it in todo.            *)
LEMMA OtherSlot ==
  ASSUME NEW s \in Slots, SlotInv(s), slots'[s] = slots[s],
         s \in refused' <=> s \in refused,
         OneMarker(s)', Marked(s)' <=> Marked(s),
         todo' = todo \/ (~AboutToSend(s) /\ ~AboutToSend(s)')
  PROVE  SlotInv(s)'
<1>1. todo' = todo => (AboutToSend(s)' <=> AboutToSend(s))
  BY DEF AboutToSend
<1>2. IsQueued(s)' <=> IsQueued(s)
  BY DEF IsQueued
<1>3. todo' = <<Unqueue(s)>> => AboutToSend(s)'
  BY DEF AboutToSend
<1> QED BY <1>1, <1>2, <1>3 DEF SlotInv

LEMMA QueueKept ==
  ASSUME NEW s \in Slots, SlotInv(s), UNCHANGED queue
  PROVE  OneMarker(s)' /\ (Marked(s)' <=> Marked(s))
BY DEF SlotInv, OneMarker, MarkersOf, Marked

(* What the session does to the queue and the slots.                       *)
LEMMA SessionEffect ==
  ASSUME Connection \/ Loop \/ Offline
  PROVE  /\ UNCHANGED <<todo, refused>>
         /\ \/ UNCHANGED <<queue, slots>>
            \/ /\ queue # <<>> /\ queue' = Tail(queue)
               /\ \/ Head(queue).kind \notin Slots /\ UNCHANGED slots
                  \/ Head(queue).kind \in Slots /\ TakeSlot(Head(queue).kind)
<1> USE DEF SessionOnly, Slots
<1>1. CASE Connection
  BY <1>1 DEF Connection, Connected, ConnectionLost, ControlOpens
<1>2. CASE LoopTop \/ OtherArm \/ PasteArm
  BY <1>2 DEF LoopTop, OtherArm, PasteArm
<1>3. CASE HandleKey \/ HandleRelease \/ HandleShutdown \/ HandleNone
  BY <1>3 DEF HandleKey, HandleRelease, HandleShutdown, HandleNone, Takes, TakeFlag
<1>4. CASE HandleMove \/ HandleResize
  BY <1>4 DEF HandleMove, HandleResize, Takes
<1>5. CASE DrainTop \/ RetryTop \/ RetryDue
  BY <1>5 DEF DrainTop, RetryTop, RetryDue, StopFlagged
<1>6. CASE Drain \/ RetryWait
  BY <1>6 DEF Drain, RetryWait, Absorb, StopOffline, Takes, TakeFlag
<1> QED BY <1>1, <1>2, <1>3, <1>4, <1>5, <1>6 DEF Loop, Handle, Offline

LEMMA SessionKeepsSlots ==
  ASSUME QueueTypes, SlotTypes, SlotsInv, Connection \/ Loop \/ Offline
  PROVE  SlotsInv'
<1> SUFFICES ASSUME NEW s \in Slots PROVE SlotInv(s)'
  BY DEF SlotsInv
<1>1. SlotInv(s) /\ OneMarker(s) /\ s \in DOMAIN slots
  BY DEF SlotsInv, SlotInv, SlotTypes
<1>2. UNCHANGED <<todo, refused>>
  BY SessionEffect
<1>3. CASE UNCHANGED <<queue, slots>>
  BY <1>1, <1>2, <1>3, QueueKept, OtherSlot
<1>4. CASE queue # <<>> /\ queue' = Tail(queue) /\ Head(queue).kind # s
           /\ (UNCHANGED slots \/ TakeSlot(Head(queue).kind))
  <2>1. slots'[s] = slots[s]
    BY <1>1, <1>4 DEF TakeSlot
  <2>2. OneMarker(s)' /\ (Marked(s)' <=> Marked(s))
    BY <1>1, <1>4, TakenCommand
  <2> QED BY <1>1, <1>2, <2>1, <2>2, OtherSlot
<1>5. CASE queue # <<>> /\ queue' = Tail(queue) /\ Head(queue).kind = s /\ TakeSlot(s)
  <2>1. slots'[s] = EmptySlot
    BY <1>1, <1>5 DEF TakeSlot
  <2>2. slots'[s].value = None /\ ~IsQueued(s)'
    BY <2>1 DEF EmptySlot, IsQueued
  <2>3. OneMarker(s)' /\ ~Marked(s)'
    BY <1>1, <1>5, TakenCommand
  <2>4. Marked(s)
    <3> DEFINE C == Commands
    <3>1. queue \in Seq(C)
      BY DEF QueueTypes
    <3> HIDE DEF C
    <3>2. 1 \in DOMAIN queue /\ Head(queue) = queue[1]
      BY <1>5, <3>1
    <3> QED BY <1>5, <3>2 DEF Marked
  <2>5. ~AboutToSend(s) /\ ~AboutToSend(s)'
    BY <1>1, <1>2, <2>4 DEF SlotInv, AboutToSend
  <2>6. todo' # <<Unqueue(s)>>
    BY <2>5 DEF AboutToSend
  <2> QED BY <2>2, <2>3, <2>5, <2>6 DEF SlotInv
<1> QED BY <1>2, <1>3, <1>4, <1>5, SessionEffect

-----------------------------------------------------------------------------
(* What the main thread has in hand.                                       *)

LEMMA StepKinds ==
  ASSUME NEW s \in Slots
  PROVE  /\ Send(Marker(s)).op = "send" /\ Send(Marker(s)).cmd.kind = s
         /\ Unqueue(s).op = "unqueue" /\ Unqueue(s).cmd.kind = s
         /\ \A x \in Steps : x.cmd.kind = s /\ x.op = "send" => x = Send(Marker(s))
         /\ \A x \in Steps : x.cmd.kind = s /\ x.op = "unqueue" => x = Unqueue(s)
<1>1. \A c \in Commands : c.kind = s => c = Marker(s)
  BY DEF Commands, Marker, Command, Slots
<1>2. \A x \in Steps : x = [op |-> x.op, cmd |-> x.cmd] /\ x.cmd \in Commands
  BY DEF Steps
<1> QED BY <1>1, <1>2 DEF Send, Unqueue, Marker, Command

LEMMA OneElement ==
  ASSUME NEW S, NEW x \in S
  PROVE  Head(<<x>>) = x /\ Tail(<<x>>) = <<>> /\ <<x>> \o <<>> = <<x>>
OBVIOUS

LEMMA InHand ==
  ASSUME QueueTypes, NEW s \in Slots, SlotInv(s), todo # <<>>
  PROVE  /\ Head(todo) \in Steps
         /\ AboutToSend(s) => /\ Tail(todo) = <<>>
                              /\ Head(todo) \in {Send(Marker(s)), Unqueue(s)}
         /\ Head(todo) \in {Send(Marker(s)), Unqueue(s)} => AboutToSend(s)
         /\ ~AboutToSend(s) => \A i \in DOMAIN Tail(todo) :
                                   Tail(todo)[i] \notin {Send(Marker(s)), Unqueue(s)}
<1> DEFINE T == Steps
           a == Send(Marker(s))
           b == Unqueue(s)
<1>0. todo \in Seq(T)
  BY DEF QueueTypes
<1>1. AboutToSend(s) <=> \E i \in DOMAIN todo : todo[i] \in {a, b}
  BY DEF AboutToSend
<1>2. AboutToSend(s) => todo = <<a>> \/ todo = <<b>>
  BY DEF SlotInv
<1> HIDE DEF T, a, b
<1>3. Head(todo) \in T /\ 1 \in DOMAIN todo /\ Head(todo) = todo[1]
  BY <1>0
<1>4. \A i \in DOMAIN Tail(todo) : i + 1 \in DOMAIN todo /\ Tail(todo)[i] = todo[i + 1]
  BY <1>0
<1>5. AboutToSend(s) => Tail(todo) = <<>> /\ Head(todo) \in {a, b}
  <2>1. todo = <<a>> => Tail(todo) = <<>> /\ Head(todo) = a
    BY OneElement
  <2>2. todo = <<b>> => Tail(todo) = <<>> /\ Head(todo) = b
    BY OneElement
  <2> QED BY <1>2, <2>1, <2>2
<1> QED BY <1>1, <1>3, <1>4, <1>5 DEF T, a, b

LEMMA NotInHand ==
  ASSUME NEW s \in Slots, todo' = <<>>
  PROVE  ~AboutToSend(s)'
BY DEF AboutToSend

LEMMA OneInHand ==
  ASSUME NEW s \in Slots, NEW x, todo' = <<x>>
  PROVE  AboutToSend(s)' <=> x \in {Send(Marker(s)), Unqueue(s)}
BY DEF AboutToSend

LEMMA MainThreadKeepsSlots ==
  ASSUME QueueTypes, SlotTypes, SlotsInv, MainThread
  PROVE  SlotsInv'
<1> SUFFICES ASSUME NEW s \in Slots PROVE SlotInv(s)'
  BY DEF SlotsInv
<1> DEFINE x == Head(todo)
           k == Head(todo).cmd.kind
<1>0. todo # <<>>
  BY DEF MainThread, RaiseFlag, TrySend, UnqueueSlot, DropTheHandle
<1>1. SlotInv(s) /\ OneMarker(s) /\ s \in DOMAIN slots
  BY DEF SlotsInv, SlotInv, SlotTypes
<1>2. /\ x \in Steps
      /\ AboutToSend(s) => Tail(todo) = <<>> /\ x \in {Send(Marker(s)), Unqueue(s)}
      /\ x \in {Send(Marker(s)), Unqueue(s)} => AboutToSend(s)
      /\ ~AboutToSend(s) /\ todo' = Tail(todo) => ~AboutToSend(s)'
  BY <1>0, <1>1, InHand DEF AboutToSend
<1>3. x.cmd \in Commands
  BY <1>2 DEF Steps
<1>4. CASE RaiseFlag \/ DropTheHandle
  <2>1. x.op \in {"flag", "drop"} /\ todo' = Tail(todo) /\ UNCHANGED <<queue, slots, refused>>
    BY <1>4 DEF RaiseFlag, DropTheHandle
  <2>2. ~AboutToSend(s)
    BY <1>2, <2>1, StepKinds
  <2> QED BY <1>1, <1>2, <2>1, <2>2, QueueKept, OtherSlot
<1>5. CASE TrySend /\ k # s
  <2>1. x.op = "send" /\ UNCHANGED slots
    BY <1>5 DEF TrySend
  <2>2. ~AboutToSend(s)
    BY <1>2, <1>5, <2>1, StepKinds
  <2>3. todo' = Tail(todo) \/ (k \in Slots /\ todo' = <<Unqueue(k)>> \o Tail(todo))
    BY <1>5 DEF TrySend
  <2>4. ~AboutToSend(s)'
    <3>1. CASE todo' = Tail(todo)
      BY <3>1, <1>2, <2>2
    <3>2. CASE k \in Slots /\ todo' = <<Unqueue(k)>> \o Tail(todo)
      <4>1. x.cmd.kind = k /\ x = Send(Marker(k))
        BY <1>2, <2>1, <3>2, StepKinds
      <4>2. SlotInv(k)
        BY <3>2 DEF SlotsInv
      <4>3. Tail(todo) = <<>>
        BY <1>0, <3>2, <4>1, <4>2, InHand
      <4>4. todo' = <<Unqueue(k)>>
        BY <3>2, <4>3, OneElement
      <4>5. Unqueue(k) # Send(Marker(s)) /\ Unqueue(k) # Unqueue(s)
        BY <1>5, <3>2, StepKinds
      <4> QED BY <4>4, <4>5, OneInHand
    <3> QED BY <2>3, <3>1, <3>2
  <2>5. s \in refused' <=> s \in refused
    <3>1. s # "key" /\ s \notin Flags
      BY DEF Slots, Flags
    <3>2. KindOf(x.cmd) # s
      BY <1>5, <3>1 DEF KindOf
    <3>3. refused' \in {refused, refused \ {k}, refused \cup {KindOf(x.cmd)}}
      BY <1>5 DEF TrySend
    <3> QED BY <1>5, <3>2, <3>3
  <2>6. OneMarker(s)' /\ (Marked(s)' <=> Marked(s))
    <3>1. CASE UNCHANGED queue
      BY <3>1, <1>1, QueueKept
    <3>2. CASE queue' = Append(queue, x.cmd)
      BY <3>2, <1>1, <1>3, <1>5, QueuedCommand
    <3> QED BY <1>5, <3>1, <3>2 DEF TrySend
  <2> QED BY <1>1, <2>1, <2>2, <2>4, <2>5, <2>6, OtherSlot
<1>6. CASE TrySend /\ k = s
  <2>1. x.op = "send" /\ UNCHANGED slots
    BY <1>6 DEF TrySend
  <2>2. x = Send(Marker(s)) /\ AboutToSend(s) /\ Tail(todo) = <<>>
    BY <1>2, <1>6, <2>1, StepKinds
  <2>3. IsQueued(s) /\ ~Marked(s) /\ IsQueued(s)'
    BY <1>1, <2>1, <2>2 DEF SlotInv, IsQueued
  <2>4. CASE queue' = Append(queue, x.cmd) /\ todo' = Tail(todo)
    <3>1. OneMarker(s)' /\ Marked(s)'
      BY <2>4, <2>3, <1>1, <1>3, <1>6, QueuedCommand
    <3>2. ~AboutToSend(s)' /\ todo' # <<Unqueue(s)>>
      BY <2>2, <2>4, NotInHand
    <3> QED BY <2>3, <3>1, <3>2 DEF SlotInv
  <2>5. CASE UNCHANGED queue /\ todo' = <<Unqueue(s)>> \o Tail(todo)
             /\ refused' = refused \cup {s}
    <3>1. OneMarker(s)' /\ ~Marked(s)'
      BY <2>5, <2>3, <1>1, QueueKept
    <3>2. todo' = <<Unqueue(s)>>
      BY <2>2, <2>5, OneElement
    <3>3. AboutToSend(s)'
      BY <3>2, OneInHand
    <3> QED BY <2>3, <2>5, <3>1, <3>2, <3>3 DEF SlotInv
  <2>6. KindOf(x.cmd) = s /\ s \in Slots /\ s \notin Flags
    BY <1>6 DEF KindOf, Slots, Flags
  <2> QED BY <1>6, <2>4, <2>5, <2>6 DEF TrySend
<1>7. CASE UnqueueSlot
  <2>1. /\ x.op = "unqueue" /\ todo' = Tail(todo) /\ UNCHANGED <<queue, refused>>
        /\ slots' = [slots EXCEPT ![k].queued = FALSE]
    BY <1>7 DEF UnqueueSlot
  <2>2. CASE k # s
    <3>1. slots'[s] = slots[s]
      BY <2>1, <2>2, <1>1
    <3>2. ~AboutToSend(s)
      BY <1>2, <2>1, <2>2, StepKinds
    <3> QED BY <1>1, <1>2, <2>1, <3>1, <3>2, QueueKept, OtherSlot
  <2>3. CASE k = s
    <3>1. x = Unqueue(s) /\ AboutToSend(s) /\ Tail(todo) = <<>>
      BY <1>2, <2>1, <2>3, StepKinds
    <3>2. slots'[s] = [slots[s] EXCEPT !.queued = FALSE]
      BY <1>1, <2>1, <2>3
    <3>3. slots[s] \in SlotRecord(s)
      BY DEF SlotTypes
    <3>4. ~IsQueued(s)'
      BY <3>2, <3>3 DEF IsQueued, SlotRecord
    <3>5. ~AboutToSend(s)' /\ todo' # <<Unqueue(s)>>
      BY <2>1, <3>1, NotInHand
    <3>6. OneMarker(s)' /\ ~Marked(s)'
      BY <1>1, <2>1, <3>1, QueueKept DEF SlotInv
    <3>7. s \in refused'
      <4>1. todo = <<Unqueue(s)>>
        <5>1. todo = <<Send(Marker(s))>> => x = Send(Marker(s))
          OBVIOUS
        <5> QED BY <5>1, <1>1, <2>1, <3>1, StepKinds DEF SlotInv
      <4> QED BY <4>1, <1>1, <2>1 DEF SlotInv
    <3> QED BY <3>4, <3>5, <3>6, <3>7 DEF SlotInv
  <2> QED BY <2>2, <2>3
<1> QED BY <1>4, <1>5, <1>6, <1>7 DEF MainThread

(* An event of the window begins with nothing in hand.                     *)
LEMMA Begins ==
  ASSUME NEW s \in Slots, NEW k \in Keys
  PROVE  LET mine == {Send(Marker(s)), Unqueue(s)} IN
           /\ Send(Command("press", k)) \notin mine
           /\ Send(Command("lift", k)) \notin mine
BY DEF Send, Unqueue, Marker, Command, Slots

LEMMA BeginsFlag ==
  ASSUME NEW s \in Slots, NEW f \in Flags
  PROVE  LET mine == {Send(Marker(s)), Unqueue(s)} IN
           SetFlag(f) \notin mine /\ Send(Marker(f)) \notin mine /\ DropHandle \notin mine
BY DEF SetFlag, DropHandle, Send, Unqueue, Marker, Command, Slots, Flags

LEMMA BeginsSlot ==
  ASSUME NEW s \in Slots, NEW r \in Slots
  PROVE  LET mine == {Send(Marker(s)), Unqueue(s)} IN
           /\ r # s => Send(Marker(r)) \notin mine
           /\ Send(Marker(s)) # Unqueue(s)
BY DEF Send, Unqueue, Marker, Command, Slots

LEMMA QueueSlotKeeps ==
  ASSUME QueueTypes, SlotTypes, SlotsInv, NEW r \in Slots, NEW v, QueueSlot(r, v),
         UNCHANGED queue
  PROVE  SlotsInv'
<1> SUFFICES ASSUME NEW s \in Slots PROVE SlotInv(s)'
  BY DEF SlotsInv
<1>1. SlotInv(s) /\ s \in DOMAIN slots /\ slots[s].queued \in BOOLEAN
  BY DEF SlotsInv, SlotTypes, SlotRecord
<1>2. OneMarker(s)' /\ (Marked(s)' <=> Marked(s))
  BY <1>1, QueueKept
<1>3. ~AboutToSend(s)
  BY DEF QueueSlot, Handles, AboutToSend
<1>4. /\ slots' = [slots EXCEPT ![r] = [value |-> v, queued |-> TRUE]]
      /\ todo' = IF slots[r].queued THEN <<>> ELSE <<Send(Marker(r))>>
      /\ refused' = IF slots[r].queued THEN refused \ {r} ELSE refused
  BY DEF QueueSlot, Handles
<1>5. CASE r # s
  <2>1. slots'[s] = slots[s] /\ (s \in refused' <=> s \in refused)
    BY <1>1, <1>4, <1>5
  <2>2. ~AboutToSend(s)'
    BY <1>4, <1>5, NotInHand, OneInHand, BeginsSlot
  <2> QED BY <1>1, <1>2, <1>3, <2>1, <2>2, OtherSlot
<1>6. CASE r = s
  <2>1. IsQueued(s)'
    BY <1>1, <1>4, <1>6 DEF IsQueued
  <2>2. CASE slots[s].queued
    <3>1. Marked(s)'
      BY <1>1, <1>2, <1>3, <2>2 DEF SlotInv, IsQueued
    <3>2. ~AboutToSend(s)' /\ todo' # <<Unqueue(s)>>
      BY <1>4, <1>6, <2>2, NotInHand
    <3> QED BY <1>2, <2>1, <3>1, <3>2 DEF SlotInv
  <2>3. CASE ~slots[s].queued
    <3>1. ~Marked(s)'
      BY <1>1, <1>2, <2>3 DEF SlotInv, IsQueued
    <3>2. todo' = <<Send(Marker(s))>>
      BY <1>4, <1>6, <2>3
    <3>3. AboutToSend(s)'
      BY <3>2, OneInHand
    <3>4. todo' # <<Unqueue(s)>>
      BY <3>2, BeginsSlot
    <3> QED BY <1>2, <2>1, <3>1, <3>2, <3>3, <3>4 DEF SlotInv
  <2> QED BY <1>1, <2>2, <2>3
<1> QED BY <1>5, <1>6

LEMMA WindowKeepsSlots ==
  ASSUME QueueTypes, SlotTypes, SlotsInv, Window
  PROVE  SlotsInv'
<1>1. CASE \E p \in Points : MoveMouse(p)
  <2>1. PICK p \in Points : QueueSlot("move", p) /\ UNCHANGED queue
    BY <1>1 DEF MoveMouse
  <2> QED BY <2>1, QueueSlotKeeps DEF Slots
<1>2. CASE \E sz \in Sizes : ResizeWindow(sz)
  <2>1. PICK sz \in Sizes : QueueSlot("resize", sz) /\ UNCHANGED queue
    BY <1>2 DEF ResizeWindow
  <2> QED BY <2>1, QueueSlotKeeps DEF Slots
<1>3. ASSUME UNCHANGED <<queue, slots, refused>>, todo = <<>>,
             NEW s \in Slots, ~AboutToSend(s)'
      PROVE  SlotInv(s)'
  <2>1. SlotInv(s) /\ ~AboutToSend(s)
    BY <1>3 DEF SlotsInv, AboutToSend
  <2> QED BY <1>3, <2>1, QueueKept, OtherSlot
<1>4. CASE \E k \in Keys : PressKey(k) \/ LiftKey(k)
  <2>1. PICK k \in Keys : PressKey(k) \/ LiftKey(k)
    BY <1>4
  <2>2. /\ UNCHANGED <<queue, slots, refused>> /\ todo = <<>>
        /\ todo' = <<Send(Command("press", k))>> \/ todo' = <<Send(Command("lift", k))>>
    BY <2>1 DEF PressKey, LiftKey, Handles
  <2>3. \A s \in Slots : ~AboutToSend(s)'
    BY <2>2, OneInHand, Begins
  <2> QED BY <1>3, <2>2, <2>3 DEF SlotsInv
<1>5. CASE LoseFocus \/ GainFocus \/ CloseWindow
  <2>1. UNCHANGED <<queue, slots, refused>> /\ todo = <<>>
    BY <1>5 DEF LoseFocus, GainFocus, CloseWindow, Handles
  <2>2. ASSUME NEW i \in DOMAIN todo'
        PROVE  \E f \in Flags : todo'[i] \in {SetFlag(f), Send(Marker(f)), DropHandle}
    BY <1>5, <2>2 DEF LoseFocus, GainFocus, CloseWindow, Handles, Flags
  <2>3. \A s \in Slots : ~AboutToSend(s)'
    BY <2>2, BeginsFlag DEF AboutToSend
  <2> QED BY <1>3, <2>1, <2>3 DEF SlotsInv
<1> QED BY <1>1, <1>2, <1>4, <1>5 DEF Window

LEMMA SlotsAlways == Spec => []SlotsInv
<1>1. Init => SlotsInv
  <2> SUFFICES ASSUME Init, NEW s \in Slots PROVE SlotInv(s)
    BY DEF SlotsInv
  <2>1. queue = <<>> /\ todo = <<>> /\ slots[s] = EmptySlot
    BY DEF Init
  <2>2. ~Marked(s) /\ ~AboutToSend(s) /\ OneMarker(s)
    BY <2>1 DEF Marked, AboutToSend, OneMarker, MarkersOf
  <2>3. ~IsQueued(s) /\ slots[s].value = None
    BY <2>1 DEF IsQueued, EmptySlot
  <2>4. todo # <<Unqueue(s)>>
    BY <2>1
  <2> QED BY <2>2, <2>3, <2>4 DEF SlotInv
<1>2. TypeInv /\ SlotsInv /\ [Next]_vars => SlotsInv'
  <2> SUFFICES ASSUME TypeInv, SlotsInv, [Next]_vars PROVE SlotsInv'
    OBVIOUS
  <2>1. QueueTypes /\ SlotTypes
    BY DEF TypeInv
  <2>2. CASE UNCHANGED vars
    <3>1. UNCHANGED <<queue, slots, todo, refused>>
      BY <2>2 DEF vars
    <3>2. ASSUME NEW s \in Slots PROVE SlotInv(s)'
      <4>1. SlotInv(s)
        BY DEF SlotsInv
      <4> QED BY <3>1, <4>1, QueueKept, OtherSlot
    <3> QED BY <3>2 DEF SlotsInv
  <2> QED BY <2>1, <2>2, NextCases, WindowKeepsSlots, MainThreadKeepsSlots,
             SessionKeepsSlots DEF Acts
<1> QED BY <1>1, <1>2, TypeAlways, PTL DEF Spec

(* Of a coalesced value that try_command accepted a marker is in the       *)
(* queue, exactly one, until the session takes the value with it.          *)
THEOREM AcceptedIsDelivered == Spec => []AcceptedValueIsDelivered
<1>1. SlotsInv => AcceptedValueIsDelivered
  <2> SUFFICES ASSUME SlotsInv, NEW s \in Slots
               PROVE  /\ \A i, j \in MarkersOf(s) : i = j
                      /\ slots[s].value # None /\ s \notin refused /\ ~AboutToSend(s)
                           => MarkersOf(s) # {}
    BY DEF AcceptedValueIsDelivered
  <2>1. SlotInv(s)
    BY DEF SlotsInv
  <2>2. Marked(s) => MarkersOf(s) # {}
    BY DEF Marked, MarkersOf
  <2> QED BY <2>1, <2>2 DEF SlotInv, OneMarker
<1> QED BY <1>1, SlotsAlways, PTL

-----------------------------------------------------------------------------
(* No wake-up is lost: the part of ReleaseReachesHost and CloseEndsSession *)
(* that is about single states.                                            *)

Waiting == phase \in {"select", "retryWait"}
ToSend == \E i \in DOMAIN todo : todo[i].op = "send"
ToRaise(f) == \E i \in DOMAIN todo : todo[i] = SetFlag(f)
ToDrop == todo # <<>> /\ todo[Len(todo)] = DropHandle

(* A session that waits for commands with a flag up has a command to wake  *)
(* it, or the main thread is about to send one: the marker of the flag,    *)
(* or whatever filled the queue and kept the marker out.                   *)
FlagsAreHeard ==
    Waiting /\ (flags["release"] \/ flags["shutdown"]) => queue # <<>> \/ ToSend

(* The wish to close is in the flag until the session ends, or until the   *)
(* one attempt to tell the server has failed; then the handles, that go    *)
(* with the window, end the session.                                       *)
CloseIsKept ==
    closed => \/ phase = "ended" \/ flags["shutdown"] \/ ToRaise("shutdown")
              \/ cut /\ (SendersGone \/ ToDrop)

(* Whatever the main thread still does for a closed window, it drops its   *)
(* handles last.                                                           *)
HandlesGo == closed => SendersGone \/ ToDrop

(* A flag is raised before its marker is sent, never the other way round.  *)
MarkerFollows ==
    \A i \in DOMAIN todo :
       todo[i].op = "flag" => \E j \in DOMAIN todo : j > i /\ todo[j].op = "send"

WakeInv == FlagsAreHeard /\ CloseIsKept /\ HandlesGo /\ MarkerFollows

(* What is left of todo when its first step is done, or replaced. *)
LEMMA StepDone ==
  ASSUME QueueTypes, todo # <<>>, todo' = Tail(todo)
  PROVE  /\ ToSend => Head(todo).op = "send" \/ ToSend'
         /\ \A f : ToRaise(f) => Head(todo) = SetFlag(f) \/ ToRaise(f)'
         /\ MarkerFollows => MarkerFollows' /\ (Head(todo).op = "flag" => ToSend')
         /\ ToDrop => todo' = <<>> \/ ToDrop'
<1> DEFINE T == Steps
           q == todo
           r == todo'
<1>0. q \in Seq(T)
  BY DEF QueueTypes
<1> HIDE DEF T
<1>1. /\ \A i \in DOMAIN r : i \in Nat /\ i + 1 \in DOMAIN q /\ r[i] = q[i + 1]
      /\ \A i \in DOMAIN q : i # 1 => i - 1 \in DOMAIN r /\ r[i - 1] = q[i]
      /\ \A i \in DOMAIN q : i \in Nat /\ i >= 1
      /\ 1 \in DOMAIN q /\ Head(q) = q[1]
  BY <1>0
<1>2. ToSend => Head(todo).op = "send" \/ ToSend'
  BY <1>1 DEF ToSend
<1>3. \A f : ToRaise(f) => Head(todo) = SetFlag(f) \/ ToRaise(f)'
  BY <1>1 DEF ToRaise
<1>4. ASSUME MarkerFollows PROVE MarkerFollows'
  <2> SUFFICES ASSUME NEW i \in DOMAIN r, r[i].op = "flag"
               PROVE  \E j \in DOMAIN r : j > i /\ r[j].op = "send"
    BY DEF MarkerFollows
  <2>1. i \in Nat /\ i + 1 \in DOMAIN q /\ q[i + 1].op = "flag"
    BY <1>1
  <2>2. PICK j \in DOMAIN q : j > i + 1 /\ q[j].op = "send"
    BY <1>4, <2>1 DEF MarkerFollows
  <2>3. j \in Nat /\ j # 1
    BY <1>1, <2>1, <2>2
  <2>4. j - 1 \in DOMAIN r /\ r[j - 1].op = "send" /\ j - 1 > i
    BY <1>1, <2>1, <2>2, <2>3
  <2> QED BY <2>4
<1>5. ASSUME MarkerFollows, Head(todo).op = "flag" PROVE ToSend'
  <2>1. PICK j \in DOMAIN q : j > 1 /\ q[j].op = "send"
    BY <1>1, <1>5 DEF MarkerFollows
  <2>2. j - 1 \in DOMAIN r /\ r[j - 1].op = "send"
    BY <1>1, <2>1
  <2> QED BY <2>2 DEF ToSend
<1>6. ASSUME ToDrop, r # <<>> PROVE ToDrop'
  <2>1. Len(r) \in DOMAIN r /\ Len(r) + 1 = Len(q)
    BY <1>0, <1>6
  <2> QED BY <1>1, <1>6, <2>1 DEF ToDrop
<1> QED BY <1>2, <1>3, <1>4, <1>5, <1>6

LEMMA StepReplaced ==
  ASSUME QueueTypes, todo # <<>>, NEW x, x.op = "unqueue", todo' = <<x>> \o Tail(todo)
  PROVE  /\ \A f : ToRaise(f) => Head(todo) = SetFlag(f) \/ ToRaise(f)'
         /\ MarkerFollows => MarkerFollows'
         /\ ToDrop => Head(todo) = DropHandle \/ ToDrop'
<1> DEFINE T == Steps
           q == todo
           r == todo'
<1>0. q \in Seq(T)
  BY DEF QueueTypes
<1> HIDE DEF T
<1>1. /\ DOMAIN r = DOMAIN q /\ r[1] = x
      /\ \A i \in DOMAIN q : i \in Nat /\ i >= 1
      /\ \A i \in DOMAIN q : i # 1 => r[i] = q[i]
      /\ 1 \in DOMAIN q /\ Head(q) = q[1]
  BY <1>0
<1>2. \A f : ToRaise(f) => Head(todo) = SetFlag(f) \/ ToRaise(f)'
  BY <1>1 DEF ToRaise
<1>3. ASSUME MarkerFollows PROVE MarkerFollows'
  <2> SUFFICES ASSUME NEW i \in DOMAIN r, r[i].op = "flag"
               PROVE  \E j \in DOMAIN r : j > i /\ r[j].op = "send"
    BY DEF MarkerFollows
  <2>1. i # 1 /\ i \in DOMAIN q /\ q[i].op = "flag"
    BY <1>1
  <2>2. PICK j \in DOMAIN q : j > i /\ q[j].op = "send"
    BY <1>3, <2>1 DEF MarkerFollows
  <2>3. j # 1
    BY <1>1, <2>1, <2>2
  <2> QED BY <1>1, <2>2, <2>3
<1>4. ToDrop => Head(todo) = DropHandle \/ ToDrop'
  <2>1. Len(r) = Len(q) /\ Len(q) \in DOMAIN q /\ r # <<>>
    BY <1>0
  <2> QED BY <1>1, <2>1 DEF ToDrop
<1> QED BY <1>2, <1>3, <1>4

(* A step that leaves todo alone, or begins with nothing in it, keeps the  *)
(* order of flags and markers.                                             *)
LEMMA TodoKept ==
  ASSUME UNCHANGED todo
  PROVE  /\ ToSend' <=> ToSend
         /\ \A f : ToRaise(f)' <=> ToRaise(f)
         /\ MarkerFollows' <=> MarkerFollows
         /\ ToDrop' <=> ToDrop
BY DEF ToSend, ToRaise, MarkerFollows, ToDrop

(* The session goes to wait only after it has taken both flags, goes on    *)
(* once it has taken a command, and drops a wish to close only by ending   *)
(* or when it could not tell the server.                                   *)
LEMMA SessionWakes ==
  ASSUME TypeInv, Connection \/ Loop \/ Offline
  PROVE  /\ UNCHANGED <<closed, todo>> /\ phase # "ended"
         /\ cut => cut'
         /\ phase' = "ended" \/ cut' \/ flags'["shutdown"] = flags["shutdown"]
         /\ Waiting' => \/ UNCHANGED <<phase, queue, flags>>
                        \/ ~flags'["release"] /\ ~flags'["shutdown"]
<1>a. flags \in [Flags -> BOOLEAN]
  BY DEF TypeInv
<1>b. /\ "release" \in DOMAIN flags /\ "shutdown" \in DOMAIN flags
      /\ flags["release"] \in BOOLEAN /\ flags["shutdown"] \in BOOLEAN
  BY <1>a DEF Flags
<1> USE <1>b DEF Waiting, SessionOnly, window
<1>1. CASE Connection
  BY <1>1 DEF Connection, Connected, ConnectionLost, ControlOpens, Online
<1>2. CASE LoopTop
  BY <1>2 DEF LoopTop
<1>3. CASE OtherArm \/ PasteArm
  BY <1>3 DEF OtherArm, PasteArm
<1>4. CASE HandleKey \/ HandleMove \/ HandleResize
  BY <1>4 DEF HandleKey, HandleMove, HandleResize, TakeSlot
<1>5. CASE HandleRelease
  BY <1>5 DEF HandleRelease, TakeFlag
<1>6. CASE HandleShutdown
  <2>1. UNCHANGED <<closed, todo>> /\ phase = "select"
    BY <1>6 DEF HandleShutdown
  <2>2. \/ ~flags["shutdown"] /\ phase' = "top" /\ UNCHANGED cut
        \/ phase' = "ended" /\ UNCHANGED cut
        \/ phase' = "drainTop" /\ cut' = TRUE
    BY <1>6 DEF HandleShutdown
  <2>3. flags'["shutdown"] = FALSE
    BY <1>6 DEF HandleShutdown, TakeFlag
  <2>4. (cut => cut') /\ ~Waiting'
    BY <2>2
  <2> QED BY <2>1, <2>2, <2>3, <2>4
<1>6a. CASE HandleNone
  BY <1>6a DEF HandleNone
<1>7. CASE DrainTop
  BY <1>7 DEF DrainTop, StopFlagged
<1>8. CASE Drain
  BY <1>8 DEF Drain, Absorb, StopOffline, TakeSlot, TakeFlag
<1>9. CASE RetryTop
  BY <1>9 DEF RetryTop, StopFlagged
<1>10. CASE RetryWait
  BY <1>10 DEF RetryWait, Absorb, StopOffline, TakeSlot, TakeFlag
<1>11. CASE RetryDue
  BY <1>11 DEF RetryDue
<1> QED BY <1>1, <1>2, <1>3, <1>4, <1>5, <1>6, <1>6a, <1>7, <1>8, <1>9, <1>10, <1>11
           DEF Loop, Handle, Offline

(* What the main thread sends wakes the session, for a marker that is kept *)
(* out finds a queue that is full, or nobody to wake.                      *)
LEMMA MainThreadWakes ==
  ASSUME TypeInv, WakeInv, MainThread
  PROVE  WakeInv'
<1>a. QueueTypes /\ flags \in [Flags -> BOOLEAN] /\ todo # <<>>
  BY DEF TypeInv, MainThread, RaiseFlag, TrySend, UnqueueSlot, DropTheHandle
<1>b. "release" \in DOMAIN flags /\ "shutdown" \in DOMAIN flags
  BY <1>a DEF Flags
<1>c. UNCHANGED <<closed, phase, cut>>
  BY DEF MainThread, RaiseFlag, TrySend, UnqueueSlot, DropTheHandle, window
<1>d. todo' = Tail(todo) =>
        /\ ToSend => Head(todo).op = "send" \/ ToSend'
        /\ \A f : ToRaise(f) => Head(todo) = SetFlag(f) \/ ToRaise(f)'
        /\ MarkerFollows => MarkerFollows' /\ (Head(todo).op = "flag" => ToSend')
        /\ ToDrop => todo' = <<>> \/ ToDrop'
  BY <1>a, StepDone
<1>e. /\ \A f : SetFlag(f).op = "flag" /\ SetFlag(f).cmd.kind = f
      /\ DropHandle.op = "drop"
  BY DEF SetFlag, Marker, Command, DropHandle
<1>f. todo' = Tail(todo) => HandlesGo'
  BY <1>a, <1>c, <1>d DEF WakeInv, HandlesGo, SendersGone
<1>g. HandlesGo' => (closed' /\ cut' => cut' /\ (SendersGone' \/ ToDrop'))
  BY DEF HandlesGo
<1> USE DEF WakeInv, FlagsAreHeard, CloseIsKept, Waiting
<1>1. CASE RaiseFlag
  <2>1. Head(todo).op = "flag" /\ todo' = Tail(todo) /\ UNCHANGED queue
    BY <1>1 DEF RaiseFlag
  <2>2. flags["shutdown"] => flags'["shutdown"]
    BY <1>1, <1>b DEF RaiseFlag
  <2>3. Head(todo) = SetFlag("shutdown") => flags'["shutdown"]
    BY <1>1, <1>b, <1>e DEF RaiseFlag
  <2>4. ToSend' /\ MarkerFollows'
    BY <2>1, <1>d
  <2> QED BY <1>c, <1>d, <1>f, <1>g, <2>1, <2>2, <2>3, <2>4
<1>2. CASE TrySend
  <2>1. Head(todo).op = "send" /\ UNCHANGED flags
    BY <1>2 DEF TrySend
  <2>2. queue' # <<>> \/ phase = "ended"
    <3> DEFINE c == Head(todo).cmd
               C == Commands
    <3>1. queue \in Seq(C) /\ QueueCap \in Nat \ {0}
      BY <1>a, CommandAssumption DEF QueueTypes
    <3>2. \/ queue' = Append(queue, c)
          \/ UNCHANGED queue /\ (phase = "ended" \/ Len(queue) >= QueueCap)
      BY <1>2 DEF TrySend
    <3> HIDE DEF c, C
    <3>3. Len(queue) >= QueueCap => queue # <<>>
      BY <3>1
    <3>4. Append(queue, c) # <<>>
      BY <3>1
    <3> QED BY <3>2, <3>3, <3>4
  <2>3. MarkerFollows' /\ HandlesGo' /\ (ToRaise("shutdown") => ToRaise("shutdown")')
    <3>1. CASE todo' = Tail(todo)
      BY <3>1, <2>1, <1>d, <1>e, <1>f
    <3>2. CASE \E s \in Slots : todo' = <<Unqueue(s)>> \o Tail(todo)
      <4>1. PICK x : x.op = "unqueue" /\ todo' = <<x>> \o Tail(todo)
        BY <3>2 DEF Unqueue
      <4>2. closed => ToDrop
        BY <1>a DEF HandlesGo, SendersGone
      <4> QED BY <4>1, <4>2, <2>1, <1>a, <1>c, <1>e, StepReplaced DEF HandlesGo
    <3> QED BY <1>2, <3>1, <3>2 DEF TrySend
  <2> QED BY <1>c, <1>g, <2>1, <2>2, <2>3
<1>3. CASE UnqueueSlot \/ DropTheHandle
  <2>1. Head(todo).op \in {"unqueue", "drop"} /\ todo' = Tail(todo) /\ UNCHANGED <<queue, flags>>
    BY <1>3 DEF UnqueueSlot, DropTheHandle
  <2>2. /\ ToSend => ToSend'
        /\ ToRaise("shutdown") => ToRaise("shutdown")'
        /\ MarkerFollows'
    BY <2>1, <1>d, <1>e
  <2> QED BY <1>c, <1>f, <1>g, <2>1, <2>2
<1> QED BY <1>1, <1>2, <1>3 DEF MainThread

(* An event of the window that begins finds no step left to do: what woke  *)
(* the session before is in the queue.                                     *)
LEMMA WindowWakes ==
  ASSUME TypeInv, WakeInv, Window
  PROVE  WakeInv'
<1>1. /\ todo = <<>> /\ ~closed /\ UNCHANGED <<phase, queue, flags>>
      /\ closed' => CloseWindow
  BY DEF Window, PressKey, LiftKey, MoveMouse, ResizeWindow, QueueSlot, LoseFocus,
     GainFocus, CloseWindow, Handles, window
<1>2. ~ToSend
  BY <1>1 DEF ToSend
<1>3. \/ todo' = <<>> \/ \E c : todo' = <<Send(c)>>
      \/ todo' = <<SetFlag("release"), Send(Marker("release"))>>
      \/ todo' = <<SetFlag("release"), Send(Marker("release")),
                   SetFlag("shutdown"), Send(Marker("shutdown")), DropHandle>>
  BY DEF Window, PressKey, LiftKey, MoveMouse, ResizeWindow, QueueSlot, LoseFocus,
     GainFocus, CloseWindow, Handles
<1>4. \A f : SetFlag(f).op = "flag"
  BY DEF SetFlag
<1>5. (\A c : Send(c).op = "send") /\ DropHandle.op = "drop"
  BY DEF Send, DropHandle
<1>6. MarkerFollows'
  <2> DEFINE r == todo'
  <2>1. \A fe, fd, me, md, z :
          fe.op = "flag" /\ fd.op = "flag" /\ me.op = "send" /\ md.op = "send" /\ z.op = "drop"
          /\ (r = <<>> \/ r = <<me>> \/ r = <<fe, me>> \/ r = <<fe, me, fd, md, z>>)
            => \A i \in DOMAIN r : r[i].op = "flag" =>
                 \E j \in DOMAIN r : j > i /\ r[j].op = "send"
    OBVIOUS
  <2>2. \E fe, fd, me, md, z :
          fe.op = "flag" /\ fd.op = "flag" /\ me.op = "send" /\ md.op = "send" /\ z.op = "drop"
          /\ (r = <<>> \/ r = <<me>> \/ r = <<fe, me>> \/ r = <<fe, me, fd, md, z>>)
    BY <1>3, <1>4, <1>5
  <2> QED BY <2>1, <2>2 DEF MarkerFollows
<1>7. closed' => ToRaise("shutdown")' /\ ToDrop'
  <2>1. CloseWindow => todo' = <<SetFlag("release"), Send(Marker("release")),
                                 SetFlag("shutdown"), Send(Marker("shutdown")),
                                 DropHandle>>
    BY DEF CloseWindow, Handles
  <2>2. CloseWindow => /\ 3 \in DOMAIN todo' /\ todo'[3] = SetFlag("shutdown")
                       /\ todo' # <<>> /\ todo'[Len(todo')] = DropHandle
    <3>1. \A a, b, c, d, z : todo' = <<a, b, c, d, z>> =>
            3 \in DOMAIN todo' /\ todo'[3] = c /\ todo' # <<>> /\ todo'[Len(todo')] = z
      OBVIOUS
    <3> QED BY <2>1, <3>1, Zenon
  <2> QED BY <1>1, <2>2 DEF ToRaise, ToDrop
<1> QED BY <1>1, <1>2, <1>6, <1>7 DEF WakeInv, FlagsAreHeard, CloseIsKept, HandlesGo, Waiting

LEMMA WakeAlways == Spec => []WakeInv
<1>1. Init => WakeInv
  BY DEF Init, WakeInv, FlagsAreHeard, CloseIsKept, HandlesGo, MarkerFollows, Waiting
<1>2. TypeInv /\ WakeInv /\ [Next]_vars => WakeInv'
  <2> SUFFICES ASSUME TypeInv, WakeInv, [Next]_vars PROVE WakeInv'
    OBVIOUS
  <2>1. CASE Connection \/ Loop \/ Offline
    BY <2>1, SessionWakes, TodoKept
       DEF WakeInv, FlagsAreHeard, CloseIsKept, HandlesGo, SendersGone, Waiting
  <2>2. CASE UNCHANGED vars
    <3>1. UNCHANGED <<todo, closed, phase, queue, flags, cut>>
      BY <2>2 DEF vars
    <3> QED BY <3>1, TodoKept
            DEF WakeInv, FlagsAreHeard, CloseIsKept, HandlesGo, SendersGone, Waiting
  <2> QED BY <2>1, <2>2, NextCases, MainThreadWakes, WindowWakes DEF Acts
<1> QED BY <1>1, <1>2, TypeAlways, PTL DEF Spec

(* The session never goes to sleep over a flag: when it waits with one up, *)
(* the queue will wake it, even where the queue had no room for a marker.  *)
THEOREM NoWakeUpLost == Spec => []FlagsAreHeard
<1>1. WakeInv => FlagsAreHeard
  BY DEF WakeInv
<1> QED BY <1>1, WakeAlways, PTL

(* The wish to close a window is dropped by no other command and by no     *)
(* connection that is lost and made again, except where the session takes  *)
(* it and cannot tell the server; then nobody is left who could send, or   *)
(* will be once the main thread is done with the window, and the session   *)
(* ends at the end of its queue (handle_command's Shutdown, remove_window).*)
THEOREM CloseIsNotForgotten == Spec => []CloseIsKept
<1>1. WakeInv => CloseIsKept
  BY DEF WakeInv
<1> QED BY <1>1, WakeAlways, PTL

-----------------------------------------------------------------------------
(* The other end of the same loop: OutputPath, for every capacity of its   *)
(* queue and of the sockets and for every bound.                           *)

(* Commands that wait were given; the flags are apart because their proofs *)
(* are propositional.                                                      *)
PathCounts ==
    /\ loop \in {"top", "select", "emitting", "clipboard", "reactivating",
                 "quitting", "flushing", "ended"}
    /\ emits \in 0..MaxReplies /\ steps \in 0..MaxSteps
    /\ outq \in 0..OutCap /\ accepted \in Nat
    /\ writer \in {"idle", "writing", "stopped"}
    /\ sock \in 0..SockCap /\ written \in Nat
    /\ commands \in 0..MaxCommands /\ given \in 0..MaxCommands /\ commands <= given
    /\ inbound \in 0..InCap /\ sent \in 0..MaxPdus
PathFlags == shutdown \in BOOLEAN /\ marker \in BOOLEAN /\ broken \in BOOLEAN

(* The frames that were accepted are all somewhere; a writer that stopped  *)
(* under a live session was stopped by the connection.                     *)
PathInv == PathCounts /\ PathFlags /\ NoFrameSkipped

LEMMA PathStart == PathInit => PathInv
<1>1. PathInit => PathCounts
  BY CapsAssumption, BoundsAssumption DEF PathInit, PathCounts
<1>2. PathInit => PathFlags
  BY DEF PathInit, PathFlags
<1>3. PathInit => NoFrameSkipped
  BY DEF PathInit, NoFrameSkipped
<1>4. QED
  BY <1>1, <1>2, <1>3 DEF PathInv

LEMMA PathFlagsStep == PathFlags /\ [PathNext]_pathVars => PathFlags'
<1> SUFFICES ASSUME PathFlags, [PathNext]_pathVars PROVE PathFlags'
  OBVIOUS
<1> USE DEF PathNext, GiveCommand, Close, SessionLoop, TopOfLoop, CommandArm,
            MarkerArm, PduArm, PduEndsSession, ReactivateStep,
            ReactivateDone, Emit, EmitFails, ReadFails, Handled,
            ClipboardArm, ClipboardFails,
            Flushed, Writer, Take, Write, WriteFails, Server,
            ServerReads, ServerSends, ServerReactivates, Break, pathVars
<1>1. shutdown' \in {TRUE, FALSE, shutdown}
  BY DEF BeginQuit, uiVars
<1>2. marker' \in {TRUE, FALSE, marker}
  BY DEF uiVars
<1>3. broken' \in {TRUE, broken}
  BY DEF serverVars
<1>4. QED
  BY <1>1, <1>2, <1>3 DEF PathFlags

LEMMA PathCountsStep == PathCounts /\ [PathNext]_pathVars => PathCounts'
<1> SUFFICES ASSUME PathCounts, [PathNext]_pathVars PROVE PathCounts'
  OBVIOUS
<1> USE CapsAssumption, BoundsAssumption DEF PathCounts, loopVars, writerVars, uiVars, serverVars
<1>1. CASE GiveCommand \/ Close
  BY <1>1 DEF GiveCommand, Close
<1>2. CASE TopOfLoop \/ MarkerArm
  BY <1>2 DEF TopOfLoop, MarkerArm, BeginQuit
<1>3. CASE CommandArm \/ ClipboardArm
  BY <1>3 DEF CommandArm, ClipboardArm
<1>4. CASE PduArm
  BY <1>4 DEF PduArm
<1>5. CASE ReactivateStep \/ ReactivateDone
  BY <1>5 DEF ReactivateStep, ReactivateDone
<1>6. CASE Emit
  BY <1>6 DEF Emit
<1>7. CASE PduEndsSession \/ EmitFails \/ ReadFails \/ Flushed
  BY <1>7 DEF PduEndsSession, EmitFails, ReadFails, Flushed, Finish
<1>8. CASE Handled \/ ClipboardFails
  BY <1>8 DEF Handled, ClipboardFails
<1>9. CASE Writer
  BY <1>9 DEF Writer, Take, Write, WriteFails
<1>10. CASE Server
  BY <1>10 DEF Server, ServerReads, ServerSends, ServerReactivates, Break
<1>11. CASE UNCHANGED pathVars
  BY <1>11 DEF pathVars
<1>12. QED
  BY <1>1, <1>2, <1>3, <1>4, <1>5, <1>6, <1>7, <1>8, <1>9, <1>10, <1>11 DEF PathNext, SessionLoop

LEMMA PathFramesStep == PathCounts /\ NoFrameSkipped /\ [PathNext]_pathVars => NoFrameSkipped'
<1> SUFFICES ASSUME PathCounts, NoFrameSkipped, [PathNext]_pathVars PROVE NoFrameSkipped'
  OBVIOUS
<1>a. outq \in Nat /\ accepted \in Nat /\ written \in Nat
  BY CapsAssumption, BoundsAssumption DEF PathCounts
<1> USE <1>a DEF NoFrameSkipped, writerVars, serverVars, loopVars
<1>1. CASE GiveCommand \/ Close \/ TopOfLoop \/ CommandArm \/ MarkerArm
  BY <1>1 DEF GiveCommand, Close, TopOfLoop, CommandArm, MarkerArm, BeginQuit
<1>2. CASE \/ PduArm \/ ReactivateStep \/ ReactivateDone \/ Handled
           \/ ClipboardArm \/ ClipboardFails
  BY <1>2 DEF PduArm, ReactivateStep, ReactivateDone, Handled, ClipboardArm, ClipboardFails
<1>3. CASE Emit
  BY <1>3 DEF Emit
<1>4. CASE PduEndsSession \/ EmitFails \/ ReadFails \/ Flushed
  BY <1>4 DEF PduEndsSession, EmitFails, ReadFails, Flushed, Finish
<1>5. CASE Writer
  BY <1>5 DEF Writer, Take, Write, WriteFails
<1>6. CASE Server
  BY <1>6 DEF Server, ServerReads, ServerSends, ServerReactivates, Break
<1>7. CASE UNCHANGED pathVars
  BY <1>7 DEF pathVars
<1>8. QED
  BY <1>1, <1>2, <1>3, <1>4, <1>5, <1>6, <1>7 DEF PathNext, SessionLoop

LEMMA PathAlways == PathSpec => []PathInv
<1>1. PathInv /\ [PathNext]_pathVars => PathInv'
  BY PathFlagsStep, PathCountsStep, PathFramesStep DEF PathInv
<1>2. QED
  BY PathStart, <1>1, PTL DEF PathSpec

(* Every variable of the output path keeps its type.                       *)
THEOREM PathTypeCorrect == PathSpec => []PathTypeOK
<1>1. PathInv => PathTypeOK
  BY DEF PathInv, PathCounts, PathFlags, PathTypeOK
<1>2. QED
  BY <1>1, PathAlways, PTL

(* No frame is lost from the middle of the stream, for every capacity.     *)
THEOREM FramesAreContiguous == PathSpec => []NoFrameSkipped
<1>1. PathInv => NoFrameSkipped
  BY DEF PathInv
<1>2. QED
  BY <1>1, PathAlways, PTL
=============================================================================
