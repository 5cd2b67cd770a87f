------------------------- MODULE InputRoutingProofs -------------------------
(***************************************************************************)
(* Proofs about InputRouting, for every set of keys of the Edit menu and   *)
(* of further keys, every number of Command keys and every setting.        *)
(***************************************************************************)
EXTENDS InputRouting, TLAPS

AllKeys == Keys \cup Modifiers
Fields == {"pressed", "deferred", "suppressed", "keyUps", "pasting"}

(* What is known of an InputRoutingState by itself ...                     *)
WellFormed(r) ==
    /\ DOMAIN r = Fields
    /\ r.pressed \subseteq Modifiers
    /\ r.deferred \subseteq CommandsOf(r)
    /\ r.suppressed \subseteq CommandsOf(r)
    /\ r.deferred \cap r.suppressed = {}
    /\ r.keyUps \subseteq {V}
(* ... and together with what the session was told to be down.             *)
Matches(r, down) ==
    /\ down \cap Commands = CommandsOf(r) \ (r.deferred \cup r.suppressed)
    /\ down \cap Modifiers \subseteq r.pressed

Presses(r, down, up) == Result(r, down, up, FALSE)
Sent(s, down) == (down \cup s.down) \ s.up
Sound(s, down) ==
    /\ WellFormed(s.r) /\ Matches(s.r, Sent(s, down))
    /\ s.down \subseteq AllKeys /\ s.up \subseteq AllKeys

TwoValued(s, r) == r.pasting \in BOOLEAN => s.r.pasting \in BOOLEAN

-----------------------------------------------------------------------------
(* The operations of InputRoutingState. *)

LEMMA ResultFields ==
  ASSUME NEW r, NEW down, NEW up, NEW submit
  PROVE  /\ Result(r, down, up, submit).r = r
         /\ Result(r, down, up, submit).down = down
         /\ Result(r, down, up, submit).up = up
         /\ Result(r, down, up, submit).submit = submit
BY DEF Result

LEMMA KeySets == Commands \subseteq Modifiers /\ Modifiers \cap Keys = {} /\ V \in Keys
                 /\ V \notin Modifiers /\ Control \in Modifiers
BY KeysAssumption DEF Modifiers, Keys

(* What an update of some fields leaves in each of them.                   *)
LEMMA Updated ==
  ASSUME NEW r, DOMAIN r = Fields, NEW p, NEW d, NEW s, NEW u, NEW b
  PROVE  /\ LET q == [r EXCEPT !.pressed = p]
            IN DOMAIN q = Fields /\ q.pressed = p /\ q.deferred = r.deferred
               /\ q.suppressed = r.suppressed /\ q.keyUps = r.keyUps /\ q.pasting = r.pasting
         /\ LET q == [r EXCEPT !.deferred = d]
            IN DOMAIN q = Fields /\ q.pressed = r.pressed /\ q.deferred = d
               /\ q.suppressed = r.suppressed /\ q.keyUps = r.keyUps /\ q.pasting = r.pasting
         /\ LET q == [r EXCEPT !.suppressed = s, !.pasting = b]
            IN DOMAIN q = Fields /\ q.pressed = r.pressed /\ q.deferred = r.deferred
               /\ q.suppressed = s /\ q.keyUps = r.keyUps /\ q.pasting = b
         /\ LET q == [r EXCEPT !.keyUps = u, !.pasting = b]
            IN DOMAIN q = Fields /\ q.pressed = r.pressed /\ q.deferred = r.deferred
               /\ q.suppressed = r.suppressed /\ q.keyUps = u /\ q.pasting = b
         /\ LET q == [r EXCEPT !.deferred = d, !.suppressed = s, !.keyUps = u, !.pasting = b]
            IN DOMAIN q = Fields /\ q.pressed = r.pressed /\ q.deferred = d
               /\ q.suppressed = s /\ q.keyUps = u /\ q.pasting = b
BY DEF Fields

LEMMA QuietFields ==
  ASSUME NEW r
  PROVE  Quiet(r).r = r /\ Quiet(r).down = {} /\ Quiet(r).up = {}
BY DEF Quiet, Result

LEMMA KeysFields ==
  ASSUME NEW r, NEW down, NEW up
  PROVE  /\ Presses(r, down, up).r = r
         /\ Presses(r, down, up).down = down
         /\ Presses(r, down, up).up = up
BY DEF Result, Presses

(* What each modifier event does, as Matches sees it. *)
LEMMA ModifierDownSound ==
  ASSUME NEW r, NEW down, WellFormed(r), Matches(r, down),
         NEW k \in Modifiers, NEW enabled
  PROVE  /\ Sound(ModifierDown(r, k, enabled), down) /\ TwoValued(ModifierDown(r, k, enabled), r)
         /\ ModifierDown(r, k, enabled).r.pressed = r.pressed \cup {k}
         /\ ModifierDown(r, k, enabled).down \cap Keys = {}
         /\ ModifierDown(r, k, enabled).r.keyUps = r.keyUps
<1> DEFINE s == ModifierDown(r, k, enabled)
           q == [r EXCEPT !.pressed = @ \cup {k}]
           q2 == [q EXCEPT !.deferred = @ \cup {k}]
<1>0. DOMAIN r = Fields
  BY DEF WellFormed
<1>a. /\ DOMAIN q = Fields /\ q.pressed = r.pressed \cup {k} /\ q.deferred = r.deferred
      /\ q.suppressed = r.suppressed /\ q.keyUps = r.keyUps /\ q.pasting = r.pasting
  BY <1>0, Updated
<1>b. /\ DOMAIN q2 = Fields /\ q2.pressed = q.pressed /\ q2.deferred = q.deferred \cup {k}
      /\ q2.suppressed = q.suppressed /\ q2.keyUps = q.keyUps /\ q2.pasting = q.pasting
  BY <1>a, Updated
<1>c. \/ k \in r.pressed /\ s = Quiet(r)
      \/ k \notin r.pressed /\ k \in Commands /\ s = Quiet(q2)
      \/ k \notin r.pressed /\ s = Presses(q, {k}, {})
  BY DEF ModifierDown, Presses
<1> HIDE DEF q, q2, s
<1>d. \/ k \in r.pressed /\ s.r = r /\ s.down = {} /\ s.up = {}
      \/ k \notin r.pressed /\ k \in Commands /\ s.r = q2 /\ s.down = {} /\ s.up = {}
      \/ k \notin r.pressed /\ s.r = q /\ s.down = {k} /\ s.up = {}
  BY <1>c, QuietFields, KeysFields
<1>1. WellFormed(s.r) /\ s.r.pressed = r.pressed \cup {k} /\ s.r.keyUps = r.keyUps
  BY <1>a, <1>b, <1>d, KeySets DEF WellFormed, CommandsOf
<1>2. Matches(s.r, Sent(s, down))
  BY <1>a, <1>b, <1>d, KeySets DEF WellFormed, CommandsOf, Matches, Sent
<1>3. s.down \subseteq AllKeys /\ s.up \subseteq AllKeys /\ s.down \cap Keys = {}
  BY <1>d, KeySets DEF AllKeys
<1>4. TwoValued(s, r)
  BY <1>a, <1>b, <1>d DEF TwoValued
<1> QED BY <1>1, <1>2, <1>3, <1>4 DEF Sound, s

LEMMA ModifierUpSound ==
  ASSUME NEW r, NEW down, WellFormed(r), Matches(r, down), NEW k \in Modifiers
  PROVE  /\ Sound(ModifierUp(r, k), down) /\ TwoValued(ModifierUp(r, k), r)
         /\ ModifierUp(r, k).r.pressed = r.pressed \ {k}
         /\ ModifierUp(r, k).down \cap Keys = {}
         /\ ModifierUp(r, k).r.keyUps = r.keyUps
<1> DEFINE s == ModifierUp(r, k)
           q == [r EXCEPT !.pressed = @ \ {k}]
           b == q.pasting /\ r.suppressed # {k}
           q2 == [q EXCEPT !.suppressed = @ \ {k}, !.pasting = b]
           q3 == [q EXCEPT !.deferred = @ \ {k}]
<1>0. DOMAIN r = Fields
  BY DEF WellFormed
<1>a. /\ DOMAIN q = Fields /\ q.pressed = r.pressed \ {k} /\ q.deferred = r.deferred
      /\ q.suppressed = r.suppressed /\ q.keyUps = r.keyUps /\ q.pasting = r.pasting
  BY <1>0, Updated
<1>c. \/ k \notin r.pressed /\ s = Quiet(r)
      \/ k \in r.pressed /\ k \in Commands /\ k \in r.suppressed /\ s = Quiet(q2)
      \/ k \in r.pressed /\ k \in Commands /\ k \notin r.suppressed /\ k \in r.deferred
         /\ s = Presses(q3, {k}, {k})
      \/ k \in r.pressed /\ (k \in Commands => k \notin r.suppressed /\ k \notin r.deferred)
         /\ s = Presses(q, {}, {k})
  BY DEF ModifierUp, Suppressed, Deferred, Presses
<1>e. b \in BOOLEAN
  OBVIOUS
<1> HIDE DEF q, b
<1>b. /\ DOMAIN q2 = Fields /\ q2.pressed = q.pressed /\ q2.suppressed = q.suppressed \ {k}
      /\ q2.deferred = q.deferred /\ q2.keyUps = q.keyUps /\ q2.pasting = b
      /\ DOMAIN q3 = Fields /\ q3.pressed = q.pressed /\ q3.deferred = q.deferred \ {k}
      /\ q3.suppressed = q.suppressed /\ q3.keyUps = q.keyUps /\ q3.pasting = q.pasting
  BY <1>a, Updated
<1> HIDE DEF q2, q3, s
<1>d. \/ k \notin r.pressed /\ s.r = r /\ s.down = {} /\ s.up = {}
      \/ k \in r.pressed /\ k \in r.suppressed /\ s.r = q2 /\ s.down = {} /\ s.up = {}
      \/ k \in r.pressed /\ k \in r.deferred /\ s.r = q3 /\ s.down = {k} /\ s.up = {k}
      \/ k \in r.pressed /\ (k \in Commands => k \notin r.suppressed /\ k \notin r.deferred)
         /\ s.r = q /\ s.down = {} /\ s.up = {k}
  BY <1>c, QuietFields, KeysFields
<1>1. WellFormed(s.r) /\ s.r.pressed = r.pressed \ {k} /\ s.r.keyUps = r.keyUps
  BY <1>a, <1>b, <1>d, KeySets DEF WellFormed, CommandsOf
<1>2. Matches(s.r, Sent(s, down))
  BY <1>a, <1>b, <1>d, KeySets DEF WellFormed, CommandsOf, Matches, Sent
<1>3. s.down \subseteq AllKeys /\ s.up \subseteq AllKeys /\ s.down \cap Keys = {}
  BY <1>d, KeySets DEF AllKeys
<1>4. TwoValued(s, r)
  BY <1>a, <1>b, <1>d, <1>e DEF TwoValued
<1> QED BY <1>1, <1>2, <1>3, <1>4 DEF Sound, s

(* The Command keys a paste has swallowed are not down on the remote.      *)
LEMMA PasteInvokedSound ==
  ASSUME NEW r, NEW down, WellFormed(r), Matches(r, down)
  PROVE  /\ Sound(PasteInvoked(r), down) /\ TwoValued(PasteInvoked(r), r)
         /\ PasteInvoked(r).r.pressed = r.pressed
         /\ PasteInvoked(r).down = {}
         /\ r.keyUps \subseteq PasteInvoked(r).r.keyUps
<1> DEFINE s == PasteInvoked(r)
           cs == CommandsOf(r)
           b == r.pasting \/ cs # {}
           n == ~r.pasting
           u == IF cs = {} THEN r.keyUps ELSE r.keyUps \cup {V}
           q == [r EXCEPT !.deferred = @ \ cs, !.suppressed = @ \cup cs,
                          !.keyUps = u, !.pasting = b]
<1>0. DOMAIN r = Fields
  BY DEF WellFormed
<1>1. s = Result(q, {}, cs \ (r.deferred \cup r.suppressed), n)
  BY DEF PasteInvoked
<1>e. b \in BOOLEAN
  OBVIOUS
<1> HIDE DEF b, n, s
<1>2. /\ DOMAIN q = Fields /\ q.pressed = r.pressed /\ q.deferred = r.deferred \ cs
      /\ q.suppressed = r.suppressed \cup cs /\ q.keyUps = u /\ q.pasting = b
  BY <1>0, Updated
<1> HIDE DEF q
<1>3. s.r = q /\ s.down = {} /\ s.up = cs \ (r.deferred \cup r.suppressed)
  BY <1>1, ResultFields
<1>4. WellFormed(s.r) /\ s.r.pressed = r.pressed /\ r.keyUps \subseteq s.r.keyUps
  BY <1>2, <1>3, KeySets DEF WellFormed, CommandsOf
<1>5. Matches(s.r, Sent(s, down))
  BY <1>2, <1>3, KeySets DEF WellFormed, CommandsOf, Matches, Sent
<1>6. s.down \subseteq AllKeys /\ s.up \subseteq AllKeys
  BY <1>3, KeySets DEF AllKeys, CommandsOf
<1>7. TwoValued(s, r)
  BY <1>2, <1>3, <1>e DEF TwoValued
<1> QED BY <1>3, <1>4, <1>5, <1>6, <1>7 DEF Sound, s

(* What is held back goes out first. *)
LEMMA FlushSound ==
  ASSUME NEW r, NEW down, WellFormed(r), Matches(r, down), NEW ks \in SUBSET Keys
  PROVE  LET s == Presses(Flush(r), r.deferred \cup ks, {})
         IN /\ Sound(s, down) /\ TwoValued(s, r) /\ s.r.pressed = r.pressed
            /\ s.down \cap Keys \subseteq ks /\ s.up = {} /\ s.r.keyUps = r.keyUps
<1> DEFINE s == Presses(Flush(r), r.deferred \cup ks, {})
           q == Flush(r)
<1>0. DOMAIN r = Fields
  BY DEF WellFormed
<1>2. /\ DOMAIN q = Fields /\ q.pressed = r.pressed /\ q.deferred = {}
      /\ q.suppressed = r.suppressed /\ q.keyUps = r.keyUps /\ q.pasting = r.pasting
  BY <1>0, Updated DEF Flush
<1>3. s.r = q /\ s.down = r.deferred \cup ks /\ s.up = {}
  BY KeysFields
<1> HIDE DEF q, s
<1>4. WellFormed(s.r) /\ s.r.pressed = r.pressed /\ s.r.keyUps = r.keyUps
  BY <1>2, <1>3, KeySets DEF WellFormed, CommandsOf
<1>5. Matches(s.r, Sent(s, down))
  BY <1>2, <1>3, KeySets DEF WellFormed, CommandsOf, Matches, Sent
<1>6. s.down \subseteq AllKeys /\ s.up \subseteq AllKeys /\ s.down \cap Keys \subseteq ks
  BY <1>3, KeySets DEF AllKeys, CommandsOf, WellFormed
<1>7. TwoValued(s, r)
  BY <1>2, <1>3 DEF TwoValued
<1> QED BY <1>3, <1>4, <1>5, <1>6, <1>7 DEF Sound, s

LEMMA KeyDownSound ==
  ASSUME NEW r, NEW down, WellFormed(r), Matches(r, down),
         NEW k \in Keys, NEW enabled
  PROVE  /\ Sound(KeyDown(r, k, enabled), down) /\ TwoValued(KeyDown(r, k, enabled), r)
         /\ KeyDown(r, k, enabled).r.pressed = r.pressed
         /\ KeyDown(r, k, enabled).down \cap Keys \subseteq {k}
         /\ r.keyUps \subseteq KeyDown(r, k, enabled).r.keyUps
         /\ k \in KeyDown(r, k, enabled).down => KeyDown(r, k, enabled).r.keyUps = r.keyUps
<1> DEFINE f == Presses(Flush(r), r.deferred \cup {k}, {})
<1>1. KeyDown(r, k, enabled) = PasteInvoked(r) \/ KeyDown(r, k, enabled) = f
  BY KeySets DEF KeyDown, Presses
<1>2. /\ Sound(f, down) /\ f.r.pressed = r.pressed
      /\ f.down \cap Keys \subseteq {k} /\ f.r.keyUps = r.keyUps /\ TwoValued(f, r)
  BY FlushSound
<1> HIDE DEF f
<1> QED BY <1>1, <1>2, PasteInvokedSound

(* A key-up that is swallowed is not expected any more. *)
LEMMA KeyUpSound ==
  ASSUME NEW r, NEW down, WellFormed(r), Matches(r, down), NEW k \in Keys
  PROVE  /\ Sound(KeyUp(r, k), down) /\ TwoValued(KeyUp(r, k), r)
         /\ KeyUp(r, k).r.pressed = r.pressed
         /\ KeyUp(r, k).down = {} /\ KeyUp(r, k).up \subseteq {k}
         /\ KeyUp(r, k).r.keyUps = r.keyUps \ {k}
         /\ k \in KeyUp(r, k).up \/ k \in r.keyUps
<1> DEFINE s == KeyUp(r, k)
           b == r.pasting /\ k # V
           q == [r EXCEPT !.keyUps = @ \ {k}, !.pasting = b]
<1>0. DOMAIN r = Fields
  BY DEF WellFormed
<1>1. \/ k \in r.keyUps /\ s = Quiet(q)
      \/ k \notin r.keyUps /\ s = Presses(r, {}, {k})
  BY KeySets DEF KeyUp, Presses
<1>e. b \in BOOLEAN
  OBVIOUS
<1> HIDE DEF b, s
<1>2. /\ DOMAIN q = Fields /\ q.pressed = r.pressed /\ q.deferred = r.deferred
      /\ q.suppressed = r.suppressed /\ q.keyUps = r.keyUps \ {k} /\ q.pasting = b
  BY <1>0, Updated
<1> HIDE DEF q
<1>3. \/ k \in r.keyUps /\ s.r = q /\ s.down = {} /\ s.up = {}
      \/ k \notin r.keyUps /\ s.r = r /\ s.down = {} /\ s.up = {k}
  BY <1>1, QuietFields, KeysFields
<1>4. WellFormed(s.r) /\ s.r.pressed = r.pressed /\ s.r.keyUps = r.keyUps \ {k}
  BY <1>2, <1>3, KeySets DEF WellFormed, CommandsOf
<1>5. Matches(s.r, Sent(s, down))
  BY <1>2, <1>3, KeySets DEF WellFormed, CommandsOf, Matches, Sent
<1>6. s.down \subseteq AllKeys /\ s.up \subseteq AllKeys
  BY <1>3, KeySets DEF AllKeys, CommandsOf
<1>7. TwoValued(s, r)
  BY <1>2, <1>3, <1>e DEF TwoValued
<1> QED BY <1>3, <1>4, <1>5, <1>6, <1>7 DEF Sound, s

(* A pulse: whatever it sends down it sends up, except for a V whose       *)
(* key-up is taken for the one that was expected.                          *)
LEMMA KeyPulseSound ==
  ASSUME NEW r, NEW down, WellFormed(r), Matches(r, down),
         NEW k \in Keys, NEW enabled
  PROVE  /\ Sound(KeyPulse(r, k, enabled), down) /\ TwoValued(KeyPulse(r, k, enabled), r)
         /\ KeyPulse(r, k, enabled).r.pressed = r.pressed
         /\ KeyPulse(r, k, enabled).down \cap Keys \subseteq {k}
         /\ k \in KeyPulse(r, k, enabled).down =>
                \/ k \in KeyPulse(r, k, enabled).up
                \/ k \in r.keyUps \ KeyPulse(r, k, enabled).r.keyUps
<1> DEFINE s == KeyPulse(r, k, enabled)
           d == KeyDown(r, k, enabled)
           u == KeyUp(d.r, k)
           between == Sent(d, down)
           n == d.submit
<1>1. s = Result(u.r, d.down, d.up \cup u.up, n)
  BY DEF KeyPulse
<1>2. /\ Sound(d, down) /\ TwoValued(d, r) /\ d.r.pressed = r.pressed
      /\ d.down \cap Keys \subseteq {k}
      /\ k \in d.down => d.r.keyUps = r.keyUps
  BY KeyDownSound
<1>3. WellFormed(d.r) /\ Matches(d.r, between) /\ d.down \subseteq AllKeys /\ d.up \subseteq AllKeys
  BY <1>2 DEF Sound
<1> HIDE DEF d, between
<1>4. /\ Sound(u, between) /\ TwoValued(u, d.r) /\ u.r.pressed = d.r.pressed
      /\ u.down = {} /\ u.up \subseteq {k}
      /\ u.r.keyUps = d.r.keyUps \ {k}
      /\ k \in u.up \/ k \in d.r.keyUps
  BY <1>3, KeyUpSound
<1> HIDE DEF s, u, n
<1>5. s.r = u.r /\ s.down = d.down /\ s.up = d.up \cup u.up
  BY <1>1, ResultFields
<1>6. Sent(s, down) = Sent(u, between)
  BY <1>4, <1>5 DEF Sent, between
<1>7. Sound(s, down)
  BY <1>3, <1>4, <1>5, <1>6 DEF Sound
<1>8. TwoValued(s, r)
  BY <1>2, <1>4, <1>5 DEF TwoValued
<1>9. k \in s.down => k \in s.up \/ k \in r.keyUps \ s.r.keyUps
  BY <1>2, <1>4, <1>5
<1> QED BY <1>2, <1>4, <1>5, <1>7, <1>8, <1>9 DEF s

-----------------------------------------------------------------------------
(* What a routed result has to bring for every invariant to stay.          *)
Leaves(s, own) ==
    /\ Sound(s, Told) /\ TwoValued(s, routing)
    /\ s.down \cap Keys \subseteq own \cup s.up \cup (routing.keyUps \ s.r.keyUps)

LEMMA MenuActionLeaves ==
  ASSUME WellFormed(routing), Matches(routing, Told), NEW k \in Keys, MenuTakes(k)
  PROVE  Leaves(MenuAction(k), {}) /\ MenuAction(k).r.pressed = routing.pressed
<1> DEFINE p == KeyPulse(routing, k, stt)
<1>1. /\ Sound(p, Told) /\ TwoValued(p, routing) /\ p.r.pressed = routing.pressed
      /\ p.down \cap Keys \subseteq {k}
      /\ k \in p.down => k \in p.up \/ k \in routing.keyUps \ p.r.keyUps
  BY KeyPulseSound
<1>2. Sound(Quiet(routing), Told)
  BY QuietFields DEF Sound, Sent
<1>3. Leaves(Quiet(routing), {}) /\ Quiet(routing).r.pressed = routing.pressed
  BY <1>2, QuietFields DEF Leaves, TwoValued
<1>4. Leaves(PasteInvoked(routing), {}) /\ PasteInvoked(routing).r.pressed = routing.pressed
  BY PasteInvokedSound DEF Leaves
<1>5. MenuAction(k) \in {p, Quiet(routing), PasteInvoked(routing)}
  BY DEF MenuAction
<1> HIDE DEF p
<1>6. Leaves(p, {})
  BY <1>1 DEF Leaves
<1> QED BY <1>1, <1>3, <1>4, <1>5, <1>6

LEMMA SentToViewLeaves ==
  ASSUME WellFormed(routing), Matches(routing, Told), NEW k \in Keys
  PROVE  /\ Leaves(SentToView(k), IF Shortcut(k) THEN {} ELSE {k})
         /\ SentToView(k).r.pressed = routing.pressed
<1> DEFINE p == KeyPulse(routing, k, stt)
           d == KeyDown(routing, k, stt)
<1>1. /\ Sound(p, Told) /\ TwoValued(p, routing) /\ p.r.pressed = routing.pressed
      /\ p.down \cap Keys \subseteq {k}
      /\ k \in p.down => k \in p.up \/ k \in routing.keyUps \ p.r.keyUps
  BY KeyPulseSound
<1>2. /\ Sound(d, Told) /\ TwoValued(d, routing) /\ d.r.pressed = routing.pressed
      /\ d.down \cap Keys \subseteq {k}
  BY KeyDownSound
<1>3. SentToView(k) = IF Shortcut(k) THEN p ELSE d
  BY DEF SentToView
<1> HIDE DEF p, d
<1>4. Leaves(p, {}) /\ Leaves(d, {k})
  BY <1>1, <1>2 DEF Leaves
<1> QED BY <1>1, <1>2, <1>3, <1>4

-----------------------------------------------------------------------------
(***************************************************************************)
(* The inductive invariant.  A key that the session was told went down by  *)
(* a key-down of its own or has lost its key-up; a window without focus    *)
(* has released everything; and one with focus knows no modifier to be     *)
(* down that is not, which is why an event without device bits tells it    *)
(* what changed.                                                           *)
(***************************************************************************)
RoutingInv == WellFormed(routing) /\ Matches(routing, Told) /\ routing.pasting \in BOOLEAN
Sets == /\ Told \subseteq AllKeys /\ held \subseteq AllKeys /\ out \in Outputs
        /\ plain \subseteq Keys /\ loose \subseteq Told
HeldInv == /\ focused => routing.pressed \subseteq held
           /\ ~focused => routing.pressed = {} /\ Told = {}
KeysInv == Told \cap Keys \subseteq plain \cup loose
           /\ (focused => Told \cap Keys \subseteq held \cup loose)
(* What was lost is no longer down, and without a connection nothing is.   *)
LinkInv == /\ lost \subseteq Modifiers /\ remote \cap lost = {}
           /\ ~linked => remote = {}
Bits == /\ linked \in BOOLEAN /\ stt \in BOOLEAN /\ focused \in BOOLEAN /\ text \in BOOLEAN
        /\ fresh \in BOOLEAN /\ dulled \in BOOLEAN

IInv == RoutingInv /\ Sets /\ HeldInv /\ KeysInv /\ LinkInv

LEMMA TypeParts == RoutingInv /\ Sets /\ Bits => TypeOK
BY DEF RoutingInv, WellFormed, CommandsOf, Sets, Bits, TypeOK, AllKeys

LEMMA RoutedStep ==
  ASSUME RoutingInv, Sets, KeysInv, LinkInv, NEW s, NEW own \in SUBSET Keys, NEW omitted,
         Leaves(s, own), Route(s), Account(own, omitted)
  PROVE  /\ RoutingInv' /\ routing'.pressed = s.r.pressed /\ out' \in Outputs /\ LinkInv'
         /\ Told' \subseteq AllKeys /\ plain' \subseteq Keys /\ loose' \subseteq Told'
         /\ Told' \cap Keys \subseteq plain' \cup loose'
         /\ Told' \cap Keys \subseteq (Told \cap Keys) \cup own \cup loose'
         /\ loose \cap Told' \subseteq loose'
         /\ omitted \cap Told' \subseteq loose'
<1>a. /\ routing' = s.r /\ linked' = linked
      /\ remote' = IF linked THEN (remote \cup s.down) \ s.up ELSE {}
      /\ lost' = IF linked THEN lost \ (s.down \cup s.up)
                 ELSE (lost \cup (s.down \cap Modifiers)) \ s.up
  BY DEF Route
<1>b. LinkInv'
  BY <1>a DEF LinkInv
<1>1. /\ routing' = s.r /\ Told' \subseteq Sent(s, Told)
      /\ Told' \cap Modifiers = Sent(s, Told) \cap Modifiers
  <2>1. CASE linked
    BY <1>a, <2>1 DEF Sent, Told
  <2>2. CASE ~linked
    BY <1>a, <2>2 DEF Sent, Told, LinkInv
  <2> QED BY <1>a, <2>1, <2>2
<1>2. RoutingInv'
  <2>1. WellFormed(s.r) /\ Matches(s.r, Sent(s, Told)) /\ s.r.pasting \in BOOLEAN
    BY DEF Leaves, Sound, TwoValued, RoutingInv
  <2>2. Matches(s.r, Told')
    BY <1>1, <2>1, KeySets DEF Matches
  <2> QED BY <1>1, <2>1, <2>2 DEF RoutingInv
<1>3. s.down \subseteq AllKeys
      /\ s.down \cap Keys \subseteq own \cup s.up \cup (routing.keyUps \ routing'.keyUps)
  BY <1>1 DEF Leaves, Sound
<1>4. Told' \subseteq (Told \cup s.down) \ s.up
  BY <1>1 DEF Sent
<1>5. /\ loose' = (loose \cup omitted \cup (routing.keyUps \ routing'.keyUps)) \cap Told'
      /\ plain' = (plain \cup own) \cap Told'
  BY DEF Account
<1>6. Told' \cap Keys \subseteq (Told \cap Keys) \cup own \cup loose'
  BY <1>3, <1>4, <1>5
<1>7. Told' \cap Keys \subseteq plain' \cup loose'
  BY <1>5, <1>6 DEF KeysInv
<1>8. Told' \subseteq AllKeys /\ plain' \subseteq Keys /\ loose' \subseteq Told'
  BY <1>3, <1>4, <1>5 DEF Sets
<1>9. out' \in Outputs
  <2> DEFINE b == s.submit /\ text
  <2>1. out' = [down |-> s.down, up |-> s.up, submit |-> b]
    BY DEF Route
  <2>2. b \in BOOLEAN
    OBVIOUS
  <2> HIDE DEF b
  <2> QED BY <2>1, <2>2 DEF Leaves, Sound, AllKeys, Outputs
<1> QED BY <1>b, <1>1, <1>2, <1>5, <1>6, <1>7, <1>8, <1>9

(* A step that routes something and leaves the focus where it is.          *)
LEMMA RoutedKeeps ==
  ASSUME IInv, NEW s, NEW own \in SUBSET Keys, NEW omitted, focused,
         Leaves(s, own), Route(s), Account(own, omitted),
         held' \subseteq AllKeys, focused' = focused,
         s.r.pressed \subseteq held',
         own \subseteq held',
         \A x \in Keys : x \in Told' /\ x \in held => x \in held' \cup loose'
  PROVE  IInv'
<1>1. /\ RoutingInv' /\ LinkInv' /\ routing'.pressed = s.r.pressed /\ out' \in Outputs
      /\ Told' \subseteq AllKeys /\ plain' \subseteq Keys /\ loose' \subseteq Told'
      /\ Told' \cap Keys \subseteq plain' \cup loose'
      /\ Told' \cap Keys \subseteq (Told \cap Keys) \cup own \cup loose'
      /\ loose \cap Told' \subseteq loose'
  BY RoutedStep DEF IInv
<1>2. Told \cap Keys \subseteq held \cup loose
  BY DEF IInv, KeysInv
<1>3. Told' \cap Keys \subseteq held' \cup loose'
  BY <1>1, <1>2
<1>4. Sets'
  BY <1>1 DEF Sets, AllKeys, Keys, Modifiers
<1>5. HeldInv'
  BY <1>1 DEF HeldInv
<1>6. KeysInv'
  BY <1>1, <1>3 DEF KeysInv, Keys
<1> QED BY <1>1, <1>4, <1>5, <1>6 DEF IInv

LEMMA FlagsChangedKeeps ==
  ASSUME IInv, NEW k \in Modifiers, NEW device \in BOOLEAN, FlagsChanged(k, device)
  PROVE  IInv'
<1> DEFINE dn == ModifierDown(routing, k, stt)
           up == ModifierUp(routing, k)
           family == Family(k)
           isDown == IF device THEN k \in held'
                     ELSE family \cap held' # {} /\ k \notin routing.pressed
           s == IF isDown THEN dn ELSE up
<1>0. RoutingInv /\ WellFormed(routing) /\ Matches(routing, Told) /\ held \subseteq AllKeys
      /\ routing.pressed \subseteq Modifiers
  BY DEF IInv, RoutingInv, Sets, WellFormed
<1>1. /\ focused /\ focused' = focused
      /\ device \/ family \cap held' = {} \/ routing.pressed = held \cap Modifiers
      /\ held' = IF k \in held THEN held \ {k} ELSE held \cup {k}
      /\ Account({}, {})
  BY DEF FlagsChanged
<1>2. Route(s)
  BY DEF FlagsChanged
<1>3. /\ Sound(dn, Told) /\ TwoValued(dn, routing) /\ dn.down \cap Keys = {}
      /\ dn.r.pressed = routing.pressed \cup {k}
      /\ Sound(up, Told) /\ TwoValued(up, routing) /\ up.down \cap Keys = {}
      /\ up.r.pressed = routing.pressed \ {k}
  BY <1>0, ModifierDownSound, ModifierUpSound
<1>4. routing.pressed \subseteq held
  BY <1>1 DEF IInv, HeldInv
<1>5. k \in family /\ k \in AllKeys /\ k \notin Keys
  BY KeySets DEF AllKeys, Modifiers, Family
<1>6. isDown => k \in held'
  <2>1. CASE device
    BY <2>1
  <2>2. CASE ~device /\ k \in held
    <3>1. family \cap held' = {} \/ k \in routing.pressed
      BY <1>1, <2>2
    <3> QED BY <2>2, <3>1
  <2>3. CASE ~device /\ k \notin held
    BY <1>1, <2>3
  <2> QED BY <2>1, <2>2, <2>3
<1> HIDE DEF isDown, dn, up, family
<1>7. s.r.pressed \subseteq held'
  <2>1. CASE isDown
    BY <1>1, <1>3, <1>4, <1>6, <2>1
  <2>2. CASE ~isDown
    BY <1>1, <1>3, <1>4, <2>2
  <2> QED BY <2>1, <2>2
<1>8. Leaves(s, {})
  <2>1. Leaves(dn, {}) /\ Leaves(up, {})
    BY <1>3 DEF Leaves
  <2> QED BY <2>1
<1>9. held' \subseteq AllKeys
  BY <1>0, <1>1, <1>5
<1>10. \A x \in Keys : x \in held => x \in held'
  BY <1>1, <1>5
<1> HIDE DEF s
<1> QED BY <1>1, <1>2, <1>7, <1>8, <1>9, <1>10, RoutedKeeps

LEMMA KeyPressedKeeps ==
  ASSUME IInv, NEW k \in Keys, KeyPressed(k)
  PROVE  IInv'
<1> DEFINE own == IF Shortcut(k) THEN {} ELSE {k}
           s == IF CommandHeld /\ MenuTakes(k) THEN MenuAction(k) ELSE SentToView(k)
<1>0. WellFormed(routing) /\ Matches(routing, Told) /\ held \subseteq AllKeys
  BY DEF IInv, RoutingInv, Sets
<1>1. /\ focused /\ focused' = focused /\ held' = held \cup {k}
      /\ Route(s) /\ Account(own, {})
  BY DEF KeyPressed
<1>2. routing.pressed \subseteq held
  BY <1>1 DEF IInv, HeldInv
<1>3. Leaves(s, own) /\ s.r.pressed = routing.pressed
  <2>1. CASE CommandHeld /\ MenuTakes(k)
    <3>1. Leaves(MenuAction(k), {}) /\ MenuAction(k).r.pressed = routing.pressed
      BY <1>0, <2>1, MenuActionLeaves
    <3>2. Leaves(MenuAction(k), own)
      BY <3>1 DEF Leaves
    <3> QED BY <2>1, <3>1, <3>2
  <2>2. CASE ~(CommandHeld /\ MenuTakes(k))
    <3>1. Leaves(SentToView(k), own) /\ SentToView(k).r.pressed = routing.pressed
      BY <1>0, SentToViewLeaves
    <3> QED BY <2>2, <3>1
  <2> QED BY <2>1, <2>2
<1> HIDE DEF s
<1>4. own \in SUBSET Keys /\ own \subseteq held'
  BY <1>1
<1> HIDE DEF own
<1>5. held' \subseteq AllKeys
  BY <1>0, <1>1 DEF AllKeys
<1> QED BY <1>1, <1>2, <1>3, <1>4, <1>5, RoutedKeeps

LEMMA KeyReleasedKeeps ==
  ASSUME IInv, NEW k \in Keys, KeyReleased(k)
  PROVE  IInv'
<1> DEFINE s == KeyUp(routing, k)
           q == Quiet(routing)
<1>0. WellFormed(routing) /\ Matches(routing, Told) /\ held \subseteq AllKeys
      /\ routing.pressed \subseteq Modifiers
  BY DEF IInv, RoutingInv, Sets, WellFormed
<1>1. focused /\ focused' = focused /\ held' = held \ {k}
  BY DEF KeyReleased
<1>2. routing.pressed \subseteq held' /\ held' \subseteq AllKeys
  BY <1>0, <1>1, KeySets DEF IInv, HeldInv
<1>3. CASE Route(s) /\ Account({}, {})
  <2>1. /\ Sound(s, Told) /\ TwoValued(s, routing) /\ s.r.pressed = routing.pressed
        /\ s.down = {} /\ s.r.keyUps = routing.keyUps \ {k}
        /\ k \in s.up \/ k \in routing.keyUps
    BY <1>0, KeyUpSound
  <2> HIDE DEF s
  <2>2. Leaves(s, {})
    BY <2>1 DEF Leaves
  <2>3. k \in Told' => k \in loose'
    <3>1. k \notin Modifiers
      BY KeySets
    <3>2. k \in s.up => k \notin Told'
      BY <1>3, <3>1 DEF Route, Told, IInv, LinkInv
    <3> QED BY <1>3, <2>1, <3>2 DEF Route, Account
  <2> QED BY <1>1, <1>2, <1>3, <2>1, <2>2, <2>3, RoutedKeeps
<1>4. CASE Route(q) /\ Account({}, plain \cap {k})
  <2>1. q.r = routing /\ q.down = {} /\ q.up = {}
    BY QuietFields
  <2> HIDE DEF q
  <2>2. Leaves(q, {})
    BY <1>0, <2>1 DEF Leaves, Sound, Sent, TwoValued
  <2>3. k \in Told' => k \in loose'
    <3>1. Told' = Told
      BY <1>4, <2>1 DEF Route, Told, IInv, LinkInv
    <3>2. k \in Told => k \in plain \cup loose
      BY DEF IInv, KeysInv
    <3> QED BY <1>4, <3>1, <3>2 DEF Account
  <2> DEFINE omitted == plain \cap {k}
  <2> HIDE DEF omitted
  <2>4. Account({}, omitted)
    BY <1>4 DEF omitted
  <2> QED BY <1>1, <1>2, <1>4, <2>1, <2>2, <2>3, <2>4, RoutedKeeps
<1> QED BY <1>3, <1>4 DEF KeyReleased

LEMMA MenuAndMouseKeep ==
  ASSUME IInv, (\E k \in Keys : MenuChosen(k)) \/ MouseUsed
  PROVE  IInv'
<1>0. WellFormed(routing) /\ Matches(routing, Told) /\ held \subseteq AllKeys
  BY DEF IInv, RoutingInv, Sets
<1>1. ASSUME NEW s, focused, Leaves(s, {}), s.r.pressed = routing.pressed, Route(s),
             Account({}, {}), UNCHANGED world
      PROVE  IInv'
  <2>1. held' = held /\ focused' = focused
    BY <1>1 DEF world
  <2>2. routing.pressed \subseteq held
    BY <1>1 DEF IInv, HeldInv
  <2> QED BY <1>0, <1>1, <2>1, <2>2, RoutedKeeps
<1>2. CASE \E k \in Keys : MenuChosen(k)
  <2>1. PICK k \in Keys : MenuChosen(k)
    BY <1>2
  <2>2. /\ focused /\ MenuTakes(k) /\ Route(MenuAction(k)) /\ Account({}, {})
        /\ UNCHANGED world
    BY <2>1 DEF MenuChosen
  <2>3. Leaves(MenuAction(k), {}) /\ MenuAction(k).r.pressed = routing.pressed
    BY <1>0, <2>2, MenuActionLeaves
  <2> DEFINE s == MenuAction(k)
  <2> HIDE DEF s
  <2>4. Route(s) /\ Leaves(s, {}) /\ s.r.pressed = routing.pressed
    BY <2>2, <2>3 DEF s
  <2> QED BY <1>1, <2>2, <2>4
<1>3. CASE MouseUsed
  <2> DEFINE s == Presses(Flush(routing), routing.deferred \cup {}, {})
  <2>1. /\ Sound(s, Told) /\ TwoValued(s, routing) /\ s.r.pressed = routing.pressed
        /\ s.down \cap Keys \subseteq {}
    BY <1>0, FlushSound
  <2>2. focused /\ Route(s) /\ Account({}, {}) /\ UNCHANGED world
    <3>1. routing.deferred \cup {} = routing.deferred
      OBVIOUS
    <3> QED BY <1>3, <3>1 DEF MouseUsed, Presses
  <2> HIDE DEF s
  <2>3. Leaves(s, {})
    BY <2>1 DEF Leaves
  <2> QED BY <1>1, <2>1, <2>2, <2>3
<1> QED BY <1>2, <1>3

LEMMA NothingOut == Nothing \in Outputs
<1> DEFINE b == FALSE
<1>1. Nothing = [down |-> {}, up |-> {}, submit |-> b]
  BY DEF Nothing
<1>2. b \in BOOLEAN
  OBVIOUS
<1> HIDE DEF b
<1> QED BY <1>1, <1>2 DEF Outputs

LEMMA AtRest ==
  /\ WellFormed(NoRouting) /\ Matches(NoRouting, {}) /\ NoRouting.pasting \in BOOLEAN
  /\ NoRouting.pressed = {}
<1> DEFINE b == FALSE
<1>1. NoRouting = [pressed |-> {}, deferred |-> {}, suppressed |-> {}, keyUps |-> {},
                   pasting |-> b]
  BY DEF NoRouting
<1>2. b \in BOOLEAN
  OBVIOUS
<1> HIDE DEF b
<1>3. DOMAIN NoRouting = Fields
  BY <1>1 DEF Fields
<1>4. /\ NoRouting.pressed = {} /\ NoRouting.deferred = {} /\ NoRouting.suppressed = {}
      /\ NoRouting.keyUps = {} /\ NoRouting.pasting = b
  BY <1>1
<1> QED BY <1>2, <1>3, <1>4 DEF WellFormed, Matches, CommandsOf

LEMMA OthersKeep ==
  ASSUME IInv,
         \/ ReleaseAllKeys \/ FocusReturns \/ ConnectionLost \/ Reconnected
         \/ SettingChanges \/ PasteboardChanges \/ UNCHANGED vars
  PROVE  IInv'
<1> USE DEF IInv, RoutingInv, Sets, HeldInv, KeysInv, LinkInv
<1>1. CASE ReleaseAllKeys
  <2>1. /\ routing' = NoRouting /\ remote' = {} /\ lost' = {} /\ Told' = {}
        /\ out' = Nothing /\ loose' = {} /\ plain' = {} /\ held' = held
    BY <1>1 DEF ReleaseAllKeys, Told
  <2> QED BY <2>1, AtRest, NothingOut DEF AllKeys, Keys, Modifiers
<1>2. CASE FocusReturns
  <2>1. /\ ~focused /\ focused' /\ held' \subseteq AllKeys /\ out' = Nothing
        /\ UNCHANGED <<routing, remote, lost, linked, plain, loose>> /\ Told' = Told
    BY <1>2 DEF FocusReturns, AllKeys, Told
  <2> QED BY <2>1, NothingOut DEF AllKeys, Keys, Modifiers
<1>3. CASE SettingChanges \/ PasteboardChanges
  <2>1. /\ out' = Nothing /\ Told' = Told
        /\ UNCHANGED <<routing, remote, lost, linked, plain, loose, held, focused>>
    BY <1>3 DEF SettingChanges, PasteboardChanges, Told
  <2> QED BY <2>1, NothingOut DEF AllKeys, Keys, Modifiers
<1>4. CASE ConnectionLost
  <2>1. /\ remote' = {} /\ lost' = Told \cap Modifiers /\ Told' = Told \cap Modifiers
        /\ out' = Nothing /\ loose' = {} /\ plain' = {}
        /\ UNCHANGED <<routing, held, focused>>
    BY <1>4 DEF ConnectionLost, Told, world
  <2>2. Matches(routing', Told')
    BY <2>1, KeySets DEF Matches
  <2>3. Told' \cap Keys = {}
    BY <2>1, KeySets
  <2> QED BY <2>1, <2>2, <2>3, NothingOut DEF AllKeys, Keys, Modifiers
<1>5. CASE Reconnected
  <2>1. /\ linked' /\ ~linked /\ out' = Nothing /\ Told' = Told
        /\ UNCHANGED <<routing, remote, lost, plain, loose, held, focused>>
    BY <1>5 DEF Reconnected, Told, world
  <2> QED BY <2>1, NothingOut DEF AllKeys, Keys, Modifiers
<1>6. CASE UNCHANGED vars
  BY <1>6 DEF vars, machine, world, AllKeys, Keys, Modifiers, Told
<1> QED BY <1>1, <1>2, <1>3, <1>4, <1>5, <1>6

LEMMA InitIInv == Init => IInv
<1> SUFFICES ASSUME Init PROVE IInv
  OBVIOUS
<1>1. /\ routing = NoRouting /\ Told = {} /\ out = Nothing /\ held = {} /\ focused = TRUE
      /\ plain = {} /\ loose = {} /\ remote = {} /\ lost = {}
  BY DEF Init, Told
<1> QED BY <1>1, AtRest, NothingOut
        DEF IInv, RoutingInv, Sets, HeldInv, KeysInv, LinkInv, AllKeys, Keys, Modifiers

LEMMA StepIInv == IInv /\ [Next]_vars => IInv'
BY FlagsChangedKeeps, KeyPressedKeeps, KeyReleasedKeeps, MenuAndMouseKeep, OthersKeep
   DEF Next

LEMMA BitsStep == Bits /\ [Next]_vars => Bits'
<1> SUFFICES ASSUME Bits, [Next]_vars PROVE Bits'
  OBVIOUS
<1> USE DEF Bits
<1>1. CASE \E k \in Modifiers, device \in BOOLEAN : FlagsChanged(k, device)
  BY <1>1 DEF FlagsChanged, Route
<1>2. CASE \E k \in Keys : KeyPressed(k)
  BY <1>2 DEF KeyPressed, Route
<1>3. CASE \E k \in Keys : KeyReleased(k)
  BY <1>3 DEF KeyReleased, Route
<1>4. CASE (\E k \in Keys : MenuChosen(k)) \/ MouseUsed
  BY <1>4 DEF MenuChosen, MouseUsed, world, Route
<1>5. CASE \/ ReleaseAllKeys \/ FocusReturns \/ ConnectionLost \/ Reconnected
           \/ SettingChanges \/ PasteboardChanges
  BY <1>5 DEF ReleaseAllKeys, FocusReturns, ConnectionLost, Reconnected, SettingChanges,
              PasteboardChanges, world
<1>6. CASE UNCHANGED vars
  BY <1>6 DEF vars, world
<1> QED BY <1>1, <1>2, <1>3, <1>4, <1>5, <1>6 DEF Next

LEMMA Inductive == Spec => [](IInv /\ Bits)
<1>1. Init => Bits
  BY DEF Init, Bits
<1> QED BY <1>1, InitIInv, StepIInv, BitsStep, PTL DEF Spec

-----------------------------------------------------------------------------
(***************************************************************************)
(* Every reachable state of the routing is well typed: a Command key is    *)
(* held back or swallowed only while the window knows it to be down, and   *)
(* never both.                                                             *)
(***************************************************************************)
THEOREM TypeCorrect == Spec => []TypeOK
<1>1. IInv /\ Bits => TypeOK
  BY TypeParts DEF IInv
<1> QED BY <1>1, Inductive, PTL

(***************************************************************************)
(* Whatever a user presses, however the setting changes meanwhile and      *)
(* whenever the connection is lost, the remote has those Command keys down *)
(* that the window knows to be down and neither holds back nor has         *)
(* swallowed, but for those that went down before this connection.         *)
(***************************************************************************)
THEOREM RemoteCommandsAreRight == Spec => []RemoteCommandsMatch
<1>1. IInv => RemoteCommandsMatch
  <2> SUFFICES ASSUME IInv PROVE RemoteCommandsMatch
    OBVIOUS
  <2>1. Told \cap Commands = CommandsOf(routing) \ (routing.deferred \cup routing.suppressed)
    BY DEF IInv, RoutingInv, Matches
  <2>2. remote = Told \ lost
    BY DEF IInv, LinkInv, Told
  <2> QED BY <2>1, <2>2 DEF RemoteCommandsMatch
<1> QED BY <1>1, Inductive, PTL

(***************************************************************************)
(* No modifier and, unless its key-up was lost, no key stays down on the   *)
(* remote that the user has let go of, with every number of keys.          *)
(***************************************************************************)
THEOREM WhatIsLiftedComesUp == Spec => []NothingStaysDown
<1>1. IInv => NothingStaysDown
  <2> SUFFICES ASSUME IInv PROVE NothingStaysDown
    OBVIOUS
  <2>1. ModifiersComeUp
    <3>1. remote \cap Modifiers \subseteq routing.pressed
      BY DEF IInv, RoutingInv, Matches, Told
    <3>2. focused => routing.pressed \subseteq held
      BY DEF IInv, HeldInv
    <3> QED BY <3>1, <3>2 DEF ModifiersComeUp
  <2>2. KeysComeUp
    BY DEF IInv, KeysInv, KeysComeUp, Told
  <2> QED BY <2>1, <2>2 DEF NothingStaysDown
<1> QED BY <1>1, Inductive, PTL

-----------------------------------------------------------------------------
(* Shortcuts.  A paste that is active waits for the key-up of V, and for   *)
(* the Command keys it has swallowed to come up.                           *)
Pending(r) == r.pasting => V \in r.keyUps /\ r.suppressed # {}
(* Just after Command+V every Command key that is down is swallowed.       *)
Swallowed(r) == r.suppressed = CommandsOf(r) /\ (CommandsOf(r) # {} => r.pasting)
(* Nothing but the Command keys held back is another.                      *)
Alike(q, r) == /\ q.pressed = r.pressed /\ q.suppressed = r.suppressed
               /\ q.keyUps = r.keyUps /\ q.pasting = r.pasting
(* What a result lets through as keys goes after the Command keys.         *)
Orderly(s, r, enabled) ==
    s.down \cap Keys # {} =>
        s.r.deferred = {} /\ ~(V \in s.down /\ enabled /\ CommandsOf(r) # {})

LEMMA FlushLeavesPaste ==
  ASSUME NEW r, WellFormed(r), NEW ks
  PROVE  LET s == Presses(Flush(r), r.deferred \cup ks, {})
         IN /\ Alike(s.r, r) /\ ~s.submit /\ s.r.deferred = {}
            /\ s.down = r.deferred \cup ks
<1> DEFINE s == Presses(Flush(r), r.deferred \cup ks, {})
           q == Flush(r)
<1>1. /\ q.pressed = r.pressed /\ q.deferred = {} /\ q.suppressed = r.suppressed
      /\ q.keyUps = r.keyUps /\ q.pasting = r.pasting
  BY Updated DEF Flush, WellFormed
<1>2. s.r = q /\ s.down = r.deferred \cup ks
  BY KeysFields
<1>3. ~s.submit
  <2> DEFINE n == FALSE
             down == r.deferred \cup ks
  <2>1. s = Result(q, down, {}, n)
    BY DEF Presses
  <2>2. ~n
    OBVIOUS
  <2> HIDE DEF n, q, s, down
  <2>3. s.submit = n
    BY <2>1, ResultFields
  <2> QED BY <2>2, <2>3
<1> HIDE DEF q, s
<1> QED BY <1>1, <1>2, <1>3 DEF Alike, s

LEMMA PasteInvokedPastes ==
  ASSUME NEW r, WellFormed(r), r.pasting \in BOOLEAN, Pending(r)
  PROVE  LET s == PasteInvoked(r)
         IN /\ s.r.pressed = r.pressed /\ s.down = {}
            /\ Pending(s.r) /\ Swallowed(s.r)
            /\ s.r.pasting => r.pasting \/ CommandsOf(r) # {}
            /\ s.submit <=> ~r.pasting
<1> DEFINE s == PasteInvoked(r)
           cs == CommandsOf(r)
           b == r.pasting \/ cs # {}
           n == ~r.pasting
           u == IF cs = {} THEN r.keyUps ELSE r.keyUps \cup {V}
           q == [r EXCEPT !.deferred = @ \ cs, !.suppressed = @ \cup cs,
                          !.keyUps = u, !.pasting = b]
<1>0. DOMAIN r = Fields
  BY DEF WellFormed
<1>1. s = Result(q, {}, cs \ (r.deferred \cup r.suppressed), n)
  BY DEF PasteInvoked
<1>2. r.suppressed \subseteq cs
  BY DEF WellFormed
<1>e. b \in BOOLEAN /\ n \in BOOLEAN
  OBVIOUS
<1> HIDE DEF b, n, s
<1>3. /\ q.pressed = r.pressed /\ q.suppressed = r.suppressed \cup cs
      /\ q.keyUps = u /\ q.pasting = b
  BY <1>0, Updated
<1> HIDE DEF q
<1>4. s.r = q /\ s.down = {} /\ s.submit = n
  BY <1>1, ResultFields
<1>5. CommandsOf(s.r) = cs /\ s.r.suppressed = cs
  BY <1>2, <1>3, <1>4 DEF CommandsOf
<1>6. b <=> r.pasting \/ cs # {}
  BY DEF b
<1> HIDE DEF cs
<1>7. Swallowed(s.r)
  BY <1>3, <1>4, <1>5, <1>6 DEF Swallowed
<1>8. Pending(s.r)
  <2>1. CASE cs = {}
    BY <1>2, <1>3, <1>4, <1>6, <2>1 DEF Pending
  <2>2. CASE cs # {}
    BY <1>3, <1>4, <1>5, <2>2 DEF Pending
  <2> QED BY <2>1, <2>2
<1>9. (s.r.pasting => r.pasting \/ cs # {}) /\ (s.submit <=> ~r.pasting)
  BY <1>3, <1>4, <1>6 DEF n
<1> QED BY <1>3, <1>4, <1>7, <1>8, <1>9 DEF s, cs

(* A key other than V leaves the paste alone. *)
LEMMA OtherKeysLeavePaste ==
  ASSUME NEW r, WellFormed(r), NEW k \in Keys, k # V, NEW enabled
  PROVE  /\ KeyUp(r, k).r = r /\ ~KeyUp(r, k).submit /\ KeyUp(r, k).down = {}
         /\ LET s == KeyDown(r, k, enabled)
            IN Alike(s.r, r) /\ ~s.submit /\ Orderly(s, r, enabled)
         /\ LET s == KeyPulse(r, k, enabled)
            IN Alike(s.r, r) /\ ~s.submit /\ Orderly(s, r, enabled)
<1> DEFINE d == KeyDown(r, k, enabled)
           p == KeyPulse(r, k, enabled)
           f == Presses(Flush(r), r.deferred \cup {k}, {})
           up(q) == KeyUp(q, k)
<1>1. ASSUME NEW q, q.keyUps \subseteq {V}
      PROVE  up(q).r = q /\ ~up(q).submit /\ up(q).down = {}
  <2> DEFINE n == FALSE
             none == {}
             up1 == {k}
             s == up(q)
  <2>1. s = Result(q, none, up1, n)
    BY <1>1, KeySets DEF KeyUp
  <2>2. ~n /\ none = {}
    OBVIOUS
  <2> HIDE DEF n, none, up1, s
  <2>3. s.r = q /\ s.submit = n /\ s.down = none
    BY <2>1, ResultFields
  <2> QED BY <2>2, <2>3 DEF s
<1>2. d = f
  BY KeySets DEF KeyDown, Presses
<1>3. Alike(f.r, r) /\ ~f.submit /\ f.r.deferred = {} /\ f.down = r.deferred \cup {k}
  BY FlushLeavesPaste
<1>4. V \notin f.down
  BY <1>3, KeySets DEF WellFormed, CommandsOf
<1> HIDE DEF f
<1>5. Alike(d.r, r) /\ ~d.submit /\ Orderly(d, r, enabled) /\ V \notin d.down /\ d.r.deferred = {}
  BY <1>2, <1>3, <1>4 DEF Orderly
<1>6. up(d.r).r = d.r
  BY <1>1, <1>5 DEF Alike, WellFormed
<1>7. p.r = d.r /\ p.down = d.down /\ p.submit = d.submit
  <2> DEFINE u == up(d.r)
             n == d.submit
             dn == d.down
             ups == d.up \cup u.up
  <2>1. p = Result(u.r, dn, ups, n)
    BY DEF KeyPulse
  <2> HIDE DEF p, u, n, dn, ups
  <2>2. p.r = u.r /\ p.down = dn /\ p.submit = n
    BY <2>1, ResultFields
  <2> QED BY <1>6, <2>2 DEF u, n, dn
<1>8. KeyUp(r, k).r = r /\ ~KeyUp(r, k).submit /\ KeyUp(r, k).down = {}
  BY <1>1 DEF WellFormed
<1> HIDE DEF d, p
<1>9. Alike(p.r, r) /\ ~p.submit /\ Orderly(p, r, enabled)
  BY <1>5, <1>7 DEF Orderly
<1> QED BY <1>5, <1>8, <1>9 DEF d, p

(* The key-up of V ends the paste. *)
LEMMA KeyUpEndsPaste ==
  ASSUME NEW r, WellFormed(r), Pending(r)
  PROVE  LET s == KeyUp(r, V)
         IN ~s.r.pasting /\ s.r.deferred = r.deferred /\ ~s.submit /\ s.down = {}
<1> DEFINE s == KeyUp(r, V)
           b == FALSE
           none == {}
           c == r.pasting /\ V # V
           q == [r EXCEPT !.keyUps = @ \ {V}, !.pasting = c]
<1>1. /\ V \in r.keyUps => s = Result(q, none, none, b)
      /\ V \notin r.keyUps => s = Result(r, none, {V}, b)
  BY KeySets DEF KeyUp, Quiet
<1>2. ~b /\ none = {} /\ ~c
  OBVIOUS
<1> HIDE DEF b, none, c, s
<1>3. q.deferred = r.deferred /\ q.pasting = c
  BY Updated DEF WellFormed
<1> HIDE DEF q
<1>4. /\ V \in r.keyUps => s.r = q /\ s.down = none /\ s.submit = b
      /\ V \notin r.keyUps => s.r = r /\ s.down = none /\ s.submit = b
  BY <1>1, ResultFields
<1>5. V \notin r.keyUps => ~r.pasting
  BY DEF Pending
<1> QED BY <1>2, <1>3, <1>4, <1>5 DEF s

(* V is pasted if a Command key is down, and is a key otherwise.           *)
LEMMA KeyDownOfV ==
  ASSUME NEW r, WellFormed(r), r.pasting \in BOOLEAN, Pending(r), NEW enabled
  PROVE  LET s == KeyDown(r, V, enabled)
         IN /\ WellFormed(s.r) /\ Pending(s.r) /\ Orderly(s, r, enabled)
            /\ CommandsOf(r) = {} => (s.r.pasting => r.pasting)
            /\ s.submit => ~r.pasting
<1> DEFINE s == KeyDown(r, V, enabled)
           f == Presses(Flush(r), r.deferred \cup {V}, {})
           i == PasteInvoked(r)
           paste == enabled /\ CommandsOf(r) # {}
<1>1. /\ paste => s = i
      /\ ~paste => s = f
  BY KeySets DEF KeyDown, Presses
<1>2. /\ i.r.pressed = r.pressed /\ i.down = {} /\ Pending(i.r)
      /\ i.r.pasting => r.pasting \/ CommandsOf(r) # {}
      /\ i.submit <=> ~r.pasting
  BY PasteInvokedPastes
<1>3. Alike(f.r, r) /\ ~f.submit /\ f.r.deferred = {}
  BY FlushLeavesPaste
<1>4. WellFormed(i.r) /\ WellFormed(f.r)
  <2> DEFINE down == CommandsOf(r) \ (r.deferred \cup r.suppressed)
  <2>1. Matches(r, down)
    BY KeySets DEF Matches, CommandsOf
  <2>2. V \in Keys /\ {V} \in SUBSET Keys
    BY KeySets
  <2> HIDE DEF down
  <2> QED BY <2>1, <2>2, PasteInvokedSound, FlushSound DEF Sound
<1> HIDE DEF f, i, s
<1>5. CASE paste
  BY <1>1, <1>2, <1>4, <1>5 DEF Orderly, s
<1>6. CASE ~paste
  BY <1>1, <1>3, <1>4, <1>6 DEF Orderly, Alike, Pending, s
<1> QED BY <1>5, <1>6

(* A pulse of V is over at once. *)
LEMMA KeyPulseOfV ==
  ASSUME NEW r, WellFormed(r), r.pasting \in BOOLEAN, Pending(r), NEW enabled
  PROVE  LET s == KeyPulse(r, V, enabled)
         IN ~s.r.pasting /\ Orderly(s, r, enabled) /\ (s.submit => ~r.pasting)
<1> DEFINE s == KeyPulse(r, V, enabled)
           d == KeyDown(r, V, enabled)
           u == KeyUp(d.r, V)
           n == d.submit
           ups == d.up \cup u.up
           dn == d.down
<1>1. s = Result(u.r, dn, ups, n)
  BY DEF KeyPulse
<1>2. WellFormed(d.r) /\ Pending(d.r) /\ Orderly(d, r, enabled) /\ (d.submit => ~r.pasting)
  BY KeyDownOfV
<1> HIDE DEF d
<1>3. ~u.r.pasting /\ u.r.deferred = d.r.deferred
  BY <1>2, KeyUpEndsPaste
<1> HIDE DEF s, u, n, ups, dn
<1>4. s.r = u.r /\ s.down = dn /\ s.submit = n
  BY <1>1, ResultFields
<1> QED BY <1>2, <1>3, <1>4 DEF Orderly, n, dn, s

(* A modifier that goes down leaves a paste alone ...                      *)
LEMMA ModifierDownLeavesPaste ==
  ASSUME NEW r, WellFormed(r), NEW k \in Modifiers, NEW enabled
  PROVE  LET s == ModifierDown(r, k, enabled)
         IN /\ s.r.suppressed = r.suppressed /\ s.r.keyUps = r.keyUps
            /\ s.r.pasting = r.pasting /\ ~s.submit
<1> DEFINE s == ModifierDown(r, k, enabled)
           q == [r EXCEPT !.pressed = @ \cup {k}]
           q2 == [q EXCEPT !.deferred = @ \cup {k}]
           n == FALSE
           none == {}
           some == {k}
<1>a. /\ DOMAIN q = Fields /\ q.suppressed = r.suppressed /\ q.keyUps = r.keyUps
      /\ q.pasting = r.pasting
  BY Updated DEF WellFormed
<1>1. \/ s = Result(r, none, none, n)
      \/ s = Result(q2, none, none, n)
      \/ s = Result(q, some, none, n)
  BY DEF ModifierDown, Quiet
<1>2. ~n
  OBVIOUS
<1> HIDE DEF q, n, none, some, s
<1>b. q2.suppressed = q.suppressed /\ q2.keyUps = q.keyUps /\ q2.pasting = q.pasting
  BY <1>a, Updated
<1> HIDE DEF q2
<1>3. s.r \in {r, q, q2} /\ s.submit = n
  BY <1>1, ResultFields
<1> QED BY <1>a, <1>b, <1>2, <1>3 DEF s

(* ... and one that comes up ends it if it was the last one swallowed.     *)
LEMMA ModifierUpEndsPaste ==
  ASSUME NEW r, WellFormed(r), r.pasting \in BOOLEAN, Pending(r), NEW k \in Modifiers
  PROVE  LET s == ModifierUp(r, k)
         IN /\ Pending(s.r) /\ (s.r.pasting => r.pasting) /\ ~s.submit
            /\ Swallowed(r) => Swallowed(s.r)
<1> DEFINE s == ModifierUp(r, k)
           q == [r EXCEPT !.pressed = @ \ {k}]
           b == q.pasting /\ r.suppressed # {k}
           q2 == [q EXCEPT !.suppressed = @ \ {k}, !.pasting = b]
           q3 == [q EXCEPT !.deferred = @ \ {k}]
           n == FALSE
           none == {}
           some == {k}
<1>a. /\ DOMAIN q = Fields /\ q.pressed = r.pressed \ {k} /\ q.deferred = r.deferred
      /\ q.suppressed = r.suppressed /\ q.keyUps = r.keyUps /\ q.pasting = r.pasting
  BY Updated DEF WellFormed
<1>1. \/ k \notin r.pressed /\ s = Result(r, none, none, n)
      \/ k \in r.pressed /\ k \in Commands /\ k \in r.suppressed /\ s = Result(q2, none, none, n)
      \/ /\ k \in r.pressed /\ (k \in Commands => k \notin r.suppressed)
         /\ s = Result(q3, some, some, n) \/ s = Result(q, none, some, n)
  BY DEF ModifierUp, Suppressed, Deferred, Quiet
<1>2. ~n
  OBVIOUS
<1>3. b <=> q.pasting /\ r.suppressed # {k}
  OBVIOUS
<1> HIDE DEF q, b, n, none, some, s
<1>b. /\ q2.pressed = q.pressed /\ q2.suppressed = q.suppressed \ {k}
      /\ q2.keyUps = q.keyUps /\ q2.pasting = b
      /\ q3.pressed = q.pressed /\ q3.suppressed = q.suppressed
      /\ q3.keyUps = q.keyUps /\ q3.pasting = q.pasting
  BY <1>a, Updated
<1> HIDE DEF q2, q3
<1>4. /\ s.submit = n
      /\ \/ k \notin r.pressed /\ s.r = r
         \/ k \in r.pressed /\ k \in Commands /\ k \in r.suppressed /\ s.r = q2
         \/ k \in r.pressed /\ (k \in Commands => k \notin r.suppressed) /\ s.r \in {q, q3}
  BY <1>1, ResultFields
<1>5. CASE k \notin r.pressed /\ s.r = r
  BY <1>2, <1>4, <1>5 DEF s
<1>6. CASE k \in r.pressed /\ k \in Commands /\ k \in r.suppressed /\ s.r = q2
  <2>1. /\ q2.suppressed = r.suppressed \ {k} /\ q2.keyUps = r.keyUps
        /\ q2.pressed = r.pressed \ {k}
        /\ q2.pasting <=> r.pasting /\ r.suppressed # {k}
    BY <1>a, <1>b, <1>3
  <2>2. Pending(q2)
    BY <2>1 DEF Pending
  <2>3. Swallowed(r) => Swallowed(q2)
    BY <2>1, <1>6 DEF Swallowed, CommandsOf
  <2> QED BY <2>1, <2>2, <2>3, <1>2, <1>4, <1>6 DEF s
<1>7. CASE k \in r.pressed /\ (k \in Commands => k \notin r.suppressed) /\ s.r \in {q, q3}
  <2>1. /\ s.r.suppressed = r.suppressed /\ s.r.keyUps = r.keyUps
        /\ s.r.pressed = r.pressed \ {k} /\ s.r.pasting = r.pasting
    BY <1>a, <1>b, <1>7
  <2>2. Pending(s.r)
    BY <2>1 DEF Pending
  <2>3. Swallowed(r) => Swallowed(s.r)
    <3> SUFFICES ASSUME Swallowed(r) PROVE Swallowed(s.r)
      OBVIOUS
    <3>1. k \notin Commands
      BY <1>7 DEF Swallowed, CommandsOf
    <3>2. CommandsOf(s.r) = CommandsOf(r)
      BY <2>1, <3>1 DEF CommandsOf
    <3> QED BY <2>1, <3>2 DEF Swallowed
  <2> QED BY <2>1, <2>2, <2>3, <1>2, <1>4 DEF s
<1> QED BY <1>4, <1>5, <1>6, <1>7

(***************************************************************************)
(* What the routing knows of a paste.  It is over once V and the Command   *)
(* keys are up, unless a key-up of V was omitted or V was chosen from the  *)
(* menu; and as long as only V was pressed since, it goes on.              *)
(***************************************************************************)
PasteInv ==
    /\ ~focused => fresh /\ ~routing.pasting
    /\ Pending(routing)
    /\ focused /\ V \notin held /\ ~dulled => ~routing.pasting
    /\ focused /\ V \in held /\ ~fresh /\ stt => Swallowed(routing)

Submits == focused /\ CommandHeld /\ V \notin held /\ V \in held' /\ stt /\ text /\ ~dulled
               => out'.submit
Repeats == stt /\ V \in held /\ V \in held' /\ CommandsOf(routing) # {} /\ ~fresh
               => ~out'.submit
Orders == out'.down \cap Keys # {} =>
              /\ routing'.deferred = {}
              /\ ~(V \in out'.down /\ stt /\ CommandsOf(routing) # {})
Arrives == Submits /\ Repeats /\ Orders

LEMMA RoutedFields ==
  ASSUME NEW s, Route(s)
  PROVE  routing' = s.r /\ out'.down = s.down /\ (out'.submit <=> s.submit /\ text)
<1> DEFINE b == s.submit /\ text
<1>1. b <=> s.submit /\ text
  OBVIOUS
<1>2. routing' = s.r /\ out' = [down |-> s.down, up |-> s.up, submit |-> b]
  BY DEF Route
<1> HIDE DEF b
<1> QED BY <1>1, <1>2

LEMMA AlikeKeeps ==
  ASSUME NEW q, NEW r, Alike(q, r)
  PROVE  /\ Pending(q) <=> Pending(r)
         /\ Swallowed(q) <=> Swallowed(r)
         /\ q.pasting = r.pasting
BY DEF Alike, Pending, Swallowed, CommandsOf

(* Nothing is swallowed, and no paste goes on, with no Command key down.   *)
LEMMA NoCommandNoPaste ==
  ASSUME NEW r, WellFormed(r), Pending(r), CommandsOf(r) = {}
  PROVE  ~r.pasting
BY DEF WellFormed, Pending

LEMMA NoPasteAtRest == ~NoRouting.pasting
<1> DEFINE b == FALSE
<1>1. NoRouting = [pressed |-> {}, deferred |-> {}, suppressed |-> {}, keyUps |-> {},
                   pasting |-> b]
  BY DEF NoRouting
<1>2. ~b
  OBVIOUS
<1> HIDE DEF b
<1> QED BY <1>1, <1>2

LEMMA FlagsChangedArrives ==
  ASSUME IInv, PasteInv, NEW k \in Modifiers, NEW device \in BOOLEAN, FlagsChanged(k, device)
  PROVE  PasteInv' /\ Arrives
<1> DEFINE dn == ModifierDown(routing, k, stt)
           up == ModifierUp(routing, k)
           family == Family(k)
           isDown == IF device THEN k \in held'
                     ELSE family \cap held' # {} /\ k \notin routing.pressed
           s == IF isDown THEN dn ELSE up
<1>0. WellFormed(routing) /\ routing.pasting \in BOOLEAN /\ Pending(routing)
      /\ Matches(routing, Told)
  BY DEF IInv, RoutingInv, PasteInv
<1>1. /\ focused /\ focused' = focused /\ stt' = stt
      /\ device \/ family \cap held' = {} \/ routing.pressed = held \cap Modifiers
      /\ held' = IF k \in held THEN held \ {k} ELSE held \cup {k}
      /\ fresh' = (fresh \/ (k \in Commands /\ k \in held'))
      /\ dulled' = (dulled /\ held' \cap Commands # {})
  BY DEF FlagsChanged
<1>2. Route(s)
  BY DEF FlagsChanged
<1>3. isDown => k \in held'
  BY <1>1
<1>4. /\ dn.r.suppressed = routing.suppressed /\ dn.r.keyUps = routing.keyUps
      /\ dn.r.pasting = routing.pasting /\ ~dn.submit
      /\ dn.down \cap Keys = {} /\ dn.r.pressed = routing.pressed \cup {k}
  BY <1>0, ModifierDownLeavesPaste, ModifierDownSound
<1>5. /\ Pending(up.r) /\ (up.r.pasting => routing.pasting) /\ ~up.submit
      /\ Swallowed(routing) => Swallowed(up.r)
      /\ up.down \cap Keys = {}
  BY <1>0, ModifierUpEndsPaste, ModifierUpSound
<1> HIDE DEF isDown, dn, up, family
<1>6. Pending(s.r) /\ (s.r.pasting => routing.pasting) /\ ~s.submit /\ s.down \cap Keys = {}
  <2>1. Pending(dn.r)
    BY <1>0, <1>4 DEF Pending
  <2> QED BY <1>4, <1>5, <2>1
<1>7. ~fresh' /\ Swallowed(routing) => Swallowed(s.r)
  <2>1. CASE isDown
    <3> SUFFICES ASSUME ~fresh', Swallowed(routing) PROVE Swallowed(dn.r)
      BY <2>1
    <3>1. k \notin Commands
      BY <1>1, <1>3, <2>1
    <3>2. CommandsOf(dn.r) = CommandsOf(routing)
      BY <1>4, <3>1 DEF CommandsOf
    <3> QED BY <1>4, <3>2 DEF Swallowed
  <2>2. CASE ~isDown
    BY <1>5, <2>2
  <2> QED BY <2>1, <2>2
<1> HIDE DEF s
<1>8. routing' = s.r /\ out'.down = s.down /\ (out'.submit <=> s.submit /\ text)
  BY <1>2, RoutedFields
<1>9. V \in held' <=> V \in held
  BY <1>1, KeySets
<1>10. Arrives
  BY <1>6, <1>8, <1>9 DEF Arrives, Submits, Repeats, Orders
<1>11. WellFormed(routing') /\ routing'.pressed \subseteq held'
  <2>1. IInv'
    BY FlagsChangedKeeps
  <2> QED BY <1>1, <2>1 DEF IInv, RoutingInv, HeldInv, WellFormed, CommandsOf
<1>12. V \notin held' /\ ~dulled' => ~routing'.pasting
  <2>1. CASE dulled
    <3>1. ~dulled' => CommandsOf(routing') = {}
      BY <1>1, <1>11, <2>1 DEF CommandsOf
    <3> QED BY <1>6, <1>8, <1>11, <3>1, NoCommandNoPaste
  <2>2. CASE ~dulled
    BY <1>1, <1>6, <1>8, <1>9, <2>2 DEF PasteInv
  <2> QED BY <2>1, <2>2
<1>13. Pending(routing')
  BY <1>6, <1>8
<1>14. V \in held' /\ ~fresh' /\ stt' => Swallowed(routing')
  BY <1>1, <1>7, <1>8, <1>9 DEF PasteInv
<1>15. PasteInv'
  BY <1>1, <1>12, <1>13, <1>14 DEF PasteInv, Pending, Swallowed, CommandsOf
<1> QED BY <1>10, <1>15

(* The keys of the menu and those sent to the view, other than V.          *)
LEMMA OtherKeysRouted ==
  ASSUME WellFormed(routing), NEW k \in Keys, k # V
  PROVE  /\ LET s == MenuAction(k)
            IN Alike(s.r, routing) /\ ~s.submit /\ Orderly(s, routing, stt)
         /\ LET s == SentToView(k)
            IN Alike(s.r, routing) /\ ~s.submit /\ Orderly(s, routing, stt)
<1> DEFINE p == KeyPulse(routing, k, stt)
           d == KeyDown(routing, k, stt)
           q == Quiet(routing)
<1>1. /\ Alike(p.r, routing) /\ ~p.submit /\ Orderly(p, routing, stt)
      /\ Alike(d.r, routing) /\ ~d.submit /\ Orderly(d, routing, stt)
  BY OtherKeysLeavePaste
<1>2. Alike(q.r, routing) /\ ~q.submit /\ Orderly(q, routing, stt)
  <2> DEFINE n == FALSE
             none == {}
  <2>1. q = Result(routing, none, none, n)
    BY DEF Quiet
  <2>2. ~n /\ none = {}
    OBVIOUS
  <2> HIDE DEF q, n, none
  <2>3. q.r = routing /\ q.down = none /\ q.submit = n
    BY <2>1, ResultFields
  <2> QED BY <2>2, <2>3 DEF Alike, Orderly
<1>3. MenuAction(k) \in {p, q} /\ SentToView(k) \in {p, d}
  BY DEF MenuAction, SentToView
<1> HIDE DEF p, q, d
<1> QED BY <1>1, <1>2, <1>3

(* V, from wherever it comes: it is pasted just after Command+V.           *)
LEMMA VRouted ==
  ASSUME WellFormed(routing), routing.pasting \in BOOLEAN, Pending(routing)
  PROVE  /\ LET s == MenuAction(V)
            IN /\ Pending(s.r) /\ Orderly(s, routing, stt) /\ (s.submit => ~routing.pasting)
               /\ CommandsOf(routing) = {} => (s.r.pasting => routing.pasting)
               /\ stt => Swallowed(s.r) /\ (s.submit <=> ~routing.pasting)
               /\ ~stt => ~s.r.pasting \/ s.r = routing
         /\ LET s == SentToView(V)
            IN Pending(s.r) /\ Orderly(s, routing, stt) /\ (s.submit => ~routing.pasting)
<1> DEFINE p == KeyPulse(routing, V, stt)
           d == KeyDown(routing, V, stt)
           i == PasteInvoked(routing)
           q == Quiet(routing)
<1>1. ~p.r.pasting /\ Orderly(p, routing, stt) /\ (p.submit => ~routing.pasting)
  BY KeyPulseOfV
<1>2. Pending(d.r) /\ Orderly(d, routing, stt) /\ (d.submit => ~routing.pasting)
  BY KeyDownOfV
<1>3. /\ i.down = {} /\ Pending(i.r) /\ Swallowed(i.r)
      /\ i.r.pasting => routing.pasting \/ CommandsOf(routing) # {}
      /\ i.submit <=> ~routing.pasting
  BY PasteInvokedPastes
<1>4. q.r = routing /\ ~q.submit /\ q.down = {}
  <2> DEFINE n == FALSE
             none == {}
  <2>1. q = Result(routing, none, none, n)
    BY DEF Quiet
  <2>2. ~n /\ none = {}
    OBVIOUS
  <2> HIDE DEF q, n, none
  <2> QED BY <2>1, <2>2, ResultFields
<1>5. /\ stt => MenuAction(V) = i
      /\ ~stt => MenuAction(V) \in {p, q}
      /\ SentToView(V) \in {p, d}
  BY DEF MenuAction, SentToView
<1> HIDE DEF p, q, d, i
<1>6. Pending(p.r)
  BY <1>1 DEF Pending
<1>7. CASE stt
  BY <1>1, <1>2, <1>3, <1>5, <1>6, <1>7 DEF Orderly
<1>8. CASE ~stt
  BY <1>1, <1>2, <1>4, <1>5, <1>6, <1>8 DEF Orderly
<1> QED BY <1>7, <1>8

LEMMA KeyPressedArrives ==
  ASSUME IInv, Bits, PasteInv, NEW k \in Keys, KeyPressed(k)
  PROVE  PasteInv' /\ Arrives
<1> DEFINE menu == CommandHeld /\ MenuTakes(k)
           s == IF menu THEN MenuAction(k) ELSE SentToView(k)
<1>0. /\ WellFormed(routing) /\ routing.pasting \in BOOLEAN /\ Pending(routing)
      /\ routing.pressed \subseteq held
  BY DEF IInv, RoutingInv, HeldInv, PasteInv, KeyPressed
<1>1. /\ focused /\ focused' = focused /\ stt' = stt /\ dulled' = dulled
      /\ held' = held \cup {k}
      /\ fresh' = IF k # V THEN fresh ELSE ~menu
  BY DEF KeyPressed
<1>2. Route(s)
  BY DEF KeyPressed
<1>3. CASE k # V
  <2>1. Alike(s.r, routing) /\ ~s.submit /\ Orderly(s, routing, stt)
    BY <1>0, <1>3, OtherKeysRouted
  <2> HIDE DEF s
  <2>2. routing' = s.r /\ out'.down = s.down /\ (out'.submit <=> s.submit /\ text)
    BY <1>2, RoutedFields
  <2>3. Arrives
    BY <1>1, <1>3, <2>1, <2>2 DEF Arrives, Submits, Repeats, Orders, Orderly
  <2>4. /\ Pending(routing') <=> Pending(routing)
        /\ Swallowed(routing') <=> Swallowed(routing)
        /\ routing'.pasting = routing.pasting
    BY <2>1, <2>2, AlikeKeeps
  <2>5. PasteInv'
    BY <1>1, <1>3, <2>4 DEF PasteInv, Pending, Swallowed, CommandsOf
  <2> QED BY <2>3, <2>5
<1>4. CASE k = V
  <2>1. /\ Pending(s.r) /\ Orderly(s, routing, stt) /\ (s.submit => ~routing.pasting)
        /\ stt /\ menu => Swallowed(s.r) /\ (s.submit <=> ~routing.pasting)
    BY <1>0, <1>4, VRouted
  <2>2. stt /\ text /\ CommandHeld => menu
    BY <1>4 DEF MenuTakes
  <2> HIDE DEF s, menu
  <2>3. routing' = s.r /\ out'.down = s.down /\ (out'.submit <=> s.submit /\ text)
    BY <1>2, RoutedFields
  <2>4. Submits
    BY <1>1, <2>1, <2>2, <2>3 DEF Submits, PasteInv
  <2>5. Repeats
    BY <1>1, <2>1, <2>3 DEF Repeats, PasteInv, Swallowed
  <2>6. Orders
    BY <2>1, <2>3 DEF Orders, Orderly
  <2>7. Pending(routing') /\ (stt' /\ ~fresh' => Swallowed(routing'))
    BY <1>1, <1>4, <2>1, <2>3
  <2>8. V \in held' /\ focused'
    BY <1>1, <1>4
  <2>9. PasteInv'
    BY <2>7, <2>8 DEF PasteInv, Pending, Swallowed, CommandsOf
  <2> QED BY <2>4, <2>5, <2>6, <2>9 DEF Arrives
<1> QED BY <1>3, <1>4

LEMMA QuietSubmitsNothing == ASSUME NEW r PROVE ~Quiet(r).submit
<1> DEFINE n == FALSE
           none == {}
           q == Quiet(r)
<1>1. q = Result(r, none, none, n)
  BY DEF Quiet
<1>2. ~n
  OBVIOUS
<1> HIDE DEF q, n, none
<1> QED BY <1>1, <1>2, ResultFields DEF q

LEMMA KeyReleasedArrives ==
  ASSUME IInv, PasteInv, NEW k \in Keys, KeyReleased(k)
  PROVE  PasteInv' /\ Arrives
<1> DEFINE s == KeyUp(routing, k)
           q == Quiet(routing)
<1>0. WellFormed(routing) /\ Pending(routing)
  BY DEF IInv, RoutingInv, PasteInv
<1>1. /\ focused /\ focused' = focused /\ stt' = stt /\ held' = held \ {k}
      /\ fresh' = (fresh \/ k = V)
      /\ \/ Route(s) /\ UNCHANGED dulled
         \/ Route(q) /\ dulled' = (dulled \/ k = V)
  BY DEF KeyReleased
<1>2. q.r = routing /\ q.down = {} /\ ~q.submit
  BY QuietFields, QuietSubmitsNothing
<1>3. /\ ~s.submit /\ s.down = {}
      /\ k = V => ~s.r.pasting
      /\ k # V => s.r = routing
  BY <1>0, OtherKeysLeavePaste, KeyUpEndsPaste
<1> HIDE DEF s, q
<1>4. out'.down = {} /\ ~out'.submit
  BY <1>1, <1>2, <1>3, RoutedFields
<1>5. \/ routing' = routing /\ (dulled' <=> dulled \/ k = V)
      \/ k = V /\ ~routing'.pasting /\ (dulled' <=> dulled)
      \/ k # V /\ routing' = routing /\ (dulled' <=> dulled)
  BY <1>1, <1>2, <1>3, RoutedFields
<1>6. Arrives
  BY <1>1, <1>4 DEF Arrives, Submits, Repeats, Orders
<1>7. CASE k = V
  <2>1. Pending(routing')
    BY <1>0, <1>5, <1>7 DEF Pending
  <2>2. V \notin held' /\ (~dulled' => ~routing'.pasting)
    BY <1>1, <1>5, <1>7
  <2>3. PasteInv'
    BY <1>1, <2>1, <2>2 DEF PasteInv, Pending
  <2> QED BY <1>6, <2>3
<1>8. CASE k # V
  <2>1. routing' = routing /\ (dulled' <=> dulled) /\ (fresh' <=> fresh)
    BY <1>1, <1>5, <1>8
  <2>2. V \in held' <=> V \in held
    BY <1>1, <1>8
  <2>3. PasteInv'
    BY <1>1, <2>1, <2>2 DEF PasteInv, Pending, Swallowed, CommandsOf
  <2> QED BY <1>6, <2>3
<1> QED BY <1>7, <1>8

LEMMA MenuChosenArrives ==
  ASSUME IInv, PasteInv, NEW k \in Keys, MenuChosen(k)
  PROVE  PasteInv' /\ Arrives
<1> DEFINE s == MenuAction(k)
<1>0. /\ WellFormed(routing) /\ routing.pasting \in BOOLEAN /\ Pending(routing)
      /\ routing.pressed \subseteq held
  BY DEF IInv, RoutingInv, HeldInv, PasteInv, MenuChosen
<1>1. /\ focused /\ focused' = focused /\ stt' = stt /\ held' = held /\ fresh' = fresh
      /\ dulled' = (dulled \/ (k = V /\ CommandHeld))
      /\ Route(s)
  BY DEF MenuChosen, world
<1>2. /\ Orderly(s, routing, stt) /\ (s.submit => ~routing.pasting) /\ Pending(s.r)
      /\ k # V => ~s.submit /\ Alike(s.r, routing)
      /\ k = V => /\ CommandsOf(routing) = {} => (s.r.pasting => routing.pasting)
                  /\ stt => Swallowed(s.r)
  <2>1. CASE k # V
    <3> HIDE DEF s
    <3>1. Alike(s.r, routing) /\ ~s.submit /\ Orderly(s, routing, stt)
      BY <1>0, <2>1, OtherKeysRouted DEF s
    <3> QED BY <1>0, <2>1, <3>1, AlikeKeeps
  <2>2. CASE k = V
    BY <1>0, <2>2, VRouted
  <2> QED BY <2>1, <2>2
<1> HIDE DEF s
<1>3. routing' = s.r /\ out'.down = s.down /\ (out'.submit <=> s.submit /\ text)
  BY <1>1, RoutedFields
<1>4. Arrives
  <2>1. Orders
    BY <1>2, <1>3 DEF Orders, Orderly
  <2>2. Submits /\ Repeats
    BY <1>1, <1>2, <1>3 DEF Submits, Repeats, PasteInv, Swallowed
  <2> QED BY <2>1, <2>2 DEF Arrives
<1>5. CASE k # V
  <2>1. /\ Pending(routing') <=> Pending(routing)
        /\ Swallowed(routing') <=> Swallowed(routing)
        /\ routing'.pasting = routing.pasting
    BY <1>2, <1>3, <1>5, AlikeKeeps
  <2>2. PasteInv'
    BY <1>1, <1>5, <2>1 DEF PasteInv, Pending, Swallowed, CommandsOf
  <2> QED BY <1>4, <2>2
<1>6. CASE k = V
  <2>1. V \notin held /\ ~dulled' => ~routing'.pasting
    <3> SUFFICES ASSUME V \notin held, ~dulled' PROVE ~routing'.pasting
      OBVIOUS
    <3>1. ~CommandHeld /\ ~dulled
      BY <1>1, <1>6
    <3>2. CommandsOf(routing) = {}
      BY <1>0, <3>1 DEF CommandHeld, CommandsOf
    <3>3. ~routing.pasting
      BY <1>0, <3>2, NoCommandNoPaste
    <3> QED BY <1>2, <1>3, <1>6, <3>2, <3>3
  <2>2. Pending(routing') /\ (stt => Swallowed(routing'))
    BY <1>2, <1>3, <1>6
  <2>3. PasteInv'
    BY <1>1, <2>1, <2>2 DEF PasteInv, Pending, Swallowed, CommandsOf
  <2> QED BY <1>4, <2>3
<1> QED BY <1>5, <1>6

LEMMA OthersArrive ==
  ASSUME IInv, PasteInv,
         \/ MouseUsed \/ ReleaseAllKeys \/ FocusReturns \/ ConnectionLost \/ Reconnected
         \/ SettingChanges \/ PasteboardChanges
  PROVE  PasteInv' /\ Arrives
<1>1. CASE MouseUsed
  <2> DEFINE s == Presses(Flush(routing), routing.deferred \cup {}, {})
  <2>1. /\ Alike(s.r, routing) /\ ~s.submit /\ s.r.deferred = {}
        /\ s.down = routing.deferred \cup {}
    BY FlushLeavesPaste DEF IInv, RoutingInv
  <2>2. Route(s) /\ UNCHANGED <<world, fresh, dulled>>
    <3>1. routing.deferred \cup {} = routing.deferred
      OBVIOUS
    <3> QED BY <1>1, <3>1 DEF MouseUsed, Presses
  <2> HIDE DEF s
  <2>3. s.down \cap Keys = {}
    BY <2>1, KeySets DEF IInv, RoutingInv, WellFormed, CommandsOf
  <2>4. routing' = s.r /\ out'.down = s.down /\ (out'.submit <=> s.submit /\ text)
    BY <2>2, RoutedFields
  <2>5. Arrives
    BY <2>1, <2>2, <2>3, <2>4 DEF Arrives, Submits, Repeats, Orders, world
  <2>6. /\ Pending(routing') <=> Pending(routing)
        /\ Swallowed(routing') <=> Swallowed(routing)
        /\ routing'.pasting = routing.pasting
    BY <2>1, <2>4, AlikeKeeps
  <2>7. PasteInv'
    BY <2>2, <2>6 DEF PasteInv, Pending, Swallowed, CommandsOf, world
  <2> QED BY <2>5, <2>7
<1>2. CASE \/ ReleaseAllKeys \/ FocusReturns \/ ConnectionLost \/ Reconnected
           \/ SettingChanges \/ PasteboardChanges
  <2>1. out' = Nothing /\ (focused => (V \in held' => V \in held))
    BY <1>2 DEF ReleaseAllKeys, FocusReturns, ConnectionLost, Reconnected, SettingChanges,
                PasteboardChanges, world
  <2>2. out'.down = {} /\ ~out'.submit
    <3> DEFINE b == FALSE
    <3>1. Nothing = [down |-> {}, up |-> {}, submit |-> b]
      BY DEF Nothing
    <3>2. ~b
      OBVIOUS
    <3> HIDE DEF b
    <3> QED BY <2>1, <3>1, <3>2
  <2>3. Arrives
    BY <2>1, <2>2 DEF Arrives, Submits, Repeats, Orders
  <2>4. PasteInv'
    <3>1. CASE ReleaseAllKeys
      <4>1. routing' = NoRouting /\ fresh' = TRUE
        BY <3>1 DEF ReleaseAllKeys
      <4> QED BY <4>1, NoPasteAtRest DEF PasteInv, Pending
    <3>2. CASE FocusReturns
      <4>1. ~focused /\ UNCHANGED <<routing, stt, fresh, dulled>>
        BY <3>2 DEF FocusReturns
      <4> QED BY <4>1 DEF PasteInv, Pending
    <3>3. CASE SettingChanges
      <4>1. fresh' = TRUE /\ UNCHANGED <<routing, held, focused, dulled>>
        BY <3>3 DEF SettingChanges
      <4> QED BY <4>1 DEF PasteInv, Pending
    <3>4. CASE PasteboardChanges
      <4>1. UNCHANGED <<routing, stt, held, focused, fresh, dulled>>
        BY <3>4 DEF PasteboardChanges
      <4> QED BY <4>1 DEF PasteInv, Pending, Swallowed, CommandsOf
    <3>5. CASE ConnectionLost \/ Reconnected
      <4>1. UNCHANGED <<routing, stt, held, focused, fresh, dulled>>
        BY <3>5 DEF ConnectionLost, Reconnected, world
      <4> QED BY <4>1 DEF PasteInv, Pending, Swallowed, CommandsOf
    <3> QED BY <1>2, <3>1, <3>2, <3>3, <3>4, <3>5
  <2> QED BY <2>3, <2>4
<1> QED BY <1>1, <1>2

LEMMA StepArrives == IInv /\ Bits /\ PasteInv /\ Next => PasteInv' /\ Arrives
<1> SUFFICES ASSUME IInv, Bits, PasteInv, Next PROVE PasteInv' /\ Arrives
  OBVIOUS
<1>1. CASE \E k \in Modifiers, device \in BOOLEAN : FlagsChanged(k, device)
  BY <1>1, FlagsChangedArrives
<1>2. CASE \E k \in Keys : KeyPressed(k)
  BY <1>2, KeyPressedArrives
<1>3. CASE \E k \in Keys : KeyReleased(k)
  BY <1>3, KeyReleasedArrives
<1>4. CASE \E k \in Keys : MenuChosen(k)
  BY <1>4, MenuChosenArrives
<1>5. CASE \/ MouseUsed \/ ReleaseAllKeys \/ FocusReturns \/ ConnectionLost \/ Reconnected
           \/ SettingChanges \/ PasteboardChanges
  BY <1>5, OthersArrive
<1> QED BY <1>1, <1>2, <1>3, <1>4, <1>5 DEF Next

LEMMA InitPasteInv == Init => PasteInv
<1> SUFFICES ASSUME Init PROVE PasteInv
  OBVIOUS
<1>1. routing = NoRouting /\ focused = TRUE /\ fresh = TRUE
  BY DEF Init
<1> QED BY <1>1, NoPasteAtRest DEF PasteInv, Pending

LEMMA PasteInductive == Spec => []PasteInv
<1>1. PasteInv /\ UNCHANGED vars => PasteInv'
  BY DEF PasteInv, Pending, Swallowed, CommandsOf, vars, machine, world
<1>2. IInv /\ Bits /\ PasteInv /\ [Next]_vars => PasteInv'
  BY <1>1, StepArrives
<1> QED BY <1>2, InitPasteInv, Inductive, PTL DEF Spec

(***************************************************************************)
(* A shortcut arrives once and as what it was: Command+V submits the text  *)
(* once however long it is held and whatever is pressed meanwhile, V does  *)
(* not reach the remote as a key while Command is held for a paste, and    *)
(* any other key goes after the Command keys that were held back.          *)
(***************************************************************************)
THEOREM ShortcutsAreRight == Spec => ShortcutsArrive
<1>1. IInv /\ Bits /\ PasteInv /\ [Next]_vars
        => [focused /\ CommandHeld /\ V \notin held /\ V \in held' /\ stt /\ text /\ ~dulled
               => out'.submit]_vars
  BY StepArrives DEF Arrives, Submits
<1>2. IInv /\ Bits /\ PasteInv /\ [Next]_vars
        => [stt /\ V \in held /\ V \in held' /\ CommandsOf(routing) # {} /\ ~fresh
               => ~out'.submit]_vars
  BY StepArrives DEF Arrives, Repeats
<1>3. IInv /\ Bits /\ PasteInv /\ [Next]_vars
        => [out'.down \cap Keys # {} =>
               /\ routing'.deferred = {}
               /\ ~(V \in out'.down /\ stt /\ CommandsOf(routing) # {})]_vars
  BY StepArrives DEF Arrives, Orders
<1>4. Spec => PasteSubmits
  BY <1>1, Inductive, PasteInductive, PTL DEF Spec, PasteSubmits
<1>5. Spec => PasteNotRepeated
  BY <1>2, Inductive, PasteInductive, PTL DEF Spec, PasteNotRepeated
<1>6. Spec => CommandPrecedesKey
  BY <1>3, Inductive, PasteInductive, PTL DEF Spec, CommandPrecedesKey
<1> QED BY <1>4, <1>5, <1>6 DEF ShortcutsArrive
=============================================================================
