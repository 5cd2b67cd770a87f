---------------------------- MODULE InputRouting ----------------------------
(***************************************************************************)
(* How a session window routes the keyboard: key and modifier events of    *)
(* AppKit become key events for the remote session.  With the setting for  *)
(* external speech-to-text, Command+V is swallowed and the text on the     *)
(* pasteboard is submitted instead, so a Command key is held back until it *)
(* is known what it is for.                                                *)
(*                                                                         *)
(* "remote" is what the events sent so far leave pressed on the remote of  *)
(* the connection: CommandQueue shows what becomes of them on their way.   *)
(* A connection begins with no key down, and the routing is not told of    *)
(* its end.  AppKit and the keyboard are external: a key that is held      *)
(* repeats, an enabled menu item takes a key equivalent before the window  *)
(* sees it, and a key-up may be omitted while Command is held.  Only the   *)
(* focused window gets events.                                             *)
(***************************************************************************)
EXTENDS FiniteSets

CONSTANTS Commands,  \* LEFT_COMMAND_KEYCODE, RIGHT_COMMAND_KEYCODE
          Control,   \* another modifier
          V, Tab,    \* V_KEYCODE, TAB_KEYCODE
          MenuKeys,  \* further keys of the Edit menu
          PlainKeys  \* further keys

Modifiers == Commands \cup {Control}
Keys == {V, Tab} \cup MenuKeys \cup PlainKeys

ASSUME KeysAssumption ==
    /\ Control \notin Commands /\ V # Tab
    /\ Modifiers \cap Keys = {} /\ {V, Tab} \cap (MenuKeys \cup PlainKeys) = {}

VARIABLES
    routing, \* InputRoutingState
    stt,     \* external_stt_paste_enabled
    linked,  \* what is sent reaches a connection
    remote,  \* keys down on the remote
    lost,    \* history: modifiers that were sent and are down on no remote, as
             \* the connection that took them has ended, or there was none
    out,     \* what the last event was turned into
    held,    \* keys down on the keyboard
    focused, \* the window gets events
    text,    \* there is text on the pasteboard
    fresh,   \* history: V, a Command key or the setting since the last Command+V
    dulled,  \* history: a paste whose end the window could not see
    plain,   \* history: keys that went down by a key-down without a key-up
    loose    \* history: keys whose key-up got lost and that are down still

machine == <<routing, remote, lost, out>>
world == <<stt, held, focused, text>>
vars == <<machine, linked, world, fresh, dulled, plain, loose>>

NoRouting == [pressed |-> {}, deferred |-> {}, suppressed |-> {}, keyUps |-> {}, pasting |-> FALSE]
Outputs == [down : SUBSET (Keys \cup Modifiers), up : SUBSET (Keys \cup Modifiers), submit : BOOLEAN]
Nothing == [down |-> {}, up |-> {}, submit |-> FALSE]

-----------------------------------------------------------------------------
(* InputRoutingState.  A result is the next state, the keys that go down   *)
(* on the remote (Command first), those that come up after, and whether a  *)
(* paste is to be submitted.                                               *)

Result(r, down, up, submit) == [r |-> r, down |-> down, up |-> up, submit |-> submit]
Quiet(r) == Result(r, {}, {}, FALSE)
CommandsOf(r) == r.pressed \cap Commands

Suppressed(r, k) == k \in Commands /\ k \in r.suppressed
Deferred(r, k) == k \in Commands /\ k \in r.deferred

ModifierDown(r, k, enabled) ==
    LET q == [r EXCEPT !.pressed = @ \cup {k}] IN
    IF k \in r.pressed THEN Quiet(r)
    ELSE IF k \in Commands /\ enabled THEN Quiet([q EXCEPT !.deferred = @ \cup {k}])
    ELSE Result(q, {k}, {}, FALSE)

(* Mutant of ModifierUp: what comes up after a swallowed paste leaves the  *)
(* paste active.                                                           *)
ModifierUpPasting(r, k) ==
    LET q == [r EXCEPT !.pressed = @ \ {k}] IN
    IF k \notin r.pressed THEN Quiet(r)
    ELSE IF Suppressed(r, k) THEN Quiet([q EXCEPT !.suppressed = @ \ {k}])
    ELSE IF Deferred(r, k) THEN Result([q EXCEPT !.deferred = @ \ {k}], {k}, {k}, FALSE)
    ELSE Result(q, {}, {k}, FALSE)

(* A Command key that was held back for nothing is tapped. *)
ModifierUp(r, k) ==
    LET q == [r EXCEPT !.pressed = @ \ {k}] IN
    IF k \notin r.pressed THEN Quiet(r)
    ELSE IF Suppressed(r, k)
         THEN Quiet([q EXCEPT !.suppressed = @ \ {k}, !.pasting = @ /\ r.suppressed # {k}])
    ELSE IF Deferred(r, k) THEN Result([q EXCEPT !.deferred = @ \ {k}], {k}, {k}, FALSE)
    ELSE Result(q, {}, {k}, FALSE)

(* Mutant of PasteInvoked: a Command key that was sent before the setting  *)
(* changed is not taken back.                                              *)
PasteInvokedLate(r) ==
    LET cs == CommandsOf(r) IN
    Result([r EXCEPT !.deferred = @ \ cs, !.suppressed = @ \cup cs,
                     !.keyUps = IF cs = {} THEN @ ELSE @ \cup {V}, !.pasting = @ \/ cs # {}],
           {}, {}, ~r.pasting)

PasteInvoked(r) ==
    LET cs == CommandsOf(r) IN
    Result([r EXCEPT !.deferred = @ \ cs, !.suppressed = @ \cup cs,
                     !.keyUps = IF cs = {} THEN @ ELSE @ \cup {V}, !.pasting = @ \/ cs # {}],
           {}, cs \ (r.deferred \cup r.suppressed), ~r.pasting)

Flush(r) == [r EXCEPT !.deferred = {}]

(* A Command key is a modifier however it arrives: AppKit reports it with  *)
(* flagsChanged, so a window takes these branches for no key of Keys.      *)
KeyDown(r, k, enabled) ==
    IF k \in Commands THEN ModifierDown(r, k, enabled)
    ELSE IF enabled /\ k = V /\ CommandsOf(r) # {} THEN PasteInvoked(r)
    ELSE Result(Flush(r), r.deferred \cup {k}, {}, FALSE)

KeyUp(r, k) ==
    IF k \in Commands THEN ModifierUp(r, k)
    ELSE IF k \in r.keyUps THEN Quiet([r EXCEPT !.keyUps = @ \ {k}, !.pasting = @ /\ k # V])
    ELSE Result(r, {}, {k}, FALSE)

KeyPulse(r, k, enabled) ==
    LET d == KeyDown(r, k, enabled)
        u == KeyUp(d.r, k)
    IN Result(u.r, d.down, d.up \cup u.up, d.submit)

-----------------------------------------------------------------------------

(* What the window has told the session to be down. *)
Told == remote \cup lost

TypeOK ==
    /\ routing.pressed \subseteq Modifiers
    /\ routing.deferred \subseteq CommandsOf(routing)
    /\ routing.suppressed \subseteq CommandsOf(routing)
    /\ routing.deferred \cap routing.suppressed = {}
    /\ routing.keyUps \subseteq {V} /\ routing.pasting \in BOOLEAN
    /\ Told \subseteq Keys \cup Modifiers /\ linked \in BOOLEAN
    /\ held \subseteq Keys \cup Modifiers
    /\ out \in Outputs
    /\ stt \in BOOLEAN /\ focused \in BOOLEAN /\ text \in BOOLEAN
    /\ fresh \in BOOLEAN /\ dulled \in BOOLEAN
    /\ plain \subseteq Keys /\ loose \subseteq Told

Init ==
    /\ routing = NoRouting /\ remote = {} /\ lost = {} /\ linked = TRUE /\ out = Nothing
    /\ stt \in BOOLEAN /\ held = {} /\ focused = TRUE /\ text \in BOOLEAN
    /\ fresh = TRUE /\ dulled = FALSE /\ plain = {} /\ loose = {}

(* A result is sent; a paste is submitted if there is text.  Without a     *)
(* connection the session drops the events.                                *)
Route(s) ==
    /\ routing' = s.r
    /\ remote' = IF linked THEN (remote \cup s.down) \ s.up ELSE {}
    /\ lost' = IF linked THEN lost \ (s.down \cup s.up) ELSE (lost \cup (s.down \cap Modifiers)) \ s.up
    /\ UNCHANGED linked
    /\ out' = [down |-> s.down, up |-> s.up, submit |-> s.submit /\ text]

(* A key stays down if its key-up is omitted, or is taken for the one that *)
(* suppressed_key_ups waits for.                                           *)
Account(own, omitted) ==
    /\ loose' = (loose \cup omitted \cup (routing.keyUps \ routing'.keyUps)) \cap Told'
    /\ plain' = (plain \cup own) \cap Told'

Family(k) == IF k = Control THEN {Control} ELSE Commands
CommandHeld == held \cap Commands # {}

(* flagsChanged.  The device bits of an event tell which key it is; one    *)
(* that another program posted may have none.  Then the key is up if none  *)
(* of its family is down, and is taken to have changed otherwise, which is *)
(* assumed to be right: no change of a modifier was missed before.         *)
FlagsChanged(k, device) ==
    /\ focused
    /\ held' = IF k \in held THEN held \ {k} ELSE held \cup {k}
    /\ device \/ Family(k) \cap held' = {} \/ routing.pressed = held \cap Modifiers
    /\ LET down == IF device THEN k \in held'
                   ELSE Family(k) \cap held' # {} /\ k \notin routing.pressed
       IN Route(IF down THEN ModifierDown(routing, k, stt) ELSE ModifierUp(routing, k))
    /\ fresh' = (fresh \/ (k \in Commands /\ k \in held'))
    /\ dulled' = (dulled /\ held' \cap Commands # {})
    /\ Account({}, {})
    /\ UNCHANGED <<stt, focused, text>>

(* The Edit menu, validateMenuItem: and the actions it sends to the view. *)
MenuTakes(k) ==
    \/ k = V /\ IF stt THEN text ELSE CommandsOf(routing) # {}
    \/ k \in MenuKeys /\ CommandsOf(routing) # {}
MenuAction(k) ==
    IF k = V /\ stt THEN PasteInvoked(routing)
    ELSE IF CommandsOf(routing) # {} THEN KeyPulse(routing, k, stt) ELSE Quiet(routing)

(* Not Control+Tab, which the window takes for the session. *)
Shortcut(k) == CommandHeld /\ ~(k = Tab /\ Control \in held)

(* Mutant of SentToView: a key with Command is forwarded like any other. *)
SentToViewForwarded(k) == KeyDown(routing, k, stt)

(* sendEvent: and session_key_down_action. *)
SentToView(k) ==
    IF Shortcut(k) THEN KeyPulse(routing, k, stt) ELSE KeyDown(routing, k, stt)

KeyPressed(k) ==
    /\ focused
    /\ held' = held \cup {k}
    /\ Route(IF CommandHeld /\ MenuTakes(k) THEN MenuAction(k) ELSE SentToView(k))
    /\ fresh' = IF k # V THEN fresh ELSE ~(CommandHeld /\ MenuTakes(k))
    /\ Account(IF Shortcut(k) THEN {} ELSE {k}, {})
    /\ UNCHANGED <<stt, focused, text, dulled>>

(* A key-up arrives, or AppKit omits it. *)
KeyReleased(k) ==
    /\ focused /\ k \in held
    /\ held' = held \ {k}
    /\ \/ /\ Route(KeyUp(routing, k))
          /\ Account({}, {})
          /\ UNCHANGED dulled
       \/ /\ CommandHeld
          /\ Route(Quiet(routing))
          /\ Account({}, plain \cap {k})
          /\ dulled' = (dulled \/ k = V)
    /\ fresh' = (fresh \/ k = V)
    /\ UNCHANGED <<stt, focused, text>>

(* The menu is used with the mouse, or paste: is sent by another program.  *)
MenuChosen(k) ==
    /\ focused /\ MenuTakes(k)
    /\ Route(MenuAction(k))
    /\ dulled' = (dulled \/ (k = V /\ CommandHeld))
    /\ Account({}, {})
    /\ UNCHANGED <<world, fresh>>

(* The mouse sends the Command keys that are held back before it. *)
MouseUsed ==
    /\ focused
    /\ Route(Result(Flush(routing), routing.deferred, {}, FALSE))
    /\ Account({}, {})
    /\ UNCHANGED <<world, fresh, dulled>>

(* release_all_keys: the focus is lost, to another window or to the sheet  *)
(* that ends the session, or the window closes.                            *)
ReleaseAllKeys ==
    /\ focused /\ focused' = FALSE
    /\ routing' = NoRouting /\ remote' = {} /\ lost' = {} /\ out' = Nothing
    /\ fresh' = TRUE /\ dulled' = FALSE /\ loose' = {} /\ plain' = {}
    /\ UNCHANGED <<linked, stt, held, text>>

(* The connection ends, and with it every key that is down on its remote;  *)
(* the window shows that it reconnects and leaves the routing as it is.    *)
ConnectionLost ==
    /\ linked /\ linked' = FALSE
    /\ remote' = {} /\ lost' = Told \cap Modifiers /\ out' = Nothing
    /\ loose' = {} /\ plain' = {}
    /\ UNCHANGED <<routing, world, fresh, dulled>>

(* run_session starts over with an empty input database. *)
Reconnected ==
    /\ ~linked /\ linked' = TRUE /\ out' = Nothing
    /\ UNCHANGED <<routing, remote, lost, world, fresh, dulled, plain, loose>>

FocusReturns ==
    /\ ~focused /\ focused' = TRUE /\ out' = Nothing
    /\ \E ks \in SUBSET (Keys \cup Modifiers) : held' = ks
    /\ UNCHANGED <<routing, remote, lost, linked, stt, text, fresh, dulled, plain, loose>>

SettingChanges ==
    /\ stt' = ~stt /\ fresh' = TRUE /\ out' = Nothing
    /\ UNCHANGED <<routing, remote, lost, linked, held, focused, text, dulled, plain, loose>>

(* Not in the middle of a paste: what a dictation puts on the pasteboard   *)
(* stays until its shortcut is over.                                       *)
PasteboardChanges ==
    /\ V \notin held /\ text' = ~text /\ out' = Nothing
    /\ UNCHANGED <<routing, remote, lost, linked, stt, held, focused, fresh, dulled, plain, loose>>

Next ==
    \/ \E k \in Modifiers, device \in BOOLEAN : FlagsChanged(k, device)
    \/ \E k \in Keys : KeyPressed(k) \/ KeyReleased(k) \/ MenuChosen(k)
    \/ MouseUsed \/ ReleaseAllKeys \/ FocusReturns
    \/ ConnectionLost \/ Reconnected
    \/ SettingChanges \/ PasteboardChanges

Spec == Init /\ [][Next]_vars

-----------------------------------------------------------------------------
(* What can be relied on. *)

(* The remote has exactly those Command keys down that the window knows to *)
(* be down and neither holds back nor has swallowed, however the setting   *)
(* changes in between, except for those that went down on an earlier       *)
(* connection, or on none: nobody presses these again.                     *)
RemoteCommandsMatch ==
    remote \cap Commands
        = CommandsOf(routing) \ (routing.deferred \cup routing.suppressed \cup lost)

(* No modifier is down on the remote that is not down on the keyboard.     *)
ModifiersComeUp == remote \cap Modifiers \subseteq held \/ ~focused

(* A key that was pressed with Command comes up, whatever key-ups AppKit   *)
(* omits.  One whose press went out as a key-down of its own can stay      *)
(* down: its key-up is omitted if Command is pressed meanwhile.  So can V, *)
(* whose key-up is mistaken for the end of an earlier Command+V.           *)
KeysComeUp == focused => remote \cap Keys \subseteq held \cup loose

(* Nothing stays down on the remote that the user has let go of. *)
NothingStaysDown == ModifiersComeUp /\ KeysComeUp

(* Command+V submits the text, unless the window could not see the end of  *)
(* the paste before; and holding it does not submit the text again.        *)
PasteSubmits ==
    [][focused /\ CommandHeld /\ V \notin held /\ V \in held' /\ stt /\ text /\ ~dulled
           => out'.submit]_vars
PasteNotRepeated ==
    [][stt /\ V \in held /\ V \in held' /\ CommandsOf(routing) # {} /\ ~fresh
           => ~out'.submit]_vars

(* V never reaches the remote as a key while Command is held for a paste,  *)
(* and any other key only after the Command keys that were held back.      *)
CommandPrecedesKey ==
    [][out'.down \cap Keys # {} =>
           /\ routing'.deferred = {}
           /\ ~(V \in out'.down /\ stt /\ CommandsOf(routing) # {})]_vars

(* A shortcut arrives once and as what it was. *)
ShortcutsArrive == PasteSubmits /\ PasteNotRepeated /\ CommandPrecedesKey

(* The exception is needed: it does not hold without it.  A Command key    *)
(* that is held while the session reconnects is up on the new remote, and  *)
(* a shortcut made with it arrives as a letter, see the README.            *)
RemoteCommandsAlwaysMatch ==
    linked => remote \cap Commands
                  = CommandsOf(routing) \ (routing.deferred \cup routing.suppressed)

(* No key is down on the remote that the user has let go of: it does not   *)
(* hold.  A V whose key-up was omitted under Command leaves its mark in    *)
(* suppressed_key_ups, and the next plain V stays down, see the README.    *)
NoKeyStays == focused => remote \cap Keys \subseteq held

(* A shortcut arrives with its Command key: it does not hold.  After a     *)
(* swallowed Command+V the Command key stays swallowed while it is held,   *)
(* so a further shortcut arrives as a letter, see the README.              *)
ShortcutKeepsCommand ==
    [][\A k \in MenuKeys : k \in out'.down /\ CommandsOf(routing) # {} =>
           (remote \cup out'.down) \cap Commands # {}]_vars
=============================================================================
