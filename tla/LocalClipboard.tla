--------------------------- MODULE LocalClipboard ---------------------------
(***************************************************************************)
(* The Mac-to-Windows clipboard of one session window: the command queue   *)
(* from the window, the session loop (handle_command, handle_clip_signal), *)
(* the CLIPRDR backend callbacks (MacClipboardBackend), the bounded signal *)
(* queue between them, the spawned retry and time-out tasks, the way from  *)
(* a lost connection to the next one, and the server's clipboard service.  *)
(*                                                                         *)
(* The command queue outlives the connections: it is emptied when one is   *)
(* lost, and served while the session waits to retry, but nobody looks at  *)
(* it while connect() is awaited.  Of the commands it holds only the three *)
(* of the clipboard matter here.                                           *)
(*                                                                         *)
(* Callbacks and signals both run on the session task, so each is one      *)
(* step; the spawned tasks only ever wait for room in the signal queue.    *)
(***************************************************************************)
EXTENDS ClipboardState, Sequences, FiniteSets, Bags

CONSTANTS
    ClipQueueCap,   \* CLIPBOARD_QUEUE_CAPACITY
    CommandCap,     \* COMMAND_QUEUE_CAPACITY
    MaxGen,         \* bound: copies and dictations, counted by generation
    MaxHello,       \* bound: monitor-ready PDUs per connection
    MaxRequests,    \* bound: data requests the server has open at once
    CanDrop,        \* the connection may be lost
    Refusable,      \* which offers the server may refuse: "first", "later"
    MayOmit,        \* the server may leave the initialization unanswered
    SendMayFail,    \* encoding or queueing an outgoing PDU may fail
    OtherTraffic    \* unrelated signals may occupy the queue

ASSUME QueueAssumption == /\ ClipQueueCap \in Nat \ {0}
                          /\ CommandCap \in Nat \ {0}

VARIABLES
    st,        \* LocalClipboardState, shared behind a mutex
    link,      \* where run is: "up" is run_session, "handshake" the part of
               \* connect after its reset_connection
    commands,  \* the clipboard commands in the command channel, oldest first
    stale,     \* history: how many of them were given before the last
               \* connection was lost
    queue,     \* the ClipSignal channel, oldest first
    timers,    \* the bag of spawned tasks that will send a signal
    offers,    \* FormatLists sent and not yet seen by the server
    replies,   \* server PDUs not yet read: "ok", "refused", "request"
    hello,     \* monitor-ready PDUs seen on this connection
    refusals,  \* history: refusals in a row, and of which clipboard
    srvAccepted,  \* generations the server has really accepted
    dictated,     \* generations of the dictations handled on this connection
                  \* and given since the one before it was lost
    injected,     \* generations Ctrl+V was pressed for on this connection
    awaiting      \* the dictated text the pressed Ctrl+V must fetch

vars == <<st, link, commands, stale, queue, timers, offers, replies, hello,
          refusals, srvAccepted, dictated, injected, awaiting>>
conn == <<link, commands, stale>>
seen == <<hello, refusals>>
wire == <<offers, replies, srvAccepted>>
paste == <<dictated, injected, awaiting>>

-----------------------------------------------------------------------------
Signal(kind, g, data) == [kind |-> kind, gen |-> g, data |-> data]
Timer(kind, g) == [kind |-> kind, gen |-> g]
One(t) == SetToBag({t})

SignalKinds == {"initialize", "advertise", "pasteAccepted", "timedOut",
                "submit", "other"}
Signals == [kind : SignalKinds, gen : OptGen, data : Items \cup {NoItem}]
Timers == [kind : {"initialize", "advertise", "timedOut"}, gen : OptGen]

(* Clipboard commands of the window. *)
CopyCommand(c) == [op |-> "copy", item |-> c]
PasteCommand(t) == [op |-> "paste", item |-> t]
ClipCommands == [op : {"copy"}, item : Texts \cup FileLists]
                  \cup [op : {"paste"}, item : Texts]

Links == {"up", "draining", "waiting", "connecting", "handshake"}
NoRefusal == [gen |-> NoGen, count |-> 0]

TypeOK ==
    /\ st \in ClipStates
    /\ link \in Links
    /\ commands \in Seq(ClipCommands) /\ Len(commands) <= CommandCap
    /\ stale \in 0..Len(commands)
    /\ refusals \in [gen : OptGen, count : Nat]
    /\ queue \in Seq(Signals) /\ Len(queue) <= ClipQueueCap
    /\ DOMAIN timers \subseteq Timers
    /\ offers \in Seq(OptGen)
    /\ replies \in Seq({"ok", "refused", "request"})
    /\ hello \in Nat
    /\ srvAccepted \subseteq OptGen
    /\ dictated \subseteq Nat
    /\ injected \subseteq Nat
    /\ awaiting \in Texts \cup {NoItem}

Init ==
    /\ st = DefaultClip
    /\ link = "connecting" /\ commands = <<>> /\ stale = 0
    /\ queue = <<>> /\ timers = EmptyBag
    /\ offers = <<>> /\ replies = <<>> /\ hello = 0 /\ refusals = NoRefusal
    /\ srvAccepted = {} /\ dictated = {} /\ injected = {}
    /\ awaiting = NoItem

-----------------------------------------------------------------------------
(* try_send: a full queue drops the signal with a warning. *)
Push(q, s) == IF Len(q) < ClipQueueCap THEN Append(q, s) ELSE q

Sent == IF SendMayFail THEN BOOLEAN ELSE {TRUE}

WillOffer(s, g) == s.ready /\ MayOffer(s, g)

(* advertise_local_clipboard: the offer is recorded before it is sent. *)
Offered(s, g, sent) ==
    \/ /\ WillOffer(s, g)
       /\ st' = BeginOffer(s, g)
       /\ offers' = IF sent THEN Append(offers, g) ELSE offers
    \/ /\ ~WillOffer(s, g)
       /\ st' = s
       /\ UNCHANGED offers

(* Handling a signal, a failed send is only logged. *)
Advertise(s, g) == \E sent \in Sent : Offered(s, g, sent)

(* The same, when letting the deferred clipboard in made a new generation. *)
AdvertiseIfRestored(s) ==
    IF s.generation # st.generation
    THEN Advertise(s, s.generation)
    ELSE st' = s /\ UNCHANGED offers

(* Every connection has its own signal channel, so what the old one queued, *)
(* or its tasks would send, is gone with it; the commands are not.          *)
EndConnection ==
    /\ link = "up"
    /\ link' = "draining"
    /\ stale' = Len(commands')
    /\ queue' = <<>> /\ timers' = EmptyBag
    /\ offers' = <<>> /\ replies' = <<>> /\ hello' = 0 /\ refusals' = NoRefusal
    /\ srvAccepted' = {} /\ dictated' = {} /\ injected' = {}
    /\ awaiting' = NoItem

(* Handling a command, a failed send ends the session. *)
OfferFails(s) ==
    /\ SendMayFail
    /\ WillOffer(s, s.generation)
    /\ st' = BeginOffer(s, s.generation)
    /\ EndConnection

-----------------------------------------------------------------------------
(* Commands from the window. *)

(* poll_clipboard and submit_external_stt_paste look at no connection. *)
Give(c) ==
    /\ Len(commands) < CommandCap
    /\ st.generation + Len(commands) < MaxGen
    /\ commands' = Append(commands, c)
    /\ UNCHANGED <<st, link, stale, queue, timers, wire, seen, paste>>

TakeCommand ==
    /\ commands # <<>>
    /\ commands' = Tail(commands)

OneFewer == IF stale = 0 THEN 0 ELSE stale - 1

Copy ==
    /\ link = "up" /\ TakeCommand
    /\ Head(commands).op = "copy"
    /\ LET s == Replace(st, Head(commands).item) IN
         \/ /\ Offered(s, s.generation, TRUE)
            /\ stale' = OneFewer
            /\ UNCHANGED <<link, queue, timers, replies, seen, srvAccepted, paste>>
         \/ OfferFails(s)

Dictate ==
    /\ link = "up" /\ TakeCommand
    /\ Head(commands).op = "paste"
    /\ LET s == ReplaceForPaste(st, Head(commands).item) IN
         \/ /\ Offered(s, s.generation, TRUE)
            /\ dictated' = IF stale = 0 THEN dictated \cup {s.generation}
                           ELSE dictated
            /\ awaiting' = NoItem
            /\ stale' = OneFewer
            /\ UNCHANGED <<link, queue, timers, replies, seen, srvAccepted, injected>>
         \/ OfferFails(s)

(* absorb_offline_command: a dictation taken from the queue now is kept as  *)
(* an ordinary copy.                                                        *)
AbsorbOffline ==
    /\ link \in {"draining", "waiting"} /\ TakeCommand
    /\ st' = Replace(st, Head(commands).item)
    /\ stale' = OneFewer
    /\ UNCHANGED <<link, queue, timers, wire, seen, paste>>

-----------------------------------------------------------------------------
(* Signals handled by the session loop. *)

Take(kind) ==
    /\ link = "up"
    /\ queue # <<>>
    /\ Head(queue).kind = kind
    /\ queue' = Tail(queue)

HandleInitialize ==
    /\ Take("initialize")
    /\ \/ /\ MayInitialize(st)
          /\ st' = BeginInitialOffer(st)
          /\ \E sent \in Sent :
               offers' = IF sent THEN Append(offers, st'.inFlight) ELSE offers
       \/ ~MayInitialize(st) /\ UNCHANGED <<st, offers>>
    /\ UNCHANGED <<conn, timers, replies, seen, srvAccepted, paste>>

HandleAdvertise ==
    /\ Take("advertise")
    /\ Advertise(st, Head(queue).gen)
    /\ UNCHANGED <<conn, timers, replies, seen, srvAccepted, paste>>

(* Ctrl+V, only for the paste that is still the current clipboard. *)
HandlePasteAccepted ==
    LET g == Head(queue).gen IN
    /\ Take("pasteAccepted")
    /\ \/ /\ PasteConfirmed(st, g)
          /\ st' = ConsumeConfirmedPaste(st, g)
          /\ \E sent \in Sent :
               /\ injected' = IF sent THEN injected \cup {g} ELSE injected
               /\ awaiting' = IF sent THEN st.clip ELSE awaiting
               /\ UNCHANGED dictated
       \/ ~PasteConfirmed(st, g) /\ UNCHANGED <<st, paste>>
    /\ UNCHANGED <<conn, timers, offers, replies, seen, srvAccepted>>

HandlePasteTimedOut ==
    LET g == Head(queue).gen IN
    /\ Take("timedOut")
    /\ AdvertiseIfRestored(ExpireUnrequestedPaste(st, g))
    /\ awaiting' = IF MayFinishServing(st, g) /\ st.requested # g
                   THEN NoItem ELSE awaiting
    /\ UNCHANGED <<conn, timers, replies, seen, srvAccepted, dictated, injected>>

(* The data goes out first; only then is the reservation given up. *)
HandleSubmitData ==
    LET sig == Head(queue) IN
    /\ Take("submit")
    /\ \E sent \in Sent :
         \/ /\ sent
            /\ AdvertiseIfRestored(IF sig.gen = NoGen THEN st
                                   ELSE FinishServingPaste(st, sig.gen))
            /\ awaiting' = IF MayFinishServing(st, sig.gen) THEN NoItem ELSE awaiting
         \/ ~sent /\ UNCHANGED <<st, offers, awaiting>>
    /\ UNCHANGED <<conn, timers, replies, seen, srvAccepted, dictated, injected>>

(* Remote text, file lists and file contents share the queue. *)
HandleOther ==
    /\ Take("other")
    /\ UNCHANGED <<st, conn, timers, wire, seen, paste>>

-----------------------------------------------------------------------------
(* Backend callbacks, run while the session reads a server PDU. *)

OnRequestFormatList ==
    /\ link = "up"
    /\ hello < MaxHello
    /\ hello' = hello + 1
    /\ queue' = Push(queue, Signal("initialize", NoGen, NoItem))
    /\ UNCHANGED <<st, conn, timers, wire, refusals, paste>>

(* How often in a row the current clipboard, or what opens the way for it, *)
(* was refused, as far as the client can match answers to offers.          *)
Counted(ok) ==
    IF ~st.bootstrap /\ st.inFlight # st.generation THEN refusals
    ELSE IF ok THEN NoRefusal
    ELSE [gen |-> st.generation,
          count |-> IF refusals.gen = st.generation THEN refusals.count + 1 ELSE 1]

(* External: the CLIPRDR library reports readiness with the first Ok. *)
Answered(ok) == CompleteOffer(IF ok THEN MarkReady(st) ELSE st, ok)

OnFormatListResponse(ok) ==
    LET res == Answered(ok)
        g == res.next.gen
    IN
    /\ link = "up"
    /\ replies # <<>>
    /\ Head(replies) = IF ok THEN "ok" ELSE "refused"
    /\ replies' = Tail(replies)
    /\ st' = res.state
    /\ queue' = CASE res.next.kind = "pasteReady" ->
                       Push(queue, Signal("pasteAccepted", g, NoItem))
                  [] res.next.kind = "advertise" ->
                       Push(queue, Signal("advertise", g, NoItem))
                  [] OTHER -> queue
    /\ timers' = CASE res.next.kind = "pasteReady" ->
                        timers (+) One(Timer("timedOut", g))
                   [] res.next.kind = "retry" ->
                        timers (+) One(Timer("advertise", g))
                   [] res.next.kind = "retryInit" ->
                        timers (+) One(Timer("initialize", NoGen))
                   [] OTHER -> timers
    /\ refusals' = Counted(ok)
    /\ UNCHANGED <<conn, offers, hello, srvAccepted, paste>>

(* Text is copied out of the clipboard now and sent when the signal is      *)
(* handled; a file clipboard answers with an empty string, and a request    *)
(* for any format but Unicode text with an error (NoItem).                  *)
OnFormatDataRequest ==
    /\ link = "up"
    /\ replies # <<>>
    /\ Head(replies) = "request"
    /\ replies' = Tail(replies)
    /\ \/ /\ LET data == IF st.clip \in Texts THEN st.clip ELSE Empty
             IN  queue' = Push(queue, Signal("submit", PasteBeingServed(st), data))
          /\ st' = BeginPasteDataResponse(st)
       \/ /\ queue' = Push(queue, Signal("submit", NoGen, NoItem))
          /\ UNCHANGED st
    /\ UNCHANGED <<conn, timers, offers, seen, srvAccepted, paste>>

(* Callbacks that only queue a signal of the other kinds. *)
OnOtherCallback ==
    /\ OtherTraffic
    /\ link = "up"
    /\ Len(queue) < ClipQueueCap
    /\ queue' = Append(queue, Signal("other", NoGen, NoItem))
    /\ UNCHANGED <<st, conn, timers, wire, seen, paste>>

(* Mutant: the spawned task uses try_send and gives up on a full queue. *)
TimerFiresOrGivesUp(t) ==
    /\ link = "up"
    /\ BagIn(t, timers)
    /\ timers' = timers (-) One(t)
    /\ queue' = Push(queue, Signal(t.kind, t.gen, NoItem))
    /\ UNCHANGED <<st, conn, wire, seen, paste>>

(* A spawned task's tx.send(..).await: it waits for room. *)
TimerFires(t) ==
    /\ link = "up"
    /\ BagIn(t, timers)
    /\ Len(queue) < ClipQueueCap
    /\ timers' = timers (-) One(t)
    /\ queue' = Append(queue, Signal(t.kind, t.gen, NoItem))
    /\ UNCHANGED <<st, conn, wire, seen, paste>>

-----------------------------------------------------------------------------
(* The server's clipboard service (external). *)

OfferClass == IF srvAccepted = {} THEN "first" ELSE "later"

ServerAnswers(ok) ==
    /\ offers # <<>>
    /\ ok \/ OfferClass \in Refusable
    /\ offers' = Tail(offers)
    /\ replies' = Append(replies, IF ok THEN "ok" ELSE "refused")
    /\ srvAccepted' = IF ok THEN srvAccepted \cup {Head(offers)} ELSE srvAccepted
    /\ UNCHANGED <<st, conn, queue, timers, seen, paste>>

(* "Windows can omit the initialization response" (comment on in_flight). *)
ServerOmits ==
    /\ MayOmit
    /\ OfferClass = "first"
    /\ offers # <<>>
    /\ offers' = Tail(offers)
    /\ UNCHANGED <<st, conn, queue, timers, replies, seen, srvAccepted, paste>>

OpenRequests ==
    Cardinality({i \in DOMAIN replies : replies[i] = "request"})
      + Cardinality({i \in DOMAIN queue : queue[i].kind = "submit"})

ServerRequestsData ==
    /\ srvAccepted # {}
    /\ OpenRequests < MaxRequests
    /\ replies' = Append(replies, "request")
    /\ UNCHANGED <<st, conn, queue, timers, offers, seen, srvAccepted, paste>>

-----------------------------------------------------------------------------
(* Connections. *)

Moves(from, to) ==
    /\ link = from /\ link' = to
    /\ UNCHANGED <<commands, stale, queue, timers, wire, seen, paste>>

(* Mutant of Drained: the session goes to wait without emptying the queue. *)
DrainedAtOnce == Moves("draining", "waiting") /\ UNCHANGED st

(* drain_should_stop goes on until the queue is empty. *)
Drained == commands = <<>> /\ Moves("draining", "waiting") /\ UNCHANGED st

(* The delay is over, whatever has been queued since. *)
RetryDue == Moves("waiting", "connecting") /\ UNCHANGED st

(* connect has reached the host and builds its clipboard channel. *)
HostReached ==
    /\ Moves("connecting", "handshake")
    /\ st' = ResetConnection(st)

Connected == Moves("handshake", "up") /\ UNCHANGED st

(* The host cannot be reached, or refuses; with reconnect run tries again. *)
ConnectFails ==
    /\ CanDrop
    /\ link \in {"connecting", "handshake"} /\ link' = "draining"
    /\ UNCHANGED <<st, commands, stale, queue, timers, wire, seen, paste>>

Reconnect == Drained \/ RetryDue \/ HostReached \/ Connected

Disconnect ==
    /\ CanDrop
    /\ UNCHANGED <<st, commands>>
    /\ EndConnection

-----------------------------------------------------------------------------
SomeTimerFires == \E t \in DOMAIN timers : TimerFires(t)

HandleSignal ==
    \/ HandleInitialize \/ HandleAdvertise \/ HandlePasteAccepted
    \/ HandlePasteTimedOut \/ HandleSubmitData \/ HandleOther

ReadPdu == OnFormatDataRequest \/ \E ok \in BOOLEAN : OnFormatListResponse(ok)

HandleCommand == Copy \/ Dictate \/ AbsorbOffline

Next ==
    \/ \E c \in ClipCommands : Give(c)
    \/ HandleCommand
    \/ HandleSignal
    \/ OnRequestFormatList \/ ReadPdu \/ OnOtherCallback
    \/ SomeTimerFires
    \/ \E ok \in BOOLEAN : ServerAnswers(ok)
    \/ ServerOmits \/ ServerRequestsData
    \/ Reconnect \/ ConnectFails \/ Disconnect

(***************************************************************************)
(* The session loop polls both queues; a spawned task waiting for room is  *)
(* served before later try_sends, so it is not overtaken for ever.  The    *)
(* server greets and answers what it is sent, and can be reached again     *)
(* some time: a host that never can is tried for ever.  Nobody copies so   *)
(* fast that the queue is never found empty when a connection is lost.     *)
(***************************************************************************)
Fairness ==
    /\ WF_vars(HandleCommand)
    /\ SF_vars(Reconnect)
    /\ SF_vars(HostReached)
    /\ WF_vars(HandleSignal)
    /\ WF_vars(ReadPdu)
    /\ SF_vars(SomeTimerFires)
    /\ WF_vars(OnRequestFormatList)
    /\ WF_vars(\E ok \in BOOLEAN : ServerAnswers(ok))

Spec == Init /\ [][Next]_vars
FairSpec == Spec /\ Fairness

-----------------------------------------------------------------------------
(* Safety. *)

(***************************************************************************)
(* A copy that waits for a dictated paste never waits for nothing: while   *)
(* deferred_clip holds one, the paste that will let it in is still pending *)
(* or being served (replace, complete_offer, finish_serving_paste,         *)
(* reset_connection between them never drop the last reference to it).     *)
(***************************************************************************)
DeferredNotStranded ==
    st.deferred # NoItem => ProtectsCurrentPaste(st)

(***************************************************************************)
(* From the moment Ctrl+V is pressed until the remote has been answered or *)
(* the reservation has expired, every answer to a text request waiting in  *)
(* the signal queue, or still to be made, carries the dictated text,       *)
(* whatever is copied on the Mac meanwhile.                                *)
(***************************************************************************)
CtrlVFetchesDictation ==
    awaiting # NoItem =>
        /\ st.clip = awaiting
        /\ \A i \in DOMAIN queue :
             queue[i].kind = "submit" => queue[i].data \in {awaiting, NoItem}

(***************************************************************************)
(* Ctrl+V is pressed only for a dictation that was handled on this very    *)
(* connection and was not given before the last one was lost: what was     *)
(* handled earlier, or waited in the command queue when the connection was *)
(* lost, or was taken from the queue while there was none, is never pasted *)
(* late (reset_connection, drain_should_stop, absorb_offline_command).     *)
(***************************************************************************)
NoLatePaste == injected \subseteq dictated

(***************************************************************************)
(* "never perform a delayed paste into a potentially different remote      *)
(* caret" (comment in absorb_offline_command): no dictation that waits     *)
(* when a connection comes up is left to be pasted on it.  It does not     *)
(* hold: nothing absorbs the commands while connect() is awaited, see the  *)
(* README.                                                                 *)
(***************************************************************************)
NoDelayedPaste ==
    [][Connected => \A i \in DOMAIN commands : commands[i].op # "paste"]_vars

(***************************************************************************)
(* The clipboard keeps its promise to the user (PasteReservation) through  *)
(* lost signals, failed sends, refusals, time-outs and reconnects.         *)
(***************************************************************************)
PhaseOf(s) == IF s.pending = s.generation THEN "pending"
              ELSE IF s.serving = s.generation THEN "serving" ELSE "free"

Promise == INSTANCE PasteReservation
           WITH current <- st.clip, waiting <- st.deferred, phase <- PhaseOf(st)

PromiseKept == Promise!Spec

(***************************************************************************)
(* "inserts clipboard text into Windows after CLIPRDR confirms that the    *)
(* remote side accepted the matching clipboard generation" (comment on     *)
(* LEFT_CTRL_SCANCODE).  It does not hold: answers are matched by order    *)
(* alone, see the README.                                                  *)
(***************************************************************************)
CtrlVOnlyAfterMatchingAccept == injected \subseteq srvAccepted

-----------------------------------------------------------------------------
(* Liveness, under FairSpec without connection loss. *)

(***************************************************************************)
(* EXTERNAL_PASTE_DATA_TIMEOUT: a served paste whose data is never asked   *)
(* for stops reserving the clipboard, however full the signal queue was.   *)
(***************************************************************************)
UnrequestedPasteExpires ==
    (st.serving = st.generation)
        ~> (st.serving # st.generation \/ st.requested = st.generation)

(***************************************************************************)
(* A deferred copy is let in eventually, when no signal is dropped.        *)
(***************************************************************************)
DeferredRestored == (st.deferred # NoItem) ~> (st.deferred = NoItem)

(***************************************************************************)
(* The last copy is offered until it has been accepted, or until           *)
(* MaxRetries + 1 refusals in a row were heard in answer to it: neither it *)
(* nor its last retry is forgotten on the way.                             *)
(***************************************************************************)
LastCopyOffered ==
    <>[](\/ st.accepted = st.generation
         \/ refusals.gen = st.generation /\ refusals.count > MaxRetries)

(***************************************************************************)
(* "a rejected clipboard offer must be retried" (test                      *)
(* rejected_local_clipboard_offer_is_retried): a retry that was scheduled  *)
(* for the current clipboard leads to another offer of it.  It does not    *)
(* hold for a first offer, which is retried too early, see the README.     *)
(***************************************************************************)
RetryScheduled == BagIn(Timer("advertise", st.generation), timers)

RejectedOfferIsRetried ==
    RetryScheduled ~> \/ st.inFlight = st.generation
                      \/ st.accepted = st.generation
                      \/ st.generation >= MaxGen
=============================================================================
