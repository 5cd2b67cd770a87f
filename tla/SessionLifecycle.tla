--------------------------- MODULE SessionLifecycle ---------------------------
(***************************************************************************)
(* The life of a session: the attempts run makes to connect, the phases of *)
(* one attempt (TCP, negotiation, TLS, the trust-on-first-use gate, Entra  *)
(* sign-in, CredSSP and activation), what it does when one fails or when a *)
(* session that ran ends, and the window that follows all this through the *)
(* main queue.                                                             *)
(*                                                                         *)
(* The server, the network and the user are external: any phase may fail,  *)
(* the server may have another key at each attempt, and the user answers a *)
(* question as they like.  What a running session does is in CommandQueue, *)
(* LocalClipboard and OutputPath.                                          *)
(***************************************************************************)
EXTENDS Naturals, Sequences

CONSTANTS Keys,          \* public keys the server may show
          None,
          MaxInitial,    \* MAX_INITIAL_FAILURES or MAX_INITIAL_FAILURES_WOL
          MaxReconnect,  \* MAX_RECONNECT_FAILURES
          MaxSessions    \* bound: connections that succeed

ASSUME NoneAssumption == None \notin Keys
ASSUME LimitsAssumption == /\ MaxInitial \in Nat \ {0}
                           /\ MaxReconnect \in Nat \ {0}
                           /\ MaxSessions \in Nat

VARIABLES
    config,    \* the options of the profile that matter here
    step,      \* where the session thread is
    result,    \* how the attempt under way ended
    serverKey, \* the key the server of this attempt showed
    trusted,   \* session_trusted
    connectedOnce,
    failures,
    password,  \* config.password: "held" or "wiped"
    token,     \* RdsAadClient.access_token: "none", "fresh" or "stale"
    reply,     \* the oneshot the thread waits for: "none", "yes" or "no"
    shutdown,  \* PendingCommands.shutdown
    events,    \* the main queue
    window,    \* "open", "sheet", "closing" or "gone"
    signIn,    \* the controller holds a Microsoft sign-in window
    overlay,   \* what the window writes over the picture
    pinned,    \* the fingerprint in the saved profile
    approved,  \* ghost: keys the profile held or the user approved
    exposed,   \* ghost: keys of the servers credentials were sent to
    denials,   \* ghost: rejected credentials
    lost,      \* ghost: failed attempts since the last connection
    sessions   \* ghost: connections that succeeded

threadVars == <<step, result, serverKey, trusted, connectedOnce, failures,
                password, token>>
windowVars == <<window, signIn, overlay, pinned, shutdown>>
ghosts == <<approved, exposed, denials, lost, sessions>>
vars == <<config, threadVars, reply, events, windowVars, ghosts>>

Modes == {"password", "entra"}
Configs == [reconnect : BOOLEAN, authentication : Modes]

Phases == {"tcp", "negotiate", "tls", "gate", "asked", "entra", "signing",
           "assert", "finalize"}
Steps == Phases \union {"start", "activating", "running", "decide", "waiting",
                        "over"}
Faults == {"unreachable", "protocol", "incomplete", "denied", "refused"}
Ends == {"dropped", "logoff", "quit"}
Results == {"none"} \union Faults \union Ends

Terminals == [kind : {"error", "disconnected", "reconnectFailed"}, why : Results]
SessionEvents ==
    Terminals \union [kind : {"connected", "signIn", "remove"}]
              \union [kind : {"approval", "certTrusted"}, key : Keys]
              \union [kind : {"reconnecting"}, attempt : Nat]

Raise(e) == events' = Append(events, e)

Init ==
    /\ config \in Configs
    /\ step = "start" /\ result = "none" /\ serverKey = None
    /\ pinned \in Keys \union {None} /\ trusted = pinned
    /\ connectedOnce = FALSE /\ failures = 0
    /\ password = "held" /\ token = "none" /\ reply = "none"
    /\ shutdown = FALSE /\ events = <<>>
    /\ window = "open" /\ signIn = FALSE /\ overlay = "connecting"
    /\ approved = Keys \intersect {pinned} /\ exposed = {}
    /\ denials = 0 /\ lost = 0 /\ sessions = 0
-----------------------------------------------------------------------------
(* The phases of an attempt. *)

(* An Entra session to a host that is an address ends before it starts. *)
Start ==
    /\ step = "start"
    /\ \/ step' = "tcp" /\ UNCHANGED <<result, events>>
       \/ /\ config.authentication = "entra"
          /\ step' = "over" /\ result' = "refused"
          /\ Raise([kind |-> "error", why |-> "refused"])
    /\ UNCHANGED <<config, serverKey, trusted, connectedOnce, failures, password,
                   token, reply, windowVars, ghosts>>

(* Mutant of Retryable: the option alone lets rejected credentials be sent *)
(* again, whether or not they were ever accepted.                          *)
RetryableByOption(r) ==
    \/ r \in {"unreachable", "protocol", "incomplete"}
    \/ r = "denied" /\ config.reconnect

(* connector_failure, and the failures that connect maps itself. *)
Retryable(r) ==
    \/ r \in {"unreachable", "protocol", "incomplete"}
    \/ r = "denied" /\ connectedOnce /\ config.reconnect

(* connect returns: what it knew of the server goes with it. *)
FailWith(r) ==
    /\ step' = "decide" /\ result' = r /\ serverKey' = None
    /\ lost' = lost + 1
    /\ denials' = IF r = "denied" THEN denials + 1 ELSE denials

(* The ways a phase may fail. *)
FaultsOf(phase) ==
    CASE phase = "tcp" -> {"unreachable"}
      [] phase = "negotiate" -> {"protocol", "refused"}
      [] phase = "finalize" -> {"protocol", "incomplete", "denied", "refused"}
      [] OTHER -> {"refused"}

PhaseFails ==
    /\ step \in {"tcp", "negotiate", "tls", "assert", "finalize"}
    /\ \E r \in FaultsOf(step) : FailWith(r)
    /\ UNCHANGED <<config, trusted, connectedOnce, failures, password,
                   token, reply, events, windowVars, approved, exposed, sessions>>

Reach ==
    /\ \/ step = "tcp" /\ step' = "negotiate"
       \/ step = "negotiate" /\ step' = "tls"
    /\ UNCHANGED <<config, result, serverKey, trusted, connectedOnce, failures,
                   password, token, reply, events, windowVars, ghosts>>

Handshake ==
    /\ step = "tls"
    /\ serverKey' \in Keys
    /\ step' = "gate"
    /\ UNCHANGED <<config, result, trusted, connectedOnce, failures, password,
                   token, reply, events, windowVars, ghosts>>

AfterGate == IF config.authentication = "entra" THEN "entra" ELSE "finalize"
SendsPassword == exposed' = IF AfterGate = "finalize"
                            THEN exposed \union {serverKey} ELSE exposed

(* Mutant of Gate: once a key is trusted, any key passes. *)
GateOnceTrusted ==
    /\ step = "gate"
    /\ \/ /\ trusted # None
          /\ step' = AfterGate /\ SendsPassword
          /\ UNCHANGED events
       \/ /\ trusted = None
          /\ step' = "asked"
          /\ Raise([kind |-> "approval", key |-> serverKey])
          /\ UNCHANGED exposed
    /\ UNCHANGED <<config, result, serverKey, trusted, connectedOnce, failures,
                   password, token, reply, windowVars, approved, denials, lost,
                   sessions>>

(* tofu_gate: a key that is trusted passes, any other is shown to the user. *)
Gate ==
    /\ step = "gate"
    /\ \/ /\ trusted = serverKey
          /\ step' = AfterGate /\ SendsPassword
          /\ UNCHANGED events
       \/ /\ trusted # serverKey
          /\ step' = "asked"
          /\ Raise([kind |-> "approval", key |-> serverKey])
          /\ UNCHANGED exposed
    /\ UNCHANGED <<config, result, serverKey, trusted, connectedOnce, failures,
                   password, token, reply, windowVars, approved, denials, lost,
                   sessions>>

GateAnswered ==
    /\ step = "asked" /\ reply # "none"
    /\ reply' = "none"
    /\ \/ /\ reply = "yes"
          /\ Raise([kind |-> "certTrusted", key |-> serverKey])
          /\ trusted' = serverKey
          /\ step' = AfterGate /\ SendsPassword
          /\ UNCHANGED <<result, serverKey, denials, lost>>
       \/ /\ reply = "no"
          /\ FailWith("refused")
          /\ UNCHANGED <<events, trusted, exposed>>
    /\ UNCHANGED <<config, connectedOnce, failures, password, token, windowVars,
                   approved, sessions>>

(* ensure_access_token: a token that is still good is used again. *)
NeedToken ==
    /\ step = "entra"
    /\ \/ token = "fresh" /\ step' = "assert" /\ UNCHANGED events
       \/ token # "fresh" /\ step' = "signing" /\ Raise([kind |-> "signIn"])
    /\ UNCHANGED <<config, result, serverKey, trusted, connectedOnce, failures,
                   password, token, reply, windowVars, ghosts>>

SignInAnswered ==
    /\ step = "signing" /\ reply # "none"
    /\ reply' = "none"
    /\ \/ /\ reply = "yes"
          /\ token' = "fresh" /\ step' = "assert"
          /\ UNCHANGED <<result, serverKey, denials, lost>>
       \/ FailWith("refused") /\ UNCHANGED token
    /\ UNCHANGED <<config, trusted, connectedOnce, failures, password,
                   events, windowVars, approved, exposed, sessions>>

(* INTERACTIVE_AUTH_TIMEOUT: an answer that comes later finds nobody. *)
SignInTimesOut ==
    /\ step = "signing" /\ reply = "none"
    /\ FailWith("refused")
    /\ UNCHANGED <<config, trusted, connectedOnce, failures, password,
                   token, reply, events, windowVars, approved, exposed, sessions>>

(* The proof of possession goes to the server; every fault is fatal. *)
Assert ==
    /\ step = "assert"
    /\ step' = "finalize"
    /\ exposed' = exposed \union {serverKey}
    /\ UNCHANGED <<config, result, serverKey, trusted, connectedOnce, failures,
                   password, token, reply, events, windowVars, approved, denials,
                   lost, sessions>>

(* Mutant of Establish: the password is wiped whether or not it is needed. *)
EstablishWiping ==
    /\ step = "finalize" /\ sessions < MaxSessions
    /\ step' = "activating" /\ serverKey' = None
    /\ connectedOnce' = TRUE /\ failures' = 0
    /\ password' = "wiped"
    /\ lost' = 0 /\ sessions' = sessions + 1
    /\ UNCHANGED <<config, result, trusted, token, reply, events, windowVars,
                   approved, exposed, denials>>

(* Mutant of Establish: the count of failures goes on. *)
EstablishCountingOn ==
    /\ step = "finalize" /\ sessions < MaxSessions
    /\ step' = "activating" /\ serverKey' = None
    /\ connectedOnce' = TRUE /\ failures' = failures
    /\ password' = IF config.reconnect THEN password ELSE "wiped"
    /\ lost' = 0 /\ sessions' = sessions + 1
    /\ UNCHANGED <<config, result, trusted, token, reply, events, windowVars,
                   approved, exposed, denials>>

(* connect returned: the counters start again, and a password that no      *)
(* reconnect will need is wiped.                                           *)
Establish ==
    /\ step = "finalize" /\ sessions < MaxSessions
    /\ step' = "activating" /\ serverKey' = None
    /\ connectedOnce' = TRUE /\ failures' = 0
    /\ password' = IF config.reconnect THEN password ELSE "wiped"
    /\ lost' = 0 /\ sessions' = sessions + 1
    /\ UNCHANGED <<config, result, trusted, token, reply, events, windowVars,
                   approved, exposed, denials>>

TokenAges ==
    /\ token = "fresh" /\ step \in {"running", "waiting"}
    /\ token' = "stale"
    /\ UNCHANGED <<config, step, result, serverKey, trusted, connectedOnce,
                   failures, password, reply, events, windowVars, ghosts>>
-----------------------------------------------------------------------------
(* A session that runs, and how it ends. *)

EndWith(r) == step' = "decide" /\ result' = r

Activate ==
    /\ step = "activating"
    /\ \/ step' = "running" /\ Raise([kind |-> "connected"]) /\ UNCHANGED result
       \/ EndWith("dropped") /\ UNCHANGED events
    /\ UNCHANGED <<config, serverKey, trusted, connectedOnce, failures, password,
                   token, reply, windowVars, ghosts>>

(* remove_window has dropped the last handle, and with it the command      *)
(* channel's senders; a sheet drops it too, but then the thread is over.   *)
SendersGone == window = "gone"

(* A shutdown taken from the queue rather than from its flag is lost when  *)
(* its PDUs cannot be sent: the session counts as dropped.                 *)
SessionEnds ==
    /\ step = "running"
    /\ \/ \E r \in {"dropped", "logoff"} : EndWith(r) /\ UNCHANGED shutdown
       \/ shutdown /\ shutdown' = FALSE /\ \E r \in {"quit", "dropped"} : EndWith(r)
       \/ SendersGone /\ EndWith("quit") /\ UNCHANGED shutdown
    /\ UNCHANGED <<config, serverKey, trusted, connectedOnce, failures, password,
                   token, reply, events, window, signIn, overlay, pinned, ghosts>>
-----------------------------------------------------------------------------
(* What run does with the outcome of an attempt. *)

Fails(kind) == /\ step' = "over"
               /\ Raise([kind |-> kind, why |-> result])
               /\ UNCHANGED shutdown

(* drain_should_stop comes before the retry is announced. *)
Retries(attempt) ==
    \/ /\ shutdown \/ SendersGone
       /\ step' = "over" /\ shutdown' = FALSE /\ UNCHANGED events
    \/ /\ ~shutdown /\ ~SendersGone /\ step' = "waiting"
       /\ IF attempt = 0 THEN UNCHANGED events
                         ELSE Raise([kind |-> "reconnecting", attempt |-> attempt])
       /\ UNCHANGED shutdown

Deciding ==
    /\ step = "decide"
    /\ UNCHANGED <<config, result, serverKey, trusted, connectedOnce, password,
                   token, reply, window, signIn, overlay, pinned, ghosts>>

DecideQuit == /\ Deciding /\ result = "quit"
              /\ step' = "over"
              /\ UNCHANGED <<failures, shutdown, events>>

(* Mutant of DecideSessionEnded: a logoff stops the thread without a word. *)
DecideLogoffQuietly ==
    /\ Deciding /\ result \in {"dropped", "logoff"}
    /\ \/ result = "logoff" /\ step' = "over" /\ UNCHANGED <<shutdown, events>>
       \/ /\ result = "dropped"
          /\ IF config.reconnect THEN Retries(1) ELSE Fails("disconnected")
    /\ UNCHANGED failures

DecideSessionEnded ==
    /\ Deciding /\ result \in {"dropped", "logoff"}
    /\ IF config.reconnect THEN Retries(1) ELSE Fails("disconnected")
    /\ UNCHANGED failures

Counted == IF Retryable(result) THEN failures + 1 ELSE failures

DecideFirstConnect ==
    /\ Deciding /\ result \in Faults /\ ~connectedOnce
    /\ failures' = Counted
    /\ IF Retryable(result) /\ Counted < MaxInitial
       THEN Retries(0) ELSE Fails("error")

(* Mutant of DecideReconnect: one attempt too many. *)
DecideReconnectOnceMore ==
    /\ Deciding /\ result \in Faults /\ connectedOnce
    /\ failures' = Counted
    /\ IF ~config.reconnect THEN Fails("disconnected")
       ELSE IF Retryable(result) /\ Counted <= MaxReconnect
       THEN Retries(Counted + 1) ELSE Fails("reconnectFailed")

DecideReconnect ==
    /\ Deciding /\ result \in Faults /\ connectedOnce
    /\ failures' = IF config.reconnect THEN Counted ELSE failures
    /\ IF ~config.reconnect THEN Fails("disconnected")
       ELSE IF Retryable(result) /\ Counted < MaxReconnect
       THEN Retries(Counted + 1) ELSE Fails("reconnectFailed")

(* wait_for_retry: the deadline may be over as well when a shutdown or the *)
(* end of the channel is there.  A new attempt knows nothing of the last.  *)
Wait ==
    /\ step = "waiting"
    /\ \/ step' = "tcp" /\ result' = "none" /\ UNCHANGED shutdown
       \/ /\ shutdown \/ SendersGone
          /\ step' = "over" /\ shutdown' = FALSE
          /\ UNCHANGED result
    /\ UNCHANGED <<config, serverKey, trusted, connectedOnce, failures, password,
                   token, reply, events, window, signIn, overlay, pinned, ghosts>>
-----------------------------------------------------------------------------
(* The main thread takes the events of the queue one by one.  A window     *)
(* that closes is forgotten by an event it puts in the queue itself, so    *)
(* events raised before that still find its controller.                    *)

Known == window # "gone"
Taking == events # <<>>
Rest == Tail(events)
Event == Head(events)

(* The oneshot carries the first answer, while somebody waits for it. *)
Answer(where, answer) ==
    reply' = IF step = where /\ reply = "none" THEN answer ELSE reply

DeliverConnected ==
    /\ Taking /\ Event.kind = "connected" /\ events' = Rest
    /\ IF Known THEN signIn' = FALSE /\ overlay' = "hidden"
                ELSE UNCHANGED <<signIn, overlay>>
    /\ UNCHANGED <<config, threadVars, reply, window, pinned, shutdown, ghosts>>

DeliverReconnecting ==
    /\ Taking /\ Event.kind = "reconnecting" /\ events' = Rest
    /\ overlay' = IF Known THEN "reconnecting" ELSE overlay
    /\ UNCHANGED <<config, threadVars, reply, window, signIn, pinned, shutdown,
                   ghosts>>

(* Mutant of DeliverApproval: without a controller nobody answers. *)
DeliverApprovalOrForget ==
    /\ Taking /\ Event.kind = "approval" /\ events' = Rest
    /\ \/ Known /\ Answer("asked", "yes")
          /\ approved' = approved \union {Event.key}
       \/ Known /\ Answer("asked", "no") /\ UNCHANGED approved
       \/ ~Known /\ UNCHANGED <<reply, approved>>
    /\ UNCHANGED <<config, threadVars, windowVars, exposed, denials, lost, sessions>>

(* A modal question; without a controller its reply is dropped, which is a *)
(* refusal.                                                                *)
DeliverApproval ==
    /\ Taking /\ Event.kind = "approval" /\ events' = Rest
    /\ \/ Known /\ Answer("asked", "yes")
          /\ approved' = approved \union {Event.key}
       \/ Answer("asked", "no") /\ UNCHANGED approved
    /\ UNCHANGED <<config, threadVars, windowVars, exposed, denials, lost, sessions>>

(* Saving the profile may fail. *)
DeliverCertTrusted ==
    /\ Taking /\ Event.kind = "certTrusted" /\ events' = Rest
    /\ \/ Known /\ pinned' = Event.key
       \/ UNCHANGED pinned
    /\ UNCHANGED <<config, threadVars, reply, window, signIn, overlay, shutdown,
                   ghosts>>

(* Without a controller, or when its window cannot be shown, the sign-in   *)
(* is cancelled.                                                           *)
DeliverSignIn ==
    /\ Taking /\ Event.kind = "signIn" /\ events' = Rest
    /\ \/ Known /\ signIn' = TRUE /\ UNCHANGED reply
       \/ signIn' = FALSE /\ Answer("signing", "no")
    /\ UNCHANGED <<config, threadVars, window, overlay, pinned, shutdown, ghosts>>

(* windowWillClose; the handle is gone once a sheet is shown. *)
Closes(rest) ==
    /\ window' = "closing"
    /\ events' = Append(rest, [kind |-> "remove"])
    /\ shutdown' = (shutdown \/ window = "open")

(* terminal_session_presentation: a logoff closes the window, any other    *)
(* end shows a sheet over it.                                              *)
Silent(e) == e.kind = "disconnected" /\ e.why = "logoff"

(* Mutant of DeliverTerminal: the end is only written over the picture. *)
DeliverTerminalInline ==
    /\ Taking /\ Event \in Terminals
    /\ IF Known THEN signIn' = FALSE ELSE UNCHANGED signIn
    /\ IF window = "open" /\ Silent(Event)
       THEN Closes(Rest) /\ UNCHANGED overlay
       ELSE /\ events' = Rest
            /\ overlay' = IF window = "open" THEN "ended" ELSE overlay
            /\ UNCHANGED <<window, shutdown>>
    /\ UNCHANGED <<config, threadVars, reply, pinned, ghosts>>

DeliverTerminal ==
    /\ Taking /\ Event \in Terminals
    /\ IF Known THEN signIn' = FALSE ELSE UNCHANGED signIn
    /\ IF window = "open" /\ Silent(Event)
       THEN Closes(Rest) /\ UNCHANGED overlay
       ELSE /\ events' = Rest
            /\ window' = IF window = "open" THEN "sheet" ELSE window
            /\ overlay' = IF window = "open" THEN "ended" ELSE overlay
            /\ UNCHANGED shutdown
    /\ UNCHANGED <<config, threadVars, reply, pinned, ghosts>>

(* remove_window: the controller is dropped, and with it a sign-in.  *)
DeliverRemove ==
    /\ Taking /\ Event.kind = "remove" /\ events' = Rest
    /\ window' = "gone" /\ signIn' = FALSE
    /\ IF signIn THEN Answer("signing", "no") ELSE UNCHANGED reply
    /\ UNCHANGED <<config, threadVars, overlay, pinned, shutdown, ghosts>>

Deliver == \/ DeliverConnected \/ DeliverReconnecting \/ DeliverApproval
           \/ DeliverCertTrusted \/ DeliverSignIn \/ DeliverTerminal
           \/ DeliverRemove

CloseWindow ==
    /\ window = "open"
    /\ Closes(events)
    /\ signIn' = FALSE
    /\ IF signIn THEN Answer("signing", "no") ELSE UNCHANGED reply
    /\ UNCHANGED <<config, threadVars, overlay, pinned, ghosts>>

(* OK, or TERMINAL_SHEET_AUTO_CLOSE_SECONDS. *)
DismissSheet ==
    /\ window = "sheet"
    /\ Closes(events)
    /\ UNCHANGED <<config, threadVars, reply, signIn, overlay, pinned, ghosts>>

(* The user finishes the sign-in or closes its window. *)
UserSignsIn ==
    /\ signIn /\ signIn' = FALSE
    /\ \E answer \in {"yes", "no"} : Answer("signing", answer)
    /\ UNCHANGED <<config, threadVars, events, window, overlay, pinned, shutdown,
                   ghosts>>
-----------------------------------------------------------------------------
Attempt == \/ Start \/ Reach \/ Handshake \/ Gate \/ GateAnswered \/ NeedToken
           \/ SignInAnswered \/ SignInTimesOut \/ Assert \/ Establish \/ Activate
           \/ PhaseFails
Decide == \/ DecideQuit \/ DecideSessionEnded \/ DecideFirstConnect
          \/ DecideReconnect
User == CloseWindow \/ UserSignsIn
Next == Attempt \/ TokenAges \/ SessionEnds \/ Decide \/ Wait \/ Deliver
        \/ DismissSheet \/ User

Safety == Init /\ [][Next]_vars

(* The main thread drains its queue, questions to the user included, the   *)
(* sheet has a timer, and the session thread goes on where it waits for    *)
(* nobody but the main thread.  Nothing is assumed of the network.         *)
Spec == /\ Safety
        /\ WF_vars(Deliver) /\ WF_vars(DismissSheet)
        /\ WF_vars(GateAnswered) /\ WF_vars(SignInAnswered) /\ WF_vars(SignInTimesOut)
-----------------------------------------------------------------------------
(* Every variable of the life of a session has its type. *)
TypeOK ==
    /\ config \in Configs
    /\ step \in Steps /\ result \in Results
    /\ serverKey \in Keys \union {None} /\ trusted \in Keys \union {None}
    /\ connectedOnce \in BOOLEAN /\ failures \in Nat
    /\ password \in {"held", "wiped"} /\ token \in {"none", "fresh", "stale"}
    /\ reply \in {"none", "yes", "no"} /\ shutdown \in BOOLEAN
    /\ events \in Seq(SessionEvents)
    /\ window \in {"open", "sheet", "closing", "gone"}
    /\ signIn \in BOOLEAN /\ overlay \in {"connecting", "hidden", "reconnecting", "ended"}
    /\ pinned \in Keys \union {None}
    /\ approved \subseteq Keys /\ exposed \subseteq Keys
    /\ denials \in Nat /\ lost \in Nat /\ sessions \in 0..MaxSessions

(* Credentials go only to a server whose key the profile held when the     *)
(* session began or the user approved since, and no other key is trusted   *)
(* or saved, however often the server changes its key between attempts.    *)
TrustComesFromTheUser ==
    exposed \union ({trusted, pinned} \ {None}) \subseteq approved

(* The password is never sent blank: it is wiped only when no attempt will *)
(* need it again.                                                          *)
PasswordHeldWhenNeeded ==
    (step = "finalize" /\ config.authentication = "password") => password = "held"

(* Credentials that were never accepted are rejected at most once: a       *)
(* second attempt with them could lock the account.                        *)
RejectedOnlyOnce == ~connectedOnce => denials <= 1

(* The attempts since the last connection stay within the limit that goes  *)
(* with them.                                                              *)
AttemptsBounded == lost <= IF connectedOnce THEN MaxReconnect ELSE MaxInitial

(* Every attempt to reconnect is announced, and as the attempt it is since *)
(* the connection was lost.                                                *)
AnnouncedAttemptIsNext ==
    [][(step = "decide" /\ step' = "waiting" /\ connectedOnce) =>
         events' = Append(events, [kind |-> "reconnecting", attempt |-> lost + 1])]_vars

(* Once the main thread has caught up, an open window shows the truth: the *)
(* picture while the session runs, the notice while it reconnects, and     *)
(* never a session whose thread is gone.                                   *)
WindowShowsTheTruth ==
    (events = <<>> /\ window = "open") =>
        /\ step = "running" => overlay = "hidden"
        /\ (connectedOnce /\ step \in Phases \union {"waiting"})
              => overlay = "reconnecting"
        /\ step # "over"

(* The thread never waits for an answer that nobody will give, whatever    *)
(* becomes of the window meanwhile.                                        *)
QuestionsAreAnswered ==
    (step \in {"asked", "signing"}) ~> (step \notin {"asked", "signing"})

(* A session that is over leaves no frozen window behind. *)
NoFrozenWindow == (step = "over") ~> (window = "gone")

(* The README says that only TCP reachability is retried before the first  *)
(* connection; the comment in run repeats it.  It does not hold: Retryable *)
(* lets protocol failures be retried too, see the README.                  *)
OnlyReachabilityRetried ==
    (step = "waiting" /\ ~connectedOnce) => result = "unreachable"

(* REMOTE_ENDED calls a logoff a normal end of the session that the window *)
(* treats as expected.  It does not hold: a logoff is reconnected like a   *)
(* lost connection, see the README.                                        *)
LogoffEndsTheSession == step = "waiting" => result # "logoff"
=============================================================================
