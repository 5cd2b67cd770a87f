----------------------- MODULE SessionLifecycleProofs -----------------------
(***************************************************************************)
(* Proofs about SessionLifecycle, for every set of keys and every limit.   *)
(* The invariant comes in independent parts, one per ledger of a session:  *)
(* what is counted, when the password is needed, the types, where trust    *)
(* comes from and what the window shows (which rest on the types).         *)
(***************************************************************************)
EXTENDS SessionLifecycle, TLAPS, SequenceTheorems

(* What the main thread and the user do leaves the session thread and its  *)
(* counters alone.                                                         *)
Outside == Deliver \/ DismissSheet \/ User

LEMMA OutsideKeepsThread ==
    Outside => UNCHANGED <<config, threadVars, exposed, denials, lost, sessions>>
BY DEF Outside, Deliver, DeliverConnected, DeliverReconnecting, DeliverApproval,
   DeliverCertTrusted, DeliverSignIn, DeliverTerminal, DeliverRemove, DismissSheet,
   User, CloseWindow, UserSignsIn, threadVars, ghosts
-----------------------------------------------------------------------------
(* Counting. *)

Limit == IF connectedOnce THEN MaxReconnect ELSE MaxInitial

(* failures lags behind lost while a failed attempt is being judged, and   *)
(* credentials that were rejected are on their way to the end.             *)
CountInv ==
    /\ step \in Steps /\ result \in Results
    /\ connectedOnce \in BOOLEAN /\ config.reconnect \in BOOLEAN
    /\ failures \in Nat /\ lost \in Nat /\ denials \in Nat
    /\ step \notin {"decide", "over"} => lost = failures /\ failures < Limit
    /\ step = "decide" =>
         /\ failures < Limit /\ result # "none"
         /\ result \in Faults => lost = failures + 1
    /\ step = "over" => lost <= Limit
    /\ (step \in {"activating", "running"} \/ (step = "decide" /\ result \in Ends))
         => lost = 0 /\ failures = 0 /\ connectedOnce
    /\ ~connectedOnce => \/ denials = 0
                         \/ denials = 1 /\ (step = "over" \/ (step = "decide" /\ result = "denied"))

LEMMA CountInit == Init => CountInv
<1>1. config \in Configs => config.reconnect \in BOOLEAN
  BY DEF Configs
<1>2. Init => ~connectedOnce /\ connectedOnce \in BOOLEAN
  BY DEF Init
<1>3. Init => step = "start" /\ result = "none" /\ failures = 0 /\ lost = 0 /\ denials = 0
  BY DEF Init
<1>4. Init => config.reconnect \in BOOLEAN
  BY <1>1 DEF Init
<1>5. QED
  BY <1>2, <1>3, <1>4, LimitsAssumption
     DEF CountInv, Limit, Steps, Phases, Results, Faults, Ends

LEMMA CountStep == CountInv /\ [Next]_vars => CountInv'
<1> SUFFICES ASSUME CountInv, [Next]_vars PROVE CountInv'
  OBVIOUS
<1> USE LimitsAssumption DEF CountInv, Limit, Steps, Phases, Results, Faults, Ends
<1>1. CASE Start
  BY <1>1 DEF Start, windowVars, ghosts
<1>2. CASE Reach \/ Handshake \/ NeedToken \/ TokenAges
  BY <1>2 DEF Reach, Handshake, NeedToken, TokenAges, ghosts
<1>3. CASE Gate
  BY <1>3 DEF Gate, AfterGate
<1>4. CASE GateAnswered
  BY <1>4 DEF GateAnswered, FailWith, AfterGate
<1>5. CASE SignInAnswered
  BY <1>5 DEF SignInAnswered, FailWith
<1>6. CASE SignInTimesOut
  BY <1>6 DEF SignInTimesOut, FailWith
<1>7. CASE Assert
  BY <1>7 DEF Assert
<1>8. CASE Establish
  BY <1>8 DEF Establish
<1>9. CASE Activate
  BY <1>9 DEF Activate, EndWith, ghosts
<1>10. CASE PhaseFails
  BY <1>10 DEF PhaseFails, FaultsOf, FailWith
<1>11. CASE SessionEnds
  BY <1>11 DEF SessionEnds, EndWith, ghosts
<1>12. CASE DecideQuit
  BY <1>12 DEF DecideQuit, Deciding, ghosts
<1>13. CASE DecideSessionEnded
  BY <1>13 DEF DecideSessionEnded, Deciding, Retries, Fails, ghosts
<1>14. CASE DecideFirstConnect
  BY <1>14 DEF DecideFirstConnect, Deciding, Retries, Fails, Counted, Retryable, ghosts
<1>15. CASE DecideReconnect
  BY <1>15 DEF DecideReconnect, Deciding, Retries, Fails, Counted, Retryable, ghosts
<1>16. CASE Wait
  BY <1>16 DEF Wait, ghosts
<1>17. CASE Outside
  BY <1>17, OutsideKeepsThread DEF threadVars
<1>18. CASE UNCHANGED vars
  BY <1>18 DEF vars, threadVars, ghosts
<1>19. QED
  BY <1>1, <1>2, <1>3, <1>4, <1>5, <1>6, <1>7, <1>8, <1>9, <1>10, <1>11, <1>12,
     <1>13, <1>14, <1>15, <1>16, <1>17, <1>18
     DEF Next, Attempt, Decide, Outside

LEMMA CountAlways == Safety => []CountInv
BY CountInit, CountStep, PTL DEF Safety

(* Credentials that were never accepted are rejected at most once.         *)
THEOREM RejectionIsFinal == Safety => []RejectedOnlyOnce
<1>1. CountInv => RejectedOnlyOnce
  BY DEF CountInv, RejectedOnlyOnce
<1>2. QED
  BY <1>1, CountAlways, PTL

(* The attempts since the last connection stay within their limit.         *)
THEOREM AttemptsStayBounded == Safety => []AttemptsBounded
<1>1. CountInv => AttemptsBounded
  BY LimitsAssumption DEF CountInv, AttemptsBounded, Limit, Steps, Phases, Results,
     Faults, Ends
<1>2. QED
  BY <1>1, CountAlways, PTL

(* Every attempt to reconnect is announced under its own number.           *)
THEOREM AnnouncementsAreExact == Safety => AnnouncedAttemptIsNext
<1> DEFINE Announced ==
      (step = "decide" /\ step' = "waiting" /\ connectedOnce) =>
         events' = Append(events, [kind |-> "reconnecting", attempt |-> lost + 1])
<1>1. CountInv /\ [Next]_vars => Announced
  <2> SUFFICES ASSUME CountInv, [Next]_vars, step = "decide", step' = "waiting",
                      connectedOnce
               PROVE  events' = Append(events, [kind |-> "reconnecting",
                                                attempt |-> lost + 1])
    OBVIOUS
  <2>1. CASE DecideSessionEnded
    <3>1. lost = 0
      BY <2>1 DEF DecideSessionEnded, CountInv, Ends
    <3>2. events' = Append(events, [kind |-> "reconnecting", attempt |-> 1])
      BY <2>1 DEF DecideSessionEnded, Retries, Fails, Raise
    <3>3. QED
      BY <3>1, <3>2
  <2>2. CASE DecideReconnect
    <3>1. lost = failures + 1 /\ failures \in Nat
      BY <2>2 DEF DecideReconnect, CountInv
    <3>2. Retryable(result) /\ Retries(Counted + 1)
      BY <2>2 DEF DecideReconnect, Fails
    <3>3. Counted + 1 = lost + 1 /\ Counted + 1 # 0
      BY <3>1, <3>2 DEF Counted
    <3>4. QED
      BY <3>2, <3>3 DEF Retries, Raise
  <2>3. ~DecideQuit /\ ~DecideFirstConnect
    BY DEF DecideQuit, DecideFirstConnect
  <2>4. ~(Attempt \/ TokenAges \/ SessionEnds \/ Wait)
    BY DEF Attempt, Start, Reach, Handshake, Gate, GateAnswered, NeedToken,
       SignInAnswered, SignInTimesOut, Assert, Establish, Activate, PhaseFails,
       TokenAges, SessionEnds, Wait
  <2>5. ~Outside
    BY OutsideKeepsThread DEF threadVars
  <2>6. ~UNCHANGED vars
    BY DEF vars, threadVars
  <2>7. QED
    BY <2>1, <2>2, <2>3, <2>4, <2>5, <2>6 DEF Next, Decide, Outside
<1>2. QED
  BY <1>1, CountAlways, PTL DEF AnnouncedAttemptIsNext, Safety
-----------------------------------------------------------------------------
(* The password. *)

(* Once it is wiped, the session is on its way to its end. *)
PasswordInv ==
    \/ password = "held"
    \/ /\ password = "wiped" /\ ~config.reconnect /\ connectedOnce
       /\ step \in {"activating", "running", "decide", "over"}
       /\ step = "decide" => result \in Ends

LEMMA PasswordStep == PasswordInv /\ [Next]_vars => PasswordInv'
<1> SUFFICES ASSUME PasswordInv, [Next]_vars PROVE PasswordInv'
  OBVIOUS
<1> USE DEF PasswordInv, Ends
<1>1. CASE Start \/ Reach \/ Handshake \/ NeedToken \/ TokenAges
  BY <1>1 DEF Start, Reach, Handshake, NeedToken, TokenAges
<1>2. CASE Gate \/ GateAnswered
  BY <1>2 DEF Gate, GateAnswered, FailWith
<1>3. CASE SignInAnswered \/ SignInTimesOut \/ Assert
  BY <1>3 DEF SignInAnswered, SignInTimesOut, Assert, FailWith
<1>4. CASE Establish
  BY <1>4 DEF Establish
<1>5. CASE Activate \/ SessionEnds
  BY <1>5 DEF Activate, SessionEnds, EndWith
<1>6. CASE PhaseFails
  BY <1>6 DEF PhaseFails, FailWith
<1>7. CASE DecideQuit \/ DecideSessionEnded
  BY <1>7 DEF DecideQuit, DecideSessionEnded, Deciding, Fails
<1>8. CASE DecideFirstConnect \/ DecideReconnect
  BY <1>8 DEF DecideFirstConnect, DecideReconnect, Deciding, Faults
<1>9. CASE Wait
  BY <1>9 DEF Wait
<1>10. CASE Outside
  BY <1>10, OutsideKeepsThread DEF threadVars
<1>11. CASE UNCHANGED vars
  BY <1>11 DEF vars, threadVars
<1>12. QED
  BY <1>1, <1>2, <1>3, <1>4, <1>5, <1>6, <1>7, <1>8, <1>9, <1>10, <1>11
     DEF Next, Attempt, Decide, Outside

(* No attempt sends a password that was wiped.                             *)
THEOREM PasswordIsThere == Safety => []PasswordHeldWhenNeeded
<1>1. Init => PasswordInv
  BY DEF Init, PasswordInv
<1>2. PasswordInv => PasswordHeldWhenNeeded
  BY DEF PasswordInv, PasswordHeldWhenNeeded
<1>3. QED
  BY <1>1, <1>2, PasswordStep, PTL DEF Safety
-----------------------------------------------------------------------------
(* The queue of the main thread, as far as it carries keys. *)

(* Every key that waits to be saved is in A. *)
Certs(q, A) == \A i \in 1..Len(q) : q[i].kind = "certTrusted" => q[i].key \in A

(* No question about a key is in the queue, or at most one, about k. *)
NoAsk(q) == \A i \in 1..Len(q) : q[i].kind # "approval"
OneAsk(q, k) ==
    \A i \in 1..Len(q) : q[i].kind = "approval" =>
        /\ q[i].key = k
        /\ \A j \in 1..Len(q) : q[j].kind = "approval" => i = j

LEMMA QueueTaken ==
    ASSUME NEW S, NEW q \in Seq(S), q # <<>>, NEW A, NEW k
    PROVE  /\ Tail(q) \in Seq(S) /\ Head(q) \in S
           /\ Certs(q, A) => Certs(Tail(q), A)
           /\ Certs(q, A) /\ Head(q).kind = "certTrusted" => Head(q).key \in A
           /\ NoAsk(q) => NoAsk(Tail(q)) /\ Head(q).kind # "approval"
           /\ OneAsk(q, k) => OneAsk(Tail(q), k)
           /\ OneAsk(q, k) /\ Head(q).kind = "approval"
                => NoAsk(Tail(q)) /\ Head(q).key = k
<1>1. /\ Tail(q) \in Seq(S) /\ Head(q) \in S /\ Head(q) = q[1]
      /\ Len(q) \in Nat /\ Len(q) >= 1 /\ Len(Tail(q)) = Len(q) - 1
      /\ \A i \in 1..Len(Tail(q)) : Tail(q)[i] = q[i + 1]
  OBVIOUS
<1>2. \A i \in 1..Len(Tail(q)) : i \in Nat /\ i + 1 \in 1..Len(q) /\ i + 1 # 1
  BY <1>1
<1>3. 1 \in 1..Len(q)
  BY <1>1
<1>4. Certs(q, A) => Certs(Tail(q), A)
  BY <1>1, <1>2 DEF Certs
<1>5. Certs(q, A) /\ Head(q).kind = "certTrusted" => Head(q).key \in A
  BY <1>1, <1>3 DEF Certs
<1>6. NoAsk(q) => NoAsk(Tail(q)) /\ Head(q).kind # "approval"
  BY <1>1, <1>2, <1>3 DEF NoAsk
<1>7. OneAsk(q, k) => OneAsk(Tail(q), k)
  <2> SUFFICES ASSUME OneAsk(q, k), NEW i \in 1..Len(Tail(q)),
                      Tail(q)[i].kind = "approval"
               PROVE  /\ Tail(q)[i].key = k
                      /\ \A j \in 1..Len(Tail(q)) : Tail(q)[j].kind = "approval" => i = j
    BY DEF OneAsk
  <2>1. q[i + 1].key = k
    BY <1>1, <1>2 DEF OneAsk
  <2>2. ASSUME NEW j \in 1..Len(Tail(q)), Tail(q)[j].kind = "approval" PROVE i = j
    <3>1. i + 1 = j + 1
      BY <1>1, <1>2, <2>2 DEF OneAsk
    <3>2. QED
      BY <3>1, <1>2
  <2>3. QED
    BY <2>1, <2>2, <1>1
<1>8. OneAsk(q, k) /\ Head(q).kind = "approval" => NoAsk(Tail(q)) /\ Head(q).key = k
  BY <1>1, <1>2, <1>3 DEF OneAsk, NoAsk
<1>9. QED
  BY <1>1, <1>4, <1>5, <1>6, <1>7, <1>8

LEMMA QueueRaised ==
    ASSUME NEW S, NEW q \in Seq(S), NEW e \in S, NEW A, NEW k
    PROVE  /\ Append(q, e) \in Seq(S)
           /\ Certs(q, A) /\ (e.kind = "certTrusted" => e.key \in A)
                => Certs(Append(q, e), A)
           /\ NoAsk(q) /\ e.kind # "approval" => NoAsk(Append(q, e))
           /\ OneAsk(q, k) /\ e.kind # "approval" => OneAsk(Append(q, e), k)
           /\ NoAsk(q) /\ e.key = k => OneAsk(Append(q, e), k)
<1> DEFINE r == Append(q, e)
<1>1. /\ r \in Seq(S) /\ Len(q) \in Nat /\ Len(r) = Len(q) + 1
      /\ r[Len(q) + 1] = e /\ \A i \in 1..Len(q) : r[i] = q[i]
  OBVIOUS
<1>2. \A i \in 1..Len(r) : i \in 1..Len(q) \/ i = Len(q) + 1
  BY <1>1
<1> HIDE DEF r
<1>3. Certs(q, A) /\ (e.kind = "certTrusted" => e.key \in A) => Certs(r, A)
  BY <1>1, <1>2 DEF Certs
<1>4. NoAsk(q) /\ e.kind # "approval" => NoAsk(r)
  BY <1>1, <1>2 DEF NoAsk
<1>5. OneAsk(q, k) /\ e.kind # "approval" => OneAsk(r, k)
  BY <1>1, <1>2 DEF OneAsk
<1>6. NoAsk(q) /\ e.key = k => OneAsk(r, k)
  BY <1>1, <1>2 DEF NoAsk, OneAsk
<1>7. QED
  BY <1>1, <1>3, <1>4, <1>5, <1>6 DEF r

LEMMA MoreKeys ==
    ASSUME NEW q, NEW A, NEW B, A \subseteq B, Certs(q, A)
    PROVE  Certs(q, B)
BY DEF Certs
-----------------------------------------------------------------------------
(* Types. *)

(* From the gate on, the key of the server is known. *)
KeyKnown == {"gate", "asked", "entra", "signing", "assert", "finalize"}
TypeInv == TypeOK /\ (step \in KeyKnown => serverKey \in Keys)

LEMMA EventsToRaise ==
    /\ \A r \in Results : /\ [kind |-> "error", why |-> r] \in SessionEvents
                          /\ [kind |-> "disconnected", why |-> r] \in SessionEvents
                          /\ [kind |-> "reconnectFailed", why |-> r] \in SessionEvents
    /\ [kind |-> "connected"] \in SessionEvents /\ [kind |-> "signIn"] \in SessionEvents
    /\ [kind |-> "remove"] \in SessionEvents
    /\ \A k \in Keys : /\ [kind |-> "approval", key |-> k] \in SessionEvents
                       /\ [kind |-> "certTrusted", key |-> k] \in SessionEvents
    /\ \A n \in Nat : [kind |-> "reconnecting", attempt |-> n] \in SessionEvents
BY DEF SessionEvents, Terminals

LEMMA KeysInEvents ==
    \A e \in SessionEvents : e.kind \in {"approval", "certTrusted"} => e.key \in Keys
BY DEF SessionEvents, Terminals

LEMMA QueueTyped ==
    ASSUME TypeInv, [Next]_vars PROVE events' \in Seq(SessionEvents)
<1> DEFINE E == SessionEvents
<1>a. events \in Seq(E) /\ result \in Results
  BY DEF TypeInv, TypeOK
<1>b. \A e \in E : Append(events, e) \in Seq(E)
  BY <1>a, QueueRaised
<1>c. events # <<>> => Tail(events) \in Seq(E) /\ Head(events) \in E
  BY <1>a, QueueTaken
<1>d. [kind |-> "remove"] \in E
  BY EventsToRaise
<1>e. \A q \in Seq(E) : Append(q, [kind |-> "remove"]) \in Seq(E)
  BY <1>d, QueueRaised
<1> SUFFICES events' \in Seq(E)
  OBVIOUS
<1> HIDE DEF E
<1>0. \A e \in E : Raise(e) => events' \in Seq(E)
  BY <1>b DEF Raise
<1>f. \A r \in Results : /\ [kind |-> "error", why |-> r] \in E
                         /\ [kind |-> "disconnected", why |-> r] \in E
                         /\ [kind |-> "reconnectFailed", why |-> r] \in E
  BY EventsToRaise DEF E
<1>g. \A n \in Nat : [kind |-> "reconnecting", attempt |-> n] \in E
  BY EventsToRaise DEF E
<1>h. \A n \in Nat : Retries(n) => events' \in Seq(E)
  BY <1>0, <1>g, <1>a DEF Retries
<1>i. \A kind \in {"error", "disconnected", "reconnectFailed"} :
        Fails(kind) => events' \in Seq(E)
  BY <1>0, <1>f, <1>a DEF Fails
<1>j. UNCHANGED events => events' \in Seq(E)
  BY <1>a
<1>k. serverKey \in Keys => /\ [kind |-> "approval", key |-> serverKey] \in E
                            /\ [kind |-> "certTrusted", key |-> serverKey] \in E
  BY EventsToRaise DEF E
<1>1. CASE Start
  <2>1. [kind |-> "error", why |-> "refused"] \in E
    BY <1>f DEF Results, Faults
  <2>2. QED
    BY <1>1, <2>1, <1>0, <1>j DEF Start
<1>2. CASE Gate \/ GateAnswered
  <2>1. serverKey \in Keys
    BY <1>2 DEF Gate, GateAnswered, TypeInv, KeyKnown
  <2>2. QED
    BY <1>2, <2>1, <1>k, <1>0, <1>j DEF Gate, GateAnswered
<1>3. CASE NeedToken \/ Activate
  <2>1. [kind |-> "signIn"] \in E /\ [kind |-> "connected"] \in E
    BY EventsToRaise DEF E
  <2>2. QED
    BY <1>3, <2>1, <1>0, <1>j DEF NeedToken, Activate
<1>4. CASE Reach \/ Handshake \/ SignInAnswered \/ SignInTimesOut \/ Assert
             \/ Establish \/ PhaseFails \/ TokenAges \/ SessionEnds \/ DecideQuit \/ Wait
             \/ UserSignsIn
  BY <1>4, <1>j
     DEF Reach, Handshake, SignInAnswered, SignInTimesOut, Assert, Establish,
         PhaseFails, TokenAges, SessionEnds, DecideQuit, Wait, UserSignsIn
<1>5. CASE DecideSessionEnded
  BY <1>5, <1>h, <1>i DEF DecideSessionEnded
<1>6. CASE DecideFirstConnect
  BY <1>6, <1>h, <1>i DEF DecideFirstConnect
<1>7. CASE DecideReconnect
  <2>1. Counted + 1 \in Nat
    BY DEF Counted, TypeInv, TypeOK
  <2>2. QED
    BY <1>7, <2>1, <1>h, <1>i DEF DecideReconnect
<1>8. ASSUME Taking PROVE Rest \in Seq(E)
  BY <1>8, <1>c DEF Taking, Rest
<1>9. CASE Deliver
  BY <1>9, <1>8, <1>e
     DEF Deliver, DeliverConnected, DeliverReconnecting, DeliverApproval,
         DeliverCertTrusted, DeliverSignIn, DeliverTerminal, DeliverRemove, Closes
<1>10. CASE CloseWindow \/ DismissSheet
  BY <1>10, <1>a, <1>e DEF CloseWindow, DismissSheet, Closes
<1>11. CASE UNCHANGED vars
  BY <1>11, <1>j DEF vars
<1>12. QED
  BY <1>1, <1>2, <1>3, <1>4, <1>5, <1>6, <1>7, <1>9, <1>10, <1>11
     DEF Next, Attempt, Decide, User

Flags(c, h, i) == c \in BOOLEAN /\ h \in BOOLEAN /\ i \in BOOLEAN

LEMMA FlagsTyped ==
    ASSUME TypeInv, [Next]_vars PROVE Flags(connectedOnce', shutdown', signIn')
<1>a. Flags(connectedOnce, shutdown, signIn)
  BY DEF TypeInv, TypeOK, Flags
<1>1. connectedOnce' \in {TRUE, connectedOnce}
  BY OutsideKeepsThread
     DEF Next, Attempt, Start, Reach, Handshake, Gate, GateAnswered, NeedToken,
         SignInAnswered, SignInTimesOut, Assert, Establish, Activate, PhaseFails,
         TokenAges, SessionEnds, Decide, DecideQuit, DecideSessionEnded,
         DecideFirstConnect, DecideReconnect, Deciding, Wait, Outside, threadVars, vars
<1>2. shutdown' \in {FALSE, TRUE, shutdown}
  <2>1. \A rest : Closes(rest) => shutdown' \in {TRUE, FALSE}
    BY DEF Closes
  <2>2. CASE Deliver \/ DismissSheet \/ User
    BY <2>1, <2>2
       DEF Deliver, DeliverConnected, DeliverReconnecting, DeliverApproval,
           DeliverCertTrusted, DeliverSignIn, DeliverTerminal, DeliverRemove,
           DismissSheet, User, CloseWindow, UserSignsIn, windowVars
  <2>3. CASE Attempt \/ TokenAges
    BY <2>3 DEF Attempt, Start, Reach, Handshake, Gate, GateAnswered, NeedToken,
         SignInAnswered, SignInTimesOut, Assert, Establish, Activate, PhaseFails,
         TokenAges, windowVars
  <2>4. CASE SessionEnds \/ Decide \/ Wait
    BY <2>4 DEF SessionEnds, Decide, DecideQuit, DecideSessionEnded,
         DecideFirstConnect, DecideReconnect, Retries, Fails, Wait
  <2>5. CASE UNCHANGED vars
    BY <2>5 DEF vars, windowVars
  <2>6. QED
    BY <2>2, <2>3, <2>4, <2>5 DEF Next
<1>3. signIn' \in {FALSE, TRUE, signIn}
  <2>1. CASE Deliver \/ DismissSheet \/ User
    BY <2>1
       DEF Deliver, DeliverConnected, DeliverReconnecting, DeliverApproval,
           DeliverCertTrusted, DeliverSignIn, DeliverTerminal, DeliverRemove,
           DismissSheet, User, CloseWindow, UserSignsIn, windowVars, Known
  <2>2. CASE Attempt \/ TokenAges
    BY <2>2 DEF Attempt, Start, Reach, Handshake, Gate, GateAnswered, NeedToken,
         SignInAnswered, SignInTimesOut, Assert, Establish, Activate, PhaseFails,
         TokenAges, windowVars
  <2>3. CASE SessionEnds \/ Decide \/ Wait
    BY <2>3 DEF SessionEnds, Decide, DecideQuit, DecideSessionEnded,
         DecideFirstConnect, DecideReconnect, Deciding, Wait
  <2>4. CASE UNCHANGED vars
    BY <2>4 DEF vars, windowVars
  <2>5. QED
    BY <2>1, <2>2, <2>3, <2>4 DEF Next
<1>4. QED
  BY <1>a, <1>1, <1>2, <1>3 DEF Flags

(* What is left once the queue and the flags are typed. *)
PlainTypes ==
    /\ config \in Configs
    /\ step \in Steps /\ result \in Results
    /\ serverKey \in Keys \union {None} /\ trusted \in Keys \union {None}
    /\ failures \in Nat
    /\ password \in {"held", "wiped"} /\ token \in {"none", "fresh", "stale"}
    /\ reply \in {"none", "yes", "no"}
    /\ window \in {"open", "sheet", "closing", "gone"}
    /\ overlay \in {"connecting", "hidden", "reconnecting", "ended"}
    /\ pinned \in Keys \union {None}
    /\ approved \subseteq Keys /\ exposed \subseteq Keys
    /\ denials \in Nat /\ lost \in Nat /\ sessions \in 0..MaxSessions
    /\ step \in KeyKnown => serverKey \in Keys

LEMMA TypeParts ==
    TypeInv <=> /\ PlainTypes /\ events \in Seq(SessionEvents)
                /\ Flags(connectedOnce, shutdown, signIn)
BY DEF TypeInv, TypeOK, PlainTypes, Flags

LEMMA PlainTyped == ASSUME TypeInv, [Next]_vars PROVE PlainTypes'
<1>a. PlainTypes
  BY TypeParts
<1> USE <1>a DEF PlainTypes, Steps, Phases, KeyKnown, windowVars, ghosts
<1>1. CASE Start
  BY <1>1 DEF Start, Results, Faults
<1>2. CASE Reach \/ Handshake \/ NeedToken \/ TokenAges
  BY <1>2 DEF Reach, Handshake, NeedToken, TokenAges
<1>3. CASE Gate
  BY <1>3 DEF Gate, SendsPassword, AfterGate
<1>4. CASE GateAnswered
  BY <1>4 DEF GateAnswered, SendsPassword, AfterGate, FailWith, Results, Faults
<1>5. CASE SignInAnswered \/ SignInTimesOut \/ Assert
  BY <1>5 DEF SignInAnswered, SignInTimesOut, Assert, FailWith, Results, Faults
<1>6. CASE Establish
  BY <1>6, LimitsAssumption DEF Establish
<1>7. CASE Activate \/ SessionEnds
  BY <1>7 DEF Activate, SessionEnds, EndWith, Results, Ends
<1>8. CASE PhaseFails
  <2>1. \A phase : FaultsOf(phase) \subseteq Faults
    BY DEF FaultsOf, Faults
  <2>2. QED
    BY <1>8, <2>1 DEF PhaseFails, FailWith, Results
<1>9. CASE Decide
  <2>1. Counted \in Nat
    BY DEF Counted
  <2>2. failures' \in Nat /\ step' \in {"over", "waiting"}
    BY <1>9, <2>1 DEF Decide, DecideQuit, DecideSessionEnded, DecideFirstConnect,
       DecideReconnect, Retries, Fails
  <2>3. Deciding
    BY <1>9 DEF Decide, DecideQuit, DecideSessionEnded, DecideFirstConnect, DecideReconnect
  <2>4. QED
    BY <2>2, <2>3 DEF Deciding
<1>10. CASE Wait
  BY <1>10 DEF Wait, Results
<1>11. CASE Outside
  <2>1. UNCHANGED <<config, threadVars, exposed, denials, lost, sessions>>
    BY <1>11, OutsideKeepsThread
  <2>2. \A where, answer : answer \in {"yes", "no"} /\ Answer(where, answer)
                             => reply' \in {"none", "yes", "no"}
    BY DEF Answer
  <2>3. reply' \in {"none", "yes", "no"}
    BY <1>11, <2>2
       DEF Outside, Deliver, DeliverConnected, DeliverReconnecting, DeliverApproval,
           DeliverCertTrusted, DeliverSignIn, DeliverTerminal, DeliverRemove,
           DismissSheet, User, CloseWindow, UserSignsIn
  <2>4. /\ window' \in {"open", "sheet", "closing", "gone"}
        /\ overlay' \in {"connecting", "hidden", "reconnecting", "ended"}
    BY <1>11
       DEF Outside, Deliver, DeliverConnected, DeliverReconnecting, DeliverApproval,
           DeliverCertTrusted, DeliverSignIn, DeliverTerminal, DeliverRemove,
           DismissSheet, User, CloseWindow, UserSignsIn, Closes
  <2>5. Taking /\ Event.kind \in {"approval", "certTrusted"} => Event.key \in Keys
    <3>1. Taking => Event \in SessionEvents
      BY QueueTaken DEF TypeInv, TypeOK, Taking, Event
    <3>2. QED
      BY <3>1, KeysInEvents
  <2>6. pinned' \in Keys \union {None} /\ approved' \subseteq Keys
    BY <1>11, <2>5
       DEF Outside, Deliver, DeliverConnected, DeliverReconnecting, DeliverApproval,
           DeliverCertTrusted, DeliverSignIn, DeliverTerminal, DeliverRemove,
           DismissSheet, User, CloseWindow, UserSignsIn
  <2>7. QED
    BY <2>1, <2>3, <2>4, <2>6 DEF threadVars
<1>12. CASE UNCHANGED vars
  BY <1>12 DEF vars, threadVars
<1>13. QED
  BY <1>1, <1>2, <1>3, <1>4, <1>5, <1>6, <1>7, <1>8, <1>9, <1>10, <1>11, <1>12
     DEF Next, Attempt, Outside

LEMMA TypeStep == TypeInv /\ [Next]_vars => TypeInv'
<1> SUFFICES ASSUME TypeInv, [Next]_vars PROVE TypeInv'
  OBVIOUS
<1>1. PlainTypes' /\ events' \in Seq(SessionEvents)
      /\ Flags(connectedOnce', shutdown', signIn')
  BY PlainTyped, QueueTyped, FlagsTyped
<1>2. QED
  BY <1>1 DEF TypeInv, TypeOK, PlainTypes, Flags

LEMMA TypeAlways == Safety => []TypeInv
<1>1. Init => TypeInv
  <2>1. Init => events \in Seq(SessionEvents) /\ Flags(connectedOnce, shutdown, signIn)
    <3>1. Init => Flags(connectedOnce, shutdown, signIn)
      BY DEF Init, Flags
    <3>2. Init => events = <<>>
      BY DEF Init
    <3>3. QED
      BY <3>1, <3>2
  <2>2. Init => PlainTypes
    BY LimitsAssumption
       DEF Init, PlainTypes, Steps, Phases, Results, KeyKnown
  <2>3. QED
    BY <2>1, <2>2, TypeParts
<1>2. QED
  BY <1>1, TypeStep, PTL DEF Safety

(* Every variable of the life of a session keeps its type.                 *)
THEOREM TypeCorrect == Safety => []TypeOK
<1>1. TypeInv => TypeOK
  BY DEF TypeInv
<1>2. QED
  BY <1>1, TypeAlways, PTL
-----------------------------------------------------------------------------
(* Trust. *)

(* A question about a key is under way from the gate until its answer is   *)
(* given; one question is in the queue then and none at any other time.    *)
(* Keys spread from the answer to the session and on to the profile.       *)
Asked == step = "asked" /\ reply = "none"
TrustInv ==
    /\ exposed \subseteq approved
    /\ trusted \in approved \union {None} /\ pinned \in approved \union {None}
    /\ step \in {"entra", "signing", "assert", "finalize"} => serverKey \in approved
    /\ step = "asked" /\ reply = "yes" => serverKey \in approved
    /\ reply # "none" => step \in {"asked", "signing"}
    /\ Certs(events, approved)
    /\ IF Asked THEN OneAsk(events, serverKey) ELSE NoAsk(events)

LEMMA TrustInit == Init => TrustInv
BY DEF Init, TrustInv, Asked, Certs, NoAsk, OneAsk

(* What the session thread does. *)
LEMMA TrustByThread ==
    ASSUME TypeInv, TrustInv, Attempt \/ TokenAges \/ SessionEnds \/ Decide \/ Wait
    PROVE  TrustInv'
<1>a. /\ events \in Seq(SessionEvents) /\ None \notin Keys /\ result \in Results
      /\ step \in KeyKnown => serverKey \in Keys
  BY NoneAssumption DEF TypeInv, TypeOK
<1>b. \A e \in SessionEvents : Raise(e) /\ e.kind \notin {"approval", "certTrusted"} =>
        /\ Certs(events', approved)
        /\ NoAsk(events) => NoAsk(events')
  BY <1>a, QueueRaised DEF Raise, TrustInv
<1>c. \A kind : Fails(kind) /\ kind \in {"error", "disconnected", "reconnectFailed"} =>
        Certs(events', approved) /\ (NoAsk(events) => NoAsk(events'))
  BY <1>a, <1>b, EventsToRaise DEF Fails
<1>d. \A n \in Nat : Retries(n) =>
        Certs(events', approved) /\ (NoAsk(events) => NoAsk(events'))
  BY <1>b, EventsToRaise DEF Retries, TrustInv
<1> USE DEF TrustInv, Asked, windowVars, ghosts
<1>1. CASE Start
  <2>1. [kind |-> "error", why |-> "refused"] \in SessionEvents
    BY EventsToRaise DEF Results, Faults
  <2>2. Certs(events', approved) /\ NoAsk(events')
    BY <1>1, <2>1, <1>b DEF Start
  <2>3. QED
    BY <1>1, <2>2 DEF Start
<1>2. CASE Reach \/ Handshake \/ TokenAges \/ Assert \/ Establish
  BY <1>2 DEF Reach, Handshake, TokenAges, Assert, Establish
<1>3. CASE Gate
  <2>1. CASE trusted = serverKey
    BY <1>3, <2>1, <1>a DEF Gate, SendsPassword, AfterGate, KeyKnown
  <2>2. CASE trusted # serverKey
    <3> DEFINE e == [kind |-> "approval", key |-> serverKey]
    <3>1. e \in SessionEvents /\ e.kind # "certTrusted" /\ e.key = serverKey
      BY <1>3, <1>a, EventsToRaise DEF Gate, KeyKnown
    <3>a. events' = Append(events, e) /\ NoAsk(events)
      BY <1>3, <2>2 DEF Gate, Raise
    <3> HIDE DEF e
    <3>2. Certs(events', approved) /\ OneAsk(events', serverKey)
      BY <3>1, <3>a, <1>a, QueueRaised
    <3>3. QED
      BY <1>3, <2>2, <3>2 DEF Gate
  <2>3. QED
    BY <2>1, <2>2
<1>4. CASE GateAnswered
  <2>1. CASE reply = "yes"
    <3> DEFINE e == [kind |-> "certTrusted", key |-> serverKey]
    <3>1. e \in SessionEvents /\ e.kind # "approval" /\ e.key \in approved
      BY <1>4, <2>1, <1>a, EventsToRaise DEF GateAnswered, KeyKnown
    <3>a. events' = Append(events, e) /\ NoAsk(events)
      BY <1>4, <2>1 DEF GateAnswered, Raise
    <3> HIDE DEF e
    <3>2. Certs(events', approved) /\ NoAsk(events')
      BY <3>1, <3>a, <1>a, QueueRaised
    <3>3. QED
      BY <1>4, <2>1, <3>2 DEF GateAnswered, SendsPassword, AfterGate
  <2>2. CASE reply # "yes"
    BY <1>4, <2>2 DEF GateAnswered, FailWith
  <2>3. QED
    BY <2>1, <2>2
<1>5. CASE NeedToken
  <2>1. Certs(events', approved) /\ NoAsk(events')
    BY <1>5, <1>b, EventsToRaise DEF NeedToken
  <2>2. QED
    BY <1>5, <2>1 DEF NeedToken
<1>6. CASE SignInAnswered \/ SignInTimesOut
  BY <1>6 DEF SignInAnswered, SignInTimesOut, FailWith
<1>7. CASE Activate
  <2>1. Certs(events', approved) /\ NoAsk(events')
    BY <1>7, <1>b, EventsToRaise DEF Activate
  <2>2. QED
    BY <1>7, <2>1 DEF Activate, EndWith
<1>8. CASE PhaseFails
  BY <1>8 DEF PhaseFails, FailWith
<1>9. CASE SessionEnds
  BY <1>9 DEF SessionEnds, EndWith
<1>10. CASE Decide
  <2>1. Counted + 1 \in Nat
    BY DEF Counted, TypeInv, TypeOK
  <2>2. Certs(events', approved) /\ NoAsk(events')
    BY <1>10, <2>1, <1>c, <1>d
       DEF Decide, Deciding, DecideQuit, DecideSessionEnded, DecideFirstConnect,
           DecideReconnect
  <2>3. Deciding /\ step' \in {"over", "waiting"}
    BY <1>10 DEF Decide, DecideQuit, DecideSessionEnded, DecideFirstConnect,
       DecideReconnect, Retries, Fails
  <2>4. QED
    BY <2>2, <2>3 DEF Deciding
<1>11. CASE Wait
  BY <1>11 DEF Wait
<1>12. QED
  BY <1>1, <1>2, <1>3, <1>4, <1>5, <1>6, <1>7, <1>8, <1>9, <1>10, <1>11 DEF Attempt

(* What the main thread and the user do. *)
LEMMA TrustByWindow ==
    ASSUME TypeInv, TrustInv, Outside PROVE TrustInv'
<1>a. events \in Seq(SessionEvents) /\ None \notin Keys
  BY NoneAssumption DEF TypeInv, TypeOK
<1>b. UNCHANGED <<config, threadVars, exposed, denials, lost, sessions>>
  BY OutsideKeepsThread
<1>c. UNCHANGED <<step, serverKey, trusted, exposed>>
  BY <1>b DEF threadVars
<1>d. Taking =>
        /\ Rest \in Seq(SessionEvents) /\ Event \in SessionEvents
        /\ Certs(Rest, approved)
        /\ Event.kind = "certTrusted" => Event.key \in approved
        /\ NoAsk(events) => NoAsk(Rest) /\ Event.kind # "approval"
        /\ OneAsk(events, serverKey) => OneAsk(Rest, serverKey)
        /\ OneAsk(events, serverKey) /\ Event.kind = "approval"
             => NoAsk(Rest) /\ Event.key = serverKey
  BY <1>a, QueueTaken DEF Taking, Rest, Event, TrustInv
<1>e. ASSUME NEW q \in Seq(SessionEvents), Closes(q), Certs(q, approved)
      PROVE  /\ Certs(events', approved)
             /\ NoAsk(q) => NoAsk(events')
             /\ OneAsk(q, serverKey) => OneAsk(events', serverKey)
  <2> DEFINE e == [kind |-> "remove"]
  <2>1. e \in SessionEvents /\ e.kind \notin {"approval", "certTrusted"}
    BY EventsToRaise
  <2>2. events' = Append(q, e)
    BY <1>e DEF Closes
  <2> HIDE DEF e
  <2>3. QED
    BY <1>e, <2>1, <2>2, QueueRaised
<1> USE <1>c DEF TrustInv, Asked
<1>1. CASE DeliverConnected \/ DeliverReconnecting
  BY <1>1, <1>d DEF DeliverConnected, DeliverReconnecting, ghosts
<1>2. CASE DeliverApproval
  <2>1. Asked /\ Event.key = serverKey /\ NoAsk(Rest) /\ Certs(Rest, approved)
    BY <1>2, <1>d DEF DeliverApproval
  <2>2. approved \subseteq approved'
    BY <1>2 DEF DeliverApproval
  <2>3. Certs(events', approved') /\ NoAsk(events')
    BY <1>2, <2>1, <2>2, MoreKeys DEF DeliverApproval
  <2>4. reply' = "no" \/ (reply' = "yes" /\ serverKey \in approved')
    BY <1>2, <2>1 DEF DeliverApproval, Answer
  <2>5. pinned' = pinned
    BY <1>2 DEF DeliverApproval, windowVars
  <2>6. QED
    BY <2>1, <2>2, <2>3, <2>4, <2>5
<1>3. CASE DeliverCertTrusted
  BY <1>3, <1>d DEF DeliverCertTrusted, ghosts
<1>4. CASE DeliverSignIn \/ DeliverRemove
  BY <1>4, <1>d DEF DeliverSignIn, DeliverRemove, Answer, ghosts
<1>5. CASE DeliverTerminal
  BY <1>5, <1>d, <1>e DEF DeliverTerminal, ghosts
<1>6. CASE CloseWindow \/ DismissSheet
  BY <1>6, <1>a, <1>e DEF CloseWindow, DismissSheet, Answer, ghosts
<1>7. CASE UserSignsIn
  BY <1>7 DEF UserSignsIn, Answer, ghosts
<1>8. QED
  BY <1>1, <1>2, <1>3, <1>4, <1>5, <1>6, <1>7 DEF Outside, Deliver, User

(* Credentials go only where the user, or the profile, said they may, and  *)
(* no other key is trusted or saved.                                       *)
THEOREM TrustIsTheUsers == Safety => []TrustComesFromTheUser
<1>1. TypeInv /\ TrustInv /\ [Next]_vars => TrustInv'
  <2> SUFFICES ASSUME TypeInv, TrustInv, [Next]_vars PROVE TrustInv'
    OBVIOUS
  <2>1. CASE Next
    BY <2>1, TrustByThread, TrustByWindow DEF Next, Outside
  <2>2. CASE UNCHANGED vars
    BY <2>2 DEF vars, threadVars, windowVars, ghosts, TrustInv, Asked
  <2>3. QED
    BY <2>1, <2>2
<1>2. TrustInv => TrustComesFromTheUser
  BY DEF TrustInv, TrustComesFromTheUser
<1>3. QED
  BY <1>1, <1>2, TrustInit, TypeAlways, PTL DEF Safety
-----------------------------------------------------------------------------
(* What the window shows. *)

(* The events that write over the picture, and what they leave there. *)
Pictures == {"connected", "reconnecting"}
Draws(kind) == IF kind = "connected" THEN "hidden" ELSE "reconnecting"

(* An open window that shows s will show p once q is delivered: the last   *)
(* event of q that draws draws p, or none draws and s is p.                *)
Settles(q, s, p) ==
    \/ s = p /\ \A i \in 1..Len(q) : q[i].kind \notin Pictures
    \/ \E i \in 1..Len(q) :
          /\ q[i].kind \in Pictures /\ Draws(q[i].kind) = p
          /\ \A j \in 1..Len(q) : j > i => q[j].kind \notin Pictures

(* The end of the session is on its way to the window. *)
EndComes(q) == \E i \in 1..Len(q) : q[i] \in Terminals

(* Only a window that closes asks for a shutdown, so a thread that stops   *)
(* under an open window has said so; and whatever is still queued, the     *)
(* last word of it is where the thread stands.                             *)
TruthInv ==
    /\ step = "start" => ~connectedOnce
    /\ shutdown \/ (step = "decide" /\ result = "quit") => window # "open"
    /\ window = "open" =>
         /\ step = "running" => Settles(events, overlay, "hidden")
         /\ connectedOnce /\ step \in Phases \union {"waiting"}
              => Settles(events, overlay, "reconnecting")
         /\ step = "over" => EndComes(events)

LEMMA PictureTaken ==
    ASSUME NEW S, NEW q \in Seq(S), q # <<>>, NEW s, NEW p
    PROVE  /\ Settles(q, s, p) /\ Head(q).kind \notin Pictures
                => Settles(Tail(q), s, p)
           /\ Settles(q, s, p) /\ Head(q).kind \in Pictures
                => Settles(Tail(q), Draws(Head(q).kind), p)
           /\ EndComes(q) /\ Head(q) \notin Terminals => EndComes(Tail(q))
<1>1. /\ Head(q) = q[1] /\ Len(q) \in Nat /\ Len(q) >= 1
      /\ Len(Tail(q)) = Len(q) - 1
      /\ \A i \in 1..Len(Tail(q)) : Tail(q)[i] = q[i + 1]
  OBVIOUS
<1>2. /\ \A i \in 1..Len(Tail(q)) : i + 1 \in 1..Len(q) /\ i + 1 > 1
      /\ \A i \in 1..Len(q) : i # 1 => /\ i - 1 \in 1..Len(Tail(q))
                                       /\ Tail(q)[i - 1] = q[i]
      /\ 1 \in 1..Len(q)
  BY <1>1
<1>3. ASSUME NEW i \in 1..Len(q), q[i].kind \in Pictures, Draws(q[i].kind) = p,
             \A j \in 1..Len(q) : j > i => q[j].kind \notin Pictures
      PROVE  \/ i = 1 /\ \A j \in 1..Len(Tail(q)) : Tail(q)[j].kind \notin Pictures
             \/ \A t : Settles(Tail(q), t, p)
  <2>1. CASE i = 1
    BY <2>1, <1>1, <1>2, <1>3
  <2>2. CASE i # 1
    <3>1. i - 1 \in 1..Len(Tail(q)) /\ Tail(q)[i - 1] = q[i]
      BY <2>2, <1>2
    <3>2. ASSUME NEW j \in 1..Len(Tail(q)), j > i - 1
          PROVE  Tail(q)[j].kind \notin Pictures
      <4>1. j + 1 \in 1..Len(q) /\ j + 1 > i /\ Tail(q)[j] = q[j + 1]
        BY <3>2, <1>1, <1>2
      <4>2. QED
        BY <4>1, <1>3
    <3>3. QED
      BY <3>1, <3>2, <1>3 DEF Settles
  <2>3. QED
    BY <2>1, <2>2
<1>4. (\A i \in 1..Len(q) : q[i].kind \notin Pictures)
        => \A i \in 1..Len(Tail(q)) : Tail(q)[i].kind \notin Pictures
  BY <1>1, <1>2
<1>5. Settles(q, s, p) /\ Head(q).kind \notin Pictures => Settles(Tail(q), s, p)
  BY <1>1, <1>3, <1>4 DEF Settles
<1>6. Settles(q, s, p) /\ Head(q).kind \in Pictures
        => Settles(Tail(q), Draws(Head(q).kind), p)
  <2> SUFFICES ASSUME Settles(q, s, p), Head(q).kind \in Pictures
               PROVE  Settles(Tail(q), Draws(Head(q).kind), p)
    OBVIOUS
  <2>1. PICK i \in 1..Len(q) :
             /\ q[i].kind \in Pictures /\ Draws(q[i].kind) = p
             /\ \A j \in 1..Len(q) : j > i => q[j].kind \notin Pictures
    BY <1>1, <1>2 DEF Settles
  <2>2. CASE i = 1 /\ \A j \in 1..Len(Tail(q)) : Tail(q)[j].kind \notin Pictures
    BY <2>1, <2>2, <1>1 DEF Settles
  <2>3. QED
    BY <2>1, <2>2, <1>3
<1>7. EndComes(q) /\ Head(q) \notin Terminals => EndComes(Tail(q))
  BY <1>1, <1>2 DEF EndComes
<1>8. QED
  BY <1>5, <1>6, <1>7

LEMMA PictureRaised ==
    ASSUME NEW S, NEW q \in Seq(S), NEW e, NEW s, NEW p
    PROVE  /\ Settles(q, s, p) /\ e.kind \notin Pictures
                => Settles(Append(q, e), s, p)
           /\ e.kind \in Pictures /\ Draws(e.kind) = p => Settles(Append(q, e), s, p)
           /\ EndComes(q) \/ e \in Terminals => EndComes(Append(q, e))
<1> DEFINE r == Append(q, e)
<1>1. /\ Len(q) \in Nat /\ Len(r) = Len(q) + 1
      /\ r[Len(q) + 1] = e /\ \A i \in 1..Len(q) : r[i] = q[i]
  OBVIOUS
<1>2. /\ \A i \in 1..Len(r) : i \in 1..Len(q) \/ i = Len(q) + 1
      /\ \A i \in 1..Len(q) : i \in 1..Len(r)
      /\ Len(q) + 1 \in 1..Len(r)
      /\ \A i \in 1..Len(r) : ~(i > Len(q) + 1)
  BY <1>1
<1> HIDE DEF r
<1>3. Settles(q, s, p) /\ e.kind \notin Pictures => Settles(r, s, p)
  BY <1>1, <1>2 DEF Settles
<1>4. e.kind \in Pictures /\ Draws(e.kind) = p => Settles(r, s, p)
  BY <1>1, <1>2 DEF Settles
<1>5. EndComes(q) \/ e \in Terminals => EndComes(r)
  BY <1>1, <1>2 DEF EndComes
<1>6. QED
  BY <1>3, <1>4, <1>5 DEF r

(* What the session thread does. *)
LEMMA TruthByThread ==
    ASSUME TypeInv, TruthInv, Attempt \/ TokenAges \/ SessionEnds \/ Decide \/ Wait
    PROVE  TruthInv'
<1>a. events \in Seq(SessionEvents) /\ result \in Results /\ failures \in Nat
  BY DEF TypeInv, TypeOK
<1>b. \A e : Raise(e) /\ e.kind \notin Pictures =>
        \A p : Settles(events, overlay, p) => Settles(events', overlay, p)
  BY <1>a, PictureRaised DEF Raise
<1>c. \A e : Raise(e) /\ e.kind \in Pictures => Settles(events', overlay, Draws(e.kind))
  BY <1>a, PictureRaised DEF Raise
<1>d. \A e : Raise(e) /\ e \in Terminals => EndComes(events')
  BY <1>a, PictureRaised DEF Raise
<1> USE DEF TruthInv, Phases, windowVars, ghosts
<1>1. CASE Start
  <2>1. [kind |-> "error", why |-> "refused"] \in Terminals
    BY DEF Terminals, Results, Faults
  <2>2. step' = "over" => EndComes(events')
    BY <1>1, <2>1, <1>d DEF Start
  <2>3. QED
    BY <1>1, <2>2 DEF Start
<1>2. CASE Reach \/ Handshake \/ TokenAges \/ Assert \/ Establish
  BY <1>2 DEF Reach, Handshake, TokenAges, Assert, Establish
<1>3. CASE Gate \/ GateAnswered \/ NeedToken
  <2>1. UNCHANGED <<connectedOnce, window, overlay, shutdown>>
    BY <1>3 DEF Gate, GateAnswered, NeedToken
  <2>2. /\ step \in Phases /\ step' \in Phases \union {"decide"}
        /\ step' = "decide" => result' = "refused"
        /\ step' \notin {"start", "running", "over"}
    BY <1>3 DEF Gate, GateAnswered, NeedToken, AfterGate, FailWith
  <2>3. \/ UNCHANGED events
        \/ \E e : Raise(e) /\ e.kind \notin Pictures
    <3>1. /\ [kind |-> "approval", key |-> serverKey].kind \notin Pictures
          /\ [kind |-> "certTrusted", key |-> serverKey].kind \notin Pictures
          /\ [kind |-> "signIn"].kind \notin Pictures
      BY DEF Pictures
    <3>2. QED
      BY <1>3, <3>1 DEF Gate, GateAnswered, NeedToken
  <2>4. \A p : Settles(events, overlay, p) => Settles(events', overlay', p)
    BY <2>1, <2>3, <1>b
  <2>5. QED
    BY <2>1, <2>2, <2>4
<1>4. CASE SignInAnswered \/ SignInTimesOut \/ PhaseFails
  <2>1. \A phase : FaultsOf(phase) \subseteq Faults
    BY DEF FaultsOf, Faults
  <2>2. QED
    BY <1>4, <2>1 DEF SignInAnswered, SignInTimesOut, PhaseFails, FailWith, Faults
<1>5. CASE Activate
  <2>1. step' = "running" => Settles(events', overlay, "hidden")
    <3>1. [kind |-> "connected"].kind \in Pictures
      BY DEF Pictures
    <3>2. Draws([kind |-> "connected"].kind) = "hidden"
      BY DEF Draws
    <3>3. QED
      BY <1>5, <3>1, <3>2, <1>c DEF Activate, EndWith
  <2>2. QED
    BY <1>5, <2>1 DEF Activate, EndWith
<1>6. CASE SessionEnds
  BY <1>6 DEF SessionEnds, EndWith, SendersGone, Ends
<1>7. CASE Decide
  <2>1. Deciding
    BY <1>7 DEF Decide, DecideQuit, DecideSessionEnded, DecideFirstConnect, DecideReconnect
  <2>2. \A kind \in {"error", "disconnected", "reconnectFailed"} :
          Fails(kind) => step' = "over" /\ EndComes(events') /\ UNCHANGED shutdown
    <3>1. \A kind \in {"error", "disconnected", "reconnectFailed"} :
            [kind |-> kind, why |-> result] \in Terminals
      BY <1>a DEF Terminals
    <3>2. QED
      BY <3>1, <1>d DEF Fails
  <2>3. \A n \in Nat : Retries(n) =>
          \/ step' = "over" /\ (shutdown \/ window = "gone") /\ ~shutdown'
          \/ /\ step' = "waiting" /\ UNCHANGED shutdown
             /\ n # 0 => Settles(events', overlay, "reconnecting")
    <3>1. \A n : [kind |-> "reconnecting", attempt |-> n].kind \in Pictures
      BY DEF Pictures
    <3>2. \A n : Draws([kind |-> "reconnecting", attempt |-> n].kind) = "reconnecting"
      BY DEF Draws
    <3>3. QED
      BY <3>1, <3>2, <1>c DEF Retries, SendersGone
  <2>4. CASE DecideQuit
    BY <2>4 DEF DecideQuit, Deciding
  <2>5. CASE DecideSessionEnded
    BY <2>1, <2>5, <2>2, <2>3 DEF DecideSessionEnded, Deciding
  <2>6. CASE DecideFirstConnect
    BY <2>1, <2>6, <2>2, <2>3 DEF DecideFirstConnect, Deciding
  <2>7. CASE DecideReconnect
    <3>1. Counted + 1 \in Nat /\ Counted + 1 # 0
      BY <1>a DEF Counted
    <3>2. QED
      BY <2>1, <2>7, <3>1, <2>2, <2>3 DEF DecideReconnect, Deciding
  <2>8. QED
    BY <1>7, <2>4, <2>5, <2>6, <2>7 DEF Decide
<1>8. CASE Wait
  BY <1>8 DEF Wait, SendersGone
<1>9. QED
  BY <1>1, <1>2, <1>3, <1>4, <1>5, <1>6, <1>7, <1>8 DEF Attempt

(* What the main thread and the user do.  A window that is still open      *)
(* afterwards was open before, and its event was not the end.              *)
LEMMA TruthByWindow ==
    ASSUME TypeInv, TruthInv, Outside PROVE TruthInv'
<1>a. events \in Seq(SessionEvents)
  BY DEF TypeInv, TypeOK
<1>b. UNCHANGED <<step, result, connectedOnce>>
  BY OutsideKeepsThread DEF threadVars
<1>c. Taking =>
        /\ \A p : /\ Settles(events, overlay, p) /\ Event.kind \notin Pictures
                       => Settles(Rest, overlay, p)
                  /\ Settles(events, overlay, p) /\ Event.kind \in Pictures
                       => Settles(Rest, Draws(Event.kind), p)
        /\ EndComes(events) /\ Event \notin Terminals => EndComes(Rest)
  BY <1>a, PictureTaken DEF Taking, Rest, Event
<1>d. \A e \in Terminals : e.kind \in {"error", "disconnected", "reconnectFailed"}
  BY DEF Terminals
<1> USE <1>b DEF TruthInv, ghosts
<1>1. CASE DeliverConnected \/ DeliverReconnecting
  <2>1. Taking /\ events' = Rest /\ UNCHANGED <<window, shutdown>>
    BY <1>1 DEF DeliverConnected, DeliverReconnecting
  <2>2. /\ Event.kind \in Pictures /\ Event \notin Terminals
        /\ window = "open" => overlay' = Draws(Event.kind)
    BY <1>1, <1>d DEF DeliverConnected, DeliverReconnecting, Pictures, Draws, Known
  <2>3. QED
    BY <2>1, <2>2, <1>c
<1>2. CASE DeliverApproval \/ DeliverCertTrusted \/ DeliverSignIn
  <2>1. Taking /\ events' = Rest /\ UNCHANGED <<window, overlay, shutdown>>
    BY <1>2 DEF DeliverApproval, DeliverCertTrusted, DeliverSignIn, windowVars
  <2>2. Event.kind \notin Pictures /\ Event \notin Terminals
    BY <1>2, <1>d DEF DeliverApproval, DeliverCertTrusted, DeliverSignIn, Pictures
  <2>3. QED
    BY <2>1, <2>2, <1>c
<1>3. CASE DeliverTerminal
  <2>1. window' # "open"
    BY <1>3 DEF DeliverTerminal, Closes
  <2>2. QED
    BY <2>1
<1>4. CASE DeliverRemove \/ CloseWindow \/ DismissSheet
  <2>1. window' # "open"
    BY <1>4 DEF DeliverRemove, CloseWindow, DismissSheet, Closes
  <2>2. QED
    BY <2>1
<1>5. CASE UserSignsIn
  BY <1>5 DEF UserSignsIn
<1>6. QED
  BY <1>1, <1>2, <1>3, <1>4, <1>5 DEF Outside, Deliver, User

LEMMA TruthAlways == Safety => []TruthInv
<1>1. Init => TruthInv
  BY DEF Init, TruthInv, Phases
<1>2. TypeInv /\ TruthInv /\ [Next]_vars => TruthInv'
  <2> SUFFICES ASSUME TypeInv, TruthInv, [Next]_vars PROVE TruthInv'
    OBVIOUS
  <2>1. CASE Next
    BY <2>1, TruthByThread, TruthByWindow DEF Next, Outside
  <2>2. CASE UNCHANGED vars
    BY <2>2 DEF vars, threadVars, windowVars, TruthInv
  <2>3. QED
    BY <2>1, <2>2
<1>3. QED
  BY <1>1, <1>2, TypeAlways, PTL DEF Safety

(* An open window that has caught up with its queue shows where the thread *)
(* stands, and the thread under it is not gone.                            *)
THEOREM WindowIsTruthful == Safety => []WindowShowsTheTruth
<1>1. TruthInv => WindowShowsTheTruth
  <2> SUFFICES ASSUME TruthInv, events = <<>>, window = "open"
               PROVE  /\ step = "running" => overlay = "hidden"
                      /\ connectedOnce /\ step \in Phases \union {"waiting"}
                           => overlay = "reconnecting"
                      /\ step # "over"
    BY DEF WindowShowsTheTruth
  <2>1. 1..Len(events) = {}
    OBVIOUS
  <2>2. (\A p : Settles(events, overlay, p) => overlay = p) /\ ~EndComes(events)
    BY <2>1 DEF Settles, EndComes
  <2>3. QED
    BY <2>2 DEF TruthInv
<1>2. QED
  BY <1>1, TruthAlways, PTL
-----------------------------------------------------------------------------
(* Who gives the answers, and what takes the window away: the part of      *)
(* QuestionsAreAnswered and NoFrozenWindow that is about single states.    *)

Holds(q, kind) == \E i \in 1..Len(q) : q[i].kind = kind
NeverConnects(q) == \A i \in 1..Len(q) : q[i].kind # "connected"

(* The last sign-in of q is opened when q is delivered, and stays open. *)
SignInStays(q) ==
    \E i \in 1..Len(q) :
       /\ q[i].kind = "signIn"
       /\ \A j \in 1..Len(q) : j > i => q[j].kind # "connected"

(* A thread that waits for an answer has it, or the question is still in   *)
(* the queue, or it is a sign-in whose window is open and that no event    *)
(* raised before it is about to close.                                     *)
AnswerIsComing ==
    /\ step = "asked" => reply # "none" \/ Holds(events, "approval")
    /\ step = "signing" =>
         \/ reply # "none"
         \/ SignInStays(events)
         \/ signIn /\ NeverConnects(events)

(* When the thread is gone, so is the window, or it goes without the user: *)
(* by the end of the session, the timer of the sheet or its own removal.   *)
WindowIsGoing ==
    step = "over" => \/ window = "open" /\ EndComes(events)
                     \/ window = "sheet"
                     \/ window = "closing" /\ Holds(events, "remove")
                     \/ window = "gone"

(* The end is announced only by a thread that stops, so it cannot take a   *)
(* sign-in away from one that waits; a closing window has its removal      *)
(* queued from the first.                                                  *)
AnswerInv ==
    /\ AnswerIsComing
    /\ step # "over" => ~EndComes(events)
    /\ window = "closing" => Holds(events, "remove")

LEMMA AnswerTaken ==
    ASSUME NEW S, NEW q \in Seq(S), q # <<>>
    PROVE  /\ \A kind : Holds(q, kind) /\ Head(q).kind # kind => Holds(Tail(q), kind)
           /\ NeverConnects(q) => Head(q).kind # "connected" /\ NeverConnects(Tail(q))
           /\ SignInStays(q) => \/ SignInStays(Tail(q))
                                \/ Head(q).kind = "signIn" /\ NeverConnects(Tail(q))
           /\ EndComes(Tail(q)) \/ Head(q) \in Terminals => EndComes(q)
<1>1. /\ Head(q) = q[1] /\ Len(q) \in Nat /\ Len(q) >= 1
      /\ Len(Tail(q)) = Len(q) - 1
      /\ \A i \in 1..Len(Tail(q)) : Tail(q)[i] = q[i + 1]
  OBVIOUS
<1>2. /\ \A i \in 1..Len(Tail(q)) : i + 1 \in 1..Len(q)
      /\ \A i \in 1..Len(q) : i # 1 => /\ i - 1 \in 1..Len(Tail(q))
                                       /\ Tail(q)[i - 1] = q[i]
      /\ 1 \in 1..Len(q)
  BY <1>1
<1>3. \A kind : Holds(q, kind) /\ Head(q).kind # kind => Holds(Tail(q), kind)
  BY <1>1, <1>2 DEF Holds
<1>4. NeverConnects(q) => Head(q).kind # "connected" /\ NeverConnects(Tail(q))
  BY <1>1, <1>2 DEF NeverConnects
<1>5. ASSUME SignInStays(q)
      PROVE  \/ SignInStays(Tail(q))
             \/ Head(q).kind = "signIn" /\ NeverConnects(Tail(q))
  <2>1. PICK i \in 1..Len(q) :
             /\ q[i].kind = "signIn"
             /\ \A j \in 1..Len(q) : j > i => q[j].kind # "connected"
    BY <1>5 DEF SignInStays
  <2>2. \A j \in 1..Len(Tail(q)) : j + 1 > i => Tail(q)[j].kind # "connected"
    BY <1>1, <1>2, <2>1
  <2>3. CASE i = 1
    <3>1. \A j \in 1..Len(Tail(q)) : j + 1 > i
      BY <2>3, <1>1
    <3>2. QED
      BY <2>1, <2>2, <2>3, <3>1, <1>1 DEF NeverConnects
  <2>4. CASE i # 1
    <3>1. i - 1 \in 1..Len(Tail(q)) /\ Tail(q)[i - 1] = q[i]
      BY <2>4, <1>2
    <3>2. \A j \in 1..Len(Tail(q)) : j > i - 1 => j + 1 > i
      BY <1>1
    <3>3. QED
      BY <2>1, <2>2, <3>1, <3>2 DEF SignInStays
  <2>5. QED
    BY <2>3, <2>4
<1>6. EndComes(Tail(q)) \/ Head(q) \in Terminals => EndComes(q)
  BY <1>1, <1>2 DEF EndComes
<1>7. QED
  BY <1>3, <1>4, <1>5, <1>6

LEMMA AnswerRaised ==
    ASSUME NEW S, NEW q \in Seq(S), NEW e
    PROVE  /\ \A kind : Holds(q, kind) \/ e.kind = kind => Holds(Append(q, e), kind)
           /\ NeverConnects(q) /\ e.kind # "connected" => NeverConnects(Append(q, e))
           /\ SignInStays(q) /\ e.kind # "connected" => SignInStays(Append(q, e))
           /\ e.kind = "signIn" => SignInStays(Append(q, e))
           /\ ~EndComes(q) /\ e \notin Terminals => ~EndComes(Append(q, e))
<1> DEFINE r == Append(q, e)
<1>1. /\ Len(q) \in Nat /\ Len(r) = Len(q) + 1
      /\ r[Len(q) + 1] = e /\ \A i \in 1..Len(q) : r[i] = q[i]
  OBVIOUS
<1>2. /\ \A i \in 1..Len(r) : i \in 1..Len(q) \/ i = Len(q) + 1
      /\ \A i \in 1..Len(q) : i \in 1..Len(r)
      /\ Len(q) + 1 \in 1..Len(r)
      /\ \A i \in 1..Len(r) : ~(i > Len(q) + 1)
  BY <1>1
<1> HIDE DEF r
<1>3. \A kind : Holds(q, kind) \/ e.kind = kind => Holds(r, kind)
  BY <1>1, <1>2 DEF Holds
<1>4. NeverConnects(q) /\ e.kind # "connected" => NeverConnects(r)
  BY <1>1, <1>2 DEF NeverConnects
<1>5. SignInStays(q) /\ e.kind # "connected" => SignInStays(r)
  BY <1>1, <1>2 DEF SignInStays
<1>6. e.kind = "signIn" => SignInStays(r)
  BY <1>1, <1>2 DEF SignInStays
<1>7. ~EndComes(q) /\ e \notin Terminals => ~EndComes(r)
  BY <1>1, <1>2 DEF EndComes
<1>8. QED
  BY <1>3, <1>4, <1>5, <1>6, <1>7 DEF r

(* What the session thread does: it asks with the question in the queue,   *)
(* and leaves where it waits only with an answer or out of patience.       *)
LEMMA AnswerByThread ==
    ASSUME TypeInv, AnswerInv, Attempt \/ TokenAges \/ SessionEnds \/ Decide \/ Wait
    PROVE  AnswerInv'
<1>a. events \in Seq(SessionEvents) /\ result \in Results /\ failures \in Nat
  BY DEF TypeInv, TypeOK
<1>b. \A e : Raise(e) =>
        /\ Holds(events, "remove") => Holds(events', "remove")
        /\ ~EndComes(events) /\ e \notin Terminals => ~EndComes(events')
        /\ e.kind = "approval" => Holds(events', "approval")
        /\ e.kind = "signIn" => SignInStays(events')
  BY <1>a, AnswerRaised DEF Raise
<1>c. \A e \in Terminals : e.kind \in {"error", "disconnected", "reconnectFailed"}
  BY DEF Terminals
<1>d. \A n \in Nat : Retries(n) =>
        /\ step' \in {"over", "waiting"}
        /\ Holds(events, "remove") => Holds(events', "remove")
        /\ ~EndComes(events) => ~EndComes(events')
  <2>1. \A n \in Nat : [kind |-> "reconnecting", attempt |-> n] \notin Terminals
    BY <1>c
  <2>2. QED
    BY <2>1, <1>b DEF Retries
<1>e. \A kind : Fails(kind) =>
        step' = "over" /\ (Holds(events, "remove") => Holds(events', "remove"))
  BY <1>b DEF Fails
<1> USE DEF AnswerInv, AnswerIsComing, windowVars, ghosts
<1>1. CASE Start
  BY <1>1, <1>b DEF Start
<1>2. CASE Reach \/ Handshake \/ Assert \/ Establish \/ TokenAges
  BY <1>2 DEF Reach, Handshake, Assert, Establish, TokenAges
<1>3. CASE Gate
  <2>1. [kind |-> "approval", key |-> serverKey] \notin Terminals
    BY <1>c
  <2>2. QED
    BY <1>3, <2>1, <1>b DEF Gate, AfterGate
<1>4. CASE GateAnswered
  <2>1. [kind |-> "certTrusted", key |-> serverKey] \notin Terminals
    BY <1>c
  <2>2. step' \in {"entra", "finalize", "decide"} /\ UNCHANGED <<window, signIn>>
    BY <1>4 DEF GateAnswered, AfterGate, FailWith
  <2>3. UNCHANGED events \/ Raise([kind |-> "certTrusted", key |-> serverKey])
    BY <1>4 DEF GateAnswered
  <2>4. step # "over"
    BY <1>4 DEF GateAnswered
  <2>5. QED
    BY <2>1, <2>2, <2>3, <2>4, <1>b
<1>5. CASE NeedToken
  <2>1. [kind |-> "signIn"] \notin Terminals
    BY <1>c
  <2>2. QED
    BY <1>5, <2>1, <1>b DEF NeedToken
<1>6. CASE SignInAnswered \/ SignInTimesOut \/ PhaseFails
  BY <1>6 DEF SignInAnswered, SignInTimesOut, PhaseFails, FailWith
<1>7. CASE Activate
  <2>1. [kind |-> "connected"] \notin Terminals
    BY <1>c
  <2>2. QED
    BY <1>7, <2>1, <1>b DEF Activate, EndWith
<1>8. CASE SessionEnds \/ Wait
  BY <1>8 DEF SessionEnds, EndWith, Wait
<1>9. CASE DecideQuit
  BY <1>9 DEF DecideQuit, Deciding
<1>10. CASE DecideSessionEnded
  BY <1>10, <1>d, <1>e DEF DecideSessionEnded, Deciding
<1>11. CASE DecideFirstConnect
  BY <1>11, <1>d, <1>e DEF DecideFirstConnect, Deciding
<1>12. CASE DecideReconnect
  <2>1. Counted + 1 \in Nat
    BY <1>a DEF Counted
  <2>2. QED
    BY <1>12, <2>1, <1>d, <1>e DEF DecideReconnect, Deciding
<1>13. QED
  BY <1>1, <1>2, <1>3, <1>4, <1>5, <1>6, <1>7, <1>8, <1>9, <1>10, <1>11, <1>12
     DEF Attempt, Decide

(* What the main thread and the user do: a question leaves the queue with  *)
(* an answer or as a window, and a window is taken down with an answer.    *)
LEMMA AnswerByWindow ==
    ASSUME TypeInv, AnswerInv, Outside PROVE AnswerInv'
<1>a. events \in Seq(SessionEvents)
  BY DEF TypeInv, TypeOK
<1>b. UNCHANGED <<step, result, connectedOnce>>
  BY OutsideKeepsThread DEF threadVars
<1>c. Taking =>
        /\ \A kind : Holds(events, kind) /\ Event.kind # kind => Holds(Rest, kind)
        /\ NeverConnects(events) => Event.kind # "connected" /\ NeverConnects(Rest)
        /\ SignInStays(events) => \/ SignInStays(Rest)
                                  \/ Event.kind = "signIn" /\ NeverConnects(Rest)
        /\ ~EndComes(events) => ~EndComes(Rest) /\ Event \notin Terminals
  BY <1>a, AnswerTaken DEF Taking, Rest, Event
<1>d. [kind |-> "remove"] \notin Terminals
  BY DEF Terminals
<1>e. \A q \in Seq(SessionEvents) : Closes(q) =>
        /\ window' = "closing" /\ Holds(events', "remove")
        /\ \A kind : Holds(q, kind) => Holds(events', kind)
        /\ NeverConnects(q) => NeverConnects(events')
        /\ SignInStays(q) => SignInStays(events')
        /\ ~EndComes(q) => ~EndComes(events')
  BY <1>d, AnswerRaised DEF Closes
<1>f. Taking => Rest \in Seq(SessionEvents)
  BY <1>a, QueueTaken DEF Taking, Rest
<1>g. \A e \in Terminals : e.kind \in {"error", "disconnected", "reconnectFailed"}
  BY DEF Terminals
<1> USE <1>b DEF AnswerInv, AnswerIsComing, ghosts
<1>1. CASE DeliverConnected
  BY <1>1, <1>c DEF DeliverConnected
<1>2. CASE DeliverReconnecting \/ DeliverCertTrusted
  BY <1>2, <1>c DEF DeliverReconnecting, DeliverCertTrusted
<1>3. CASE DeliverApproval
  BY <1>3, <1>c DEF DeliverApproval, Answer, windowVars
<1>4. CASE DeliverSignIn
  BY <1>4, <1>c DEF DeliverSignIn, Answer, Known
<1>5. CASE DeliverTerminal
  <2>1. Taking /\ Event \in Terminals
    BY <1>5 DEF DeliverTerminal
  <2>2. step = "over" /\ Event.kind # "remove"
    BY <2>1, <1>c, <1>g
  <2>3. window' = "closing" => Holds(events', "remove")
    BY <1>5, <2>1, <2>2, <1>c, <1>e, <1>f DEF DeliverTerminal
  <2>4. QED
    BY <2>2, <2>3
<1>6. CASE DeliverRemove
  BY <1>6, <1>c DEF DeliverRemove, Answer
<1>7. CASE CloseWindow
  BY <1>7, <1>a, <1>e DEF CloseWindow, Answer
<1>8. CASE DismissSheet
  BY <1>8, <1>a, <1>e DEF DismissSheet
<1>9. CASE UserSignsIn
  BY <1>9 DEF UserSignsIn, Answer
<1>10. QED
  BY <1>1, <1>2, <1>3, <1>4, <1>5, <1>6, <1>7, <1>8, <1>9 DEF Outside, Deliver, User

LEMMA AnswerAlways == Safety => []AnswerInv
<1>1. Init => AnswerInv
  BY DEF Init, AnswerInv, AnswerIsComing, EndComes
<1>2. TypeInv /\ AnswerInv /\ [Next]_vars => AnswerInv'
  <2> SUFFICES ASSUME TypeInv, AnswerInv, [Next]_vars PROVE AnswerInv'
    OBVIOUS
  <2>1. CASE Next
    BY <2>1, AnswerByThread, AnswerByWindow DEF Next, Outside
  <2>2. CASE UNCHANGED vars
    BY <2>2 DEF vars, threadVars, windowVars, AnswerInv, AnswerIsComing
  <2>3. QED
    BY <2>1, <2>2
<1>3. QED
  BY <1>1, <1>2, TypeAlways, PTL DEF Safety

(* A question is never lost: whatever becomes of the window, the thread    *)
(* that waits has its answer, or an event or a window that will give it.   *)
THEOREM QuestionsAreNotLost == Safety => []AnswerIsComing
<1>1. AnswerInv => AnswerIsComing
  BY DEF AnswerInv
<1>2. QED
  BY <1>1, AnswerAlways, PTL

(* A window whose session is over always has something that takes it away. *)
THEOREM WindowIsNotForgotten == Safety => []WindowIsGoing
<1>1. TypeInv /\ TruthInv /\ AnswerInv => WindowIsGoing
  BY DEF TypeInv, TypeOK, TruthInv, AnswerInv, WindowIsGoing
<1>2. QED
  BY <1>1, TypeAlways, TruthAlways, AnswerAlways, PTL
=============================================================================
