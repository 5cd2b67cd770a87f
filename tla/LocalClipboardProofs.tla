------------------------ MODULE LocalClipboardProofs ------------------------
(***************************************************************************)
(* Proofs about LocalClipboard for every set of texts and file lists,      *)
(* every queue capacity and retry limit: the type invariant, the safety    *)
(* invariants, and that the clipboard implements PasteReservation.         *)
(***************************************************************************)
EXTENDS LocalClipboard, TLAPS

(***************************************************************************)
(* What is always true of LocalClipboardState itself.  A reservation       *)
(* belongs to the current generation; a served one was accepted; an        *)
(* accepted generation is not also in flight, so no late refusal can       *)
(* abandon the paste being served.                                         *)
(***************************************************************************)
ClipInv(s) ==
    /\ s.deferred # NoItem => ProtectsCurrentPaste(s)
    /\ s.pending \in {NoGen, s.generation}
    /\ s.serving \in {NoGen, s.generation}
    /\ s.serving # NoGen => s.accepted = s.generation /\ s.pending = NoGen
    /\ s.accepted # NoGen =>
         s.accepted = s.generation /\ s.ready /\ s.inFlight # s.generation
    /\ s.pending # NoGen => s.clip \in Texts

Good(s) == s \in ClipStates /\ ClipInv(s)

(* How a method changes what PasteReservation sees of the state. *)
Kept(s, t) ==
    /\ t.clip = s.clip /\ t.deferred = s.deferred
    /\ t.generation = s.generation
    /\ t.pending = s.pending /\ t.serving = s.serving

Released(s, t) ==
    /\ PhaseOf(s) # "free"
    /\ t.pending = NoGen /\ t.serving = NoGen
    /\ t.deferred = NoItem
    /\ t.clip = IF s.deferred = NoItem THEN s.clip ELSE s.deferred
    /\ t.generation >= s.generation

-----------------------------------------------------------------------------
(* The methods of LocalClipboardState. *)

LEMMA DefaultGood == Good(DefaultClip)
  BY DEF Good, ClipInv, ClipStates, DefaultClip, Items, OptGen, NoGen,
         ProtectsCurrentPaste

(* replace_now leaves no reservation behind. *)
LEMMA ReplaceNowGood ==
  ASSUME NEW s \in ClipStates, NEW c \in Items, s.deferred = NoItem
  PROVE  /\ Good(ReplaceNow(s, c))
         /\ ReplaceNow(s, c).clip = c
         /\ ReplaceNow(s, c).deferred = NoItem
         /\ ReplaceNow(s, c).pending = NoGen
         /\ ReplaceNow(s, c).serving = NoGen
         /\ ReplaceNow(s, c).generation = s.generation + 1
<1> DEFINE r == ReplaceNow(s, c)
<1>1. /\ r.clip = c /\ r.deferred = NoItem /\ r.generation = s.generation + 1
      /\ r.accepted = NoGen /\ r.pending = NoGen /\ r.serving = NoGen
  BY DEF ClipStates, ReplaceNow
<1>2. r \in ClipStates
  <2>1. s.generation + 1 \in Nat /\ NoGen \in OptGen
    BY DEF ClipStates, OptGen
  <2> QED BY <2>1 DEF ClipStates, ReplaceNow
<1>3. ClipInv(r)
  BY <1>1 DEF ClipInv
<1> QED
  BY <1>1, <1>2, <1>3 DEF Good

LEMMA ReplaceGood ==
  ASSUME NEW s, Good(s), NEW c \in Items
  PROVE  /\ Good(Replace(s, c))
         /\ ProtectsCurrentPaste(s) => Replace(s, c) = [s EXCEPT !.deferred = c]
         /\ ~ProtectsCurrentPaste(s) =>
              /\ Replace(s, c).clip = c
              /\ Replace(s, c).deferred = NoItem
              /\ Replace(s, c).pending = NoGen
              /\ Replace(s, c).serving = NoGen
              /\ Replace(s, c).generation = s.generation + 1
<1>1. CASE ProtectsCurrentPaste(s)
  BY <1>1 DEF Replace, Good, ClipInv, ClipStates, ProtectsCurrentPaste
<1>2. CASE ~ProtectsCurrentPaste(s)
  <2> DEFINE u == [s EXCEPT !.deferred = NoItem]
  <2>1. u \in ClipStates /\ u.deferred = NoItem /\ u.generation = s.generation
    BY DEF Good, ClipStates
  <2>2. Replace(s, c) = ReplaceNow(u, c)
    BY <1>2 DEF Replace
  <2> HIDE DEF u
  <2> QED BY <1>2, <2>1, <2>2, ReplaceNowGood
<1> QED BY <1>1, <1>2

LEMMA ReplaceForPasteGood ==
  ASSUME NEW s, Good(s), NEW t \in Texts
  PROVE  /\ Good(ReplaceForPaste(s, t))
         /\ ReplaceForPaste(s, t).clip = t
         /\ ReplaceForPaste(s, t).deferred = s.deferred
         /\ ReplaceForPaste(s, t).pending = s.generation + 1
         /\ ReplaceForPaste(s, t).serving = NoGen
         /\ ReplaceForPaste(s, t).generation = s.generation + 1
<1> DEFINE r == ReplaceForPaste(s, t)
<1>1. s.generation + 1 \in Nat /\ NoGen \in OptGen /\ s.generation + 1 \in OptGen
      /\ t \in Items
  BY DEF Good, ClipStates, OptGen, Items
<1>2. r.clip = t /\ r.deferred = s.deferred /\ r.generation = s.generation + 1
      /\ r.accepted = NoGen /\ r.pending = s.generation + 1 /\ r.serving = NoGen
  BY DEF Good, ClipStates, ReplaceForPaste, ReplaceNow
<1>3. r \in ClipStates
  BY <1>1 DEF Good, ClipStates, ReplaceForPaste, ReplaceNow
<1>4. ClipInv(r)
  BY <1>1, <1>2 DEF ClipInv, ProtectsCurrentPaste
<1> QED
  BY <1>2, <1>3, <1>4 DEF Good

LEMMA ApplyDeferredGood ==
  ASSUME NEW s \in ClipStates, s.pending = NoGen, s.serving = NoGen,
         s.accepted # NoGen =>
           s.accepted = s.generation /\ s.ready /\ s.inFlight # s.generation
  PROVE  /\ Good(ApplyDeferred(s))
         /\ ApplyDeferred(s).pending = NoGen
         /\ ApplyDeferred(s).serving = NoGen
         /\ ApplyDeferred(s).deferred = NoItem
         /\ ApplyDeferred(s).clip =
              IF s.deferred = NoItem THEN s.clip ELSE s.deferred
         /\ ApplyDeferred(s).generation >= s.generation
<1>1. CASE s.deferred = NoItem
  BY <1>1 DEF ApplyDeferred, Good, ClipInv, ClipStates, ProtectsCurrentPaste
<1>2. CASE s.deferred # NoItem
  <2> DEFINE u == [s EXCEPT !.deferred = NoItem]
  <2>1. u \in ClipStates /\ u.deferred = NoItem /\ u.generation = s.generation
    BY DEF ClipStates
  <2>2. s.deferred \in Items /\ s.generation \in Nat
    BY <1>2 DEF ClipStates
  <2>3. ApplyDeferred(s) = ReplaceNow(u, s.deferred)
    BY <1>2 DEF ApplyDeferred
  <2> HIDE DEF u
  <2> QED BY <1>2, <2>1, <2>2, <2>3, ReplaceNowGood
<1> QED BY <1>1, <1>2

LEMMA ResetGood ==
  ASSUME NEW s, Good(s)
  PROVE  /\ Good(ResetConnection(s))
         /\ ResetConnection(s).pending = NoGen
         /\ \/ Released(s, ResetConnection(s))
            \/ /\ PhaseOf(s) = "free"
               /\ ResetConnection(s).clip = s.clip
               /\ ResetConnection(s).deferred = s.deferred
               /\ ResetConnection(s).serving = NoGen
               /\ ResetConnection(s).generation >= s.generation
<1> DEFINE r == [s EXCEPT !.inFlight = NoGen, !.ready = FALSE,
                          !.bootstrap = FALSE, !.accepted = NoGen,
                          !.retries = 0, !.pending = NoGen,
                          !.serving = NoGen, !.requested = NoGen]
<1>1. /\ r \in ClipStates /\ r.pending = NoGen /\ r.serving = NoGen
      /\ r.accepted = NoGen /\ r.deferred = s.deferred /\ r.clip = s.clip
      /\ r.generation = s.generation
  BY DEF Good, ClipStates, OptGen, NoGen
<1>2. ResetConnection(s) = ApplyDeferred(r)
  BY DEF ResetConnection
<1>3. PhaseOf(s) = "free" => s.deferred = NoItem
  BY DEF Good, ClipInv, PhaseOf, ProtectsCurrentPaste
<1> QED
  BY <1>1, <1>2, <1>3, ApplyDeferredGood DEF Released

LEMMA MarkReadyGood ==
  ASSUME NEW s, Good(s)
  PROVE  Good(MarkReady(s)) /\ Kept(s, MarkReady(s)) /\ MarkReady(s).ready
  BY DEF Good, ClipInv, ClipStates, MarkReady, Kept, ProtectsCurrentPaste

LEMMA BeginOfferGood ==
  ASSUME NEW s, Good(s), NEW g, MayOffer(s, g)
  PROVE  Good(BeginOffer(s, g)) /\ Kept(s, BeginOffer(s, g))
<1> DEFINE r == BeginOffer(s, g)
<1>1. g \in OptGen
  BY DEF Good, ClipStates, MayOffer, OptGen
<1>2. r \in ClipStates /\ Kept(s, r) /\ r.accepted = s.accepted
      /\ r.ready = s.ready
  BY <1>1 DEF Good, ClipStates, BeginOffer, Kept
<1>3. s.accepted = NoGen
  BY DEF Good, ClipInv, MayOffer
<1> QED
  BY <1>2, <1>3 DEF Good, ClipInv, Kept, ProtectsCurrentPaste

LEMMA BeginInitialOfferGood ==
  ASSUME NEW s, Good(s), MayInitialize(s)
  PROVE  Good(BeginInitialOffer(s)) /\ Kept(s, BeginInitialOffer(s))
<1> DEFINE r == BeginInitialOffer(s)
<1>1. s.generation \in OptGen
  BY DEF Good, ClipStates, OptGen
<1>2. r \in ClipStates /\ Kept(s, r) /\ r.accepted = s.accepted
  BY <1>1 DEF Good, ClipStates, BeginInitialOffer, Kept
<1>3. s.accepted = NoGen
  BY DEF Good, ClipInv, MayInitialize
<1> QED
  BY <1>2, <1>3 DEF Good, ClipInv, Kept, ProtectsCurrentPaste

LEMMA ConsumeGood ==
  ASSUME NEW s, Good(s), NEW g, PasteConfirmed(s, g)
  PROVE  /\ Good(ConsumeConfirmedPaste(s, g))
         /\ PhaseOf(s) = "pending"
         /\ PhaseOf(ConsumeConfirmedPaste(s, g)) = "serving"
         /\ ConsumeConfirmedPaste(s, g).serving = s.generation
         /\ ConsumeConfirmedPaste(s, g).pending = NoGen
         /\ ConsumeConfirmedPaste(s, g).clip = s.clip
         /\ ConsumeConfirmedPaste(s, g).deferred = s.deferred
         /\ ConsumeConfirmedPaste(s, g).generation = s.generation
         /\ s.clip \in Texts
<1> DEFINE r == ConsumeConfirmedPaste(s, g)
<1>1. /\ g = s.generation /\ s.accepted = g /\ s.pending = g
      /\ g \in Nat /\ g \in OptGen /\ NoGen \in OptGen
  BY DEF Good, ClipStates, PasteConfirmed, OptGen
<1>2. /\ r \in ClipStates /\ r.clip = s.clip /\ r.deferred = s.deferred
      /\ r.generation = g /\ r.accepted = g /\ r.serving = g
      /\ r.pending = NoGen /\ r.ready = s.ready /\ r.inFlight = s.inFlight
  BY <1>1 DEF Good, ClipStates, ConsumeConfirmedPaste
<1>3. NoGen # g
  BY <1>1 DEF NoGen
<1>4. ClipInv(r)
  BY <1>1, <1>2, <1>3 DEF Good, ClipInv, ProtectsCurrentPaste
<1> QED
  BY <1>1, <1>2, <1>3, <1>4 DEF Good, ClipInv, PhaseOf

LEMMA BeginPasteDataResponseGood ==
  ASSUME NEW s, Good(s)
  PROVE  /\ Good(BeginPasteDataResponse(s))
         /\ Kept(s, BeginPasteDataResponse(s))
<1> DEFINE r == BeginPasteDataResponse(s)
<1>1. s.generation \in OptGen
  BY DEF Good, ClipStates, OptGen
<1>2. r \in ClipStates /\ Kept(s, r) /\ r.accepted = s.accepted
      /\ r.ready = s.ready /\ r.inFlight = s.inFlight
  BY <1>1 DEF Good, ClipStates, BeginPasteDataResponse, Kept
<1> QED
  BY <1>2 DEF Good, ClipInv, Kept, ProtectsCurrentPaste

(* finish_serving_paste and expire_unrequested_paste do nothing or release. *)
LEMMA FinishServingGood ==
  ASSUME NEW s, Good(s), NEW g
  PROVE  /\ Good(FinishServingPaste(s, g))
         /\ \/ FinishServingPaste(s, g) = s /\ ~MayFinishServing(s, g)
            \/ Released(s, FinishServingPaste(s, g)) /\ MayFinishServing(s, g)
<1>1. CASE ~MayFinishServing(s, g)
  BY <1>1 DEF FinishServingPaste
<1>2. CASE MayFinishServing(s, g)
  <2> DEFINE u == [s EXCEPT !.serving = NoGen, !.requested = NoGen]
  <2>1. NoGen \in OptGen /\ s.generation \in Nat /\ s.serving = s.generation
    BY <1>2 DEF OptGen, MayFinishServing, Good, ClipStates
  <2>2. s.serving # NoGen
    BY <2>1 DEF NoGen
  <2>3. s.pending = NoGen /\ PhaseOf(s) = "serving"
    BY <2>1, <2>2 DEF Good, ClipInv, PhaseOf
  <2>4. /\ u \in ClipStates /\ u.pending = NoGen /\ u.serving = NoGen
        /\ u.accepted = s.accepted /\ u.generation = s.generation
        /\ u.ready = s.ready /\ u.inFlight = s.inFlight
        /\ u.deferred = s.deferred /\ u.clip = s.clip
    BY <2>1, <2>3 DEF Good, ClipStates
  <2>5. FinishServingPaste(s, g) = ApplyDeferred(u)
    BY <1>2 DEF FinishServingPaste
  <2>6. u.accepted # NoGen =>
          u.accepted = u.generation /\ u.ready /\ u.inFlight # u.generation
    BY <2>4 DEF Good, ClipInv
  <2> HIDE DEF u
  <2> QED
    BY <1>2, <2>3, <2>4, <2>5, <2>6, ApplyDeferredGood DEF Released
<1> QED BY <1>1, <1>2

LEMMA ExpireGood ==
  ASSUME NEW s, Good(s), NEW g
  PROVE  /\ Good(ExpireUnrequestedPaste(s, g))
         /\ \/ /\ ExpireUnrequestedPaste(s, g) = s
               /\ ~(MayFinishServing(s, g) /\ s.requested # g)
            \/ /\ Released(s, ExpireUnrequestedPaste(s, g))
               /\ MayFinishServing(s, g) /\ s.requested # g
  BY FinishServingGood DEF ExpireUnrequestedPaste

(***************************************************************************)
(* complete_offer keeps the reservation or, when the last retry of a       *)
(* pending paste was refused, releases it; it never touches one that is    *)
(* being served.                                                           *)
(***************************************************************************)
Outcomes == [kind : {"nothing", "advertise", "retry", "retryInit", "pasteReady"},
             gen : OptGen]

LEMMA CompleteOfferGood ==
  ASSUME NEW s, Good(s), NEW ok \in BOOLEAN, ok => s.ready
  PROVE  LET r == CompleteOffer(s, ok) IN
         /\ Good(r.state)
         /\ r.next \in Outcomes
         /\ \/ Kept(s, r.state)
            \/ Released(s, r.state) /\ PhaseOf(s) = "pending"
            \/ /\ PhaseOf(s) = "free" /\ s.deferred = NoItem
               /\ r.state.clip = s.clip /\ r.state.deferred = NoItem
               /\ r.state.pending = NoGen /\ r.state.serving = NoGen
               /\ r.state.generation = s.generation
         /\ r.next.kind = "pasteReady" =>
              r.next.gen = s.generation /\ r.state.generation = s.generation
<1> DEFINE r == CompleteOffer(s, ok)
           t == [s EXCEPT !.inFlight = NoGen]
<1>0. /\ NoGen \in OptGen /\ s.generation \in Nat /\ s.generation \in OptGen
      /\ s.generation + 1 \in OptGen /\ s.retries + 1 \in Nat
      /\ s.generation # NoGen
  BY DEF Good, ClipStates, OptGen, NoGen
<1>1. CASE s.bootstrap
  <2>1. r = CompleteBootstrap(s, ok)
    BY <1>1 DEF CompleteOffer
  <2>2. /\ r.state \in ClipStates /\ Kept(s, r.state)
        /\ r.state.accepted = s.accepted /\ r.state.ready = s.ready
        /\ r.state.inFlight = s.inFlight
    <3> DEFINE b == [s EXCEPT !.bootstrap = FALSE]
    <3>1. \/ r.state = b
          \/ r.state = [b EXCEPT !.retries = 0]
          \/ r.state = [b EXCEPT !.retries = @ + 1]
      BY <2>1 DEF CompleteBootstrap
    <3>2. /\ b \in ClipStates /\ Kept(s, b) /\ b.accepted = s.accepted
          /\ b.ready = s.ready /\ b.inFlight = s.inFlight
      BY DEF Good, ClipStates, Kept
    <3> HIDE DEF b, r
    <3> QED BY <3>1, <3>2 DEF ClipStates, Kept
  <2>3. r.next \in Outcomes /\ r.next.kind # "pasteReady"
    BY <1>0, <2>1 DEF CompleteBootstrap, Outcome, Nothing, Outcomes
  <2>4. ClipInv(r.state)
    BY <2>2 DEF Good, ClipInv, Kept, ProtectsCurrentPaste
  <2> QED BY <2>2, <2>3, <2>4 DEF Good
<1>2. CASE ~s.bootstrap /\ s.inFlight = NoGen
  <2>1. r = [state |-> s, next |-> Nothing]
    BY <1>2 DEF CompleteOffer
  <2> QED BY <1>0, <2>1 DEF Nothing, Outcomes, Kept
<1>3. t \in ClipStates /\ Kept(s, t) /\ t.inFlight = NoGen
      /\ t.accepted = s.accepted /\ t.ready = s.ready /\ t.retries = s.retries
  BY <1>0 DEF Good, ClipStates, Kept
<1>4. Good(t)
  BY <1>0, <1>3 DEF Good, ClipInv, Kept, ProtectsCurrentPaste
<1>5. CASE ~s.bootstrap /\ s.inFlight # NoGen /\ s.inFlight # s.generation
  <2>1. r = [state |-> t, next |-> Outcome("advertise", s.generation)]
    BY <1>5 DEF CompleteOffer
  <2> HIDE DEF t
  <2> QED BY <1>0, <1>3, <1>4, <2>1 DEF Outcome, Outcomes
<1>6. CASE ~s.bootstrap /\ s.inFlight = s.generation
  <2>1. s.accepted = NoGen /\ s.serving = NoGen
    BY <1>0, <1>6 DEF Good, ClipInv
  <2>2. CASE ok
    <3>1. r = AcceptOffer(t)
      BY <1>0, <1>6, <2>2 DEF CompleteOffer
    <3> HIDE DEF t
    <3>2. /\ r.state = [t EXCEPT !.accepted = t.generation, !.retries = 0]
          /\ r.next \in {Nothing, Outcome("pasteReady", s.generation)}
      BY <1>3, <3>1 DEF AcceptOffer, Kept
    <3>3. /\ r.state \in ClipStates /\ Kept(s, r.state)
          /\ r.state.accepted = s.generation /\ r.state.ready
          /\ r.state.inFlight = NoGen
      <4>1. t.generation = s.generation /\ t.ready /\ t.generation \in OptGen
        BY <1>0, <1>3, <2>2 DEF Kept
      <4>2. [t EXCEPT !.accepted = t.generation, !.retries = 0] \in ClipStates
        BY <1>3, <4>1 DEF ClipStates
      <4> HIDE DEF r
      <4> QED BY <1>3, <3>2, <4>1, <4>2 DEF ClipStates, Kept
    <3>4. ClipInv(r.state)
      BY <1>0, <2>1, <3>3 DEF Good, ClipInv, Kept, ProtectsCurrentPaste
    <3>5. /\ r.next \in Outcomes
          /\ r.next.kind = "pasteReady" => r.next.gen = s.generation
      BY <1>0, <3>2 DEF Nothing, Outcome, Outcomes
    <3> QED BY <3>3, <3>4, <3>5 DEF Good, Kept
  <2>3. CASE ~ok /\ s.retries < MaxRetries
    <3>1. r = RefuseOffer(t)
      BY <1>0, <1>6, <2>3 DEF CompleteOffer
    <3> HIDE DEF t
    <3>2. /\ r.state = [t EXCEPT !.retries = @ + 1]
          /\ r.next = Outcome("retry", s.generation)
      BY <1>3, <2>3, <3>1 DEF RefuseOffer, Kept
    <3>3. /\ r.state \in ClipStates /\ Kept(s, r.state)
          /\ r.state.accepted = s.accepted
      BY <1>0, <1>3, <3>2 DEF ClipStates, Kept
    <3>4. ClipInv(r.state)
      BY <2>1, <3>3 DEF Good, ClipInv, Kept, ProtectsCurrentPaste
    <3> QED BY <1>0, <3>2, <3>3, <3>4 DEF Good, Outcome, Outcomes
  <2>4. CASE ~ok /\ ~(s.retries < MaxRetries)
    <3> DEFINE u == [t EXCEPT !.pending = NoGen]
    <3>1. r = RefuseOffer(t)
      BY <1>0, <1>6, <2>4 DEF CompleteOffer
    <3> HIDE DEF t
    <3>2. /\ r.state = ApplyDeferred(u)
          /\ r.next \in {Nothing, Outcome("advertise", s.generation + 1)}
      BY <1>3, <2>4, <3>1 DEF RefuseOffer, Kept
    <3>3. /\ u \in ClipStates /\ u.pending = NoGen /\ u.serving = NoGen
          /\ u.accepted = NoGen /\ u.deferred = s.deferred /\ u.clip = s.clip
          /\ u.generation = s.generation
      BY <1>0, <1>3, <2>1 DEF ClipStates, Kept
    <3>4. r.next \in Outcomes /\ r.next.kind # "pasteReady"
      BY <1>0, <3>2 DEF Nothing, Outcome, Outcomes
    <3> HIDE DEF u
    <3>5. /\ Good(r.state) /\ r.state.pending = NoGen /\ r.state.serving = NoGen
          /\ r.state.deferred = NoItem
          /\ r.state.clip = IF s.deferred = NoItem THEN s.clip ELSE s.deferred
          /\ r.state.generation >= s.generation
      BY <3>2, <3>3, ApplyDeferredGood
    <3>6. CASE s.pending # NoGen
      <4>1. PhaseOf(s) = "pending"
        BY <3>6 DEF Good, ClipInv, PhaseOf
      <4> QED BY <3>4, <3>5, <4>1 DEF Released
    <3>7. CASE s.pending = NoGen
      <4>1. PhaseOf(s) = "free" /\ s.deferred = NoItem
        BY <1>0, <2>1, <3>7 DEF Good, ClipInv, PhaseOf, ProtectsCurrentPaste
      <4>2. r.state = u
        BY <3>2, <3>3, <4>1 DEF ApplyDeferred
      <4> QED BY <3>3, <3>4, <3>5, <4>1, <4>2
    <3> QED BY <3>6, <3>7
  <2> QED BY <2>2, <2>3, <2>4
<1> QED BY <1>1, <1>2, <1>5, <1>6

-----------------------------------------------------------------------------
(***************************************************************************)
(* The inductive invariant.  The signal queue is first in, first out, so a *)
(* data answer queued behind the acceptance of the current dictation was   *)
(* taken from it; once Ctrl+V is pressed only such answers are left.       *)
(***************************************************************************)
QueueInv(q, s) ==
    /\ \A i \in DOMAIN q :
         q[i].kind = "pasteAccepted" => q[i].gen <= s.generation
    /\ \A i, j \in DOMAIN q :
         /\ i < j
         /\ q[i].kind = "pasteAccepted" /\ q[i].gen = s.generation
         /\ s.pending = s.generation
         /\ q[j].kind = "submit"
         => q[j].data \in {s.clip, NoItem}

AwaitInv(q, s, a) ==
    a # NoItem =>
        /\ s.serving = s.generation
        /\ s.clip = a
        /\ \A i \in DOMAIN q : q[i].kind = "submit" => q[i].data \in {a, NoItem}

DictatedInv ==
    /\ link \in {"handshake", "up"} /\ st.pending # NoGen =>
         st.pending \in dictated
    /\ injected \subseteq dictated

(* No signal survives a connection, and no command given before its end is *)
(* left when the session goes on.                                          *)
LinkInv ==
    /\ link # "up" => queue = <<>> /\ awaiting = NoItem
    /\ link # "draining" => stale = 0

IInv == /\ TypeOK /\ ClipInv(st)
        /\ QueueInv(queue, st) /\ AwaitInv(queue, st, awaiting)
        /\ DictatedInv /\ LinkInv

-----------------------------------------------------------------------------
(* The signal queue. *)

LEMMA PushElements ==
  ASSUME NEW q \in Seq(Signals), NEW sig \in Signals
  PROVE  /\ Push(q, sig) \in Seq(Signals)
         /\ Len(q) <= ClipQueueCap => Len(Push(q, sig)) <= ClipQueueCap
         /\ \A i \in DOMAIN Push(q, sig) :
              \/ i \in DOMAIN q /\ Push(q, sig)[i] = q[i]
              \/ i = Len(q) + 1 /\ Push(q, sig)[i] = sig
         /\ DOMAIN q = 1 .. Len(q)
  BY QueueAssumption DEF Push

LEMMA TailElements ==
  ASSUME NEW q \in Seq(Signals), q # <<>>
  PROVE  /\ Tail(q) \in Seq(Signals)
         /\ Len(Tail(q)) <= Len(q)
         /\ \A i \in DOMAIN Tail(q) : i + 1 \in DOMAIN q /\ Tail(q)[i] = q[i + 1]
         /\ DOMAIN Tail(q) \subseteq Nat
         /\ 1 \in DOMAIN q /\ Head(q) = q[1] /\ Head(q) \in Signals
  OBVIOUS

LEMMA QueueTail ==
  ASSUME NEW q \in Seq(Signals), q # <<>>, NEW s, NEW a
  PROVE  /\ QueueInv(q, s) => QueueInv(Tail(q), s)
         /\ AwaitInv(q, s, a) => AwaitInv(Tail(q), s, a)
<1>1. QueueInv(q, s) => QueueInv(Tail(q), s)
  <2>1. ASSUME QueueInv(q, s), NEW i \in DOMAIN Tail(q), NEW j \in DOMAIN Tail(q), i < j
        PROVE  i + 1 \in DOMAIN q /\ j + 1 \in DOMAIN q /\ i + 1 < j + 1
               /\ Tail(q)[i] = q[i + 1] /\ Tail(q)[j] = q[j + 1]
    BY <2>1, TailElements
  <2> QED BY <2>1, TailElements DEF QueueInv
<1> QED BY <1>1, TailElements DEF AwaitInv

LEMMA QueuePush ==
  ASSUME NEW q \in Seq(Signals), NEW sig \in Signals, NEW s, NEW a,
         sig.kind = "pasteAccepted" => sig.gen <= s.generation,
         sig.kind = "submit" /\ s.pending = s.generation => sig.data \in {s.clip, NoItem},
         sig.kind = "submit" /\ a # NoItem => sig.data \in {a, NoItem}
  PROVE  /\ QueueInv(q, s) => QueueInv(Push(q, sig), s)
         /\ AwaitInv(q, s, a) => AwaitInv(Push(q, sig), s, a)
<1> DEFINE p == Push(q, sig)
<1>1. /\ \A i \in DOMAIN p : \/ i \in DOMAIN q /\ p[i] = q[i]
                             \/ i = Len(q) + 1 /\ p[i] = sig
      /\ DOMAIN q = 1 .. Len(q) /\ Len(q) \in Nat
  BY PushElements
<1> HIDE DEF p
<1>2. ASSUME QueueInv(q, s) PROVE QueueInv(p, s)
  <2>1. \A i \in DOMAIN p : p[i].kind = "pasteAccepted" => p[i].gen <= s.generation
    BY <1>1, <1>2 DEF QueueInv
  <2>2. ASSUME NEW i \in DOMAIN p, NEW j \in DOMAIN p, i < j,
               p[i].kind = "pasteAccepted", p[i].gen = s.generation,
               s.pending = s.generation, p[j].kind = "submit"
        PROVE  p[j].data \in {s.clip, NoItem}
    <3>1. CASE p[j] = sig
      BY <2>2, <3>1
    <3>2. CASE j \in DOMAIN q /\ p[j] = q[j]
      <4>1. i \in DOMAIN q /\ p[i] = q[i]
        BY <1>1, <2>2, <3>2
      <4> QED BY <1>2, <2>2, <3>2, <4>1 DEF QueueInv
    <3> QED BY <1>1, <3>1, <3>2
  <2> QED BY <2>1, <2>2 DEF QueueInv
<1>3. ASSUME AwaitInv(q, s, a) PROVE AwaitInv(p, s, a)
  BY <1>1, <1>3 DEF AwaitInv
<1> QED BY <1>2, <1>3 DEF p

(* The state may move on as long as old acceptances stay old. *)
LEMMA QueueState ==
  ASSUME NEW q \in Seq(Signals), NEW s \in ClipStates, NEW t \in ClipStates,
         QueueInv(q, s),
         \/ t.generation > s.generation
         \/ t.generation = s.generation /\ t.pending = NoGen
         \/ Kept(s, t)
         \/ /\ t.clip = s.clip /\ t.generation = s.generation
            /\ t.pending = s.pending
  PROVE  QueueInv(q, t)
<1>1. s.generation \in Nat /\ t.generation \in Nat /\ t.generation # NoGen
      /\ \A i \in DOMAIN q : q[i].gen \in Int
  <2>1. \A i \in DOMAIN q : q[i] \in Signals
    OBVIOUS
  <2> QED BY <2>1 DEF ClipStates, Signals, OptGen, NoGen
<1>2. \A i \in DOMAIN q :
        q[i].kind = "pasteAccepted" => q[i].gen <= t.generation
  BY <1>1 DEF QueueInv, Kept
<1>3. CASE t.generation > s.generation
  BY <1>1, <1>2, <1>3 DEF QueueInv
<1>4. CASE t.generation = s.generation /\ t.pending = NoGen
  BY <1>1, <1>2, <1>4 DEF QueueInv
<1>5. CASE t.clip = s.clip /\ t.generation = s.generation /\ t.pending = s.pending
  BY <1>2, <1>5 DEF QueueInv
<1> QED BY <1>3, <1>4, <1>5 DEF Kept

-----------------------------------------------------------------------------
(* How each kind of change to the state appears in PasteReservation. *)

LEMMA KeptSimulates ==
  ASSUME Kept(st, st')
  PROVE  UNCHANGED Promise!vars
  BY DEF Kept, Promise!vars, PhaseOf

LEMMA ReleasedSimulates ==
  ASSUME Good(st), Good(st'), Released(st, st')
  PROVE  Promise!Next
<1>1. PhaseOf(st') = "free"
  BY DEF Good, ClipStates, Released, PhaseOf, NoGen
<1> QED
  BY <1>1 DEF Released, Promise!Next, Promise!Release, Promise!LetWaitingIn

LEMMA CopySimulates ==
  ASSUME Good(st), NEW c \in Items, Kept(Replace(st, c), st')
  PROVE  Promise!Next
<1> DEFINE r == Replace(st, c)
<1>1. /\ Good(r)
      /\ ProtectsCurrentPaste(st) => r = [st EXCEPT !.deferred = c]
      /\ ~ProtectsCurrentPaste(st) =>
           /\ r.clip = c /\ r.deferred = NoItem /\ r.pending = NoGen
           /\ r.serving = NoGen /\ r.generation = st.generation + 1
  BY ReplaceGood
<1>2. PhaseOf(st) = "free" <=> ~ProtectsCurrentPaste(st)
  BY DEF PhaseOf, ProtectsCurrentPaste
<1>3. st \in ClipStates /\ st.generation \in Nat
  BY DEF Good, ClipStates
<1> HIDE DEF r
<1>4. CASE ProtectsCurrentPaste(st)
  <2>1. /\ r.clip = st.clip /\ r.deferred = c /\ r.generation = st.generation
        /\ r.pending = st.pending /\ r.serving = st.serving
    BY <1>1, <1>3, <1>4 DEF ClipStates
  <2>2. st'.clip = st.clip /\ st'.deferred = c /\ PhaseOf(st') = PhaseOf(st)
    BY <2>1 DEF Kept, PhaseOf, r
  <2> QED BY <1>2, <1>4, <2>2 DEF Promise!Next, Promise!Copy
<1>5. CASE ~ProtectsCurrentPaste(st)
  <2>1. st'.clip = c /\ st'.deferred = NoItem /\ PhaseOf(st') = "free"
    BY <1>1, <1>3, <1>5 DEF Kept, PhaseOf, r, NoGen
  <2> QED BY <1>2, <1>5, <2>1 DEF Promise!Next, Promise!Copy
<1> QED BY <1>4, <1>5

LEMMA AdvertiseEffect ==
  ASSUME NEW s, Good(s), NEW g, Advertise(s, g), offers \in Seq(OptGen)
  PROVE  Good(st') /\ Kept(s, st') /\ offers' \in Seq(OptGen)
<1>1. CASE WillOffer(s, g) /\ st' = BeginOffer(s, g)
           /\ \E sent \in Sent : offers' = IF sent THEN Append(offers, g) ELSE offers
  <2>1. MayOffer(s, g) /\ g \in OptGen
    BY <1>1 DEF WillOffer, MayOffer, Good, ClipStates, OptGen
  <2>2. offers' \in Seq(OptGen)
    BY <1>1, <2>1
  <2> QED BY <1>1, <2>1, <2>2, BeginOfferGood
<1>2. CASE st' = s /\ UNCHANGED offers
  BY <1>2 DEF Kept
<1> QED BY <1>1, <1>2 DEF Advertise, Offered

LEMMA AdvertiseIfRestoredEffect ==
  ASSUME NEW s, Good(s), AdvertiseIfRestored(s), offers \in Seq(OptGen)
  PROVE  Good(st') /\ Kept(s, st') /\ offers' \in Seq(OptGen)
<1>1. CASE Advertise(s, s.generation)
  BY <1>1, AdvertiseEffect
<1>2. CASE st' = s /\ UNCHANGED offers
  BY <1>2 DEF Kept
<1> QED BY <1>1, <1>2 DEF AdvertiseIfRestored

-----------------------------------------------------------------------------
(* One lemma per action: the invariant is kept and the promise is obeyed.   *)

(* Taking the oldest command, and counting the old ones. *)
LEMMA TakeCommandEffect ==
  ASSUME IInv, TakeCommand
  PROVE  /\ commands' \in Seq(ClipCommands) /\ Len(commands') <= CommandCap
         /\ Head(commands) \in ClipCommands
         /\ Head(commands).op \in {"copy", "paste"}
         /\ Head(commands).item \in Texts \cup FileLists
         /\ Head(commands).op = "paste" => Head(commands).item \in Texts
         /\ OneFewer \in 0 .. Len(commands')
         /\ stale = 0 => OneFewer = 0
<1>1. /\ commands \in Seq(ClipCommands) /\ commands # <<>>
      /\ commands' = Tail(commands) /\ Len(commands) <= CommandCap
      /\ stale \in 0 .. Len(commands)
  BY DEF IInv, TypeOK, TakeCommand
<1>2. /\ Tail(commands) \in Seq(ClipCommands)
      /\ Len(Tail(commands)) = Len(commands) - 1
      /\ Head(commands) \in ClipCommands
      /\ Len(commands) \in Nat \ {0}
  BY <1>1
<1>3. commands' \in Seq(ClipCommands) /\ Len(commands') <= CommandCap
  BY <1>1, <1>2, QueueAssumption
<1>4. OneFewer \in 0 .. Len(commands') /\ (stale = 0 => OneFewer = 0)
  BY <1>1, <1>2 DEF OneFewer
<1>5. /\ Head(commands).op \in {"copy", "paste"}
      /\ Head(commands).item \in Texts \cup FileLists
      /\ Head(commands).op = "paste" => Head(commands).item \in Texts
  BY <1>2 DEF ClipCommands
<1> QED BY <1>2, <1>3, <1>4, <1>5

(* The end of a connection keeps the invariant, whatever became of st. *)
LEMMA EndStep ==
  ASSUME IInv, Good(st'), EndConnection,
         commands' \in Seq(ClipCommands), Len(commands') <= CommandCap
  PROVE  IInv'
<1>1. /\ link' = "draining" /\ stale' = Len(commands') /\ refusals' = NoRefusal
      /\ queue' = <<>> /\ timers' = EmptyBag /\ offers' = <<>> /\ replies' = <<>>
      /\ hello' = 0 /\ srvAccepted' = {} /\ dictated' = {} /\ injected' = {}
      /\ awaiting' = NoItem
  BY DEF EndConnection
<1>2. TypeOK' /\ ClipInv(st)'
  <2>1. DOMAIN EmptyBag \subseteq Timers
    BY DEF EmptyBag, SetToBag
  <2>2. stale' \in 0 .. Len(commands')
    BY <1>1
  <2>3. refusals' \in [gen : OptGen, count : Nat] /\ link' \in Links
    BY <1>1 DEF NoRefusal, OptGen, Links
  <2>4. /\ queue' \in Seq(Signals) /\ Len(queue') <= ClipQueueCap
        /\ offers' \in Seq(OptGen) /\ replies' \in Seq({"ok", "refused", "request"})
        /\ hello' \in Nat
    BY <1>1, QueueAssumption
  <2> QED BY <1>1, <2>1, <2>2, <2>3, <2>4 DEF TypeOK, Good
<1>3. /\ QueueInv(queue, st)' /\ AwaitInv(queue, st, awaiting)'
      /\ DictatedInv' /\ LinkInv'
  BY <1>1 DEF QueueInv, AwaitInv, DictatedInv, LinkInv
<1> QED BY <1>2, <1>3 DEF IInv

LEMMA OfferFailsEffect ==
  ASSUME NEW s, Good(s), IInv, OfferFails(s),
         commands' \in Seq(ClipCommands), Len(commands') <= CommandCap
  PROVE  IInv' /\ Good(st') /\ Kept(s, st')
<1>1. Good(st') /\ Kept(s, st')
  BY BeginOfferGood DEF OfferFails, WillOffer
<1> QED BY <1>1, EndStep DEF OfferFails

LEMMA CopyStep ==
  ASSUME IInv, Copy
  PROVE  IInv' /\ Promise!Next
<1> DEFINE c == Head(commands).item
           r == Replace(st, c)
<1>0. /\ commands' \in Seq(ClipCommands) /\ Len(commands') <= CommandCap
      /\ OneFewer \in 0 .. Len(commands') /\ (stale = 0 => OneFewer = 0)
      /\ c \in Items /\ link = "up"
  BY TakeCommandEffect DEF Copy, Items
<1>1. Good(st) /\ c \in Items /\ offers \in Seq(OptGen)
  BY <1>0 DEF IInv, TypeOK, Good
<1>2. /\ Good(r)
      /\ ProtectsCurrentPaste(st) => r = [st EXCEPT !.deferred = c]
      /\ ~ProtectsCurrentPaste(st) =>
           /\ r.pending = NoGen /\ r.serving = NoGen
           /\ r.generation = st.generation + 1
  BY <1>1, ReplaceGood
<1>a. CASE OfferFails(r)
  <2> HIDE DEF r
  <2>1. IInv' /\ Good(st') /\ Kept(r, st')
    BY <1>0, <1>2, <1>a, OfferFailsEffect
  <2> HIDE DEF c
  <2> QED BY <1>1, <2>1, CopySimulates DEF r
<1>b. CASE /\ Offered(r, r.generation, TRUE) /\ stale' = OneFewer
           /\ UNCHANGED <<link, queue, timers, replies, seen, srvAccepted, paste>>
  <2>3. Advertise(r, r.generation)
    BY <1>b DEF Advertise, Sent
  <2> HIDE DEF r, c
  <2>4. Good(st') /\ Kept(r, st') /\ offers' \in Seq(OptGen)
    BY <1>1, <1>2, <2>3, AdvertiseEffect
  <2>5. Promise!Next
    BY <1>1, <2>4, CopySimulates DEF r
  <2>6. UNCHANGED <<link, queue, timers, replies, seen, srvAccepted, paste>>
        /\ stale' = OneFewer
    BY <1>b
  <2>7. TypeOK' /\ ClipInv(st)' /\ LinkInv'
    BY <1>0, <2>4, <2>6 DEF IInv, TypeOK, Good, LinkInv, paste, seen
  <2>8. QueueInv(queue, st)' /\ AwaitInv(queue, st, awaiting)' /\ DictatedInv'
    <3>1. queue \in Seq(Signals) /\ st \in ClipStates /\ st' \in ClipStates
          /\ st.generation \in Nat
      BY <2>4 DEF IInv, TypeOK, Good, ClipStates
    <3>2. CASE ProtectsCurrentPaste(st)
      <4>1. /\ st'.clip = st.clip /\ st'.generation = st.generation
            /\ st'.pending = st.pending /\ st'.serving = st.serving
        BY <1>2, <2>4, <3>1, <3>2 DEF Kept, ClipStates
      <4>2. QueueInv(queue, st')
        BY <3>1, <4>1, QueueState DEF IInv
      <4> QED BY <2>6, <4>1, <4>2 DEF IInv, AwaitInv, DictatedInv, paste
    <3>3. CASE ~ProtectsCurrentPaste(st)
      <4>1. st'.generation > st.generation /\ st'.pending = NoGen
        BY <1>2, <2>4, <3>1, <3>3 DEF Kept
      <4>2. awaiting = NoItem
        BY <3>3 DEF IInv, AwaitInv, ProtectsCurrentPaste
      <4>3. QueueInv(queue, st')
        BY <3>1, <4>1, QueueState DEF IInv
      <4> QED BY <2>6, <4>1, <4>2, <4>3 DEF IInv, AwaitInv, DictatedInv, paste
    <3> QED BY <3>2, <3>3
  <2> QED BY <2>5, <2>7, <2>8 DEF IInv
<1> QED BY <1>a, <1>b DEF Copy

LEMMA DictateStep ==
  ASSUME IInv, Dictate
  PROVE  IInv' /\ Promise!Next
<1> DEFINE t == Head(commands).item
           r == ReplaceForPaste(st, t)
<1>0. /\ commands' \in Seq(ClipCommands) /\ Len(commands') <= CommandCap
      /\ OneFewer \in 0 .. Len(commands') /\ stale = 0 /\ OneFewer = 0
      /\ t \in Texts /\ link = "up"
  BY TakeCommandEffect DEF Dictate, IInv, LinkInv
<1>1. /\ Good(st) /\ offers \in Seq(OptGen) /\ queue \in Seq(Signals)
      /\ st.generation \in Nat
  BY DEF IInv, TypeOK, Good, ClipStates
<1>2. /\ Good(r) /\ r.clip = t /\ r.deferred = st.deferred
      /\ r.pending = st.generation + 1 /\ r.generation = st.generation + 1
  BY <1>0, <1>1, ReplaceForPasteGood
<1>a. CASE OfferFails(r)
  <2> HIDE DEF r
  <2>1. IInv' /\ Good(st') /\ Kept(r, st')
    BY <1>0, <1>2, <1>a, OfferFailsEffect
  <2> HIDE DEF t
  <2>2. st'.clip = t /\ st'.deferred = st.deferred /\ PhaseOf(st') = "pending"
    BY <1>2, <2>1 DEF Kept, PhaseOf
  <2> QED BY <1>0, <2>1, <2>2 DEF Promise!Next, Promise!Dictate
<1>b. CASE /\ Offered(r, r.generation, TRUE)
           /\ dictated' = IF stale = 0 THEN dictated \cup {r.generation} ELSE dictated
           /\ awaiting' = NoItem
           /\ stale' = OneFewer
           /\ UNCHANGED <<link, queue, timers, replies, seen, srvAccepted, injected>>
  <2>3. Advertise(r, r.generation) /\ dictated' = dictated \cup {r.generation}
    BY <1>0, <1>b DEF Advertise, Sent
  <2> HIDE DEF r, t
  <2>4. Good(st') /\ Kept(r, st') /\ offers' \in Seq(OptGen)
    BY <1>1, <1>2, <2>3, AdvertiseEffect
  <2>5. Promise!Next
    <3>1. st'.clip = t /\ st'.deferred = st.deferred /\ PhaseOf(st') = "pending"
      BY <1>2, <2>4 DEF Kept, PhaseOf
    <3> QED BY <1>0, <3>1 DEF Promise!Next, Promise!Dictate
  <2>6. /\ UNCHANGED <<link, queue, timers, replies, seen, srvAccepted, injected>>
        /\ awaiting' = NoItem /\ stale' = 0
    BY <1>0, <1>b
  <2>7. TypeOK' /\ ClipInv(st)' /\ LinkInv'
    <3>1. dictated' \subseteq Nat
      <4>1. dictated \subseteq Nat /\ st.generation + 1 \in Nat
        BY <1>1 DEF IInv, TypeOK
      <4> QED BY <1>2, <2>3, <4>1
    <3>2. TypeOK' /\ ClipInv(st)'
      BY <1>0, <2>4, <2>6, <3>1 DEF IInv, TypeOK, Good, seen
    <3>3. LinkInv'
      BY <2>6 DEF IInv, LinkInv
    <3> QED BY <3>2, <3>3
  <2>8. QueueInv(queue, st')
    <3>1. st'.generation > st.generation /\ st \in ClipStates /\ st' \in ClipStates
      BY <1>1, <1>2, <2>4 DEF Kept, Good
    <3> QED BY <1>1, <3>1, QueueState DEF IInv
  <2>9. DictatedInv'
    BY <1>2, <2>3, <2>4, <2>6 DEF IInv, DictatedInv, Kept
  <2> QED BY <2>5, <2>6, <2>7, <2>8, <2>9 DEF IInv, AwaitInv
<1> QED BY <1>a, <1>b DEF Dictate

LEMMA AbsorbOfflineStep ==
  ASSUME IInv, AbsorbOffline
  PROVE  IInv' /\ Promise!Next
<1> DEFINE c == Head(commands).item
<1>0. /\ commands' \in Seq(ClipCommands) /\ Len(commands') <= CommandCap
      /\ OneFewer \in 0 .. Len(commands') /\ (stale = 0 => OneFewer = 0)
      /\ c \in Items
  BY TakeCommandEffect DEF AbsorbOffline, Items
<1>1. Good(st) /\ c \in Items
  BY <1>0 DEF IInv, TypeOK, Good
<1>2. Good(st') /\ Kept(Replace(st, c), st')
  BY <1>1, ReplaceGood DEF AbsorbOffline, Kept
<1>3. /\ UNCHANGED <<link, queue, timers, wire, seen, paste>>
      /\ link \in {"draining", "waiting"} /\ stale' = OneFewer
  BY DEF AbsorbOffline
<1> HIDE DEF c
<1>4. queue = <<>> /\ awaiting = NoItem
  BY <1>3 DEF IInv, LinkInv
<1>5. QueueInv(queue, st)' /\ AwaitInv(queue, st, awaiting)'
  BY <1>3, <1>4 DEF QueueInv, AwaitInv, paste
<1>6. TypeOK' /\ ClipInv(st)'
  BY <1>0, <1>2, <1>3 DEF IInv, TypeOK, Good, paste, wire, seen
<1>7. LinkInv' /\ DictatedInv'
  BY <1>0, <1>3 DEF IInv, LinkInv, DictatedInv, paste
<1> QED BY <1>1, <1>2, <1>5, <1>6, <1>7, CopySimulates DEF IInv

(* A command is given: nothing but the command queue changes. *)
LEMMA GiveStep ==
  ASSUME IInv, NEW c \in ClipCommands, Give(c)
  PROVE  IInv' /\ UNCHANGED Promise!vars
<1>1. /\ UNCHANGED <<st, link, stale, queue, timers, wire, seen, paste>>
      /\ commands' = Append(commands, c) /\ Len(commands) < CommandCap
      /\ commands \in Seq(ClipCommands) /\ stale \in 0 .. Len(commands)
  BY DEF Give, IInv, TypeOK
<1>2. /\ commands' \in Seq(ClipCommands) /\ Len(commands') = Len(commands) + 1
      /\ Len(commands) \in Nat
  BY <1>1
<1>3. Len(commands') <= CommandCap /\ stale \in 0 .. Len(commands')
  BY <1>1, <1>2, QueueAssumption
<1>4. TypeOK' /\ ClipInv(st)'
  BY <1>1, <1>2, <1>3
  DEF IInv, TypeOK, ClipInv, ProtectsCurrentPaste, wire, seen, paste
<1>5. /\ QueueInv(queue, st)' /\ AwaitInv(queue, st, awaiting)'
      /\ DictatedInv' /\ LinkInv'
  BY <1>1 DEF IInv, QueueInv, AwaitInv, DictatedInv, LinkInv, paste
<1> QED BY <1>1, <1>4, <1>5 DEF IInv, Promise!vars, PhaseOf

(* Taking the oldest signal leaves the queue's invariants as they were. *)
LEMMA TakeEffect ==
  ASSUME IInv, NEW kind, Take(kind)
  PROVE  /\ queue' \in Seq(Signals) /\ Len(queue') <= ClipQueueCap
         /\ queue # <<>> /\ Head(queue) \in Signals /\ Head(queue).kind = kind
         /\ QueueInv(queue', st) /\ AwaitInv(queue', st, awaiting)
         /\ link = "up"
<1>1. queue \in Seq(Signals) /\ queue # <<>> /\ queue' = Tail(queue)
      /\ Head(queue).kind = kind /\ link = "up" /\ Len(queue) <= ClipQueueCap
  BY DEF IInv, TypeOK, Take
<1>2. Len(queue) \in Nat /\ Len(Tail(queue)) \in Nat
  BY <1>1
<1> QED BY <1>1, <1>2, QueueTail, TailElements, QueueAssumption DEF IInv

(* A step that moves the state without the promise noticing. *)
LEMMA KeptStep ==
  ASSUME IInv, Good(st'), Kept(st, st'), offers' \in Seq(OptGen),
         replies' \in Seq({"ok", "refused", "request"}),
         hello' \in Nat, srvAccepted' \subseteq OptGen,
         refusals' \in [gen : OptGen, count : Nat],
         DOMAIN timers' \subseteq Timers,
         queue' \in Seq(Signals), Len(queue') <= ClipQueueCap,
         QueueInv(queue', st), AwaitInv(queue', st, awaiting),
         UNCHANGED <<conn, dictated, injected>>,
         awaiting' \in {awaiting, NoItem},
         link = "up" \/ UNCHANGED queue
  PROVE  IInv' /\ UNCHANGED Promise!vars
<1>1. QueueInv(queue', st') /\ AwaitInv(queue', st', awaiting')
  <2>1. st \in ClipStates /\ st' \in ClipStates
    BY DEF IInv, TypeOK, Good
  <2>2. QueueInv(queue', st')
    BY <2>1, QueueState
  <2>3. AwaitInv(queue', st', awaiting')
    BY DEF Kept, AwaitInv
  <2> QED BY <2>2, <2>3
<1>2. TypeOK' /\ ClipInv(st)'
  <2>1. awaiting' \in Texts \cup {NoItem}
    BY DEF IInv, TypeOK
  <2> QED BY <2>1 DEF IInv, TypeOK, Good, conn
<1>3. LinkInv' /\ DictatedInv'
  BY DEF IInv, LinkInv, DictatedInv, Kept, conn
<1> QED BY <1>1, <1>2, <1>3, KeptSimulates DEF IInv

(* A step that gives the reservation up. *)
LEMMA ReleasedStep ==
  ASSUME IInv, Good(st'), Released(st, st'), offers' \in Seq(OptGen),
         replies' \in Seq({"ok", "refused", "request"}),
         DOMAIN timers' \subseteq Timers,
         queue' \in Seq(Signals), Len(queue') <= ClipQueueCap,
         QueueInv(queue', st), awaiting' = NoItem,
         refusals' \in [gen : OptGen, count : Nat],
         UNCHANGED <<conn, hello, srvAccepted, dictated, injected>>,
         link = "up"
  PROVE  IInv' /\ Promise!Next
<1>1. Good(st)
  BY DEF IInv, TypeOK, Good
<1>2. QueueInv(queue', st')
  <2>1. /\ st \in ClipStates /\ st' \in ClipStates
        /\ st.generation \in Nat /\ st'.generation \in Nat
    BY <1>1 DEF Good, ClipStates
  <2>2. \/ st'.generation > st.generation
        \/ st'.generation = st.generation /\ st'.pending = NoGen
    BY <2>1 DEF Released
  <2> QED BY <2>1, <2>2, QueueState
<1>3. TypeOK' /\ ClipInv(st)'
  BY DEF IInv, TypeOK, Good, conn
<1>4. LinkInv' /\ DictatedInv' /\ AwaitInv(queue', st', awaiting')
  BY DEF IInv, LinkInv, DictatedInv, Released, AwaitInv, conn
<1> QED BY <1>1, <1>2, <1>3, <1>4, ReleasedSimulates DEF IInv

LEMMA HandleInitializeStep ==
  ASSUME IInv, HandleInitialize
  PROVE  IInv' /\ UNCHANGED Promise!vars
<1>1. Good(st) /\ UNCHANGED <<conn, timers, replies, seen, srvAccepted, paste>>
      /\ Take("initialize")
  BY DEF IInv, TypeOK, Good, HandleInitialize
<1>2. Good(st') /\ Kept(st, st') /\ offers' \in Seq(OptGen)
  <2>1. CASE MayInitialize(st) /\ st' = BeginInitialOffer(st)
             /\ \E sent \in Sent :
                  offers' = IF sent THEN Append(offers, st'.inFlight) ELSE offers
    <3>1. Good(st') /\ Kept(st, st')
      BY <1>1, <2>1, BeginInitialOfferGood
    <3>2. st'.inFlight \in OptGen /\ offers \in Seq(OptGen)
      BY <3>1 DEF Good, ClipStates, IInv, TypeOK
    <3> QED BY <2>1, <3>1, <3>2
  <2>2. CASE UNCHANGED <<st, offers>>
    BY <1>1, <2>2 DEF Kept, IInv, TypeOK
  <2> QED BY <2>1, <2>2 DEF HandleInitialize
<1> QED BY <1>1, <1>2, TakeEffect, KeptStep DEF IInv, TypeOK, seen, paste

LEMMA HandleAdvertiseStep ==
  ASSUME IInv, HandleAdvertise
  PROVE  IInv' /\ UNCHANGED Promise!vars
<1>1. /\ Good(st) /\ offers \in Seq(OptGen)
      /\ UNCHANGED <<conn, timers, replies, seen, srvAccepted, paste>>
      /\ Take("advertise") /\ Advertise(st, Head(queue).gen)
  BY DEF IInv, TypeOK, Good, HandleAdvertise
<1>2. Good(st') /\ Kept(st, st') /\ offers' \in Seq(OptGen)
  BY <1>1, AdvertiseEffect
<1> QED BY <1>1, <1>2, TakeEffect, KeptStep DEF IInv, TypeOK, seen, paste

LEMMA HandleOtherStep ==
  ASSUME IInv, HandleOther
  PROVE  IInv' /\ UNCHANGED Promise!vars
<1>1. /\ Good(st) /\ UNCHANGED <<st, conn, timers, wire, seen, paste>>
      /\ Take("other")
  BY DEF IInv, TypeOK, Good, HandleOther
<1>2. Kept(st, st')
  BY <1>1 DEF Kept
<1> QED BY <1>1, <1>2, TakeEffect, KeptStep DEF IInv, TypeOK, seen, wire, paste

LEMMA HandlePasteAcceptedStep ==
  ASSUME IInv, HandlePasteAccepted
  PROVE  IInv' /\ [Promise!Next]_Promise!vars
<1> DEFINE g == Head(queue).gen
<1>1. /\ Good(st) /\ UNCHANGED <<conn, timers, offers, replies, seen, srvAccepted>>
      /\ Take("pasteAccepted")
  BY DEF IInv, TypeOK, Good, HandlePasteAccepted
<1>2. CASE ~PasteConfirmed(st, g) /\ UNCHANGED <<st, paste>>
  <2>1. Kept(st, st')
    BY <1>2 DEF Kept
  <2> QED BY <1>1, <1>2, <2>1, TakeEffect, KeptStep DEF IInv, TypeOK, seen, paste
<1>3. CASE /\ PasteConfirmed(st, g)
           /\ st' = ConsumeConfirmedPaste(st, g)
           /\ \E sent \in Sent :
                /\ injected' = IF sent THEN injected \cup {g} ELSE injected
                /\ awaiting' = IF sent THEN st.clip ELSE awaiting
                /\ UNCHANGED dictated
  <2>1. /\ Good(st') /\ PhaseOf(st) = "pending" /\ PhaseOf(st') = "serving"
        /\ st'.serving = st.generation /\ st'.pending = NoGen
        /\ st'.clip = st.clip /\ st'.deferred = st.deferred
        /\ st'.generation = st.generation /\ st.clip \in Texts
    BY <1>1, <1>3, ConsumeGood
  <2>2. /\ st.generation \in Nat /\ g = st.generation /\ st.pending = g
        /\ g # NoGen
    BY <1>1, <1>3 DEF PasteConfirmed, Good, ClipStates, NoGen
  <2>3. awaiting = NoItem
    BY <1>1, <2>2 DEF IInv, AwaitInv, Good, ClipInv
  <2>4. /\ queue' \in Seq(Signals) /\ Len(queue') <= ClipQueueCap
        /\ queue # <<>> /\ Head(queue).kind = "pasteAccepted"
        /\ QueueInv(queue', st) /\ link = "up" /\ queue' = Tail(queue)
    BY <1>1, TakeEffect DEF Take
  <2>5. QueueInv(queue', st')
    BY <1>1, <2>1, <2>4, QueueState DEF Good
  <2>6. \A i \in DOMAIN queue' : queue'[i].kind = "submit" => queue'[i].data \in {st.clip, NoItem}
    <3>1. queue \in Seq(Signals)
      BY DEF IInv, TypeOK
    <3>2. ASSUME NEW i \in DOMAIN queue', queue'[i].kind = "submit"
          PROVE  queue'[i].data \in {st.clip, NoItem}
      <4>1. /\ i + 1 \in DOMAIN queue /\ queue'[i] = queue[i + 1] /\ 1 < i + 1
            /\ 1 \in DOMAIN queue /\ Head(queue) = queue[1]
        BY <2>4, <3>1, <3>2, TailElements
      <4> QED BY <2>2, <2>4, <3>2, <4>1 DEF IInv, QueueInv
    <3> QED BY <3>2
  <2>7. AwaitInv(queue', st', awaiting')
    BY <1>3, <2>1, <2>3, <2>6 DEF AwaitInv
  <2>8. TypeOK' /\ ClipInv(st)'
    <3>1. injected' \subseteq Nat /\ dictated' \subseteq Nat
          /\ awaiting' \in Texts \cup {NoItem}
      BY <1>3, <2>1, <2>2, <2>3 DEF IInv, TypeOK
    <3> QED BY <1>1, <2>1, <2>4, <3>1 DEF IInv, TypeOK, Good, conn, seen
  <2>9. LinkInv' /\ DictatedInv'
    BY <1>1, <1>3, <2>1, <2>2, <2>4 DEF IInv, LinkInv, DictatedInv, conn
  <2>10. Promise!Next
    BY <2>1 DEF Promise!Next, Promise!PressCtrlV
  <2> QED BY <2>5, <2>7, <2>8, <2>9, <2>10 DEF IInv
<1> QED BY <1>2, <1>3 DEF HandlePasteAccepted

LEMMA HandlePasteTimedOutStep ==
  ASSUME IInv, HandlePasteTimedOut
  PROVE  IInv' /\ [Promise!Next]_Promise!vars
<1> DEFINE g == Head(queue).gen
           s == ExpireUnrequestedPaste(st, g)
<1>1. /\ Good(st) /\ offers \in Seq(OptGen)
      /\ UNCHANGED <<conn, timers, replies, seen, srvAccepted, dictated, injected>>
      /\ Take("timedOut") /\ AdvertiseIfRestored(s)
      /\ awaiting' = IF MayFinishServing(st, g) /\ st.requested # g
                     THEN NoItem ELSE awaiting
  BY DEF IInv, TypeOK, Good, HandlePasteTimedOut
<1>2. /\ Good(s)
      /\ \/ s = st
         \/ Released(st, s) /\ MayFinishServing(st, g) /\ st.requested # g
  BY <1>1, ExpireGood
<1> HIDE DEF s
<1>3. Good(st') /\ Kept(s, st') /\ offers' \in Seq(OptGen)
  BY <1>1, <1>2, AdvertiseIfRestoredEffect
<1>4. CASE s = st
  <2>1. awaiting' \in {awaiting, NoItem}
    BY <1>1
  <2> QED BY <1>1, <1>3, <1>4, <2>1, TakeEffect, KeptStep DEF IInv, TypeOK, seen
<1>5. CASE Released(st, s) /\ MayFinishServing(st, g) /\ st.requested # g
  <2>1. awaiting' = NoItem
    BY <1>1, <1>5
  <2>2. Released(st, st')
    BY <1>3, <1>5 DEF Released, Kept
  <2> QED BY <1>1, <1>3, <2>1, <2>2, TakeEffect, ReleasedStep DEF IInv, TypeOK, seen
<1> QED BY <1>2, <1>4, <1>5

LEMMA HandleSubmitDataStep ==
  ASSUME IInv, HandleSubmitData
  PROVE  IInv' /\ [Promise!Next]_Promise!vars
<1> DEFINE g == Head(queue).gen
           s == IF g = NoGen THEN st ELSE FinishServingPaste(st, g)
<1>1. /\ Good(st) /\ offers \in Seq(OptGen)
      /\ UNCHANGED <<conn, timers, replies, seen, srvAccepted, dictated, injected>>
      /\ Take("submit")
      /\ \/ /\ AdvertiseIfRestored(s)
            /\ awaiting' = IF MayFinishServing(st, g) THEN NoItem ELSE awaiting
         \/ UNCHANGED <<st, offers, awaiting>>
  BY DEF IInv, TypeOK, Good, HandleSubmitData
<1>2. Good(s) /\ (s = st \/ (Released(st, s) /\ MayFinishServing(st, g)))
  BY <1>1, FinishServingGood
<1> HIDE DEF s
<1>3. CASE /\ AdvertiseIfRestored(s)
           /\ awaiting' = IF MayFinishServing(st, g) THEN NoItem ELSE awaiting
  <2>1. Good(st') /\ Kept(s, st') /\ offers' \in Seq(OptGen)
    BY <1>1, <1>2, <1>3, AdvertiseIfRestoredEffect
  <2>2. CASE s = st
    <3>1. awaiting' \in {awaiting, NoItem}
      BY <1>3
    <3> QED BY <1>1, <2>1, <2>2, <3>1, TakeEffect, KeptStep DEF IInv, TypeOK, seen
  <2>3. CASE Released(st, s) /\ MayFinishServing(st, g)
    <3>1. Released(st, st') /\ awaiting' = NoItem
      BY <1>3, <2>1, <2>3 DEF Released, Kept
    <3> QED BY <1>1, <1>3, <2>1, <3>1, TakeEffect, ReleasedStep DEF IInv, TypeOK, seen
  <2> QED BY <1>2, <2>2, <2>3
<1>4. CASE UNCHANGED <<st, offers, awaiting>>
  <2>1. Kept(st, st')
    BY <1>4 DEF Kept
  <2> QED BY <1>1, <1>4, <2>1, TakeEffect, KeptStep DEF IInv, TypeOK, seen
<1> QED BY <1>1, <1>3, <1>4

(* Queueing a signal that is not a data answer. *)
LEMMA PushEffect ==
  ASSUME IInv, NEW sig \in Signals, sig.kind # "submit",
         sig.kind = "pasteAccepted" => sig.gen <= st.generation
  PROVE  /\ Push(queue, sig) \in Seq(Signals)
         /\ Len(Push(queue, sig)) <= ClipQueueCap
         /\ QueueInv(Push(queue, sig), st)
         /\ AwaitInv(Push(queue, sig), st, awaiting)
  BY PushElements, QueuePush DEF IInv, TypeOK

LEMMA BagBounds ==
  ASSUME NEW B, DOMAIN B \subseteq Timers, NEW t \in Timers
  PROVE  /\ DOMAIN (B (+) One(t)) \subseteq Timers
         /\ DOMAIN (B (-) One(t)) \subseteq Timers
<1>1. DOMAIN One(t) = {t}
  BY DEF One, SetToBag
<1>2. DOMAIN (B (+) One(t)) = DOMAIN B \cup DOMAIN One(t)
  BY DEF (+)
<1>3. DOMAIN (B (-) One(t)) \subseteq DOMAIN B
  BY DEF (-)
<1> QED BY <1>1, <1>2, <1>3

LEMMA OnRequestFormatListStep ==
  ASSUME IInv, OnRequestFormatList
  PROVE  IInv' /\ UNCHANGED Promise!vars
<1> DEFINE sig == Signal("initialize", NoGen, NoItem)
<1>1. /\ Good(st) /\ UNCHANGED <<st, conn, timers, wire, refusals, paste>>
      /\ link = "up" /\ hello' = hello + 1 /\ queue' = Push(queue, sig)
  BY DEF IInv, TypeOK, Good, OnRequestFormatList
<1>2. sig \in Signals /\ sig.kind # "submit" /\ sig.kind # "pasteAccepted"
  BY DEF Signal, Signals, SignalKinds, OptGen
<1>3. Kept(st, st') /\ hello' \in Nat
  BY <1>1 DEF Kept, IInv, TypeOK
<1> HIDE DEF sig
<1> QED BY <1>1, <1>2, <1>3, PushEffect, KeptStep DEF IInv, TypeOK, seen, wire, paste

LEMMA OnOtherCallbackStep ==
  ASSUME IInv, OnOtherCallback
  PROVE  IInv' /\ UNCHANGED Promise!vars
<1> DEFINE sig == Signal("other", NoGen, NoItem)
<1>1. /\ Good(st) /\ UNCHANGED <<st, conn, timers, wire, seen, paste>>
      /\ link = "up" /\ queue' = Push(queue, sig)
  BY DEF IInv, TypeOK, Good, OnOtherCallback, Push
<1>2. sig \in Signals /\ sig.kind # "submit" /\ sig.kind # "pasteAccepted"
  BY DEF Signal, Signals, SignalKinds, OptGen
<1>3. Kept(st, st')
  BY <1>1 DEF Kept
<1> HIDE DEF sig
<1> QED BY <1>1, <1>2, <1>3, PushEffect, KeptStep DEF IInv, TypeOK, seen, wire, paste

LEMMA TimerFiresStep ==
  ASSUME IInv, NEW t \in DOMAIN timers, TimerFires(t)
  PROVE  IInv' /\ UNCHANGED Promise!vars
<1> DEFINE sig == Signal(t.kind, t.gen, NoItem)
<1>1. /\ Good(st) /\ UNCHANGED <<st, conn, wire, seen, paste>>
      /\ link = "up" /\ queue' = Push(queue, sig)
      /\ timers' = timers (-) One(t)
  BY DEF IInv, TypeOK, Good, TimerFires, Push
<1>2. t \in Timers
  BY DEF IInv, TypeOK
<1>3. sig \in Signals /\ sig.kind # "submit" /\ sig.kind # "pasteAccepted"
  BY <1>2 DEF Timers, Signal, Signals, SignalKinds
<1>4. DOMAIN timers' \subseteq Timers
  BY <1>1, <1>2, BagBounds DEF IInv, TypeOK
<1>5. Kept(st, st')
  BY <1>1 DEF Kept
<1> HIDE DEF sig
<1> QED
  BY <1>1, <1>3, <1>4, <1>5, PushEffect, KeptStep DEF IInv, TypeOK, seen, wire, paste

LEMMA OnFormatDataRequestStep ==
  ASSUME IInv, OnFormatDataRequest
  PROVE  IInv' /\ UNCHANGED Promise!vars
<1> DEFINE text == IF st.clip \in Texts THEN st.clip ELSE Empty
           sig == Signal("submit", PasteBeingServed(st), text)
           err == Signal("submit", NoGen, NoItem)
<1>1. /\ Good(st) /\ UNCHANGED <<conn, timers, offers, seen, srvAccepted, paste>>
      /\ link = "up" /\ replies # <<>> /\ replies' = Tail(replies)
      /\ \/ queue' = Push(queue, sig) /\ st' = BeginPasteDataResponse(st)
         \/ queue' = Push(queue, err) /\ st' = st
  BY DEF IInv, TypeOK, Good, OnFormatDataRequest
<1>2. Good(st') /\ Kept(st, st')
  BY <1>1, BeginPasteDataResponseGood DEF Kept
<1>3. sig \in Signals /\ sig.kind = "submit" /\ sig.data = text
  <2>1. PasteBeingServed(st) \in OptGen /\ text \in Items
    BY <1>1 DEF Good, ClipStates, PasteBeingServed, OptGen, Items
  <2> HIDE DEF text
  <2> QED BY <2>1 DEF Signal, Signals, SignalKinds
<1>4. err \in Signals /\ err.kind = "submit" /\ err.data = NoItem
  BY DEF Signal, Signals, SignalKinds, OptGen
<1>5. st.pending = st.generation => text = st.clip
  BY <1>1 DEF Good, ClipInv, ClipStates, NoGen
<1>6. awaiting # NoItem => text = awaiting
  BY DEF IInv, AwaitInv, TypeOK
<1> HIDE DEF sig, err, text
<1>7. /\ queue' \in Seq(Signals) /\ Len(queue') <= ClipQueueCap
      /\ QueueInv(queue', st) /\ AwaitInv(queue', st, awaiting)
  <2>1. CASE queue' = Push(queue, sig)
    BY <2>1, <1>3, <1>5, <1>6, PushElements, QueuePush DEF IInv, TypeOK
  <2>2. CASE queue' = Push(queue, err)
    BY <2>2, <1>4, PushElements, QueuePush DEF IInv, TypeOK
  <2> QED BY <1>1, <2>1, <2>2
<1>8. replies' \in Seq({"ok", "refused", "request"})
  BY <1>1 DEF IInv, TypeOK
<1> QED BY <1>1, <1>2, <1>7, <1>8, KeptStep DEF IInv, TypeOK, seen, paste

LEMMA OnFormatListResponseStep ==
  ASSUME IInv, NEW ok \in BOOLEAN, OnFormatListResponse(ok)
  PROVE  IInv' /\ [Promise!Next]_Promise!vars
<1> DEFINE s == IF ok THEN MarkReady(st) ELSE st
           res == CompleteOffer(s, ok)
           g == res.next.gen
<1>1. /\ Good(st) /\ UNCHANGED <<conn, offers, hello, srvAccepted, paste>>
      /\ link = "up" /\ replies # <<>> /\ replies' = Tail(replies)
      /\ st' = res.state
  BY DEF IInv, TypeOK, Good, OnFormatListResponse, Answered
<1>2. Good(s) /\ Kept(st, s) /\ (ok => s.ready)
  BY <1>1, MarkReadyGood DEF Kept
<1>3. \/ /\ res.next.kind = "pasteReady"
         /\ queue' = Push(queue, Signal("pasteAccepted", g, NoItem))
      \/ queue' = Push(queue, Signal("advertise", g, NoItem))
      \/ queue' = queue
  BY DEF OnFormatListResponse, Answered
<1>4. \/ timers' = timers (+) One(Timer("timedOut", g))
      \/ timers' = timers (+) One(Timer("advertise", g))
      \/ timers' = timers (+) One(Timer("initialize", NoGen))
      \/ timers' = timers
  BY DEF OnFormatListResponse, Answered
<1> HIDE DEF s
<1>5. /\ Good(res.state) /\ res.next \in Outcomes
      /\ \/ Kept(s, res.state)
         \/ Released(s, res.state) /\ PhaseOf(s) = "pending"
         \/ /\ PhaseOf(s) = "free" /\ s.deferred = NoItem
            /\ res.state.clip = s.clip /\ res.state.deferred = NoItem
            /\ res.state.pending = NoGen /\ res.state.serving = NoGen
            /\ res.state.generation = s.generation
      /\ res.next.kind = "pasteReady" =>
           g = s.generation /\ res.state.generation = s.generation
  BY <1>2, CompleteOfferGood
<1> HIDE DEF res
<1>6. g \in OptGen
  BY <1>5 DEF Outcomes
<1> HIDE DEF g
<1>7. /\ queue' \in Seq(Signals) /\ Len(queue') <= ClipQueueCap
      /\ QueueInv(queue', st) /\ AwaitInv(queue', st, awaiting)
  <2>1. \A kind \in {"pasteAccepted", "advertise"} :
          /\ Signal(kind, g, NoItem) \in Signals
          /\ Signal(kind, g, NoItem).kind = kind
          /\ Signal(kind, g, NoItem).gen = g
    BY <1>6 DEF Signal, Signals, SignalKinds
  <2>2. res.next.kind = "pasteReady" => g <= st.generation
    BY <1>1, <1>2, <1>5 DEF Kept, Good, ClipStates
  <2> QED BY <1>3, <2>1, <2>2, PushEffect DEF IInv, TypeOK
<1>8. DOMAIN timers' \subseteq Timers
  <2>1. \A kind \in {"timedOut", "advertise"} : Timer(kind, g) \in Timers
    BY <1>6 DEF Timer, Timers
  <2>2. Timer("initialize", NoGen) \in Timers
    BY DEF Timer, Timers, OptGen
  <2> QED BY <1>4, <2>1, <2>2, BagBounds DEF IInv, TypeOK
<1>9. replies' \in Seq({"ok", "refused", "request"})
  BY <1>1 DEF IInv, TypeOK
<1>r. refusals' \in [gen : OptGen, count : Nat]
  <2>1. refusals \in [gen : OptGen, count : Nat] /\ st.generation \in OptGen
    BY <1>1 DEF IInv, TypeOK, Good, ClipStates, OptGen
  <2>2. refusals.count \in Nat /\ NoGen \in OptGen
    BY <2>1 DEF OptGen
  <2>3. refusals' = Counted(ok)
    BY DEF OnFormatListResponse
  <2> QED BY <2>1, <2>2, <2>3 DEF Counted, NoRefusal
<1>10. CASE Released(s, res.state) /\ PhaseOf(s) = "pending"
  <2>1. Released(st, st')
    BY <1>1, <1>2, <1>10 DEF Released, Kept, PhaseOf
  <2>2. awaiting = NoItem
    <3>1. st.pending = st.generation /\ st.generation # NoGen
      BY <1>1, <1>2, <1>10 DEF Kept, PhaseOf, Good, ClipStates, NoGen
    <3> QED BY <1>1, <3>1 DEF IInv, AwaitInv, Good, ClipInv
  <2> QED
    BY <1>1, <1>5, <1>7, <1>8, <1>9, <1>r, <2>1, <2>2, ReleasedStep
    DEF IInv, TypeOK, seen, paste
<1>11. CASE ~Released(s, res.state) \/ PhaseOf(s) # "pending"
  <2>1. Kept(s, res.state)
    BY <1>2, <1>5, <1>11 DEF Good, ClipInv, PhaseOf, Kept
  <2>2. Kept(st, st')
    BY <1>1, <1>2, <2>1 DEF Kept
  <2> QED
    BY <1>1, <1>5, <1>7, <1>8, <1>9, <1>r, <2>2, KeptStep DEF IInv, TypeOK, seen, paste
<1> QED BY <1>10, <1>11

LEMMA ServerAnswersStep ==
  ASSUME IInv, NEW ok \in BOOLEAN, ServerAnswers(ok)
  PROVE  IInv' /\ UNCHANGED Promise!vars
<1>1. /\ Good(st) /\ UNCHANGED <<st, conn, queue, timers, seen, paste>>
      /\ offers # <<>> /\ offers' = Tail(offers)
      /\ replies' = Append(replies, IF ok THEN "ok" ELSE "refused")
      /\ srvAccepted' = IF ok THEN srvAccepted \cup {Head(offers)} ELSE srvAccepted
      /\ offers \in Seq(OptGen) /\ srvAccepted \subseteq OptGen
      /\ replies \in Seq({"ok", "refused", "request"})
  BY DEF IInv, TypeOK, Good, ServerAnswers
<1>2. /\ offers' \in Seq(OptGen) /\ Head(offers) \in OptGen
      /\ replies' \in Seq({"ok", "refused", "request"})
  BY <1>1
<1>3. srvAccepted' \subseteq OptGen /\ Kept(st, st')
  BY <1>1, <1>2 DEF Kept
<1> QED BY <1>1, <1>2, <1>3, KeptStep DEF IInv, TypeOK, seen, paste

LEMMA ServerOmitsStep ==
  ASSUME IInv, ServerOmits
  PROVE  IInv' /\ UNCHANGED Promise!vars
<1>1. /\ Good(st)
      /\ UNCHANGED <<st, conn, queue, timers, replies, seen, srvAccepted, paste>>
      /\ offers' = Tail(offers) /\ offers # <<>> /\ offers \in Seq(OptGen)
  BY DEF IInv, TypeOK, Good, ServerOmits
<1>2. offers # <<>> /\ offers' \in Seq(OptGen) /\ Kept(st, st')
  BY <1>1 DEF Kept
<1> QED BY <1>1, <1>2, KeptStep DEF IInv, TypeOK, seen, paste

LEMMA ServerRequestsDataStep ==
  ASSUME IInv, ServerRequestsData
  PROVE  IInv' /\ UNCHANGED Promise!vars
<1>1. /\ Good(st)
      /\ UNCHANGED <<st, conn, queue, timers, offers, seen, srvAccepted, paste>>
      /\ replies' = Append(replies, "request")
      /\ replies \in Seq({"ok", "refused", "request"})
  BY DEF IInv, TypeOK, Good, ServerRequestsData
<1>2. replies' \in Seq({"ok", "refused", "request"}) /\ Kept(st, st')
  BY <1>1 DEF Kept
<1> QED BY <1>1, <1>2, KeptStep DEF IInv, TypeOK, seen, paste

(* A step on the way to the next connection that leaves the clipboard alone. *)
LEMMA MovesStep ==
  ASSUME IInv, UNCHANGED <<st, commands, stale, queue, timers, wire, seen, paste>>,
         link' \in Links, link # "up",
         link' = "up" => link = "handshake",
         link' = "handshake" => link = "handshake",
         link' # "draining" => stale = 0
  PROVE  IInv' /\ UNCHANGED Promise!vars
<1>1. TypeOK' /\ ClipInv(st)'
  BY DEF IInv, TypeOK, ClipInv, ProtectsCurrentPaste, wire, seen, paste
<1>2. QueueInv(queue, st)' /\ AwaitInv(queue, st, awaiting)'
  BY DEF IInv, QueueInv, AwaitInv, paste
<1>3. DictatedInv' /\ LinkInv'
  BY DEF IInv, DictatedInv, LinkInv, paste
<1> QED BY <1>1, <1>2, <1>3 DEF IInv, Promise!vars, PhaseOf

LEMMA DrainedStep ==
  ASSUME IInv, Drained
  PROVE  IInv' /\ UNCHANGED Promise!vars
<1>1. /\ UNCHANGED <<st, commands, stale, queue, timers, wire, seen, paste>>
      /\ link = "draining" /\ link' = "waiting" /\ commands = <<>>
  BY DEF Drained, Moves
<1>2. stale = 0
  BY <1>1 DEF IInv, TypeOK
<1> QED BY <1>1, <1>2, MovesStep DEF Links

LEMMA OnTheWayStep ==
  ASSUME IInv, RetryDue \/ Connected \/ ConnectFails
  PROVE  IInv' /\ UNCHANGED Promise!vars
<1>1. /\ UNCHANGED <<st, commands, stale, queue, timers, wire, seen, paste>>
      /\ \/ link = "waiting" /\ link' = "connecting"
         \/ link = "handshake" /\ link' = "up"
         \/ link \in {"connecting", "handshake"} /\ link' = "draining"
  BY DEF RetryDue, Connected, ConnectFails, Moves
<1>2. stale = 0
  BY <1>1 DEF IInv, LinkInv
<1> QED BY <1>1, <1>2, MovesStep DEF Links

(* connect puts the clipboard state on its new connection. *)
LEMMA HostReachedStep ==
  ASSUME IInv, HostReached
  PROVE  IInv' /\ [Promise!Next]_Promise!vars
<1>1. /\ Good(st) /\ UNCHANGED <<commands, stale, queue, timers, wire, seen, paste>>
      /\ st' = ResetConnection(st) /\ link' = "handshake" /\ queue = <<>>
      /\ awaiting = NoItem /\ stale = 0
  BY DEF IInv, TypeOK, Good, HostReached, Moves, LinkInv
<1>2. /\ Good(st') /\ st'.pending = NoGen
      /\ \/ Released(st, st')
         \/ /\ PhaseOf(st) = "free" /\ st'.clip = st.clip
            /\ st'.deferred = st.deferred /\ st'.serving = NoGen
  BY <1>1, ResetGood
<1>3. TypeOK' /\ ClipInv(st)'
  BY <1>1, <1>2 DEF IInv, TypeOK, Good, wire, seen, paste, Links
<1>4. QueueInv(queue, st)' /\ AwaitInv(queue, st, awaiting)'
  BY <1>1 DEF QueueInv, AwaitInv, paste
<1>5. DictatedInv' /\ LinkInv'
  BY <1>1, <1>2 DEF IInv, DictatedInv, LinkInv, paste
<1>6. [Promise!Next]_Promise!vars
  <2>1. CASE Released(st, st')
    BY <1>1, <1>2, <2>1, ReleasedSimulates
  <2>2. CASE PhaseOf(st) = "free" /\ st'.clip = st.clip
             /\ st'.deferred = st.deferred /\ st'.serving = NoGen
    <3>1. PhaseOf(st') = "free"
      BY <1>2, <2>2 DEF PhaseOf, Good, ClipStates, NoGen
    <3> QED BY <2>2, <3>1 DEF Promise!vars
  <2> QED BY <1>2, <2>1, <2>2
<1> QED BY <1>3, <1>4, <1>5, <1>6 DEF IInv

LEMMA DisconnectStep ==
  ASSUME IInv, Disconnect
  PROVE  IInv' /\ UNCHANGED Promise!vars
<1>1. /\ Good(st) /\ UNCHANGED st /\ EndConnection
      /\ commands' \in Seq(ClipCommands) /\ Len(commands') <= CommandCap
  BY DEF IInv, TypeOK, Good, Disconnect
<1> QED BY <1>1, EndStep, KeptSimulates DEF Kept

-----------------------------------------------------------------------------
LEMMA InitStep ==
  ASSUME Init
  PROVE  IInv /\ Promise!Init
<1>1. Good(DefaultClip) /\ st = DefaultClip
  BY DefaultGood DEF Init
<1>2. /\ queue = <<>> /\ timers = EmptyBag /\ offers = <<>> /\ replies = <<>>
      /\ hello = 0 /\ srvAccepted = {} /\ dictated = {} /\ injected = {}
      /\ awaiting = NoItem /\ link = "connecting"
      /\ commands = <<>> /\ stale = 0 /\ refusals = NoRefusal
  BY DEF Init
<1>3. TypeOK /\ ClipInv(st)
  <2>1. DOMAIN EmptyBag \subseteq Timers
    BY DEF EmptyBag, SetToBag
  <2>2. refusals \in [gen : OptGen, count : Nat]
    BY <1>2 DEF NoRefusal, OptGen
  <2>3. commands \in Seq(ClipCommands) /\ Len(commands) = 0
    BY <1>2
  <2>4. /\ queue \in Seq(Signals) /\ Len(queue) = 0 /\ offers \in Seq(OptGen)
        /\ replies \in Seq({"ok", "refused", "request"})
    BY <1>2
  <2> QED BY <1>1, <1>2, <2>1, <2>2, <2>3, <2>4, QueueAssumption DEF TypeOK, Good, Links
<1>4. QueueInv(queue, st) /\ AwaitInv(queue, st, awaiting) /\ DictatedInv /\ LinkInv
  BY <1>2 DEF QueueInv, AwaitInv, DictatedInv, LinkInv
<1>5. Promise!Init
  BY <1>1 DEF Promise!Init, PhaseOf, DefaultClip, Items, NoGen
<1> QED BY <1>3, <1>4, <1>5 DEF IInv

LEMMA NextStep ==
  ASSUME IInv, [Next]_vars
  PROVE  IInv' /\ [Promise!Next]_Promise!vars
<1>1. ASSUME NEW c \in ClipCommands, Give(c)
      PROVE  IInv' /\ [Promise!Next]_Promise!vars
  BY <1>1, GiveStep
<1>2. CASE HandleCommand
  BY <1>2, CopyStep, DictateStep, AbsorbOfflineStep DEF HandleCommand
<1>3. CASE HandleSignal
  BY <1>3, HandleInitializeStep, HandleAdvertiseStep, HandlePasteAcceptedStep,
     HandlePasteTimedOutStep, HandleSubmitDataStep, HandleOtherStep
  DEF HandleSignal
<1>4. CASE OnRequestFormatList \/ ReadPdu \/ OnOtherCallback
  BY <1>4, OnRequestFormatListStep, OnFormatDataRequestStep,
     OnFormatListResponseStep, OnOtherCallbackStep DEF ReadPdu
<1>5. CASE SomeTimerFires
  BY <1>5, TimerFiresStep DEF SomeTimerFires
<1>6. ASSUME NEW ok \in BOOLEAN, ServerAnswers(ok)
      PROVE  IInv' /\ [Promise!Next]_Promise!vars
  BY <1>6, ServerAnswersStep
<1>7. CASE ServerOmits \/ ServerRequestsData \/ Reconnect \/ ConnectFails \/ Disconnect
  BY <1>7, ServerOmitsStep, ServerRequestsDataStep, DrainedStep, OnTheWayStep,
     HostReachedStep, DisconnectStep DEF Reconnect
<1>8. CASE UNCHANGED vars
  <2>1. IInv'
    BY <1>8 DEF vars, IInv, TypeOK, ClipInv, ProtectsCurrentPaste, QueueInv,
                AwaitInv, DictatedInv, LinkInv
  <2> QED BY <1>8, <2>1 DEF vars, Promise!vars, PhaseOf
<1> QED BY <1>1, <1>2, <1>3, <1>4, <1>5, <1>6, <1>7, <1>8 DEF Next

(* The inductive invariant holds in every reachable state. *)
THEOREM Inductive == Spec => []IInv
<1>1. Init => IInv
  BY InitStep
<1>2. IInv /\ [Next]_vars => IInv'
  BY NextStep
<1> QED BY <1>1, <1>2, PTL DEF Spec

(* Every variable keeps its type; the signal queue never exceeds its capacity. *)
THEOREM TypeCorrect == Spec => []TypeOK
<1>1. IInv => TypeOK
  BY DEF IInv
<1> QED BY <1>1, Inductive, PTL

(* A deferred copy always waits for a paste that is still under way. *)
THEOREM DeferredIsWaited == Spec => []DeferredNotStranded
<1>1. IInv => DeferredNotStranded
  BY DEF IInv, ClipInv, DeferredNotStranded
<1> QED BY <1>1, Inductive, PTL

(* While a Ctrl+V is waited on, the remote can only be given the dictation. *)
THEOREM PasteIsTheDictation == Spec => []CtrlVFetchesDictation
<1>1. IInv => CtrlVFetchesDictation
  BY DEF IInv, AwaitInv, CtrlVFetchesDictation
<1> QED BY <1>1, Inductive, PTL

(* Ctrl+V is pressed only for dictations handled on the connection it is     *)
(* pressed on and given after the one before it was lost.                    *)
THEOREM PasteIsNeverLate == Spec => []NoLatePaste
<1>1. IInv => NoLatePaste
  BY DEF IInv, DictatedInv, NoLatePaste
<1> QED BY <1>1, Inductive, PTL

(* The clipboard implements what PasteReservation promises. *)
THEOREM ReservationKept == Spec => PromiseKept
<1>1. Init => Promise!Init
  BY InitStep
<1>2. IInv /\ [Next]_vars => [Promise!Next]_Promise!vars
  BY NextStep
<1> QED BY <1>1, <1>2, Inductive, PTL DEF Spec, PromiseKept, Promise!Spec

=============================================================================
