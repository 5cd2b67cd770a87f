--------------------------- MODULE ClipboardState ---------------------------
(***************************************************************************)
(* The pure state machine LocalClipboardState of                           *)
(* crates/rdp123-core/src/session.rs: what the Mac clipboard offers to the *)
(* remote session and how far the current CLIPRDR connection has got with  *)
(* that offer.  One operator per method, from a state record to the next.  *)
(*                                                                         *)
(* An Option<u64> generation is an integer with NoGen for None.  Clipboard *)
(* contents are members of Items; only "is it a file list" matters.        *)
(***************************************************************************)
EXTENDS Integers

CONSTANTS
    Texts,       \* texts the user copies or dictates
    FileLists,   \* file selections the user copies in Finder
    Empty,       \* LocalClip::Empty
    NoItem,      \* Option::None for the deferred clipboard
    MaxRetries   \* length of CLIPBOARD_RETRY_DELAYS

ASSUME ClipboardAssumption ==
    /\ MaxRetries \in Nat
    /\ NoItem \notin Texts \cup FileLists \cup {Empty}
    /\ Empty \notin Texts \cup FileLists
    /\ Texts \cap FileLists = {}

Items == Texts \cup FileLists \cup {Empty}
NoGen == -1
OptGen == Nat \cup {NoGen}

ClipStates ==
    [clip : Items, deferred : Items \cup {NoItem}, generation : Nat,
     inFlight : OptGen, ready : BOOLEAN, bootstrap : BOOLEAN,
     accepted : OptGen, retries : Nat,
     pending : OptGen, serving : OptGen, requested : OptGen]

DefaultClip ==
    [clip |-> Empty, deferred |-> NoItem, generation |-> 0,
     inFlight |-> NoGen, ready |-> FALSE, bootstrap |-> FALSE,
     accepted |-> NoGen, retries |-> 0,
     pending |-> NoGen, serving |-> NoGen, requested |-> NoGen]

(***************************************************************************)
(* What complete_offer asks the backend to do next.                        *)
(***************************************************************************)
Nothing == [kind |-> "nothing", gen |-> NoGen]
Outcome(kind, g) == [kind |-> kind, gen |-> g]

-----------------------------------------------------------------------------
(* The local side: a copy, a dictation, a new connection. *)

(* Mutant: a paste being served is no longer protected. *)
ProtectsPendingOnly(s) == s.pending = s.generation

ProtectsCurrentPaste(s) ==
    s.pending = s.generation \/ s.serving = s.generation

ReplaceNow(s, c) ==
    [s EXCEPT !.clip = c, !.generation = @ + 1, !.accepted = NoGen,
              !.retries = 0, !.pending = NoGen, !.serving = NoGen,
              !.requested = NoGen]

Replace(s, c) ==
    IF ProtectsCurrentPaste(s)
    THEN [s EXCEPT !.deferred = c]
    ELSE ReplaceNow([s EXCEPT !.deferred = NoItem], c)

(* Mutant: a dictation drops the copy waiting behind the previous one. *)
ReplaceForPasteForgetting(s, t) ==
    [ReplaceNow([s EXCEPT !.deferred = NoItem], t) EXCEPT
        !.pending = s.generation + 1]

ReplaceForPaste(s, t) ==
    [ReplaceNow(s, t) EXCEPT !.pending = s.generation + 1]

ApplyDeferred(s) ==
    IF s.deferred = NoItem
    THEN s
    ELSE ReplaceNow([s EXCEPT !.deferred = NoItem], s.deferred)

(* Mutant: the pending dictation survives the reconnect. *)
ResetKeepingPending(s) ==
    [s EXCEPT !.inFlight = NoGen, !.ready = FALSE, !.bootstrap = FALSE,
              !.accepted = NoGen, !.retries = 0]

ResetConnection(s) ==
    ApplyDeferred([s EXCEPT !.inFlight = NoGen, !.ready = FALSE,
                            !.bootstrap = FALSE, !.accepted = NoGen,
                            !.retries = 0, !.pending = NoGen,
                            !.serving = NoGen, !.requested = NoGen])

-----------------------------------------------------------------------------
(* Offering the clipboard and hearing back. *)

MayInitialize(s) == ~s.ready /\ ~s.bootstrap /\ s.inFlight = NoGen

BeginInitialOffer(s) ==
    IF s.clip \in FileLists
    THEN [s EXCEPT !.bootstrap = TRUE]
    ELSE [s EXCEPT !.inFlight = s.generation]

MarkReady(s) == [s EXCEPT !.ready = TRUE]

MayOffer(s, g) ==
    g = s.generation /\ s.accepted # g /\ s.inFlight # g

BeginOffer(s, g) == [s EXCEPT !.inFlight = g]

(* A FormatListResponse while the harmless bootstrap offer is in flight. *)
CompleteBootstrap(s, ok) ==
    LET t == [s EXCEPT !.bootstrap = FALSE]
    IN  IF ok
        THEN [state |-> [t EXCEPT !.retries = 0],
              next  |-> Outcome("advertise", s.generation)]
        ELSE IF s.retries < MaxRetries
        THEN [state |-> [t EXCEPT !.retries = @ + 1],
              next  |-> Outcome("retryInit", NoGen)]
        ELSE [state |-> t, next |-> Nothing]

(* Mutant: the last retry is counted, and not made. *)
RefuseOfferTooSoon(s) ==
    IF s.retries + 1 < MaxRetries
    THEN [state |-> [s EXCEPT !.retries = @ + 1],
          next  |-> Outcome("retry", s.generation)]
    ELSE [state |-> ApplyDeferred([s EXCEPT !.pending = NoGen, !.retries = MaxRetries]),
          next  |-> IF s.deferred = NoItem THEN Nothing
                    ELSE Outcome("advertise", s.generation + 1)]

(* Mutant: the paste is given up without letting the deferred copy in. *)
RefuseOfferStranding(s) ==
    IF s.retries < MaxRetries
    THEN [state |-> [s EXCEPT !.retries = @ + 1],
          next  |-> Outcome("retry", s.generation)]
    ELSE [state |-> [s EXCEPT !.pending = NoGen], next |-> Nothing]

(* The current generation was refused. *)
RefuseOffer(s) ==
    LET abandoned == [s EXCEPT !.pending = NoGen]
    IN  IF s.retries < MaxRetries
        THEN [state |-> [s EXCEPT !.retries = @ + 1],
              next  |-> Outcome("retry", s.generation)]
        ELSE [state |-> ApplyDeferred(abandoned),
              next  |-> IF s.deferred = NoItem THEN Nothing
                        ELSE Outcome("advertise", s.generation + 1)]

AcceptOffer(s) ==
    [state |-> [s EXCEPT !.accepted = s.generation, !.retries = 0],
     next  |-> IF s.pending = s.generation
               THEN Outcome("pasteReady", s.generation) ELSE Nothing]

(* Mutant: the answer to an outdated offer does not offer the newer copy. *)
CompleteOfferForgetting(s, ok) ==
    LET t == [s EXCEPT !.inFlight = NoGen]
    IN  IF s.bootstrap THEN CompleteBootstrap(s, ok)
        ELSE IF s.inFlight # s.generation THEN [state |-> t, next |-> Nothing]
        ELSE IF ok THEN AcceptOffer(t) ELSE RefuseOffer(t)

CompleteOffer(s, ok) ==
    LET t == [s EXCEPT !.inFlight = NoGen]
    IN  IF s.bootstrap THEN CompleteBootstrap(s, ok)
        ELSE IF s.inFlight = NoGen THEN [state |-> s, next |-> Nothing]
        ELSE IF s.inFlight # s.generation
        THEN [state |-> t, next |-> Outcome("advertise", s.generation)]
        ELSE IF ok THEN AcceptOffer(t) ELSE RefuseOffer(t)

-----------------------------------------------------------------------------
(* The dictated paste, from acceptance to the remote's data request. *)

PasteConfirmed(s, g) ==
    s.generation = g /\ s.accepted = g /\ s.pending = g

ConsumeConfirmedPaste(s, g) ==
    [s EXCEPT !.pending = NoGen, !.serving = g, !.requested = NoGen]

(* The generation a data request is answered for, None outside a paste. *)
PasteBeingServed(s) ==
    IF s.serving = s.generation THEN s.generation ELSE NoGen

BeginPasteDataResponse(s) ==
    IF s.serving = s.generation THEN [s EXCEPT !.requested = s.generation] ELSE s

MayFinishServing(s, g) == s.serving = g /\ s.generation = g

(* Mutant: the reservation ends and the deferred copy stays where it is. *)
FinishServingOnly(s, g) ==
    IF MayFinishServing(s, g)
    THEN [s EXCEPT !.serving = NoGen, !.requested = NoGen]
    ELSE s

FinishServingPaste(s, g) ==
    IF MayFinishServing(s, g)
    THEN ApplyDeferred([s EXCEPT !.serving = NoGen, !.requested = NoGen])
    ELSE s

ExpireUnrequestedPaste(s, g) ==
    IF s.requested = g THEN s ELSE FinishServingPaste(s, g)
=============================================================================
