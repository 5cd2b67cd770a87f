------------------------------ MODULE Settings ------------------------------
(***************************************************************************)
(* The settings window and the sessions, which share the persisted         *)
(* document.  The window edits a copy that it loads when it is opened;     *)
(* sessions write one field at a time, also while the window is open: the  *)
(* server key the user trusts, the size of a window that closes, the       *)
(* password policy of a prompt.                                            *)
(*                                                                         *)
(* Everything runs on the main thread.  A dialog runs an event loop of its *)
(* own, so sessions go on writing behind it; "doing" is the operation that *)
(* goes on when a dialog has been answered.  Reading the document is taken *)
(* to succeed: every caller of load_document gives up on an error.         *)
(***************************************************************************)
EXTENDS ProfileStore

CONSTANTS MaxIds,   \* bound: connections ever made
          Budgets,  \* bound: what the user does in the settings window, and
                    \* what sessions do
          Faults,   \* bound: failures and crashes
          Cleaned   \* what a save makes of the entries of a form

ASSUME SettingsAssumption ==
    MaxIds \in Nat \ {0} /\ Faults \in Nat /\ Budgets \subseteq [edits : Nat, writes : Nat]

(* Texts are trimmed, and what the mode has no use for is left out: the    *)
(* domain under Entra, the resolution unless it is fixed.  Nothing is left *)
(* to clean then.                                                          *)
ASSUME FormAssumption ==
    /\ Cleaned \in [Modes -> [Fields -> Fields]]
    /\ \A m \in Modes, f \in Fields : Cleaned[m][Cleaned[m][f]] = Cleaned[m][f]

VARIABLES
    file,       \* the document on disk
    legacy,     \* the document an earlier version left in its place, or Missing
    secrets,    \* the key chain
    oldSecrets, \* the key chain under LEGACY_SERVICE
    running,    \* the app is
    sessions,   \* connections with a session window
    win,        \* the settings window
    made,       \* identifiers given out so far
    left,       \* what is left of the bounds
    overwrote   \* history: a save of the window replaced what a session wrote

disk == <<file, legacy, secrets, oldSecrets>>
vars == <<disk, running, sessions, win, made, left, overwrote>>

Default == CHOOSE g \in Globals : TRUE
NoForm == [fields |-> Bad, mode |-> "ask", password |-> FALSE]
Forms == [fields : Fields \cup {Bad}, mode : Modes, password : BOOLEAN]
Windows ==
    [visible : BOOLEAN, document : Documents, selected : Nat, dirty : BOOLEAN, form : Forms,
     doing : {"idle", "add", "remove", "close"}, outdated : BOOLEAN, kept : BOOLEAN]
Closed ==
    [visible |-> FALSE, document |-> NoConnections(Default), selected |-> 0, dirty |-> FALSE,
     form |-> NoForm, doing |-> "idle",
     outdated |-> FALSE, \* history: a session wrote since the document was loaded or saved
     kept |-> FALSE]     \* history: the form holds edits the user discarded

TypeOK ==
    /\ file.now # Missing => IsDocument(file.now)
    /\ legacy = Missing \/ IsDocument(legacy)
    /\ secrets \subseteq 1 .. made /\ oldSecrets \subseteq 1 .. made /\ sessions \subseteq 1 .. made
    /\ running \in BOOLEAN /\ overwrote \in BOOLEAN /\ made \in 0 .. MaxIds
    /\ win \in Windows /\ IsDocument(win.document)
    /\ win.selected \in 0 .. Len(win.document.conns)
    /\ win.dirty => win.visible /\ win.selected > 0

OneConnection == Document(<<Connection(1, CHOOSE f \in Fields : TRUE)>>, Default)
Init ==
    /\ \/ file = File(OneConnection) /\ legacy = Missing
       \/ file = File(Missing) /\ legacy = OneConnection
    /\ oldSecrets \in SUBSET {1} /\ secrets = {}
    /\ running = FALSE /\ sessions = {} /\ win = Closed /\ made = 1
    /\ \E b \in Budgets :
         left = [edits |-> b.edits, writes |-> b.writes, faults |-> Faults]
    /\ overwrote = FALSE

Spend(what, faults) ==
    /\ left[what] > 0 /\ left.faults >= faults
    /\ left' = [b \in DOMAIN left |-> IF b = what THEN left[b] - 1
                                      ELSE IF b = "faults" THEN left[b] - faults ELSE left[b]]

-----------------------------------------------------------------------------
(* The app starts and ends. *)

(* ProfileStore::open_default.  The document of an earlier version is      *)
(* renamed, and no directory is synced: after a power cut it may be where  *)
(* it was.  It is looked for only as long as there is no other.            *)
Launch ==
    /\ ~running /\ running' = TRUE
    /\ file' = IF file.now = Missing /\ legacy # Missing
               THEN [now |-> legacy, kept |-> {Missing, legacy}] ELSE file
    /\ UNCHANGED <<legacy, secrets, oldSecrets, sessions, win, made, left, overwrote>>

Exit ==
    /\ running /\ running' = FALSE /\ sessions' = {} /\ win' = Closed
    /\ UNCHANGED <<disk, made, left, overwrote>>

PowerCut ==
    /\ left.faults > 0 /\ left' = [left EXCEPT !.faults = @ - 1]
    /\ \E c \in file.kept : file' = File(c)
    /\ running' = FALSE /\ sessions' = {} /\ win' = Closed
    /\ UNCHANGED <<legacy, secrets, oldSecrets, made, overwrote>>

-----------------------------------------------------------------------------
(* Sessions. *)

(* A modal dialog of the settings window lets them go on; otherwise the    *)
(* window's own operations are not interrupted.                            *)
SessionMayRun == running /\ win.doing \in {"idle", "remove"}

SessionSaves(doc) ==
    \E r \in Saves(file, doc) :
        /\ file' = r.file
        /\ Spend("writes", IF r.how = "ok" THEN 0 ELSE 1)
        /\ running' = (r.how # "died")
        /\ win' = IF r.how = "died" THEN Closed ELSE [win EXCEPT !.outdated = TRUE]
Document0 == Loaded(file, NoConnections(Default))

(* A connection that no longer exists is an error. *)
CertTrusted(id, pin) ==
    /\ SessionMayRun /\ id \in sessions /\ Known(Document0, id)
    /\ SessionSaves(WithField(Document0, id, "pin", pin))
    /\ sessions' = IF running' THEN sessions ELSE {}
    /\ UNCHANGED <<legacy, secrets, oldSecrets, made, overwrote>>

(* A session window closes; its size is saved if the connection wants it. *)
SessionCloses(id) ==
    /\ SessionMayRun /\ id \in sessions
    /\ \/ \E size \in Sizes : /\ Known(Document0, id)
                              /\ SessionSaves(WithField(Document0, id, "size", size))
       \/ UNCHANGED <<file, running, win, left>>
    /\ sessions' = IF running' THEN sessions \ {id} ELSE {}
    /\ UNCHANGED <<legacy, secrets, oldSecrets, made, overwrote>>

(* resolve_password with a saved password, which it stores anew.  One of   *)
(* an earlier version moves over first; what fails is reported or logged.  *)
OpenRemembered(id) ==
    /\ id \in secrets \cup oldSecrets
    /\ \E s \in Stored(secrets \cup {id}, id) : secrets' = s.secrets /\ Spend("writes", s.faults)
    /\ oldSecrets' = IF id \in secrets THEN oldSecrets ELSE oldSecrets \ {id}
    /\ UNCHANGED <<file, running, win>>

(* With the prompt and its check box: only a password that was stored      *)
(* switches the policy.  "unread" is a saved password that could not be    *)
(* read, which is reported before the prompt.                              *)
OpenPrompted(id, mode, unread, save) ==
    /\ IF ~save
       THEN UNCHANGED <<file, secrets, running, win>> /\ Spend("writes", unread)
       ELSE \E s \in Stored(secrets, id) :
                /\ secrets' = s.secrets
                /\ IF s.ok /\ mode # "remember"
                   THEN SessionSaves(WithField(Document0, id, "mode", "remember"))
                   ELSE UNCHANGED <<file, running, win>> /\ Spend("writes", unread + s.faults)
    /\ UNCHANGED oldSecrets

(* open_rdp, from a menu that has just been read from disk.  With Entra    *)
(* there is no password.                                                   *)
OpenSession(id) ==
    /\ SessionMayRun /\ win.doing = "idle" /\ Known(Document0, id)
    /\ LET mode == Document0.conns[IndexOf(Document0, id)].mode IN
       \/ mode = "entra" /\ UNCHANGED <<file, secrets, oldSecrets, running, win, left>>
       \/ mode = "remember" /\ OpenRemembered(id)
       \/ \E save \in BOOLEAN :
              \/ mode = "ask" /\ OpenPrompted(id, mode, 0, save)
              \/ /\ mode = "remember" /\ id \notin secrets \cup oldSecrets
                 /\ OpenPrompted(id, mode, 0, save)
              \/ mode = "remember" /\ OpenPrompted(id, mode, 1, save)
    /\ sessions' = IF running' THEN sessions \cup {id} ELSE {}
    /\ UNCHANGED <<legacy, made, overwrote>>

-----------------------------------------------------------------------------
(* The window. *)

FormOf(doc, row) ==
    IF row = 0 THEN NoForm
    ELSE [fields |-> doc.conns[row].fields, mode |-> doc.conns[row].mode, password |-> FALSE]
Populate(w, row) ==
    [w EXCEPT !.selected = row, !.dirty = FALSE, !.form = FormOf(w.document, row), !.kept = FALSE]
Idle == running /\ win.visible /\ win.doing = "idle"
OnlyWindow == UNCHANGED <<disk, running, sessions, made, overwrote>>

(* An open window is only brought to the front. *)
Show ==
    /\ running /\ ~win.visible
    /\ LET opened == [Closed EXCEPT !.visible = TRUE, !.document = Document0]
       IN win' = Populate(opened, IF Document0.conns = <<>> THEN 0 ELSE 1)
    /\ Spend("edits", 0) /\ OnlyWindow

(* Any change of the form, which marks it dirty.  What is in the field for *)
(* the password counts only when it is to be remembered.                   *)
Type(form) ==
    /\ Idle /\ win.selected > 0
    /\ form.password => form.mode = "remember"
    /\ win' = [win EXCEPT !.form = form, !.dirty = TRUE]
    /\ Spend("edits", 0) /\ OnlyWindow

(* Mutant of Revert: the edits stay in the form. *)
RevertFlagOnly ==
    /\ Idle /\ win.dirty
    /\ win' = [win EXCEPT !.dirty = FALSE]
    /\ OnlyWindow /\ UNCHANGED left

(* From the copy in memory. *)
Revert ==
    /\ Idle /\ win.dirty
    /\ win' = Populate(win, win.selected)
    /\ OnlyWindow /\ UNCHANGED left

(* A failed save gives up the operation it was made for. *)
Refused == [win EXCEPT !.doing = "idle"]

(* A save of the whole document, after which the window becomes w and the  *)
(* passwords of "gone" are deleted; k is the key chain before.             *)
WindowSaves(doc, k, w, gone) ==
    /\ \E r \in Saves(file, doc) :
           /\ file' = r.file
           /\ overwrote' = (overwrote \/ (win.outdated /\ file' # file))
           /\ running' = (r.how # "died")
           /\ sessions' = IF r.how = "died" THEN {} ELSE sessions
           /\ \/ /\ r.how = "ok" /\ win' = [w EXCEPT !.outdated = FALSE]
                 /\ \E d \in Deleted(k, gone) : secrets' = d.secrets /\ Spend("edits", d.faults)
              \/ r.how = "failed" /\ secrets' = k /\ win' = Refused /\ Spend("edits", 1)
              \/ r.how = "died" /\ secrets' = k /\ win' = Closed /\ Spend("edits", 1)
    /\ UNCHANGED <<legacy, oldSecrets>>

(* Mutant of Edited: the connection is made anew from the form. *)
EditedAnew(c, form) == [Connection(c.id, Cleaned[form.mode][form.fields]) EXCEPT !.mode = form.mode]

(* commit_connection: the form takes over what it has fields for.  The     *)
(* form itself keeps what was entered.                                     *)
Edited(c, form) == [c EXCEPT !.fields = Cleaned[form.mode][form.fields], !.mode = form.mode]

(* The window once its form is part of the document. *)
Committed ==
    [win EXCEPT !.document.conns[win.selected] = Edited(@, win.form), !.form.password = FALSE]

(* The password goes to the key chain before the document is saved, and    *)
(* out of it after; w is the window that follows a success.                *)
Commit(w) ==
    LET id == win.document.conns[win.selected].id
        doc == Committed.document
        gone == IF win.form.mode = "remember" THEN {} ELSE {id}
    IN /\ win.form.fields # Bad
       /\ IF win.form.mode # "remember" \/ ~win.form.password
          THEN WindowSaves(doc, secrets, w, gone)
          ELSE \E s \in Stored(secrets, id) :
                   \/ s.ok /\ WindowSaves(doc, s.secrets, w, gone)
                   \/ /\ ~s.ok /\ secrets' = s.secrets /\ Spend("edits", 1)
                      /\ UNCHANGED <<file, legacy, oldSecrets, running, sessions, win, overwrote>>
       /\ UNCHANGED made

Save ==
    /\ Idle /\ win.dirty
    /\ Commit([Committed EXCEPT !.dirty = FALSE])

(* Another row is selected, or none: unsaved edits are saved or discarded  *)
(* first.                                                                  *)
Select(row) ==
    /\ Idle /\ row # win.selected /\ row \in 0 .. Len(win.document.conns)
    /\ \/ win' = Populate(win, row) /\ OnlyWindow /\ Spend("edits", 0)
       \/ win.dirty /\ Commit(Populate(Committed, row))

(* confirm_discard_ok, before an operation. *)
Ask(op) ==
    /\ Idle
    /\ op = "add" => made < MaxIds
    /\ op = "remove" => win.selected > 0
    /\ \/ ~win.dirty /\ win' = [win EXCEPT !.doing = op] /\ OnlyWindow /\ UNCHANGED left
       \/ win.dirty /\ Commit([Committed EXCEPT !.dirty = FALSE, !.doing = op])
       \/ /\ win.dirty /\ win' = [win EXCEPT !.dirty = FALSE, !.doing = op, !.kept = TRUE]
          /\ OnlyWindow /\ UNCHANGED left

AddRow ==
    /\ win.doing = "add"
    /\ made' = made + 1
    /\ LET doc == [win.document EXCEPT
                      !.conns = Append(@, Connection(made', CHOOSE f \in Fields : TRUE))]
       IN WindowSaves(doc, secrets,
                      Populate([win EXCEPT !.document = doc, !.doing = "idle"], Len(doc.conns)), {})

(* A second dialog, which the user may cancel. *)
RemoveRow ==
    /\ win.doing = "remove"
    /\ LET row == win.selected
           doc == [win.document EXCEPT !.conns = RemoveAt(@, row)]
           next == IF row <= Len(doc.conns) THEN row ELSE Len(doc.conns)
       IN \/ WindowSaves(doc, secrets, Populate([win EXCEPT !.document = doc, !.doing = "idle"], next),
                         {win.document.conns[row].id})
          \/ /\ win' = [win EXCEPT !.doing = "idle"]
             /\ UNCHANGED <<disk, running, sessions, left, overwrote>>
    /\ UNCHANGED made

Close ==
    /\ win.doing = "close"
    /\ win' = [win EXCEPT !.visible = FALSE, !.doing = "idle"]
    /\ OnlyWindow /\ UNCHANGED left

(* Global settings are saved as they change, with the copy of the list;    *)
(* edits that are staged in the form stay there.                           *)
SaveGlobal(g) ==
    /\ Idle
    /\ LET doc == [win.document EXCEPT !.global = g]
       IN WindowSaves(doc, secrets, [win EXCEPT !.document = doc], {})
    /\ UNCHANGED made

Next ==
    \/ Launch \/ Exit \/ PowerCut
    \/ \E id \in 1 .. made : \/ OpenSession(id) \/ SessionCloses(id)
                             \/ \E pin \in Pins : CertTrusted(id, pin)
    \/ Show \/ Revert \/ Save \/ AddRow \/ RemoveRow \/ Close
    \/ \E form \in Forms : Type(form)
    \/ \E row \in 0 .. MaxIds : Select(row)
    \/ \E op \in {"add", "remove", "close"} : Ask(op)
    \/ \E g \in Globals : SaveGlobal(g)

Spec == Init /\ [][Next]_vars

-----------------------------------------------------------------------------
(* What can be relied on. *)

NoFaultYet == left.faults = Faults
Settled == file.kept = {file.now}

(* The document on disk is always a whole one, and so is whatever a power  *)
(* cut at any step of a save may leave of it.                              *)
FileIsWhole == file.now # Torn /\ Torn \notin file.kept

(* What the window works on is what is on disk: also after a failed save,  *)
(* unless it failed after the rename, and until a session writes.          *)
MemoryMatchesDisk ==
    running /\ win.visible /\ ~win.outdated /\ (Settled \/ NoFaultYet) => win.document = Document0

(* The document survives power cuts and failed saves whole, and the window *)
(* knows it: the two sides of a save that may fail at every step.          *)
Inv == TypeOK /\ FileIsWhole /\ MemoryMatchesDisk

(* A password in the key chain is that of a connection that exists and     *)
(* wants it remembered, as long as nothing failed and the window did not   *)
(* overwrite what a session wrote.                                         *)
SecretsMatchPolicy ==
    NoFaultYet /\ ~overwrote =>
        \A id \in secrets : \E n \in DOMAIN Document0.conns :
            Document0.conns[n].id = id /\ Document0.conns[n].mode = "remember"

(* The form shows a row, if perhaps as it was typed: to save the one is to *)
(* save the other.                                                         *)
Shows(form, doc, row) ==
    /\ form.fields \in Fields /\ ~form.password
    /\ Edited(doc.conns[row], form) = Edited(doc.conns[row], FormOf(doc, row))

(* A form without unsaved changes shows the connection as it is, so that a *)
(* save changes nothing but what the user enters next.  Edits the user     *)
(* discards for an operation that then does not happen stay in the form    *)
(* ("kept"), and the next Save writes them: no claim is made for these.    *)
CleanFormShowsDocument ==
    running /\ win.visible /\ win.selected > 0 /\ ~win.dirty /\ ~win.kept =>
        Shows(win.form, win.document, win.selected)

(* What sessions have written stays: the window has no fields for it and   *)
(* takes it along, unless a session wrote after the window loaded its copy.*)
SessionFieldsStay ==
    [][running /\ running' /\ ~win.outdated /\ ~win'.outdated =>
           \A n \in DOMAIN Document0.conns, k \in DOMAIN Document0'.conns :
               LET c == Document0.conns[n]
                   d == Document0'.conns[k]
               IN c.id = d.id => c.pin = d.pin /\ c.size = d.size]_vars

(* Nothing a session wrote is lost: it does not hold.  A save of the       *)
(* window replaces the whole document, and with it what a session wrote    *)
(* since the window was opened, see the README.                            *)
NothingOverwritten == ~overwrote
=============================================================================
