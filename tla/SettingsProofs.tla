---------------------------- MODULE SettingsProofs ----------------------------
(***************************************************************************)
(* Proofs about Settings and ProfileStore, for every set of entries a user *)
(* may make and for every bound.                                           *)
(*                                                                         *)
(* The document is written by the window, which saves the whole copy it    *)
(* works on, and by sessions, which change one field of what is on disk.   *)
(* The invariant says what is on disk and what a power cut may leave of it *)
(* (StoreInv), what the window holds (WindowOK), how far the two may be    *)
(* apart (AgreeInv), and where the passwords are (KeyInv).                 *)
(***************************************************************************)
EXTENDS Settings, TLAPS, SequenceTheorems

(* Documents with the identifiers given out so far, or none. *)
Good(d, m) == /\ IsDocument(d)
              /\ \A n \in DOMAIN d.conns : d.conns[n].id \in 1 .. m
Contents(m) == {Missing} \cup {d \in Documents : Good(d, m)}

(* Whatever a power cut leaves is a whole document. *)
FileOK(f, m) == /\ f \in [now : Contents(m), kept : SUBSET Contents(m)]
                /\ f.now \in f.kept
StoreInv == FileOK(file, made) /\ legacy \in Contents(made)

(* The window has a document of its own, and an operation under way finds  *)
(* it as it was when it began.                                             *)
WindowOK(w, m) ==
    /\ w \in Windows /\ Good(w.document, m)
    /\ w.selected \in 0 .. Len(w.document.conns)
    /\ w.doing # "idle" => w.visible /\ ~w.dirty
    /\ w.doing = "remove" => w.selected > 0
    /\ w.doing = "add" => m < MaxIds
    /\ w.dirty => w.visible /\ w.selected > 0
    /\ w.visible /\ w.selected > 0 /\ ~w.dirty /\ ~w.kept =>
           Shows(w.form, w.document, w.selected)

(* Rows of two documents that are one connection agree on what sessions    *)
(* write.                                                                  *)
SameFields(d, e) ==
    \A n \in DOMAIN d.conns, k \in DOMAIN e.conns :
        d.conns[n].id = e.conns[k].id =>
            d.conns[n].pin = e.conns[k].pin /\ d.conns[n].size = e.conns[k].size

(* A save that failed after the rename leaves the window behind the disk,  *)
(* but only as far as it failed: what sessions wrote is in both.           *)
AgreeInv ==
    running /\ win.visible /\ ~win.outdated =>
        /\ SameFields(Document0, win.document)
        /\ Settled \/ NoFaultYet => win.document = Document0

Wanted(d, id) ==
    \E n \in DOMAIN d.conns : d.conns[n].id = id /\ d.conns[n].mode = "remember"
KeyInv == NoFaultYet /\ ~overwrote => \A id \in secrets : Wanted(Document0, id)

LeftInv == left \in [edits : Nat, writes : Nat, faults : 0 .. Faults]
IdsInv ==
    /\ made \in 1 .. MaxIds
    /\ secrets \subseteq 1 .. made /\ oldSecrets \subseteq 1 .. made
    /\ sessions \subseteq 1 .. made
    /\ running \in BOOLEAN /\ overwrote \in BOOLEAN
    /\ ~running => win = Closed /\ sessions = {}

(* Between two states of a run of the program in which the window is up to *)
(* date, what sessions wrote stays.                                        *)
FieldsStay ==
    running /\ running' /\ ~win.outdated /\ ~win'.outdated => SameFields(Document0, Document0')

IInv == LeftInv /\ IdsInv /\ StoreInv /\ WindowOK(win, made) /\ AgreeInv /\ KeyInv
-----------------------------------------------------------------------------
(* The file. *)

(* What a save may leave: the old file, the new one, or the new document   *)
(* under a directory that was not synced.                                  *)
Renamed(f, doc) == [now |-> doc, kept |-> f.kept \cup {doc}]

LEMMA RanSteps ==
    ASSUME NEW f, f = [now |-> f.now, kept |-> f.kept], NEW doc
    PROVE  /\ Ran(f, doc, 0) = f /\ Ran(f, doc, 1) = f
           /\ Ran(f, doc, 2) = f /\ Ran(f, doc, 3) = f
           /\ Ran(f, doc, 4) = Renamed(f, doc)
           /\ Ran(f, doc, 5) = File(doc)
<1> DEFINE s0 == [file |-> f, tmp |-> File(Missing)]
           s1 == [file |-> f, tmp |-> File(Torn)]
           s2 == [file |-> f, tmp |-> [now |-> doc, kept |-> {Torn, doc}]]
           s3 == [file |-> f, tmp |-> File(doc)]
           s4 == [file |-> Renamed(f, doc), tmp |-> File(doc)]
           s5 == [file |-> File(doc), tmp |-> File(doc)]
<1>1. /\ SaveSteps[1] = "create" /\ SaveSteps[2] = "write" /\ SaveSteps[3] = "sync"
      /\ SaveSteps[4] = "replace" /\ SaveSteps[5] = "syncdir"
  BY DEF SaveSteps
<1>2. Step(s0, "create", doc) = s1
  BY DEF Step
<1>3. Step(s1, "write", doc) = s2
  BY DEF Step
<1>4. Step(s2, "sync", doc) = s3
  BY DEF Step
<1>5. Step(s3, "replace", doc) = s4
  BY DEF Step, Renamed, File
<1>6. Step(s4, "syncdir", doc) = s5
  BY Zenon DEF Step, Renamed, File
<1>7. \A n : Ran(f, doc, n) = <<s0, s1, s2, s3, s4, s5>>[n + 1].file
  BY <1>1, <1>2, <1>3, <1>4, <1>5, <1>6, Zenon DEF Ran
<1>8. QED
  BY <1>7

LEMMA SaveOutcome ==
    ASSUME NEW f, f = [now |-> f.now, kept |-> f.kept], NEW doc, NEW r \in Saves(f, doc)
    PROVE  \/ r.how = "ok" /\ r.file = File(doc)
           \/ r.how = "failed" /\ r.file \in {f, Renamed(f, doc)}
           \/ r.how = "died" /\ r.file \in {f, Renamed(f, doc), File(doc)}
<1>1. Len(SaveSteps) = 5
  BY DEF SaveSteps
<1>2. \A n \in 0 .. 5 : n \in {0, 1, 2, 3, 4, 5}
  OBVIOUS
<1>3. /\ \A n \in 0 .. 4 : Ran(f, doc, n) \in {f, Renamed(f, doc)}
      /\ \A n \in 0 .. 5 : Ran(f, doc, n) \in {f, Renamed(f, doc), File(doc)}
  BY <1>2, RanSteps
<1>4. CASE r = [file |-> Ran(f, doc, 5), how |-> "ok"]
  BY <1>4, RanSteps
<1>5. CASE \E n \in 0 .. 4 : r = [file |-> Ran(f, doc, n), how |-> "failed"]
  BY <1>5, <1>3
<1>6. CASE \E n \in 0 .. 5 : r = [file |-> Ran(f, doc, n), how |-> "died"]
  BY <1>6, <1>3
<1>7. QED
  BY <1>1, <1>4, <1>5, <1>6 DEF Saves

LEMMA GoodGrows ==
    ASSUME NEW m \in Nat, NEW n \in Nat, m <= n
    PROVE  /\ \A d : Good(d, m) => Good(d, n)
           /\ Contents(m) \subseteq Contents(n)
           /\ \A f : FileOK(f, m) => FileOK(f, n)
<1>1. \A d : Good(d, m) => Good(d, n)
  BY DEF Good
<1>2. Contents(m) \subseteq Contents(n)
  BY <1>1 DEF Contents
<1>3. QED
  BY <1>1, <1>2 DEF FileOK

(* A save keeps the file whole, at whatever step it ends. *)
LEMMA FileKept ==
    ASSUME NEW m \in Nat, NEW f, FileOK(f, m), NEW doc, Good(doc, m),
           NEW g \in {f, Renamed(f, doc), File(doc)}
    PROVE  FileOK(g, m)
<1>1. doc \in Contents(m)
  BY DEF Contents, Good, IsDocument
<1>2. QED
  BY <1>1 DEF FileOK, Renamed, File

LEMMA DefaultGood == \A m : Good(NoConnections(Default), m)
<1>1. Default \in Globals
  BY StoreAssumption DEF Default
<1>2. NoConnections(Default) \in Documents /\ NoConnections(Default).conns = <<>>
  BY <1>1 DEF NoConnections, Document, Documents
<1>3. DOMAIN NoConnections(Default).conns = {}
  BY <1>2
<1>4. QED
  BY <1>2, <1>3 DEF Good, IsDocument

LEMMA LoadedGood ==
    ASSUME NEW m, NEW f, FileOK(f, m)
    PROVE  Good(Loaded(f, NoConnections(Default)), m)
BY DefaultGood DEF Loaded, FileOK, Contents

LEMMA NowOfDocument ==
    ASSUME NEW m, NEW doc, Good(doc, m), NEW f
    PROVE  Loaded(File(doc), f) = doc /\ \A q : Loaded(Renamed(q, doc), f) = doc
BY FileAssumption DEF Good, IsDocument, Loaded, File, Renamed
-----------------------------------------------------------------------------
(* Documents. *)

(* d and e have the same rows, but for what is in them. *)
SameRows(d, e) ==
    /\ DOMAIN e.conns = DOMAIN d.conns
    /\ \A n \in DOMAIN d.conns : e.conns[n].id = d.conns[n].id

LEMMA RowIs == \A d, id : Known(d, id) => /\ IndexOf(d, id) \in DOMAIN d.conns
                                          /\ d.conns[IndexOf(d, id)].id = id
BY DEF Known, IndexOf

LEMMA SameRowsGood ==
    ASSUME NEW m, NEW d, Good(d, m), NEW e \in Documents, SameRows(d, e)
    PROVE  Good(e, m)
BY DEF Good, IsDocument, SameRows

(* A row replaced by one of the same identifier. *)
LEMMA RowReplaced ==
    ASSUME NEW m, NEW d, Good(d, m), NEW row \in DOMAIN d.conns,
           NEW c \in Connections, c.id = d.conns[row].id,
           NEW e, e = [d EXCEPT !.conns[row] = c]
    PROVE  /\ Good(e, m) /\ SameRows(d, e)
           /\ e.global = d.global /\ Len(e.conns) = Len(d.conns)
           /\ e.conns[row] = c
           /\ \A n \in DOMAIN d.conns : n # row => e.conns[n] = d.conns[n]
<1>1. d = [conns |-> d.conns, global |-> d.global] /\ d.conns \in Seq(Connections) /\ d.global \in Globals
  BY DEF Good, IsDocument, Documents
<1>2. e = [conns |-> [d.conns EXCEPT ![row] = c], global |-> d.global]
  BY <1>1
<1>3. [d.conns EXCEPT ![row] = c] \in Seq(Connections) /\ Len([d.conns EXCEPT ![row] = c]) = Len(d.conns)
  BY <1>1
<1>4. e \in Documents /\ SameRows(d, e)
  BY <1>1, <1>2, <1>3 DEF Documents, SameRows
<1>5. QED
  BY <1>1, <1>2, <1>3, <1>4, SameRowsGood

LEMMA ConnectionParts ==
    \A c : c \in Connections =>
        /\ c = [id |-> c.id, fields |-> c.fields, mode |-> c.mode, pin |-> c.pin, size |-> c.size]
        /\ c.id \in Nat /\ c.fields \in Fields /\ c.mode \in Modes
        /\ c.pin \in Pins \cup {Nothing} /\ c.size \in Sizes \cup {Nothing}
BY DEF Connections

(* What a session writes: one field of one row. *)
LEMMA FieldWritten ==
    ASSUME NEW m, NEW d, Good(d, m), NEW id, Known(d, id), NEW v
    PROVE  /\ v \in Pins => /\ Good(WithField(d, id, "pin", v), m)
                            /\ \A i : Wanted(d, i) => Wanted(WithField(d, id, "pin", v), i)
           /\ v \in Sizes => /\ Good(WithField(d, id, "size", v), m)
                             /\ \A i : Wanted(d, i) => Wanted(WithField(d, id, "size", v), i)
           /\ v = "remember" => /\ Good(WithField(d, id, "mode", v), m)
                                /\ \A i : Wanted(d, i) \/ i = id => Wanted(WithField(d, id, "mode", v), i)
<1> DEFINE row == IndexOf(d, id)
           c == d.conns[row]
<1>1. row \in DOMAIN d.conns /\ c.id = id
  BY RowIs
<1>2. c \in Connections
  BY <1>1 DEF Good, IsDocument, Documents
<1> DEFINE W(x) == [d EXCEPT !.conns[row] = x]
<1>3. /\ WithField(d, id, "pin", v) = W([c EXCEPT !.pin = v])
      /\ WithField(d, id, "size", v) = W([c EXCEPT !.size = v])
      /\ WithField(d, id, "mode", v) = W([c EXCEPT !.mode = v])
  BY DEF WithField
<1> HIDE DEF c
<1>4. /\ v \in Pins => [c EXCEPT !.pin = v] \in Connections /\ [c EXCEPT !.pin = v].id = c.id
                       /\ [c EXCEPT !.pin = v].mode = c.mode
      /\ v \in Sizes => [c EXCEPT !.size = v] \in Connections /\ [c EXCEPT !.size = v].id = c.id
                       /\ [c EXCEPT !.size = v].mode = c.mode
      /\ v = "remember" => [c EXCEPT !.mode = v] \in Connections /\ [c EXCEPT !.mode = v].id = c.id
                       /\ [c EXCEPT !.mode = v].mode = "remember"
  BY <1>2 DEF Connections, Modes
<1>5. ASSUME NEW x \in Connections, x.id = c.id, x.mode \in {c.mode, "remember"}
      PROVE  /\ Good(W(x), m)
             /\ \A i : Wanted(d, i) \/ (i = id /\ x.mode = "remember") => Wanted(W(x), i)
  <2>1. /\ Good(W(x), m) /\ SameRows(d, W(x)) /\ W(x).conns[row] = x
        /\ \A n \in DOMAIN d.conns : n # row => W(x).conns[n] = d.conns[n]
    BY <1>1, <1>5, RowReplaced DEF c
  <2> HIDE DEF W
  <2>2. QED
    BY <2>1, <1>1, <1>5 DEF Wanted, SameRows, c
<1>6. QED
  BY <1>1, <1>3, <1>4, <1>5
-----------------------------------------------------------------------------
(* Saves of the window. *)

(* What the rows of doc that "from" may have had hold of what sessions     *)
(* write, they have from there.                                            *)
Derived(doc, from, m) ==
    \A k \in DOMAIN doc.conns :
        \/ doc.conns[k].id \notin 1 .. m
        \/ \E n \in DOMAIN from.conns :
               /\ from.conns[n].id = doc.conns[k].id
               /\ from.conns[n].pin = doc.conns[k].pin
               /\ from.conns[n].size = doc.conns[k].size

LEMMA SameFieldsOfOne == \A d : IsDocument(d) => SameFields(d, d)
BY DEF IsDocument, SameFields

LEMMA DerivedFields ==
    ASSUME NEW m, NEW d, Good(d, m), NEW from, Good(from, m), NEW doc, Derived(doc, from, m)
    PROVE  /\ SameFields(d, from) => SameFields(d, doc)
           /\ SameFields(doc, from)
<1>1. ASSUME SameFields(d, from), NEW n \in DOMAIN d.conns, NEW k \in DOMAIN doc.conns,
             d.conns[n].id = doc.conns[k].id
      PROVE  d.conns[n].pin = doc.conns[k].pin /\ d.conns[n].size = doc.conns[k].size
  BY <1>1 DEF SameFields, Derived, Good
<1>2. ASSUME NEW k \in DOMAIN doc.conns, NEW n \in DOMAIN from.conns,
             doc.conns[k].id = from.conns[n].id
      PROVE  doc.conns[k].pin = from.conns[n].pin /\ doc.conns[k].size = from.conns[n].size
  BY <1>2 DEF Derived, Good, IsDocument
<1>3. QED
  BY <1>1, <1>2 DEF SameFields

LEMMA Spent ==
    ASSUME LeftInv, NEW what \in {"edits", "writes"}, NEW n \in {0, 1, 2}, Spend(what, n)
    PROVE  LeftInv' /\ left'.faults = left.faults - n
BY SettingsAssumption DEF LeftInv, Spend

LEMMA ClosedOK == \A m : WindowOK(Closed, m)
<1>1. NoForm \in Forms
  BY DEF NoForm, Forms, Modes
<1>2. NoConnections(Default) \in Documents /\ Len(NoConnections(Default).conns) = 0
  BY DefaultGood DEF Good, IsDocument, NoConnections, Document
<1>3. Closed \in Windows
  BY <1>1, <1>2 DEF Closed, Windows
<1>4. QED
  BY <1>2, <1>3, DefaultGood DEF WindowOK, Closed

LEMMA WindowSavesKeeps ==
    ASSUME IInv, running, win.visible,
           NEW doc, NEW k, NEW w, NEW gone, WindowSaves(doc, k, w, gone),
           made' \in made .. MaxIds,
           Good(doc, made'), Derived(doc, win.document, made),
           w \in Windows, w.document = doc, WindowOK([w EXCEPT !.outdated = FALSE], made'),
           WindowOK(Refused, made'),
           k \subseteq 1 .. made',
           \A id \in k \ gone : \/ Wanted(doc, id)
                                \/ id \in secrets /\ ~Wanted(win.document, id)
    PROVE  IInv' /\ FieldsStay
<1>a. made \in Nat /\ made' \in Nat /\ made <= made' /\ MaxIds \in Nat /\ made' \in 1 .. MaxIds
  BY SettingsAssumption DEF IInv, IdsInv
<1>b. FileOK(file, made) /\ FileOK(file, made') /\ legacy \in Contents(made')
  BY <1>a, GoodGrows DEF IInv, StoreInv
<1>c. win \in Windows /\ Good(win.document, made) /\ Good(win.document, made')
  BY <1>a, GoodGrows DEF IInv, WindowOK
<1>d. left \in [edits : Nat, writes : Nat, faults : 0 .. Faults] /\ Faults \in Nat
  BY SettingsAssumption DEF IInv, LeftInv
<1>e. PICK r \in Saves(file, doc) :
          /\ file' = r.file
          /\ overwrote' = (overwrote \/ (win.outdated /\ file' # file))
          /\ running' = (r.how # "died")
          /\ sessions' = IF r.how = "died" THEN {} ELSE sessions
          /\ \/ /\ r.how = "ok" /\ win' = [w EXCEPT !.outdated = FALSE]
                /\ \E d \in Deleted(k, gone) : secrets' = d.secrets /\ Spend("edits", d.faults)
             \/ r.how = "failed" /\ secrets' = k /\ win' = Refused /\ Spend("edits", 1)
             \/ r.how = "died" /\ secrets' = k /\ win' = Closed /\ Spend("edits", 1)
  BY DEF WindowSaves
<1>f. UNCHANGED <<legacy, oldSecrets>>
  BY DEF WindowSaves
<1>g. \/ r.how = "ok" /\ r.file = File(doc)
      \/ r.how = "failed" /\ r.file \in {file, Renamed(file, doc)}
      \/ r.how = "died" /\ r.file \in {file, Renamed(file, doc), File(doc)}
  BY <1>b, SaveOutcome DEF FileOK
<1>h. \A d \in Deleted(k, gone) : /\ d.faults \in {0, 1} /\ d.secrets \subseteq k
                                  /\ d.faults = 0 => d.secrets \subseteq k \ gone
  BY DEF Deleted
<1>i. \A n \in {0, 1} : Spend("edits", n) => LeftInv' /\ left'.faults = left.faults - n
  BY Spent DEF IInv
<1>j. \A q : Loaded(File(doc), q) = doc
  BY NowOfDocument
<1>1. LeftInv'
  BY <1>e, <1>h, <1>i
<1>2. FileOK(file', made') /\ StoreInv'
  BY <1>a, <1>b, <1>e, <1>f, <1>g, FileKept DEF StoreInv
<1>3. secrets' \subseteq 1 .. made' /\ (r.how = "ok" \/ secrets' = k)
  BY <1>e, <1>h
<1>4. IdsInv'
  <2>1. running' \in BOOLEAN /\ overwrote' \in BOOLEAN /\ (~running' => win' = Closed /\ sessions' = {})
    BY <1>e DEF IInv, IdsInv
  <2>2. oldSecrets' \subseteq 1 .. made' /\ sessions' \subseteq 1 .. made'
    BY <1>a, <1>e, <1>f DEF IInv, IdsInv
  <2>3. QED
    BY <2>1, <2>2, <1>a, <1>3 DEF IdsInv
<1>5. WindowOK(win', made')
  BY <1>e, ClosedOK
<1>6. NoFaultYet' => NoFaultYet /\ r.how = "ok" /\ secrets' \subseteq k \ gone
  BY <1>d, <1>e, <1>h, <1>i DEF NoFaultYet
<1>7. AgreeInv'
  <2>2. CASE r.how = "ok"
    <3>1. win'.document = doc
      BY <2>2, <1>e DEF Windows
    <3>a. Document0' = doc
      BY <2>2, <1>e, <1>g, <1>j DEF Document0
    <3>2. QED
      BY <3>1, <3>a, SameFieldsOfOne DEF AgreeInv, Good
  <2>3. CASE r.how = "failed"
    <3>a. ~NoFaultYet'
      BY <2>3, <1>6
    <3>1. win'.document = win.document /\ win'.outdated = win.outdated /\ win'.visible
      BY <2>3, <1>c, <1>e DEF Refused, Windows
    <3>2. CASE file' = file
      BY <3>1, <3>2, <3>a DEF AgreeInv, IInv, Settled, Document0
    <3>3. CASE file' = Renamed(file, doc)
      <4>1. Document0' = doc
        BY <3>3, FileAssumption DEF Document0, Loaded, Renamed, Good, IsDocument
      <4>2. SameFields(doc, win.document)
        <5>1. Good(win.document, made)
          BY <1>c
        <5>2. QED
          BY <5>1, DerivedFields
      <4>3. Settled' => Settled /\ Document0 = doc
        <5>1. Settled' => file.kept = {doc} /\ file.now = doc
          BY <3>3, <1>b DEF Settled, Renamed, FileOK
        <5>2. QED
          BY <5>1, FileAssumption DEF Settled, Document0, Loaded, Good, IsDocument
      <4>4. QED
        BY <3>1, <4>1, <4>2, <4>3, <3>a DEF AgreeInv, IInv
    <3>4. QED
      BY <2>3, <3>2, <3>3, <1>e, <1>g
  <2>4. CASE r.how = "died"
    BY <2>4, <1>e DEF AgreeInv
  <2>5. QED
    BY <2>2, <2>3, <2>4, <1>g
<1>8. KeyInv'
  <2> SUFFICES ASSUME NoFaultYet', ~overwrote', NEW id \in secrets'
               PROVE  Wanted(Document0', id)
    BY DEF KeyInv, Wanted
  <2>1. NoFaultYet /\ r.how = "ok" /\ id \in k \ gone /\ ~overwrote
    BY <1>6, <1>e
  <2>2. Document0' = doc
    BY <2>1, <1>e, <1>g, <1>j DEF Document0
  <2>3. CASE id \in secrets /\ ~Wanted(win.document, id)
    <3>1. Wanted(Document0, id)
      BY <2>1, <2>3 DEF IInv, KeyInv
    <3>2. win.outdated
      BY <2>1, <2>3, <3>1 DEF IInv, AgreeInv
    <3>3. file' = file
      BY <3>2, <1>e
    <3>4. QED
      BY <2>2, <3>1, <3>3 DEF Document0
  <2>4. QED
    BY <2>1, <2>2, <2>3
<1>9. FieldsStay
  <2>1. Document0' = Document0 \/ Document0' = doc
    BY <1>e, <1>g, NowOfDocument DEF Document0
  <2>2. SameFields(Document0, Document0)
    BY LoadedGood, SameFieldsOfOne DEF IInv, StoreInv, Document0, Good
  <2>3. ~win.outdated => SameFields(Document0, win.document)
    BY DEF IInv, AgreeInv
  <2>4. Good(Document0, made)
    BY LoadedGood DEF IInv, StoreInv, Document0
  <2>5. ~win.outdated => SameFields(Document0, doc)
    BY <1>c, <2>3, <2>4, DerivedFields
  <2>6. QED
    BY <2>1, <2>2, <2>5 DEF FieldsStay
<1>10. QED
  BY <1>1, <1>2, <1>4, <1>5, <1>7, <1>8, <1>9 DEF IInv
-----------------------------------------------------------------------------
(* Steps that leave the file as it is. *)

LEMMA QuietKeeps ==
    ASSUME IInv, UNCHANGED <<file, legacy, win, running, made, overwrote>>,
           LeftInv', left'.faults <= left.faults,
           secrets' \subseteq 1 .. made, oldSecrets' \subseteq 1 .. made,
           sessions' \subseteq 1 .. made, ~running => sessions' = {},
           NoFaultYet' => \A id \in secrets' \ secrets : Wanted(Document0, id)
    PROVE  IInv' /\ FieldsStay
<1>1. NoFaultYet' => NoFaultYet
  BY SettingsAssumption DEF NoFaultYet, IInv, LeftInv
<1>2. Document0' = Document0 /\ Settled' = Settled
  BY DEF Document0, Settled
<1>3. IdsInv' /\ StoreInv' /\ WindowOK(win', made')
  BY DEF IInv, IdsInv, StoreInv
<1>4. AgreeInv'
  BY <1>1, <1>2 DEF IInv, AgreeInv
<1>5. KeyInv'
  BY <1>1, <1>2 DEF IInv, KeyInv
<1>6. FieldsStay
  <2>1. SameFields(Document0, Document0)
    BY LoadedGood, SameFieldsOfOne DEF IInv, StoreInv, Document0, Good
  <2>2. QED
    BY <1>2, <2>1 DEF FieldsStay
<1>7. QED
  BY <1>3, <1>4, <1>5, <1>6 DEF IInv

(* The window goes on with the document it has, or has loaded it anew. *)
LEMMA WindowOnlyKeeps ==
    ASSUME IInv, running, UNCHANGED <<disk, running, sessions, made, overwrote>>,
           LeftInv', left'.faults = left.faults, WindowOK(win', made),
           win'.visible => \/ win'.document = Document0
                           \/ /\ win.visible /\ win'.document = win.document
                              /\ win'.outdated = win.outdated
    PROVE  IInv' /\ FieldsStay
<1>1. NoFaultYet' = NoFaultYet /\ Document0' = Document0 /\ Settled' = Settled
  BY DEF NoFaultYet, Document0, Settled, disk
<1>2. IdsInv' /\ StoreInv' /\ WindowOK(win', made')
  BY DEF IInv, IdsInv, StoreInv, disk
<1>3. SameFields(Document0, Document0)
  BY LoadedGood, SameFieldsOfOne DEF IInv, StoreInv, Document0, Good
<1>4. AgreeInv'
  BY <1>1, <1>3 DEF IInv, AgreeInv
<1>5. KeyInv'
  BY <1>1 DEF IInv, KeyInv, disk
<1>6. FieldsStay
  BY <1>1, <1>3 DEF FieldsStay
<1>7. QED
  BY <1>2, <1>4, <1>5, <1>6 DEF IInv
-----------------------------------------------------------------------------
(* Saves of sessions. *)

LEMMA SessionSavesKeeps ==
    ASSUME IInv, NEW doc, Good(doc, made), SessionSaves(doc),
           UNCHANGED <<legacy, made, overwrote>>,
           secrets' \subseteq 1 .. made, oldSecrets' \subseteq 1 .. made,
           sessions' \subseteq 1 .. made, ~running' => sessions' = {},
           \A id : Wanted(Document0, id) => Wanted(doc, id),
           \A id \in secrets' \ secrets : Wanted(doc, id)
    PROVE  IInv' /\ FieldsStay
<1>a. FileOK(file, made) /\ made \in Nat
  BY SettingsAssumption DEF IInv, StoreInv, IdsInv
<1>b. PICK r \in Saves(file, doc) :
          /\ file' = r.file
          /\ Spend("writes", IF r.how = "ok" THEN 0 ELSE 1)
          /\ running' = (r.how # "died")
          /\ win' = IF r.how = "died" THEN Closed ELSE [win EXCEPT !.outdated = TRUE]
  BY DEF SessionSaves
<1>c. \/ r.how = "ok" /\ r.file = File(doc)
      \/ r.how = "failed" /\ r.file \in {file, Renamed(file, doc)}
      \/ r.how = "died" /\ r.file \in {file, Renamed(file, doc), File(doc)}
  BY <1>a, SaveOutcome DEF FileOK
<1>1. LeftInv' /\ left'.faults = left.faults - (IF r.how = "ok" THEN 0 ELSE 1)
  BY <1>b, Spent DEF IInv
<1>2. NoFaultYet' => NoFaultYet /\ r.how = "ok"
  BY <1>1, SettingsAssumption DEF NoFaultYet, IInv, LeftInv
<1>3. r.how = "ok" => Document0' = doc
  BY <1>b, <1>c, NowOfDocument DEF Document0, File
<1>4. StoreInv'
  BY <1>a, <1>b, <1>c, FileKept DEF IInv, StoreInv
<1>5. running' \in BOOLEAN /\ (~running' => win' = Closed)
  BY <1>b
<1>6. IdsInv'
  BY <1>5 DEF IInv, IdsInv
<1>7. WindowOK(win', made')
  <2>1. win \in Windows /\ WindowOK(win, made)
    BY DEF IInv, WindowOK
  <2>2. WindowOK([win EXCEPT !.outdated = TRUE], made)
    BY <2>1 DEF WindowOK, Windows
  <2>3. QED
    BY <1>b, <2>2, ClosedOK
<1>8. AgreeInv'
  <2>1. running' => win'.outdated
    BY <1>b DEF IInv, WindowOK, Windows
  <2>2. QED
    BY <2>1 DEF AgreeInv
<1>9. KeyInv'
  BY <1>2, <1>3 DEF IInv, KeyInv
<1>10. FieldsStay
  BY <1>b DEF FieldsStay, IInv, WindowOK, Windows
<1>11. QED
  BY <1>1, <1>4, <1>6, <1>7, <1>8, <1>9, <1>10 DEF IInv
-----------------------------------------------------------------------------
(* What sessions do. *)

LEMMA DiskGood == ASSUME IInv PROVE Good(Document0, made)
BY LoadedGood DEF IInv, StoreInv, Document0

LEMMA CertTrustedKeeps ==
    ASSUME IInv, NEW id, NEW pin \in Pins, CertTrusted(id, pin)
    PROVE  IInv' /\ FieldsStay
<1> DEFINE doc == WithField(Document0, id, "pin", pin)
<1>1. Good(doc, made) /\ \A i : Wanted(Document0, i) => Wanted(doc, i)
  BY DiskGood, FieldWritten DEF CertTrusted
<1>2. /\ SessionSaves(doc) /\ UNCHANGED <<legacy, secrets, oldSecrets, made, overwrote>>
      /\ sessions' = IF running' THEN sessions ELSE {}
  BY DEF CertTrusted
<1>3. /\ secrets \subseteq 1 .. made /\ oldSecrets \subseteq 1 .. made
      /\ sessions \subseteq 1 .. made
  BY DEF IInv, IdsInv
<1> HIDE DEF doc
<1>4. QED
  BY <1>1, <1>2, <1>3, SessionSavesKeeps

LEMMA SessionClosesKeeps ==
    ASSUME IInv, NEW id, SessionCloses(id)
    PROVE  IInv' /\ FieldsStay
<1>1. /\ running /\ UNCHANGED <<legacy, secrets, oldSecrets, made, overwrote>>
      /\ sessions' = IF running' THEN sessions \ {id} ELSE {}
  BY DEF SessionCloses, SessionMayRun
<1>2. /\ secrets \subseteq 1 .. made /\ oldSecrets \subseteq 1 .. made
      /\ sessions \subseteq 1 .. made
  BY DEF IInv, IdsInv
<1>3. ASSUME NEW size \in Sizes, Known(Document0, id),
             SessionSaves(WithField(Document0, id, "size", size))
      PROVE  IInv' /\ FieldsStay
  <2> DEFINE doc == WithField(Document0, id, "size", size)
  <2>1. Good(doc, made) /\ \A i : Wanted(Document0, i) => Wanted(doc, i)
    BY <1>3, DiskGood, FieldWritten
  <2>2. SessionSaves(doc)
    BY <1>3
  <2> HIDE DEF doc
  <2>3. QED
    BY <1>1, <1>2, <2>1, <2>2, SessionSavesKeeps
<1>4. ASSUME UNCHANGED <<file, running, win, left>>
      PROVE  IInv' /\ FieldsStay
  <2>1. LeftInv' /\ left'.faults <= left.faults
    BY <1>4, SettingsAssumption DEF IInv, LeftInv
  <2>2. QED
    BY <1>1, <1>2, <1>4, <2>1, QuietKeeps
<1>5. QED
  BY <1>3, <1>4 DEF SessionCloses

LEMMA StoredKeys ==
    ASSUME NEW k, NEW id, NEW s \in Stored(k, id)
    PROVE  /\ s.secrets \subseteq k \cup {id} /\ s.faults \in {0, 1}
           /\ (s.ok => s.faults = 0) /\ (~s.ok => s.faults = 1)
           /\ s.ok => s.secrets = k \cup {id}
           /\ ~s.ok => s.secrets \subseteq k
<1>1. \/ s = [secrets |-> k \cup {id}, ok |-> TRUE, faults |-> 0]
      \/ s = [secrets |-> k, ok |-> FALSE, faults |-> 1]
      \/ s = [secrets |-> k \ {id}, ok |-> FALSE, faults |-> 1]
  BY Zenon DEF Stored
<1>2. s.faults \in {0, 1} /\ (s.ok => s.faults = 0) /\ (~s.ok => s.faults = 1)
  BY <1>1
<1>3. s.secrets = k \cup {id} \/ s.secrets = k \/ s.secrets = k \ {id}
  BY <1>1
<1>4. s.ok => s.secrets = k \cup {id}
  BY <1>1
<1>5. ~s.ok => s.secrets = k \/ s.secrets = k \ {id}
  BY <1>1
<1>6. QED
  BY <1>2, <1>3, <1>4, <1>5

LEMMA OpenSessionKeeps ==
    ASSUME IInv, NEW id \in 1 .. made, OpenSession(id)
    PROVE  IInv' /\ FieldsStay
<1> DEFINE mode == Document0.conns[IndexOf(Document0, id)].mode
<1>a. /\ running /\ Known(Document0, id) /\ UNCHANGED <<legacy, made, overwrote>>
      /\ sessions' = IF running' THEN sessions \cup {id} ELSE {}
  BY DEF OpenSession, SessionMayRun
<1>b. /\ secrets \subseteq 1 .. made /\ oldSecrets \subseteq 1 .. made
      /\ sessions \subseteq 1 .. made /\ sessions' \subseteq 1 .. made
      /\ running \in BOOLEAN
  BY <1>a DEF IInv, IdsInv
<1>c. mode = "remember" => Wanted(Document0, id)
  BY <1>a, RowIs DEF Wanted
<1>d. ASSUME NEW n \in {0, 1, 2}, Spend("writes", n)
      PROVE  /\ LeftInv' /\ left'.faults = left.faults - n /\ left'.faults <= left.faults
             /\ NoFaultYet' => n = 0
  <2>1. LeftInv' /\ left'.faults = left.faults - n
    BY <1>d, Spent DEF IInv
  <2>2. QED
    BY <2>1, SettingsAssumption DEF IInv, LeftInv, NoFaultYet
<1>1. ASSUME UNCHANGED <<file, secrets, oldSecrets, running, win, left>>
      PROVE  IInv' /\ FieldsStay
  <2>1. LeftInv' /\ left'.faults <= left.faults
    BY <1>1, SettingsAssumption DEF IInv, LeftInv
  <2>2. QED
    BY <1>1, <1>a, <1>b, <2>1, QuietKeeps
<1>2. ASSUME mode = "remember", OpenRemembered(id)
      PROVE  IInv' /\ FieldsStay
  <2>1. PICK s \in Stored(secrets \cup {id}, id) : secrets' = s.secrets /\ Spend("writes", s.faults)
    BY <1>2 DEF OpenRemembered
  <2>2. /\ secrets' \subseteq secrets \cup {id} /\ s.faults \in {0, 1}
    BY <2>1, StoredKeys
  <2>3. LeftInv' /\ left'.faults <= left.faults
    BY <1>d, <2>1, <2>2
  <2>4. oldSecrets' \subseteq 1 .. made /\ UNCHANGED <<file, running, win>>
    BY <1>2, <1>b DEF OpenRemembered
  <2>5. secrets' \subseteq 1 .. made
    BY <1>b, <2>2
  <2>6. \A i \in secrets' \ secrets : Wanted(Document0, i)
    BY <1>2, <1>c, <2>2
  <2> HIDE DEF mode
  <2>7. QED
    BY <1>a, <1>b, <2>3, <2>4, <2>5, <2>6, QuietKeeps
<1>3. ASSUME NEW unread \in {0, 1}, NEW save \in BOOLEAN, OpenPrompted(id, mode, unread, save)
      PROVE  IInv' /\ FieldsStay
  <2>1. oldSecrets' = oldSecrets
    BY <1>3 DEF OpenPrompted
  <2>2. CASE ~save
    <3>1. UNCHANGED <<file, secrets, running, win>> /\ Spend("writes", unread)
      BY <1>3, <2>2 DEF OpenPrompted
    <3>2. LeftInv' /\ left'.faults <= left.faults
      BY <1>d, <3>1
    <3>3. QED
      BY <1>a, <1>b, <2>1, <3>1, <3>2, QuietKeeps
  <2>3. CASE save
    <3>1. PICK s \in Stored(secrets, id) :
              /\ secrets' = s.secrets
              /\ IF s.ok /\ mode # "remember"
                 THEN SessionSaves(WithField(Document0, id, "mode", "remember"))
                 ELSE UNCHANGED <<file, running, win>> /\ Spend("writes", unread + s.faults)
      BY <1>3, <2>3 DEF OpenPrompted
    <3>2. /\ s.faults \in {0, 1} /\ (~s.ok => s.faults = 1)
          /\ secrets' \subseteq secrets \cup {id} /\ (~s.ok => secrets' \subseteq secrets)
      BY <3>1, StoredKeys
    <3>3. secrets' \subseteq 1 .. made /\ oldSecrets' \subseteq 1 .. made
      BY <1>b, <2>1, <3>2
    <3>4. CASE s.ok /\ mode # "remember"
      <4> DEFINE doc == WithField(Document0, id, "mode", "remember")
      <4>1. /\ Good(doc, made)
            /\ \A i : Wanted(Document0, i) \/ i = id => Wanted(doc, i)
        BY <1>a, DiskGood, FieldWritten
      <4>2. SessionSaves(doc)
        BY <3>1, <3>4
      <4> HIDE DEF doc
      <4>3. \A i \in secrets' \ secrets : Wanted(doc, i)
        BY <3>2, <4>1
      <4>4. QED
        BY <1>a, <1>b, <3>3, <4>1, <4>2, <4>3, SessionSavesKeeps
    <3>5. CASE ~(s.ok /\ mode # "remember")
      <4>1. UNCHANGED <<file, running, win>> /\ Spend("writes", unread + s.faults)
        BY <3>1, <3>5
      <4>a. unread + s.faults \in {0, 1, 2} /\ (unread + s.faults = 0 => s.ok)
        BY <3>2
      <4>2. LeftInv' /\ left'.faults <= left.faults /\ (NoFaultYet' => s.ok)
        BY <1>d, <4>1, <4>a
      <4>3. NoFaultYet' => \A i \in secrets' \ secrets : Wanted(Document0, i)
        BY <1>c, <3>2, <3>5, <4>2
      <4> HIDE DEF mode
      <4>4. QED
        BY <1>a, <1>b, <3>3, <4>1, <4>2, <4>3, QuietKeeps
    <3>6. QED
      BY <3>4, <3>5
  <2>4. QED
    BY <2>2, <2>3
<1>4. QED
  BY <1>1, <1>2, <1>3 DEF OpenSession
-----------------------------------------------------------------------------
(* The app starts and ends. *)

LEMMA LaunchKeeps == ASSUME IInv, Launch PROVE IInv' /\ FieldsStay
<1>a. /\ ~running /\ running' = TRUE /\ win = Closed /\ sessions = {}
      /\ UNCHANGED <<secrets, oldSecrets, sessions, win, made, left, overwrote>>
  BY DEF Launch, IInv, IdsInv
<1>b. FileOK(file, made) /\ legacy \in Contents(made)
  BY DEF IInv, StoreInv
<1>1. StoreInv'
  <2>1. FileOK(file', made)
    BY <1>b DEF Launch, FileOK, Contents
  <2>2. legacy' \in Contents(made)
    BY <1>b DEF Launch
  <2>3. QED
    BY <1>a, <2>1, <2>2 DEF StoreInv
<1>2. LeftInv' /\ IdsInv'
  BY <1>a DEF IInv, LeftInv, IdsInv
<1>3. WindowOK(win', made')
  BY <1>a, ClosedOK
<1>4. AgreeInv'
  <2>1. ~win'.visible
    BY <1>a DEF Closed
  <2>2. QED
    BY <2>1 DEF AgreeInv
<1>5. KeyInv'
  <2>1. CASE file.now = Missing
    <3>1. Document0 = NoConnections(Default)
      BY <2>1 DEF Document0, Loaded
    <3>2. \A id : ~Wanted(Document0, id)
      BY <3>1 DEF Wanted, NoConnections, Document
    <3>3. QED
      BY <1>a, <3>2 DEF IInv, KeyInv, NoFaultYet
  <2>2. CASE file.now # Missing
    <3>1. file' = file
      BY <2>2 DEF Launch
    <3>2. QED
      BY <1>a, <3>1 DEF IInv, KeyInv, NoFaultYet, Document0, Wanted
  <2>3. QED
    BY <2>1, <2>2
<1>6. QED
  BY <1>a, <1>1, <1>2, <1>3, <1>4, <1>5 DEF IInv, FieldsStay

LEMMA ExitKeeps == ASSUME IInv, Exit PROVE IInv' /\ FieldsStay
<1>a. /\ running' = FALSE /\ win' = Closed /\ sessions' = {}
      /\ UNCHANGED <<file, legacy, secrets, oldSecrets, made, left, overwrote>>
  BY DEF Exit, disk
<1>1. LeftInv' /\ IdsInv' /\ StoreInv'
  BY <1>a DEF IInv, LeftInv, IdsInv, StoreInv
<1>2. WindowOK(win', made')
  BY <1>a, ClosedOK
<1>3. AgreeInv'
  BY <1>a DEF AgreeInv
<1>4. KeyInv'
  BY <1>a DEF IInv, KeyInv, NoFaultYet, Document0, Wanted
<1>5. QED
  BY <1>a, <1>1, <1>2, <1>3, <1>4 DEF IInv, FieldsStay

LEMMA PowerCutKeeps == ASSUME IInv, PowerCut PROVE IInv' /\ FieldsStay
<1>a. /\ running' = FALSE /\ win' = Closed /\ sessions' = {}
      /\ UNCHANGED <<legacy, secrets, oldSecrets, made, overwrote>>
      /\ left.faults > 0 /\ left' = [left EXCEPT !.faults = @ - 1]
  BY DEF PowerCut
<1>b. PICK c \in file.kept : file' = File(c)
  BY DEF PowerCut
<1>1. LeftInv' /\ ~NoFaultYet'
  BY <1>a, SettingsAssumption DEF IInv, LeftInv, NoFaultYet
<1>2. IdsInv'
  BY <1>a DEF IInv, IdsInv
<1>3. StoreInv'
  BY <1>a, <1>b DEF IInv, StoreInv, FileOK, File
<1>4. WindowOK(win', made')
  BY <1>a, ClosedOK
<1>5. AgreeInv' /\ KeyInv'
  BY <1>a, <1>1 DEF AgreeInv, KeyInv
<1>6. QED
  BY <1>a, <1>1, <1>2, <1>3, <1>4, <1>5 DEF IInv, FieldsStay
-----------------------------------------------------------------------------
(* The window, as long as it saves nothing. *)

LEMMA FormOfRow ==
    ASSUME NEW m, NEW d, Good(d, m), NEW row \in 0 .. Len(d.conns)
    PROVE  FormOf(d, row) \in Forms /\ (row > 0 => Shows(FormOf(d, row), d, row))
<1>1. CASE row = 0
  BY <1>1 DEF FormOf, NoForm, Forms, Modes
<1>2. CASE row # 0
  <2>1. row \in DOMAIN d.conns /\ d.conns[row] \in Connections
    BY <1>2 DEF Good, IsDocument, Documents
  <2>2. d.conns[row].fields \in Fields /\ d.conns[row].mode \in Modes
    BY <2>1, ConnectionParts
  <2>3. QED
    BY <1>2, <2>2 DEF FormOf, Forms, Shows
<1>3. QED
  BY <1>1, <1>2

LEMMA PopulateOK ==
    ASSUME NEW m, NEW w \in Windows, Good(w.document, m), w.doing = "idle",
           NEW row \in 0 .. Len(w.document.conns)
    PROVE  /\ Populate(w, row) \in Windows /\ WindowOK(Populate(w, row), m)
           /\ Populate(w, row).document = w.document
           /\ Populate(w, row).visible = w.visible
           /\ Populate(w, row).outdated = w.outdated
<1> DEFINE form == FormOf(w.document, row)
<1>1. form \in Forms /\ row \in Nat /\ (row > 0 => Shows(form, w.document, row))
  BY FormOfRow
<1> HIDE DEF form
<1>2. Populate(w, row) =
          [w EXCEPT !.selected = row, !.dirty = FALSE, !.form = form, !.kept = FALSE]
  BY DEF Populate, form
<1>3. /\ Populate(w, row) \in Windows
      /\ Populate(w, row).document = w.document
      /\ Populate(w, row).visible = w.visible
      /\ Populate(w, row).outdated = w.outdated
      /\ Populate(w, row).selected = row
      /\ Populate(w, row).doing = "idle"
      /\ Populate(w, row).dirty = FALSE
      /\ Populate(w, row).form = form
  BY <1>1, <1>2 DEF Windows
<1>4. QED
  BY <1>1, <1>3 DEF WindowOK

LEMMA ShowKeeps == ASSUME IInv, Show PROVE IInv' /\ FieldsStay
<1> DEFINE opened == [Closed EXCEPT !.visible = TRUE, !.document = Document0]
           row == IF Document0.conns = <<>> THEN 0 ELSE 1
<1>a. /\ running /\ win' = Populate(opened, row)
      /\ Spend("edits", 0) /\ UNCHANGED <<disk, running, sessions, made, overwrote>>
  BY DEF Show, OnlyWindow
<1>1. Good(Document0, made)
  BY DiskGood
<1>2. row \in 0 .. Len(Document0.conns)
  BY <1>1 DEF Good, IsDocument, Documents
<1>3. /\ opened \in Windows /\ opened.document = Document0 /\ opened.doing = "idle"
  <2>1. Closed \in Windows /\ Closed.doing = "idle"
    BY ClosedOK DEF WindowOK, Closed
  <2>2. Document0 \in Documents
    BY <1>1 DEF Good, IsDocument
  <2>3. QED
    BY <2>1, <2>2 DEF Windows
<1> HIDE DEF opened, row
<1>4. WindowOK(win', made) /\ win'.document = Document0
  BY <1>a, <1>1, <1>2, <1>3, PopulateOK
<1>5. LeftInv' /\ left'.faults = left.faults
  <2>1. LeftInv' /\ left'.faults = left.faults - 0
    BY <1>a, Spent DEF IInv
  <2>2. QED
    BY <2>1 DEF IInv, LeftInv
<1>6. QED
  BY <1>a, <1>4, <1>5, WindowOnlyKeeps

LEMMA TypeKeeps == ASSUME IInv, NEW form \in Forms, Type(form) PROVE IInv' /\ FieldsStay
<1>a. /\ running /\ win.visible /\ win.doing = "idle" /\ win.selected > 0
      /\ win' = [win EXCEPT !.form = form, !.dirty = TRUE]
      /\ Spend("edits", 0) /\ UNCHANGED <<disk, running, sessions, made, overwrote>>
  BY DEF Type, Idle, OnlyWindow
<1>1. win \in Windows
  BY DEF IInv, WindowOK
<1>2. WindowOK(win', made) /\ win'.document = win.document /\ win'.outdated = win.outdated
  BY <1>a, <1>1 DEF IInv, WindowOK, Windows
<1>3. LeftInv' /\ left'.faults = left.faults
  <2>1. LeftInv' /\ left'.faults = left.faults - 0
    BY <1>a, Spent DEF IInv
  <2>2. QED
    BY <2>1 DEF IInv, LeftInv
<1>4. QED
  BY <1>a, <1>2, <1>3, WindowOnlyKeeps

LEMMA RevertKeeps == ASSUME IInv, Revert PROVE IInv' /\ FieldsStay
<1>a. /\ running /\ win.visible /\ win.doing = "idle"
      /\ win' = Populate(win, win.selected)
      /\ UNCHANGED <<disk, running, sessions, made, overwrote, left>>
  BY DEF Revert, Idle, OnlyWindow
<1>1. win \in Windows /\ Good(win.document, made) /\ win.selected \in 0 .. Len(win.document.conns)
  BY DEF IInv, WindowOK
<1>2. WindowOK(win', made) /\ win'.document = win.document /\ win'.outdated = win.outdated
  BY <1>a, <1>1, PopulateOK
<1>3. LeftInv'
  BY <1>a DEF IInv, LeftInv
<1>4. QED
  BY <1>a, <1>2, <1>3, WindowOnlyKeeps

LEMMA CloseKeeps == ASSUME IInv, Close PROVE IInv' /\ FieldsStay
<1>a. /\ win.doing = "close" /\ win' = [win EXCEPT !.visible = FALSE, !.doing = "idle"]
      /\ UNCHANGED <<disk, running, sessions, made, overwrote, left>>
  BY DEF Close, OnlyWindow
<1>1. win \in Windows /\ running
  BY <1>a DEF IInv, WindowOK, IdsInv, Closed
<1>2. WindowOK(win', made) /\ ~win'.visible
  BY <1>a, <1>1 DEF IInv, WindowOK, Windows
<1>3. LeftInv'
  BY <1>a DEF IInv, LeftInv
<1>4. QED
  BY <1>a, <1>1, <1>2, <1>3, WindowOnlyKeeps
-----------------------------------------------------------------------------
(* The window saves. *)

(* A refused save leaves the window with what it had. *)
LEMMA RefusedOK ==
    ASSUME IInv, NEW m \in Nat, made <= m
    PROVE  /\ WindowOK(Refused, m) /\ Refused \in Windows
           /\ Refused.document = win.document
<1>1. win \in Windows /\ made \in Nat /\ Good(win.document, made)
  BY SettingsAssumption DEF IInv, WindowOK, IdsInv
<1>2. Good(win.document, m)
  BY <1>1, GoodGrows
<1>3. /\ Refused \in Windows /\ Refused.document = win.document
      /\ Refused.selected = win.selected /\ Refused.form = win.form
      /\ Refused.visible = win.visible /\ Refused.dirty = win.dirty
      /\ Refused.kept = win.kept /\ Refused.doing = "idle"
  BY <1>1 DEF Refused, Windows
<1>4. QED
  BY <1>2, <1>3 DEF IInv, WindowOK

LEMMA NotOutdated ==
    ASSUME NEW m, NEW w \in Windows, WindowOK(w, m)
    PROVE  WindowOK([w EXCEPT !.outdated = FALSE], m)
BY DEF WindowOK, Windows

(* What the form makes of the document of the window. *)
LEMMA CommittedIs ==
    ASSUME IInv, win.dirty, win.form.fields # Bad
    PROVE  LET row == win.selected
               doc == Committed.document
               id == win.document.conns[row].id
           IN /\ Committed \in Windows
              /\ row \in DOMAIN win.document.conns /\ Len(doc.conns) = Len(win.document.conns)
              /\ Good(doc, made) /\ Derived(doc, win.document, made)
              /\ Committed.visible = win.visible /\ Committed.selected = row
              /\ Committed.doing = win.doing
              /\ Shows(Committed.form, doc, row)
              /\ id \in 1 .. made
              /\ \A i : Wanted(win.document, i) /\ i # id => Wanted(doc, i)
              /\ win.form.mode = "remember" => Wanted(doc, id)
<1> DEFINE row == win.selected
           old == win.document
           c == old.conns[row]
           new == Edited(c, win.form)
           doc == [old EXCEPT !.conns[row] = new]
           form == [win.form EXCEPT !.password = FALSE]
<1>1. win \in Windows /\ Good(old, made) /\ row \in DOMAIN old.conns
  BY DEF IInv, WindowOK, Good, IsDocument, Documents
<1>2. c \in Connections /\ c.id \in 1 .. made
  BY <1>1 DEF Good, IsDocument, Documents
<1>3. win.form \in Forms /\ win.form.fields \in Fields /\ win.form.mode \in Modes
  BY <1>1 DEF Windows, Forms
<1>4. /\ new \in Connections /\ new.id = c.id /\ new.pin = c.pin /\ new.size = c.size
      /\ new.fields = Cleaned[win.form.mode][win.form.fields] /\ new.mode = win.form.mode
  <2>1. Cleaned[win.form.mode][win.form.fields] \in Fields
    BY <1>3, FormAssumption
  <2>2. QED
    BY <1>2, <1>3, <2>1, ConnectionParts DEF Edited, Connections
<1>5. Committed = [win EXCEPT !.document = doc, !.form = form]
  BY <1>1, Zenon DEF Committed, Windows
<1> HIDE DEF new
<1>6. /\ Good(doc, made) /\ SameRows(old, doc) /\ Len(doc.conns) = Len(old.conns)
      /\ doc.conns[row] = new
      /\ \A n \in DOMAIN old.conns : n # row => doc.conns[n] = old.conns[n]
  BY <1>1, <1>4, RowReplaced
<1> HIDE DEF doc
<1>7. form \in Forms /\ form.fields = win.form.fields /\ form.mode = win.form.mode
      /\ form.password = FALSE
  BY <1>3 DEF Forms
<1>8. form = [fields |-> win.form.fields, mode |-> win.form.mode, password |-> FALSE]
  <2>1. \A f \in Forms : f = [fields |-> f.fields, mode |-> f.mode, password |-> f.password]
    BY DEF Forms
  <2>2. form = [fields |-> form.fields, mode |-> form.mode, password |-> form.password]
    BY <1>7, <2>1
  <2>3. QED
    BY <1>7, <2>2
<1> HIDE DEF form
<1>9. /\ Committed \in Windows /\ Committed.document = doc /\ Committed.form = form
      /\ Committed.visible = win.visible /\ Committed.selected = row
      /\ Committed.doing = win.doing
  <2>1. doc \in Documents
    BY <1>6 DEF Good, IsDocument
  <2>2. QED
    BY <1>1, <1>5, <1>7, <2>1 DEF Windows
<1>10. Shows(form, doc, row)
  <2>1. row # 0
    BY DEF IInv, WindowOK
  <2>2. FormOf(doc, row).fields = new.fields /\ FormOf(doc, row).mode = new.mode
    BY <2>1, <1>6 DEF FormOf
  <2>3. Cleaned[form.mode][form.fields] = Cleaned[form.mode][new.fields]
    BY <1>3, <1>4, <1>7, FormAssumption
  <2>4. Edited(doc.conns[row], form) = Edited(doc.conns[row], FormOf(doc, row))
    BY <2>2, <2>3, <1>4, <1>7 DEF Edited
  <2>5. QED
    BY <2>4, <1>3, <1>7 DEF Shows
<1>11. Derived(doc, old, made)
  BY <1>4, <1>6 DEF Derived, SameRows
<1>12. \A i : Wanted(old, i) /\ i # c.id => Wanted(doc, i)
  BY <1>1, <1>6 DEF Wanted, SameRows
<1>13. win.form.mode = "remember" => Wanted(doc, c.id)
  BY <1>1, <1>4, <1>6 DEF Wanted, SameRows
<1>14. QED
  BY <1>1, <1>2, <1>6, <1>9, <1>10, <1>11, <1>12, <1>13

LEMMA CommitKeeps ==
    ASSUME IInv, running, win.visible, win.dirty, win.form.fields # Bad,
           NEW w \in Windows, Commit(w),
           w.document = Committed.document, WindowOK(w, made)
    PROVE  IInv' /\ FieldsStay
<1> DEFINE id == win.document.conns[win.selected].id
           doc == Committed.document
           gone == IF win.form.mode = "remember" THEN {} ELSE {id}
<1>a. made' = made /\ made \in 1 .. MaxIds /\ made \in Nat /\ made' \in made .. MaxIds
  BY SettingsAssumption DEF Commit, IInv, IdsInv
<1>b. /\ Good(doc, made) /\ Derived(doc, win.document, made)
      /\ id \in 1 .. made
      /\ \A i : Wanted(win.document, i) /\ i # id => Wanted(doc, i)
      /\ win.form.mode = "remember" => Wanted(doc, id)
  BY CommittedIs
<1>c. WindowOK([w EXCEPT !.outdated = FALSE], made') /\ WindowOK(Refused, made')
  BY <1>a, NotOutdated, RefusedOK
<1>d. /\ secrets \subseteq 1 .. made /\ oldSecrets \subseteq 1 .. made
      /\ sessions \subseteq 1 .. made
  BY DEF IInv, IdsInv
<1>e. \/ WindowSaves(doc, secrets, w, gone)
      \/ \E s \in Stored(secrets, id) :
             \/ s.ok /\ WindowSaves(doc, s.secrets, w, gone)
             \/ /\ ~s.ok /\ secrets' = s.secrets /\ Spend("edits", 1)
                /\ UNCHANGED <<file, legacy, oldSecrets, running, sessions, win, overwrote>>
  BY DEF Commit
<1>1. ASSUME NEW k, k \subseteq secrets \cup {id}, WindowSaves(doc, k, w, gone)
      PROVE  IInv' /\ FieldsStay
  <2>1. k \subseteq 1 .. made'
    BY <1>1, <1>a, <1>b, <1>d
  <2>2. ASSUME NEW i \in k \ gone
        PROVE  Wanted(doc, i) \/ (i \in secrets /\ ~Wanted(win.document, i))
    BY <1>1, <1>b, <2>2
  <2>3. Good(doc, made')
    BY <1>a, <1>b
  <2> HIDE DEF doc, gone
  <2>4. w.document = doc
    BY DEF doc
  <2>5. QED
    BY <1>1, <1>a, <1>b, <1>c, <2>1, <2>2, <2>3, <2>4, WindowSavesKeeps
<1>2. CASE WindowSaves(doc, secrets, w, gone)
  BY <1>1, <1>2
<1>3. CASE \E s \in Stored(secrets, id) : s.ok /\ WindowSaves(doc, s.secrets, w, gone)
  BY <1>1, <1>3, StoredKeys
<1>4. ASSUME NEW s \in Stored(secrets, id), ~s.ok, secrets' = s.secrets, Spend("edits", 1),
             UNCHANGED <<file, legacy, oldSecrets, running, sessions, win, overwrote>>
      PROVE  IInv' /\ FieldsStay
  <2>1. secrets' \subseteq secrets
    BY <1>4, StoredKeys
  <2>2. LeftInv' /\ left'.faults <= left.faults
    <3>1. LeftInv' /\ left'.faults = left.faults - 1
      BY <1>4, Spent DEF IInv
    <3>2. QED
      BY <3>1, SettingsAssumption DEF IInv, LeftInv
  <2>3. secrets' \subseteq 1 .. made /\ secrets' \ secrets = {}
    BY <2>1, <1>d
  <2>4. QED
    BY <1>4, <1>a, <1>d, <2>2, <2>3, QuietKeeps
<1>5. QED
  BY <1>e, <1>2, <1>3, <1>4

LEMMA SaveKeeps == ASSUME IInv, Save PROVE IInv' /\ FieldsStay
<1> DEFINE w == [Committed EXCEPT !.dirty = FALSE]
<1>a. /\ running /\ win.visible /\ win.doing = "idle" /\ win.dirty /\ win.form.fields # Bad
      /\ Commit(w)
  BY DEF Save, Idle, Commit
<1>b. /\ Committed \in Windows /\ Good(Committed.document, made)
      /\ Committed.selected = win.selected /\ Committed.doing = win.doing
      /\ Shows(Committed.form, Committed.document, win.selected)
      /\ Len(Committed.document.conns) = Len(win.document.conns)
  BY <1>a, CommittedIs
<1>c. win.selected \in 0 .. Len(win.document.conns)
  BY DEF IInv, WindowOK
<1>1. /\ w \in Windows /\ w.document = Committed.document
      /\ w.selected = Committed.selected /\ w.doing = Committed.doing
      /\ w.form = Committed.form /\ w.dirty = FALSE
  BY <1>b DEF Windows
<1> HIDE DEF w
<1>2. WindowOK(w, made)
  BY <1>a, <1>b, <1>c, <1>1 DEF WindowOK
<1>3. QED
  BY <1>a, <1>1, <1>2, CommitKeeps

LEMMA SelectKeeps == ASSUME IInv, NEW row, Select(row) PROVE IInv' /\ FieldsStay
<1>a. /\ running /\ win.visible /\ win.doing = "idle" /\ row \in 0 .. Len(win.document.conns)
      /\ \/ /\ win' = Populate(win, row) /\ Spend("edits", 0)
            /\ UNCHANGED <<disk, running, sessions, made, overwrote>>
         \/ win.dirty /\ Commit(Populate(Committed, row))
  BY DEF Select, Idle, OnlyWindow
<1>b. win \in Windows /\ Good(win.document, made) /\ row \in 0 .. Len(win.document.conns)
  BY <1>a DEF IInv, WindowOK, Good, IsDocument, Documents
<1>1. CASE /\ win' = Populate(win, row) /\ Spend("edits", 0)
           /\ UNCHANGED <<disk, running, sessions, made, overwrote>>
  <2>1. WindowOK(win', made) /\ win'.document = win.document /\ win'.outdated = win.outdated
    BY <1>a, <1>b, <1>1, PopulateOK
  <2>2. LeftInv' /\ left'.faults = left.faults
    <3>1. LeftInv' /\ left'.faults = left.faults - 0
      BY <1>1, Spent DEF IInv
    <3>2. QED
      BY <3>1 DEF IInv, LeftInv
  <2>3. QED
    BY <1>a, <1>1, <2>1, <2>2, WindowOnlyKeeps
<1>2. CASE win.dirty /\ Commit(Populate(Committed, row))
  <2> DEFINE w == Populate(Committed, row)
  <2>1. win.form.fields # Bad /\ Commit(w)
    BY <1>2 DEF Commit
  <2>2. /\ Committed \in Windows /\ Good(Committed.document, made)
        /\ Committed.doing = "idle"
        /\ Len(Committed.document.conns) = Len(win.document.conns)
    BY <1>a, <1>2, <2>1, CommittedIs
  <2>3. w \in Windows /\ WindowOK(w, made) /\ w.document = Committed.document
    BY <1>b, <2>2, PopulateOK
  <2> HIDE DEF w
  <2>4. QED
    BY <1>a, <1>2, <2>1, <2>3, CommitKeeps
<1>3. QED
  BY <1>a, <1>1, <1>2

LEMMA AskKeeps == ASSUME IInv, NEW op \in {"add", "remove", "close"}, Ask(op) PROVE IInv' /\ FieldsStay
<1>a. /\ running /\ win.visible /\ win.doing = "idle"
      /\ op = "add" => made < MaxIds
      /\ op = "remove" => win.selected > 0
  BY DEF Ask, Idle
<1>b. win \in Windows /\ win.selected \in 0 .. Len(win.document.conns)
  BY DEF IInv, WindowOK
<1>1. ASSUME ~win.dirty, win' = [win EXCEPT !.doing = op],
             UNCHANGED <<disk, running, sessions, made, overwrote, left>>
      PROVE  IInv' /\ FieldsStay
  <2>1. WindowOK(win', made) /\ win'.document = win.document /\ win'.outdated = win.outdated
    BY <1>1, <1>a, <1>b DEF IInv, WindowOK, Windows
  <2>2. LeftInv' /\ left'.faults = left.faults
    BY <1>1 DEF IInv, LeftInv
  <2>3. QED
    BY <1>a, <1>1, <2>1, <2>2, WindowOnlyKeeps
<1>2. ASSUME win' = [win EXCEPT !.dirty = FALSE, !.doing = op, !.kept = TRUE],
             UNCHANGED <<disk, running, sessions, made, overwrote, left>>
      PROVE  IInv' /\ FieldsStay
  <2>1. WindowOK(win', made) /\ win'.document = win.document /\ win'.outdated = win.outdated
    BY <1>2, <1>a, <1>b DEF IInv, WindowOK, Windows
  <2>2. LeftInv' /\ left'.faults = left.faults
    BY <1>2 DEF IInv, LeftInv
  <2>3. QED
    BY <1>a, <1>2, <2>1, <2>2, WindowOnlyKeeps
<1>3. ASSUME win.dirty, Commit([Committed EXCEPT !.dirty = FALSE, !.doing = op])
      PROVE  IInv' /\ FieldsStay
  <2> DEFINE w == [Committed EXCEPT !.dirty = FALSE, !.doing = op]
  <2>1. win.form.fields # Bad /\ Commit(w)
    BY <1>3 DEF Commit
  <2>2. /\ Committed \in Windows /\ Good(Committed.document, made)
        /\ Committed.visible = win.visible /\ Committed.selected = win.selected
        /\ Shows(Committed.form, Committed.document, win.selected)
        /\ Len(Committed.document.conns) = Len(win.document.conns)
    BY <1>3, <2>1, CommittedIs
  <2>3. /\ w \in Windows /\ w.document = Committed.document
        /\ w.selected = Committed.selected /\ w.doing = op /\ w.visible = Committed.visible
        /\ w.form = Committed.form /\ w.dirty = FALSE
    BY <2>2 DEF Windows
  <2> HIDE DEF w
  <2>4. WindowOK(w, made)
    BY <1>a, <1>b, <2>2, <2>3 DEF WindowOK
  <2>5. QED
    BY <1>a, <1>3, <2>1, <2>3, <2>4, CommitKeeps
<1>4. QED
  BY <1>1, <1>2, <1>3 DEF Ask, OnlyWindow

(* A new row, with an identifier no document had. *)
LEMMA AddRowKeeps == ASSUME IInv, AddRow PROVE IInv' /\ FieldsStay
<1> DEFINE old == win.document
           c == Connection(made', CHOOSE f \in Fields : TRUE)
           conns == Append(old.conns, c)
           doc == [old EXCEPT !.conns = conns]
           v == [win EXCEPT !.document = doc, !.doing = "idle"]
           w == Populate(v, Len(doc.conns))
<1>a. /\ win.doing = "add" /\ made' = made + 1 /\ WindowSaves(doc, secrets, w, {})
  BY DEF AddRow
<1>b. /\ win \in Windows /\ Good(old, made) /\ win.visible /\ made < MaxIds
  BY <1>a DEF IInv, WindowOK
<1>c. /\ running /\ made \in Nat /\ MaxIds \in Nat /\ made' \in Nat /\ made <= made'
      /\ made' \in made .. MaxIds /\ made' \in 1 .. made' /\ made' \notin 1 .. made
  BY <1>a, <1>b, SettingsAssumption DEF IInv, IdsInv, Closed
<1>d. old.conns \in Seq(Connections) /\ old = [conns |-> old.conns, global |-> old.global]
      /\ old.global \in Globals
  BY <1>b DEF Good, IsDocument, Documents
<1>1. c \in Connections /\ c.id = made'
  BY <1>c, StoreAssumption DEF Connection, Connections, Modes
<1> HIDE DEF c
<1>2. /\ conns \in Seq(Connections) /\ Len(conns) = Len(old.conns) + 1
      /\ DOMAIN conns = 1 .. Len(old.conns) + 1 /\ DOMAIN old.conns = 1 .. Len(old.conns)
      /\ \A n \in DOMAIN old.conns : conns[n] = old.conns[n]
      /\ conns[Len(old.conns) + 1] = c
  BY <1>1, <1>d
<1> HIDE DEF conns
<1>3. doc = [conns |-> conns, global |-> old.global] /\ doc \in Documents
  BY <1>d, <1>2 DEF Documents
<1> HIDE DEF doc
<1>3a. doc.conns = conns
  BY <1>3
<1>4. Good(doc, made')
  <2>1. \A n \in DOMAIN old.conns : old.conns[n].id \in 1 .. made
    BY <1>b DEF Good
  <2>2. ASSUME NEW n \in DOMAIN conns
        PROVE  /\ n \in DOMAIN old.conns \/ n = Len(old.conns) + 1
               /\ conns[n].id \in 1 .. made'
    BY <1>1, <1>2, <1>c, <1>d, <2>1
  <2>3. ASSUME NEW n \in DOMAIN conns, NEW k \in DOMAIN conns, conns[n].id = conns[k].id
        PROVE  n = k
    BY <1>1, <1>2, <1>b, <1>c, <2>1, <2>2, <2>3 DEF Good, IsDocument
  <2>4. QED
    BY <1>3, <1>3a, <2>2, <2>3 DEF Good, IsDocument
<1>5. Derived(doc, old, made)
  <2>1. ASSUME NEW k \in DOMAIN conns
        PROVE  \/ conns[k].id \notin 1 .. made
               \/ k \in DOMAIN old.conns /\ old.conns[k] = conns[k]
    BY <1>1, <1>2, <1>c, <1>d
  <2>2. QED
    BY <1>3a, <2>1 DEF Derived
<1>6. \A i : Wanted(old, i) => Wanted(doc, i)
  BY <1>2, <1>3a, <1>d DEF Wanted
<1>7. /\ v \in Windows /\ v.document = doc /\ v.doing = "idle"
      /\ Len(doc.conns) \in 0 .. Len(v.document.conns)
  <2>1. v \in Windows /\ v.document = doc /\ v.doing = "idle"
    BY <1>b, <1>3 DEF Windows
  <2>2. Len(doc.conns) \in Nat
    BY <1>2, <1>3a
  <2>3. QED
    BY <2>1, <2>2
<1> HIDE DEF v
<1>8. w \in Windows /\ w.document = doc /\ WindowOK(w, made')
  BY <1>4, <1>7, PopulateOK
<1> HIDE DEF w
<1>9. WindowOK([w EXCEPT !.outdated = FALSE], made') /\ WindowOK(Refused, made')
  BY <1>8, <1>c, NotOutdated, RefusedOK
<1>10. secrets \subseteq 1 .. made'
  BY <1>a, <1>c DEF IInv, IdsInv
<1>11. \A i \in secrets \ {} : Wanted(doc, i) \/ (i \in secrets /\ ~Wanted(old, i))
  BY <1>6
<1>12. QED
  BY <1>a, <1>b, <1>c, <1>4, <1>5, <1>8, <1>9, <1>10, <1>11, WindowSavesKeeps

LEMMA SaveGlobalKeeps == ASSUME IInv, NEW g \in Globals, SaveGlobal(g) PROVE IInv' /\ FieldsStay
<1> DEFINE old == win.document
           doc == [old EXCEPT !.global = g]
           w == [win EXCEPT !.document = doc]
<1>a. /\ running /\ win.visible /\ win.doing = "idle" /\ made' = made
      /\ WindowSaves(doc, secrets, w, {})
  BY DEF SaveGlobal, Idle
<1>b. /\ win \in Windows /\ Good(old, made) /\ made \in Nat /\ made' \in made .. MaxIds
  BY <1>a, SettingsAssumption DEF IInv, WindowOK, IdsInv
<1>1. doc \in Documents /\ doc.conns = old.conns
  BY <1>b DEF Good, IsDocument, Documents
<1> HIDE DEF doc
<1>2. Good(doc, made') /\ Derived(doc, old, made)
  BY <1>a, <1>b, <1>1 DEF Good, IsDocument, Derived
<1>3. /\ w \in Windows /\ w.document = doc
      /\ w.selected = win.selected /\ w.form = win.form /\ w.visible = win.visible
      /\ w.dirty = win.dirty /\ w.kept = win.kept /\ w.doing = win.doing
  BY <1>b, <1>1 DEF Windows
<1> HIDE DEF w
<1>4. Shows(win.form, old, win.selected) => Shows(win.form, doc, win.selected)
  BY <1>1 DEF FormOf, Shows
<1>5. WindowOK(w, made')
  BY <1>a, <1>1, <1>2, <1>3, <1>4 DEF IInv, WindowOK
<1>6. WindowOK([w EXCEPT !.outdated = FALSE], made') /\ WindowOK(Refused, made')
  BY <1>3, <1>5, <1>a, <1>b, NotOutdated, RefusedOK
<1>7. \A i : Wanted(old, i) => Wanted(doc, i)
  BY <1>1 DEF Wanted
<1>8. secrets \subseteq 1 .. made'
  BY <1>a DEF IInv, IdsInv
<1>9. \A i \in secrets \ {} : Wanted(doc, i) \/ (i \in secrets /\ ~Wanted(old, i))
  BY <1>7
<1>10. QED
  BY <1>a, <1>b, <1>2, <1>3, <1>6, <1>8, <1>9, WindowSavesKeeps

LEMMA RowRemoved ==
    ASSUME NEW S, NEW s \in Seq(S), NEW row \in 1 .. Len(s)
    PROVE  /\ RemoveAt(s, row) \in Seq(S) /\ Len(RemoveAt(s, row)) = Len(s) - 1
           /\ \A n \in 1 .. Len(s) - 1 : /\ n < row => RemoveAt(s, row)[n] = s[n]
                                         /\ n >= row => RemoveAt(s, row)[n] = s[n + 1]
<1> DEFINE before == SubSeq(s, 1, row - 1)
           after == SubSeq(s, row + 1, Len(s))
<1>1. Len(s) \in Nat /\ row \in Nat /\ \A n \in 1 .. Len(s) : s[n] \in S
  OBVIOUS
<1>2. /\ before \in Seq(S) /\ Len(before) = row - 1
      /\ \A n \in 1 .. row - 1 : before[n] = s[n]
  <2>1. \A n \in 1 .. row - 1 : s[n] \in S
    BY <1>1
  <2>2. before \in Seq(S)
    BY <1>1, <2>1
  <2>3. Len(before) = row - 1
    BY <1>1
  <2>4. QED
    BY <1>1, <2>2, <2>3
<1>3. /\ after \in Seq(S) /\ Len(after) = Len(s) - row
      /\ \A n \in 1 .. Len(s) - row : after[n] = s[row + n]
  <2>1. \A n \in row + 1 .. Len(s) : s[n] \in S
    BY <1>1
  <2>2. after \in Seq(S)
    BY <1>1, <2>1
  <2>3. Len(after) = Len(s) - row
    BY <1>1
  <2>4. QED
    BY <1>1, <2>2, <2>3
<1>4. RemoveAt(s, row) = before \o after
  BY DEF RemoveAt
<1> HIDE DEF before, after
<1>5. before \o after \in Seq(S) /\ Len(before \o after) = Len(s) - 1
  <2>1. before \o after \in Seq(S) /\ Len(before \o after) = Len(before) + Len(after)
    BY <1>2, <1>3, ConcatProperties
  <2>2. QED
    BY <2>1, <1>1, <1>2, <1>3
<1>6. ASSUME NEW n \in 1 .. Len(s) - 1
      PROVE  /\ n < row => (before \o after)[n] = s[n]
             /\ n >= row => (before \o after)[n] = s[n + 1]
  <2>1. ASSUME n < row
        PROVE  (before \o after)[n] = s[n]
    BY <1>1, <1>2, <1>3, <2>1
  <2>2. ASSUME n >= row
        PROVE  (before \o after)[n] = s[n + 1]
    <3>1. (before \o after)[n] = after[n - (row - 1)]
      BY <1>1, <1>2, <1>3, <2>2
    <3>2. n - (row - 1) \in 1 .. Len(s) - row /\ row + (n - (row - 1)) = n + 1
      BY <1>1, <2>2
    <3>3. QED
      BY <1>1, <1>3, <2>2, <3>1, <3>2
  <2>3. QED
    BY <2>1, <2>2
<1>7. QED
  BY <1>4, <1>5, <1>6

LEMMA RemoveRowKeeps == ASSUME IInv, RemoveRow PROVE IInv' /\ FieldsStay
<1> DEFINE old == win.document
           row == win.selected
           id == old.conns[row].id
           conns == RemoveAt(old.conns, row)
           doc == [old EXCEPT !.conns = conns]
           next == IF row <= Len(doc.conns) THEN row ELSE Len(doc.conns)
           v == [win EXCEPT !.document = doc, !.doing = "idle"]
           w == Populate(v, next)
<1>a. /\ win.doing = "remove" /\ made' = made
      /\ \/ WindowSaves(doc, secrets, w, {id})
         \/ /\ win' = Refused
            /\ UNCHANGED <<disk, running, sessions, left, overwrote>>
  BY DEF RemoveRow, Refused
<1>b. /\ win \in Windows /\ Good(old, made) /\ win.visible /\ row \in 1 .. Len(old.conns)
  BY <1>a DEF IInv, WindowOK, Good, IsDocument, Documents
<1>c. /\ running /\ made \in Nat /\ made' \in made .. MaxIds
  BY <1>a, <1>b, SettingsAssumption DEF IInv, IdsInv, Closed
<1>d. old.conns \in Seq(Connections) /\ old = [conns |-> old.conns, global |-> old.global]
      /\ old.global \in Globals /\ Len(old.conns) \in Nat
  BY <1>b DEF Good, IsDocument, Documents
<1>1. CASE win' = Refused /\ UNCHANGED <<disk, running, sessions, left, overwrote>>
  <2>1. WindowOK(win', made) /\ win'.document = win.document
    BY <1>1, <1>c, RefusedOK
  <2>2. win'.outdated = win.outdated /\ LeftInv' /\ left'.faults = left.faults
    BY <1>1, <1>b DEF Refused, Windows, IInv, LeftInv
  <2>3. QED
    BY <1>1, <1>a, <1>b, <1>c, <2>1, <2>2, WindowOnlyKeeps
<1>2. CASE WindowSaves(doc, secrets, w, {id})
  <2> DEFINE at(n) == IF n < row THEN n ELSE n + 1
  <2>1. /\ conns \in Seq(Connections) /\ Len(conns) = Len(old.conns) - 1
        /\ \A n \in 1 .. Len(old.conns) - 1 : /\ n < row => conns[n] = old.conns[n]
                                              /\ n >= row => conns[n] = old.conns[n + 1]
    BY <1>b, <1>d, RowRemoved
  <2> HIDE DEF conns
  <2>2. DOMAIN conns = 1 .. Len(old.conns) - 1 /\ DOMAIN old.conns = 1 .. Len(old.conns)
    BY <1>d, <2>1
  <2>3. doc.conns = conns /\ doc \in Documents
    BY <1>d, <2>1 DEF Documents
  <2> HIDE DEF doc
  <2>4. \A n \in DOMAIN conns : at(n) \in DOMAIN old.conns /\ conns[n] = old.conns[at(n)]
    <3>1. \A n \in DOMAIN conns : /\ n < row => at(n) = n
                                  /\ n >= row => at(n) = n + 1
      BY <1>b, <1>d, <2>2
    <3> HIDE DEF at
    <3>2. ASSUME NEW n \in DOMAIN conns, n < row
          PROVE  at(n) \in DOMAIN old.conns /\ conns[n] = old.conns[at(n)]
      BY <1>b, <1>d, <2>1, <2>2, <3>1, <3>2
    <3>3. ASSUME NEW n \in DOMAIN conns, n >= row
          PROVE  at(n) \in DOMAIN old.conns /\ conns[n] = old.conns[at(n)]
      BY <1>b, <1>d, <2>1, <2>2, <3>1, <3>3
    <3>4. \A n \in DOMAIN conns : n < row \/ n >= row
      BY <1>b, <1>d, <2>2
    <3>5. QED
      BY <3>2, <3>3, <3>4
  <2>5. \A n, k \in DOMAIN conns : at(n) = at(k) => n = k
    BY <1>b, <1>d, <2>2
  <2>6. \A k \in DOMAIN old.conns : k # row => \E n \in DOMAIN conns : at(n) = k
    <3>1. ASSUME NEW k \in DOMAIN old.conns, k < row
          PROVE  k \in DOMAIN conns /\ at(k) = k
      BY <1>b, <1>d, <2>2, <3>1
    <3>2. ASSUME NEW k \in DOMAIN old.conns, k > row
          PROVE  k - 1 \in DOMAIN conns /\ at(k - 1) = k
      BY <1>b, <1>d, <2>2, <3>2
    <3>3. QED
      BY <1>b, <1>d, <2>2, <3>1, <3>2
  <2> HIDE DEF at
  <2>7. Good(doc, made') /\ Derived(doc, old, made)
    <3>1. \A n, k \in DOMAIN conns : conns[n].id = conns[k].id => n = k
      BY <1>b, <2>4, <2>5 DEF Good, IsDocument
    <3>2. \A n \in DOMAIN conns : conns[n].id \in 1 .. made
      BY <1>b, <2>4 DEF Good
    <3>3. Derived(doc, old, made)
      BY <2>3, <2>4 DEF Derived
    <3>4. QED
      BY <1>a, <2>3, <3>1, <3>2, <3>3 DEF Good, IsDocument
  <2>8. \A i : Wanted(old, i) /\ i # id => Wanted(doc, i)
    BY <2>3, <2>4, <2>6 DEF Wanted
  <2>9. next \in 0 .. Len(doc.conns)
    BY <1>b, <1>d, <2>1, <2>3
  <2> HIDE DEF next
  <2>10. /\ v \in Windows /\ v.document = doc /\ v.doing = "idle"
    BY <1>b, <2>3 DEF Windows
  <2> HIDE DEF v
  <2>11. w \in Windows /\ w.document = doc /\ WindowOK(w, made')
    BY <2>7, <2>9, <2>10, PopulateOK
  <2> HIDE DEF w
  <2>12. WindowOK([w EXCEPT !.outdated = FALSE], made') /\ WindowOK(Refused, made')
    BY <2>11, <1>a, <1>c, NotOutdated, RefusedOK
  <2>13. secrets \subseteq 1 .. made'
    BY <1>a DEF IInv, IdsInv
  <2>14. \A i \in secrets \ {id} : Wanted(doc, i) \/ (i \in secrets /\ ~Wanted(old, i))
    BY <2>8
  <2> HIDE DEF id
  <2>15. QED
    BY <1>2, <1>b, <1>c, <2>7, <2>11, <2>12, <2>13, <2>14, WindowSavesKeeps
<1>3. QED
  BY <1>a, <1>1, <1>2
-----------------------------------------------------------------------------
(* The invariant and what follows from it. *)

LEMMA InitEstablishes == Init => IInv
<1> SUFFICES ASSUME Init PROVE IInv
  OBVIOUS
<1>a. /\ \/ file = File(OneConnection) /\ legacy = Missing
         \/ file = File(Missing) /\ legacy = OneConnection
      /\ oldSecrets \in SUBSET {1} /\ secrets = {}
      /\ running = FALSE /\ sessions = {} /\ win = Closed /\ made = 1
      /\ \E b \in Budgets :
           left = [edits |-> b.edits, writes |-> b.writes, faults |-> Faults]
      /\ overwrote = FALSE
  BY DEF Init
<1>1. Good(OneConnection, 1)
  <2> DEFINE c == Connection(1, CHOOSE f \in Fields : TRUE)
  <2>1. c \in Connections /\ c.id = 1
    BY StoreAssumption DEF Connection, Connections, Modes
  <2> HIDE DEF c
  <2>2. Default \in Globals
    BY StoreAssumption DEF Default
  <2>3. OneConnection = [conns |-> <<c>>, global |-> Default]
    BY DEF OneConnection, Document, c
  <2>4. <<c>> \in Seq(Connections) /\ DOMAIN <<c>> = {1} /\ <<c>>[1] = c
    BY <2>1
  <2>5. OneConnection \in Documents /\ OneConnection.conns = <<c>>
    BY <2>2, <2>3, <2>4 DEF Documents
  <2>6. QED
    BY <2>1, <2>4, <2>5 DEF Good, IsDocument
<1>2. OneConnection \in Contents(1) /\ Missing \in Contents(1)
  BY <1>1 DEF Contents, Good, IsDocument
<1>3. StoreInv
  BY <1>a, <1>2 DEF StoreInv, FileOK, File
<1>4. LeftInv /\ NoFaultYet
  BY <1>a, SettingsAssumption DEF LeftInv, NoFaultYet
<1>5. IdsInv
  <2>1. made \in 1 .. MaxIds /\ 1 \in 1 .. made
    BY <1>a, SettingsAssumption
  <2>2. QED
    BY <1>a, <2>1 DEF IdsInv
<1>6. WindowOK(win, made)
  BY <1>a, ClosedOK
<1>7. AgreeInv /\ KeyInv
  BY <1>a DEF AgreeInv, KeyInv, Closed
<1>8. QED
  BY <1>3, <1>4, <1>5, <1>6, <1>7 DEF IInv

LEMMA StepKeeps == IInv /\ [Next]_vars => IInv' /\ (FieldsStay \/ UNCHANGED vars)
<1> SUFFICES ASSUME IInv, [Next]_vars
             PROVE  IInv' /\ (FieldsStay \/ UNCHANGED vars)
  OBVIOUS
<1>1. CASE Launch
  BY <1>1, LaunchKeeps
<1>2. CASE Exit
  BY <1>2, ExitKeeps
<1>3. CASE PowerCut
  BY <1>3, PowerCutKeeps
<1>4. ASSUME NEW id \in 1 .. made, OpenSession(id)
      PROVE  IInv' /\ FieldsStay
  BY <1>4, OpenSessionKeeps
<1>5. ASSUME NEW id \in 1 .. made, SessionCloses(id)
      PROVE  IInv' /\ FieldsStay
  BY <1>5, SessionClosesKeeps
<1>6. ASSUME NEW id \in 1 .. made, NEW pin \in Pins, CertTrusted(id, pin)
      PROVE  IInv' /\ FieldsStay
  BY <1>6, CertTrustedKeeps
<1>7. CASE Show
  BY <1>7, ShowKeeps
<1>8. CASE Revert
  BY <1>8, RevertKeeps
<1>9. CASE Save
  BY <1>9, SaveKeeps
<1>10. CASE AddRow
  BY <1>10, AddRowKeeps
<1>11. CASE RemoveRow
  BY <1>11, RemoveRowKeeps
<1>12. CASE Close
  BY <1>12, CloseKeeps
<1>13. ASSUME NEW form \in Forms, Type(form)
       PROVE  IInv' /\ FieldsStay
  BY <1>13, TypeKeeps
<1>14. ASSUME NEW row \in 0 .. MaxIds, Select(row)
       PROVE  IInv' /\ FieldsStay
  BY <1>14, SelectKeeps
<1>15. ASSUME NEW op \in {"add", "remove", "close"}, Ask(op)
       PROVE  IInv' /\ FieldsStay
  BY <1>15, AskKeeps
<1>16. ASSUME NEW g \in Globals, SaveGlobal(g)
       PROVE  IInv' /\ FieldsStay
  BY <1>16, SaveGlobalKeeps
<1>17. CASE UNCHANGED vars
  BY <1>17 DEF vars, disk, IInv, LeftInv, IdsInv, StoreInv, AgreeInv, KeyInv, NoFaultYet,
               Settled, Document0
<1>18. QED
  BY <1>1, <1>2, <1>3, <1>4, <1>5, <1>6, <1>7, <1>8, <1>9, <1>10, <1>11, <1>12, <1>13,
     <1>14, <1>15, <1>16, <1>17, Zenon DEF Next

LEMMA IInvHolds == Spec => []IInv
<1>1. Init => IInv
  BY InitEstablishes
<1>2. IInv /\ [Next]_vars => IInv'
  BY StepKeeps
<1>3. QED
  BY <1>1, <1>2, PTL DEF Spec

(* The document on disk, and whatever a power cut at any step of a save    *)
(* may leave of it, is a whole one, and a window behind which no session   *)
(* wrote works on what is there: save_document of the store renames a file *)
(* it has synced, that of the window takes a change over when it is saved. *)
THEOREM DocumentIsSafe == Spec => []Inv
<1>1. ASSUME IInv
      PROVE  TypeOK
  <2>1. IsDocument(win.document) /\ win \in Windows
    BY <1>1 DEF IInv, WindowOK, Good
  <2>2. /\ file.now # Missing => IsDocument(file.now)
        /\ legacy = Missing \/ IsDocument(legacy)
    BY <1>1 DEF IInv, StoreInv, FileOK, Contents, Good
  <2>3. win.selected \in 0 .. Len(win.document.conns) /\ (win.dirty => win.visible /\ win.selected > 0)
    BY <1>1 DEF IInv, WindowOK
  <2>4. /\ secrets \subseteq 1 .. made /\ oldSecrets \subseteq 1 .. made
        /\ sessions \subseteq 1 .. made
        /\ running \in BOOLEAN /\ overwrote \in BOOLEAN /\ made \in 0 .. MaxIds
    BY <1>1, SettingsAssumption DEF IInv, IdsInv
  <2>5. QED
    BY <2>1, <2>2, <2>3, <2>4 DEF TypeOK
<1>2. ASSUME IInv
      PROVE  FileIsWhole
  <2>1. Torn \notin Contents(made)
    BY FileAssumption, StoreAssumption DEF Contents
  <2>2. QED
    BY <1>2, <2>1 DEF IInv, StoreInv, FileOK, FileIsWhole
<1>3. ASSUME IInv
      PROVE  MemoryMatchesDisk
  BY <1>3 DEF IInv, AgreeInv, MemoryMatchesDisk
<1>4. IInv => Inv
  BY <1>1, <1>2, <1>3 DEF Inv
<1>5. QED
  BY <1>4, IInvHolds, PTL

(* A password in the key chain belongs to a connection that exists and     *)
(* wants it remembered, unless an operation failed or the window replaced  *)
(* what a session wrote: a policy changes only with the password at hand.  *)
THEOREM SecretsFollowPolicy == Spec => []SecretsMatchPolicy
<1>1. IInv => SecretsMatchPolicy
  BY DEF IInv, KeyInv, Wanted, SecretsMatchPolicy
<1>2. QED
  BY <1>1, IInvHolds, PTL

(* To save a form without unsaved changes is to save what its row already  *)
(* says, in the form the store gives it: through reverts, texts that are   *)
(* trimmed or left out, saves that fail, rows that are added and removed, and global settings.  *)
THEOREM CleanFormIsTruthful == Spec => []CleanFormShowsDocument
<1>1. IInv => CleanFormShowsDocument
  BY DEF IInv, WindowOK, CleanFormShowsDocument
<1>2. QED
  BY <1>1, IInvHolds, PTL

(* The pinned key and the window size of a connection outlive every save   *)
(* of a settings window that is up to date, also one that fails halfway.   *)
THEOREM SessionFieldsSurvive == Spec => SessionFieldsStay
<1> DEFINE Stays ==
        running /\ running' /\ ~win.outdated /\ ~win'.outdated =>
            \A n \in DOMAIN Document0.conns, k \in DOMAIN Document0'.conns :
                LET c == Document0.conns[n]
                    d == Document0'.conns[k]
                IN c.id = d.id => c.pin = d.pin /\ c.size = d.size
<1>1. FieldsStay => Stays
  BY DEF FieldsStay, SameFields
<1>2. IInv /\ [Next]_vars => [Stays]_vars
  BY <1>1, StepKeeps
<1> HIDE DEF Stays
<1>3. Spec => [][Stays]_vars
  BY <1>2, IInvHolds, PTL DEF Spec
<1>4. QED
  BY <1>3 DEF SessionFieldsStay, Stays
=============================================================================
