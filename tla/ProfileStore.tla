---------------------------- MODULE ProfileStore ----------------------------
(***************************************************************************)
(* The persisted document of the app and the key chain, as their callers   *)
(* see them: what each operation may leave behind.                         *)
(*                                                                         *)
(* A file is what a reader finds now and the set of contents a power cut   *)
(* may leave of it.  A save writes a temporary file, renames it over the   *)
(* document and syncs the directory; it can fail or be cut off at any of   *)
(* its steps.  A failed one removes its temporary file; one that was cut   *)
(* off leaves it, under a name nobody looks for.                           *)
(*                                                                         *)
(* Every document passes Document::validate: the form of the settings      *)
(* window is validated before it gets that far, and identifiers are fresh. *)
(***************************************************************************)
EXTENDS Naturals, SequencesExt

CONSTANTS Fields,       \* what the user can enter for a connection
          Bad,          \* entries that do not pass Connection::validate
          Globals,      \* global settings
          Pins, Sizes,  \* server fingerprints and window sizes
          Nothing,      \* None of either
          Torn, Missing \* a file with part of its bytes, no file

ASSUME StoreAssumption == /\ Bad \notin Fields /\ Fields # {} /\ Globals # {}
                          /\ Torn # Missing

(* AuthenticationMode and PasswordPolicy: only "remember" keeps a password. *)
Modes == {"remember", "ask", "entra"}
Connection(id, fields) ==
    [id |-> id, fields |-> fields, mode |-> "ask", pin |-> Nothing, size |-> Nothing]
Connections ==
    [id : Nat, fields : Fields, mode : Modes, pin : Pins \cup {Nothing}, size : Sizes \cup {Nothing}]
Document(conns, global) == [conns |-> conns, global |-> global]
Documents == [conns : Seq(Connections), global : Globals]
IsDocument(d) ==
    /\ d \in Documents
    /\ \A n, k \in DOMAIN d.conns : d.conns[n].id = d.conns[k].id => n = k

(* What is no document: a cut-off file, a missing one. *)
ASSUME FileAssumption == {Torn, Missing} \cap Documents = {}

NoConnections(g) == Document(<<>>, g)
Known(doc, id) == \E n \in DOMAIN doc.conns : doc.conns[n].id = id
IndexOf(doc, id) == CHOOSE n \in DOMAIN doc.conns : doc.conns[n].id = id

File(content) == [now |-> content, kept |-> {content}]
Loaded(file, default) == IF file.now = Missing THEN default ELSE file.now

(* Mutant of SaveSteps: the temporary file is renamed before it is synced. *)
SaveStepsUnsynced == <<"create", "write", "replace", "sync", "syncdir">>
SaveSteps == <<"create", "write", "sync", "replace", "syncdir">>

(* What each step makes of the document and of the temporary file. *)
Step(s, step, doc) ==
    CASE step = "create"  -> [s EXCEPT !.tmp = File(Torn)]
      [] step = "write"   -> [s EXCEPT !.tmp = [now |-> doc, kept |-> {Torn, doc}]]
      [] step = "sync"    -> [s EXCEPT !.tmp = File(doc)]
      [] step = "replace" -> [s EXCEPT !.file = [now |-> s.tmp.now, kept |-> @.kept \cup s.tmp.kept]]
      [] step = "syncdir" -> [s EXCEPT !.file.kept = s.tmp.kept]
Ran(file, doc, n) ==
    LET s0 == [file |-> file, tmp |-> File(Missing)]
        s1 == Step(s0, SaveSteps[1], doc)
        s2 == Step(s1, SaveSteps[2], doc)
        s3 == Step(s2, SaveSteps[3], doc)
        s4 == Step(s3, SaveSteps[4], doc)
        s5 == Step(s4, SaveSteps[5], doc)
    IN <<s0, s1, s2, s3, s4, s5>>[n + 1].file

(* save_document: done, failed at a step, or the program died at one. *)
Saves(file, doc) ==
    LET all == Len(SaveSteps) IN
    {[file |-> Ran(file, doc, all), how |-> "ok"]}
    \cup {[file |-> Ran(file, doc, n), how |-> "failed"] : n \in 0 .. all - 1}
    \cup {[file |-> Ran(file, doc, n), how |-> "died"] : n \in 0 .. all}

(* set_fingerprint, set_last_window_size, set_password_policy: one field   *)
(* of one connection in the document as it is on disk.                     *)
WithField(doc, id, field, value) ==
    [doc EXCEPT !.conns[IndexOf(doc, id)] = [@ EXCEPT ![field] = value]]

-----------------------------------------------------------------------------
(* The key chain: identifiers a password is stored under.  Each operation  *)
(* comes with the number of faults it takes.                               *)

(* store_password deletes the item before it makes a new one. *)
Stored(secrets, id) ==
    {[secrets |-> secrets \cup {id}, ok |-> TRUE, faults |-> 0],
     [secrets |-> secrets, ok |-> FALSE, faults |-> 1],
     [secrets |-> secrets \ {id}, ok |-> FALSE, faults |-> 1]}

(* Mutant of Deleted: the password stays where it was. *)
DeletedNot(secrets, ids) == {[secrets |-> secrets, faults |-> 0]}

(* delete_password: a missing item is a success. *)
Deleted(secrets, ids) ==
    {[secrets |-> secrets \ ids, faults |-> 0]}
    \cup IF ids \cap secrets = {} THEN {} ELSE {[secrets |-> secrets, faults |-> 1]}
=============================================================================
