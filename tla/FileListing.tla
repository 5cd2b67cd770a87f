---------------------------- MODULE FileListing ----------------------------
(***************************************************************************)
(* What Windows offers when files are copied there, and what a fetch makes *)
(* of it: which entries are created, in which order, and the contents a    *)
(* finished fetch must have.                                               *)
(*                                                                         *)
(* A selection is what one copy on the remote put on its clipboard.  A     *)
(* list of files is a sequence of entries; "root" is the position of the   *)
(* top-level entry an entry belongs to (its own for a top-level one), 0 if *)
(* the list has none.  A byte is the copy it was made by, its entry and    *)
(* its place in the file.                                                  *)
(***************************************************************************)
EXTENDS Naturals, Sequences

Entry(root, dir, safe, known, size) ==
    [root |-> root, dir |-> dir, safe |-> safe, known |-> known, size |-> size]
Entries == [root : Nat, dir : BOOLEAN, safe : BOOLEAN, known : BOOLEAN, size : Nat]

Text == [what |-> "text", entries |-> <<>>]
Files(list) == [what |-> "files", entries |-> list]
AllSelections == [what : {"text", "files"}, entries : Seq(Entries)]

(* The names without a separator: what the user sees as copied. *)
Roots(list) == {i \in DOMAIN list : list[i].root = i}

(* Entries that would leave the cache directory are skipped, unless they   *)
(* are top-level: then the whole plan is refused.                          *)
MayPlan(list) == \A i \in Roots(list) : list[i].safe
Planned(list) ==
    {i \in DOMAIN list : list[i].root \in Roots(list) /\ list[i].safe}

(* The order in which they are created: name by name. *)
Before(list, i, j) ==
    \/ list[i].root < list[j].root
    \/ list[i].root = list[j].root /\ i < j

(* An entry for which data has to be asked of the server. *)
NeedsData(e) == ~e.dir /\ ~(e.known /\ e.size = 0)

Bytes(copy, i, from, to) == [p \in 1 .. (to - from) |-> <<copy, i, from + p - 1>>]

(* The local files of a finished fetch of the list copied as number "copy". *)
Whole(copy, list) ==
    [i \in {j \in Planned(list) : ~list[j].dir} |-> Bytes(copy, i, 0, list[i].size)]
=============================================================================
