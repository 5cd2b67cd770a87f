--------------------------- MODULE MCRemoteFiles ---------------------------
(* Instances of RemoteFiles for TLC. *)
EXTENDS RemoteFiles

(* A file of two chunks, and a folder that holds an empty file, a file of  *)
(* unknown size and one that would leave the cache.                        *)
OneFile == <<Entry(1, FALSE, TRUE, TRUE, 2)>>
Folder == <<Entry(1, TRUE, TRUE, TRUE, 0), Entry(1, FALSE, TRUE, TRUE, 0),
            Entry(1, FALSE, TRUE, FALSE, 1), Entry(1, FALSE, FALSE, TRUE, 1)>>
(* Names that cannot be used at the top, and none at the top at all. *)
BadName == <<Entry(1, FALSE, FALSE, TRUE, 1)>>
NoName == <<Entry(0, FALSE, TRUE, TRUE, 1)>>

AnySelection == {Text} \cup {Files(l) : l \in {OneFile, Folder, BadName, NoName}}

(* Two copies on the remote, with a copy of the user in between or with a   *)
(* connection that is lost; one of each, with requests that compete with    *)
(* the fetch for the queue; requests that compete for a permit.             *)
FetchAndServe ==
    {[copies |-> 2, user |-> 1, served |-> 0, losses |-> 0],
     [copies |-> 2, user |-> 0, served |-> 0, losses |-> 1],
     [copies |-> 1, user |-> 1, served |-> 1, losses |-> 1],
     [copies |-> 0, user |-> 2, served |-> 2, losses |-> 1]}
=============================================================================
