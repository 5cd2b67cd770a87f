---------------------------- MODULE RemoteFiles ----------------------------
(***************************************************************************)
(* Files across the clipboard, both ways.                                  *)
(*                                                                         *)
(* From Windows: a file list is materialised under a private cache         *)
(* directory, one FileContents request at a time, and only the finished    *)
(* files are published on the Mac pasteboard, if it is still as the window *)
(* left it when the preparation began.  A newer list supersedes a fetch,   *)
(* a lost connection ends it.                                              *)
(*                                                                         *)
(* To Windows: a FileContents request is answered by a task of its own,    *)
(* from the entry that was offered when the request arrived.               *)
(*                                                                         *)
(* Three parties: the server, the session task (with the CLIPRDR callbacks *)
(* and the serving tasks), and the main thread with the pasteboard.  The   *)
(* callbacks talk to the session task through a bounded queue of signals   *)
(* which drops what does not fit; serving tasks wait for room instead.     *)
(***************************************************************************)
EXTENDS FileListing, FiniteSets, Functions

CONSTANTS
    Selections,     \* what a copy on the remote can be: Text or Files(list)
    None,           \* no value
    Chunk,          \* FETCH_CHUNK_BYTES
    MaxStreamId,    \* u32::MAX, after which stream ids begin at 1 again
    ClipQueueCap,   \* CLIPBOARD_QUEUE_CAPACITY
    Permits,        \* LOCAL_FILE_READ_PERMITS
    CopyRaces,      \* the user may copy while the window writes the pasteboard
    Budgets         \* bounds: how often the remote copies, the user copies,
                    \* the server asks for files and a connection is lost

ASSUME FetchAssumption ==
    /\ Chunk \in Nat \ {0} /\ MaxStreamId \in Nat \ {0}
    /\ ClipQueueCap \in Nat \ {0} /\ Permits \in Nat \ {0}
    /\ CopyRaces \in BOOLEAN
    /\ Budgets \subseteq [copies : Nat, user : Nat, served : Nat, losses : Nat]
    /\ Selections \subseteq AllSelections

(* What is open of the file at work, and the request for it. *)
Currents == [index : Nat, size : Nat, sized : BOOLEAN, offset : Nat]
Openings == [id : 1 .. MaxStreamId, size : BOOLEAN, len : Nat]
ASSUME NoneAssumption == None \notin Nat /\ None \notin Currents /\ None \notin Openings

VARIABLES
    left,         \* what is left of the bounds
    \* the server
    copies,       \* the selections made there, oldest first
    wanted,       \* clipboard formats asked of it and not yet answered
    asked,        \* FileContents requests it has not answered
    \* the session task
    online,       \* a connection is up
    signals,      \* the clipboard signal queue
    listing,      \* the copy whose list is RemoteClipboard.files, 0 if none
    job,          \* the fetch at work
    outstanding,  \* the one request that may be unanswered
    nextId,       \* next_stream_id
    posted,       \* offers of the window that wait in the command queue
    localClip,    \* what the session last took from it
    serving,      \* tasks answering the server's own requests
    served,       \* the answers it got: [id -> the user's copy, or an error]
    asOf,         \* the user's copy on offer when each request arrived, and where
    dropped,      \* a signal was dropped on this connection
    \* the disk
    cache,        \* contents of the cache directories
    published,    \* directories that were given to the pasteboard
    \* the main thread and the pasteboard
    events,       \* session events the main queue still holds
    handling,     \* what the handler at work has still to do
    closed,       \* the window was closed
    board,        \* what is on the pasteboard
    changes,      \* its changeCount
    delivered,    \* clipboard_tracker.delivered_change_count
    reserved      \* remote_file_offer_change_count

server == <<copies, wanted, asked>>
fetch == <<listing, job, outstanding, nextId>>
local == <<posted, localClip, serving, served, asOf>>
disk == <<cache, published>>
window == <<handling, closed, board, changes, delivered, reserved>>
vars == <<left, server, online, signals, fetch, local, dropped, disk, events, window>>

-----------------------------------------------------------------------------
Dirs == 1 .. Len(copies)
ListOf(copy) == copies[copy].entries
NoJob == [dir |-> 0]

BoardOf(by, what, n) == [by |-> by, what |-> what, n |-> n]
Empty == BoardOf("nobody", "nothing", 0)

Event(kind, dir) == [kind |-> kind, dir |-> dir]
Raise(evs, kind, dir) == IF closed THEN evs ELSE Append(evs, Event(kind, dir))

Signal(kind, arg) == [kind |-> kind, arg |-> arg]
Answer(id, data) == [id |-> id, data |-> data]
Data(kind, bytes, size) == [kind |-> kind, bytes |-> bytes, size |-> size]
Refused == Data("refused", <<>>, 0)

HasJob == job # NoJob

TypeOK ==
    /\ left \in [copies : Nat, user : Nat, served : Nat, losses : Nat]
    /\ copies \in Seq(Selections)
    /\ wanted \in Seq({"text", "files"})
    /\ \A r \in asked : r.id \in 1 .. MaxStreamId /\ r.copy \in DOMAIN copies
    /\ {online, dropped, closed} \subseteq BOOLEAN
    /\ Len(signals) <= ClipQueueCap
    /\ listing \in 0 .. Len(copies)
    /\ HasJob => /\ job.dir \in DOMAIN cache /\ job.copy = listing
                 /\ job.current \in Currents
                 /\ job.current.offset = Len(cache[job.dir][job.current.index])
    /\ outstanding # None => outstanding \in Openings
    /\ nextId \in 1 .. MaxStreamId
    /\ DOMAIN cache \subseteq Dirs /\ published \subseteq DOMAIN cache
    /\ Cardinality({t \in serving : t.at = "reading"}) <= Permits
    /\ handling \in {"nothing", "reserve", "acknowledge"}
    /\ board.by \in {"nobody", "user", "remote"}
    /\ changes \in Nat
    /\ {delivered, reserved} \subseteq Nat \cup {None}

Init ==
    /\ left \in Budgets
    /\ copies = <<>> /\ wanted = <<>> /\ asked = {}
    /\ online = TRUE /\ signals = <<>>
    /\ listing = 0 /\ job = NoJob /\ outstanding = None /\ nextId = 1
    /\ posted = <<>> /\ localClip = Empty /\ serving = {} /\ served = <<>> /\ asOf = <<>>
    /\ dropped = FALSE
    /\ cache = <<>> /\ published = {}
    /\ events = <<>> /\ handling = "nothing" /\ closed = FALSE
    /\ board = BoardOf("user", "nothing", 0) /\ changes = 0
    /\ delivered = None /\ reserved = None

-----------------------------------------------------------------------------
(* The server, and the callback its message runs into. *)

Spend(what) == left[what] > 0 /\ left' = [left EXCEPT ![what] = @ - 1]

(* queue_signal: try_send, and a warning when the queue is full. *)
Queue(sig) ==
    IF Len(signals) < ClipQueueCap
    THEN signals' = Append(signals, sig) /\ UNCHANGED dropped
    ELSE dropped' = TRUE /\ UNCHANGED signals

(* A copy on the remote sends a Format List: on_remote_copy. *)
ServerCopies ==
    /\ online /\ Spend("copies")
    /\ \E s \in Selections :
           /\ copies' = Append(copies, s)
           /\ Queue(Signal("paste", s.what))
    /\ UNCHANGED <<wanted, asked, online, fetch, local, disk, events, window>>

(* The data of the format asked for, if the latest copy still has it: the  *)
(* other answer is an error, which the callbacks ignore.                   *)
ServerSendsData ==
    /\ online /\ wanted # <<>>
    /\ wanted' = Tail(wanted)
    /\ IF copies[Len(copies)].what = Head(wanted)
       THEN Queue(Signal(Head(wanted), Len(copies)))
       ELSE UNCHANGED <<signals, dropped>>
    /\ UNCHANGED <<copies, asked, left, online, fetch, local, disk, events, window>>

(* The request names the copy it means (clip_data_id), so the server       *)
(* answers from that copy, with what it has: fewer bytes than asked for,   *)
(* none, or, if it is wrong, more; a size, or something too short for one. *)
AnswersTo(r) ==
    {Refused} \cup
    IF r.size
    THEN {Data("size", <<>>, ListOf(r.copy)[r.index].size), Data("short", <<>>, 0)}
    ELSE {Data("bytes", Bytes(r.copy, r.index, r.from, r.from + n), 0) : n \in 0 .. r.len + 1}

ServerAnswers ==
    /\ online
    /\ \E r \in asked : \E d \in AnswersTo(r) :
           /\ asked' = asked \ {r}
           /\ Queue(Signal("contents", Answer(r.id, d)))
    /\ UNCHANGED <<copies, wanted, left, online, fetch, local, disk, events, window>>

(* on_file_contents_request: the entry is looked up at once, the answer is *)
(* made by a task.                                                         *)
OnOffer == IF localClip.what = "files" THEN localClip.n ELSE 0
ServerRequests ==
    /\ online /\ Spend("served")
    /\ asOf' = Append(asOf, [file |-> OnOffer, on |-> left.losses])
    /\ serving' = serving \cup {[id |-> Len(asOf) + 1, file |-> OnOffer,
                                     at |-> "waiting", on |-> left.losses]}
    /\ UNCHANGED <<server, online, signals, fetch, posted, localClip, served,
                   dropped, disk, events, window>>

-----------------------------------------------------------------------------
(* The tasks that serve local files. *)

MoveTask(t, at) == serving' = (serving \ {t}) \cup {[t EXCEPT !.at = at]}
ServingOnly == UNCHANGED <<server, left, online, fetch, posted, localClip, served, asOf,
                           dropped, disk, events, window>>

(* Mutant of TaskReads: the entry is looked up when the task has its       *)
(* permit.                                                                 *)
TaskReadsLatest ==
    /\ Cardinality({t \in serving : t.at = "reading"}) < Permits
    /\ \E t \in serving :
           /\ t.at = "waiting"
           /\ serving' = (serving \ {t}) \cup {[t EXCEPT !.at = "reading", !.file = OnOffer]}
    /\ UNCHANGED signals /\ ServingOnly

TaskReads ==
    /\ Cardinality({t \in serving : t.at = "reading"}) < Permits
    /\ \E t \in serving : t.at = "waiting" /\ MoveTask(t, "reading")
    /\ UNCHANGED signals /\ ServingOnly

(* Mutant of TaskHasRead: a failed read ends the task without an answer. *)
TaskHasReadOrGivesUp ==
    /\ \E t \in serving : t.at = "reading" /\
           \/ serving' = serving \ {t}
           \/ serving' = (serving \ {t}) \cup {[t EXCEPT !.at = "done"]}
    /\ UNCHANGED signals /\ ServingOnly

(* Without a file, or when reading fails, the answer is an error. *)
TaskHasRead ==
    /\ \E t \in serving : t.at = "reading" /\
           \E file \in {t.file, 0} :
               serving' = (serving \ {t}) \cup {[t EXCEPT !.at = "done", !.file = file]}
    /\ UNCHANGED signals /\ ServingOnly

(* send waits for room; after the connection the receiver is gone. *)
TaskSends ==
    /\ \E t \in serving :
           /\ t.at = "done"
           /\ serving' = serving \ {t}
           /\ IF online /\ t.on = left.losses
              THEN /\ Len(signals) < ClipQueueCap
                   /\ signals' = Append(signals, Signal("serve", [id |-> t.id, file |-> t.file]))
              ELSE UNCHANGED signals
    /\ ServingOnly

-----------------------------------------------------------------------------
(* The fetch. *)

(* A job that ends unpublished takes its directory with it. *)
Without(dirs, dir) == Restrict(dirs, DOMAIN dirs \ {dir})
With(dirs, dir, files) ==
    [d \in DOMAIN dirs \cup {dir} |-> IF d = dir THEN files ELSE dirs[d]]

(* Mutants: the cache is kept; the window is not told. *)
FailJobKeeping(j, dirs, evs) ==
    /\ job' = NoJob /\ outstanding' = None
    /\ cache' = dirs
    /\ events' = Raise(evs, "failed", 0)
FailJobSilently(j, dirs, evs) ==
    /\ job' = NoJob /\ outstanding' = None
    /\ cache' = Without(dirs, j.dir)
    /\ events' = evs

FailJob(j, dirs, evs) ==
    /\ job' = NoJob /\ outstanding' = None
    /\ cache' = Without(dirs, j.dir)
    /\ events' = Raise(evs, "failed", 0)

(* The next request for the file at work, or its failure to be sent. *)
Ask(j, dirs, evs) ==
    LET cur == j.current
        rest == cur.size - cur.offset
        len == IF ~cur.sized THEN 8 ELSE IF rest < Chunk THEN rest ELSE Chunk
        request == [id |-> nextId, copy |-> listing', index |-> cur.index,
                    size |-> ~cur.sized, from |-> cur.offset, len |-> len]
    IN /\ nextId' = IF nextId = MaxStreamId THEN 1 ELSE nextId + 1
       /\ \/ /\ job' = j
             /\ cache' = dirs
             /\ outstanding' = [id |-> nextId, size |-> ~cur.sized, len |-> len]
             /\ asked' = asked \cup {request}
             /\ events' = evs
          \/ FailJob(j, dirs, evs) /\ UNCHANGED asked

(* The local files once the entries "new" of a plan are created. *)
Created(list, new, files) ==
    LET made == {i \in new : ~list[i].dir}
    IN [i \in DOMAIN files \cup made |-> IF i \in made THEN <<>> ELSE files[i]]

(* advance_remote_fetch: create directories and files up to the first that *)
(* needs data; with none left the job is finished and its cache is kept.   *)
Opened(list, i) ==
    [index |-> i, size |-> IF list[i].known THEN list[i].size ELSE 0,
     sized |-> list[i].known, offset |-> 0]
Advance(j, dirs, evs) ==
    LET list == ListOf(j.copy)
        files == dirs[j.dir]
        needed == {i \in j.plan : NeedsData(list[i])}
        upTo(i) == {k \in j.plan : k = i \/ Before(list, k, i)}
    IN \/ j.current # None /\ Ask(j, dirs, evs)
       \/ /\ j.current = None
          /\ \E i \in needed :
                 /\ \A k \in needed : ~Before(list, k, i)
                 /\ Ask([j EXCEPT !.plan = @ \ upTo(i), !.current = Opened(list, i)],
                        With(dirs, j.dir, Created(list, upTo(i), files)), evs)
       \/ /\ j.current = None /\ needed = {}
          /\ job' = NoJob /\ outstanding' = None
          /\ cache' = With(dirs, j.dir, Created(list, j.plan, files))
          /\ events' = Raise(evs, "ready", j.dir)
          /\ UNCHANGED <<nextId, asked>>
       \/ /\ j.current = None /\ j.plan # {}   \* creating one of them fails
          /\ FailJob(j, dirs, evs) /\ UNCHANGED <<nextId, asked>>

(* RemoteFileList: jobs.clear() drops the job at work with its cache.  The *)
(* directory of the new one has a name that is not in use.                 *)
HandleList(copy) ==
    LET list == ListOf(copy)
        kept == IF HasJob THEN Without(cache, job.dir) ELSE cache
        free == Dirs \ DOMAIN kept
        preparing == Raise(events, "preparing", 0)
        fresh(dir) == [dir |-> dir, copy |-> copy, plan |-> Planned(list), current |-> None]
    IN /\ listing' = copy
       /\ \/ /\ Roots(list) = {}
             /\ job' = NoJob /\ outstanding' = None /\ cache' = kept
             /\ UNCHANGED <<events, nextId, asked>>
          \/ /\ Roots(list) # {}   \* no directory, or no plan
             /\ job' = NoJob /\ outstanding' = None /\ cache' = kept
             /\ events' = Raise(preparing, "failed", 0)
             /\ UNCHANGED <<nextId, asked>>
          \/ /\ Roots(list) # {} /\ MayPlan(list)
             /\ \E dir \in free : /\ \A d \in free : dir <= d
                                  /\ Advance(fresh(dir), With(kept, dir, <<>>), preparing)

(* An answer to anything but the one open request is stale. *)
Expected(answer) == outstanding # None /\ outstanding.id = answer.id

(* apply_remote_file_contents and, unless it fails, advance. *)
HandleContents(answer) ==
    LET cur == job.current
        d == answer.data
        files == cache[job.dir]
        sized == [job EXCEPT !.current =
                     IF d.size = 0 THEN None ELSE [cur EXCEPT !.size = d.size, !.sized = TRUE]]
        grown == [files EXCEPT ![cur.index] = @ \o d.bytes]
        offset == cur.offset + Len(d.bytes)
        written == [job EXCEPT !.current =
                       IF offset >= cur.size THEN None ELSE [cur EXCEPT !.offset = offset]]
        fits == /\ ~outstanding.size /\ d.kind = "bytes" /\ d.bytes # <<>>
                /\ Len(d.bytes) <= outstanding.len
                /\ Len(d.bytes) <= cur.size - cur.offset
    IN /\ UNCHANGED listing
       /\ \/ /\ ~Expected(answer)
             /\ UNCHANGED <<job, outstanding, nextId, cache, asked, events>>
          \/ /\ Expected(answer)
             /\ \/ outstanding.size /\ d.kind = "size" /\ Advance(sized, cache, events)
                \/ fits /\ Advance(written, With(cache, job.dir, grown), events)
                \/ /\ ~(outstanding.size /\ d.kind = "size")   \* unusable, or writing it fails
                   /\ FailJob(job, cache, events) /\ UNCHANGED <<nextId, asked>>

-----------------------------------------------------------------------------
(* The session task takes one signal: handle_clip_signal. *)
HandleSignal ==
    /\ online /\ signals # <<>>
    /\ signals' = Tail(signals)
    /\ LET s == Head(signals) IN
       \/ /\ s.kind = "paste"
          /\ wanted' = Append(wanted, s.arg)
          /\ UNCHANGED <<asked, fetch, served, cache, events>>
       \/ /\ s.kind = "text"
          /\ events' = Raise(events, "text", 0)
          /\ UNCHANGED <<wanted, asked, fetch, served, cache>>
       \/ /\ s.kind = "files"
          /\ HandleList(s.arg)
          /\ UNCHANGED <<wanted, served>>
       \/ /\ s.kind = "contents"
          /\ HandleContents(s.arg)
          /\ UNCHANGED <<wanted, served>>
       \/ /\ s.kind = "serve"
          /\ served' = [i \in DOMAIN served \cup {s.arg.id} |->
                           IF i = s.arg.id THEN s.arg.file ELSE served[i]]
          /\ UNCHANGED <<wanted, asked, fetch, cache, events>>
    /\ UNCHANGED <<copies, left, online, posted, localClip, serving, asOf, dropped,
                   published, window>>

(* The offer reaches the session: handle_command, or between connections    *)
(* the loop that waits for the next attempt.                                *)
TakeOffer ==
    /\ posted # <<>>
    /\ posted' = Tail(posted) /\ localClip' = Head(posted)
    /\ UNCHANGED <<server, left, online, signals, fetch, serving, served, asOf,
                   dropped, disk, events, window>>

(* The connection ends: the queue, the list, the job and its directory go  *)
(* with it.  What the clipboard offers to Windows is kept.                 *)
Disconnect ==
    /\ online /\ online' = FALSE
    /\ IF closed THEN UNCHANGED left ELSE Spend("losses")
    /\ signals' = <<>> /\ wanted' = <<>> /\ asked' = {} /\ dropped' = FALSE
    /\ listing' = 0 /\ job' = NoJob /\ outstanding' = None /\ nextId' = 1
    /\ cache' = IF HasJob THEN Without(cache, job.dir) ELSE cache
    /\ events' = Raise(events, "reconnecting", 0)
    /\ UNCHANGED <<copies, local, published, window>>

Reconnect ==
    /\ ~online /\ ~closed
    /\ online' = TRUE
    /\ UNCHANGED <<server, left, signals, fetch, local, dropped, disk, events, window>>

-----------------------------------------------------------------------------
(* The main thread and the user. *)

MainOnly == UNCHANGED <<server, left, online, signals, fetch, localClip, serving,
                        served, asOf, dropped>>

(* A copy in any application; changeCount counts it. *)
UserCopies ==
    /\ Spend("user")
    /\ handling # "nothing" => CopyRaces
    /\ \E what \in {"text", "files"} : board' = BoardOf("user", what, left.user)
    /\ changes' = changes + 1
    /\ UNCHANGED <<server, online, signals, fetch, local, dropped, disk,
                   events, handling, closed, delivered, reserved>>

(* poll_clipboard_impl, by the timer or on becoming key.  The offer is      *)
(* accepted when the command queue has room for it (CommandQueue).          *)
Poll(accepted) ==
    /\ ~closed /\ handling = "nothing"
    /\ delivered # changes
    /\ IF board.what = "nothing"
       THEN delivered' = changes /\ UNCHANGED posted
       ELSE IF accepted THEN delivered' = changes /\ posted' = Append(posted, board)
                        ELSE UNCHANGED <<delivered, posted>>
    /\ MainOnly
    /\ UNCHANGED <<disk, events, handling, closed, board, changes, reserved>>

NextEvent(kind) ==
    /\ events # <<>> /\ Head(events).kind = kind
    /\ handling = "nothing"
    /\ events' = Tail(events)

Overwrite(b) == board' = b /\ changes' = changes + 1

(* prepare_remote_files, set_clipboard: clear or write, ... *)
Prepare ==
    /\ NextEvent("preparing")
    /\ Overwrite(Empty) /\ handling' = "reserve"
    /\ MainOnly /\ UNCHANGED <<posted, disk, closed, delivered, reserved>>

ShowText ==
    /\ NextEvent("text")
    /\ Overwrite(BoardOf("remote", "text", 0)) /\ handling' = "acknowledge"
    /\ reserved' = None
    /\ MainOnly /\ UNCHANGED <<posted, disk, closed, delivered>>

(* ... then read the changeCount that came of it. *)
Acknowledge ==
    /\ handling # "nothing"
    /\ handling' = "nothing"
    /\ delivered' = changes
    /\ reserved' = IF handling = "reserve" THEN changes ELSE reserved
    /\ MainOnly /\ UNCHANGED <<posted, disk, events, closed, board, changes>>

(* offer_remote_files: only into the place that was cleared for them. *)
MayPublishStill == reserved # None   \* mutant: no comparison with the pasteboard
MayPublish == reserved = changes
OfferFiles ==
    /\ NextEvent("ready")
    /\ reserved' = None
    /\ LET dir == Head(events).dir IN
       \/ /\ MayPublish
          /\ Overwrite(BoardOf("remote", "files", dir))
          /\ handling' = "acknowledge"
          /\ published' = published \cup {dir}
          /\ UNCHANGED cache
       \/ /\ MayPublish     \* writing the pasteboard fails
          /\ Overwrite(Empty)
          /\ cache' = Without(cache, dir)
          /\ UNCHANGED <<handling, published>>
       \/ /\ cache' = Without(cache, dir)   \* it changed, or the paths are no URLs
          /\ UNCHANGED <<handling, published, board, changes>>
    /\ MainOnly /\ UNCHANGED <<posted, closed, delivered>>

(* remote_file_preparation_failed, set_reconnecting. *)
GiveUpOffer ==
    /\ NextEvent("failed") \/ NextEvent("reconnecting")
    /\ reserved' = None
    /\ MainOnly /\ UNCHANGED <<posted, disk, handling, closed, board, changes, delivered>>

(* Events of a window that is gone are not handled. *)
Close ==
    /\ ~closed /\ handling = "nothing"
    /\ closed' = TRUE /\ events' = <<>>
    /\ MainOnly /\ UNCHANGED <<posted, disk, handling, board, changes, delivered, reserved>>

Main == Prepare \/ ShowText \/ Acknowledge \/ OfferFiles \/ GiveUpOffer

Next ==
    \/ ServerCopies \/ ServerSendsData \/ ServerAnswers \/ ServerRequests
    \/ TaskReads \/ TaskHasRead \/ TaskSends
    \/ HandleSignal \/ TakeOffer \/ Disconnect \/ Reconnect
    \/ UserCopies \/ Poll(TRUE) \/ Poll(FALSE)
    \/ Main \/ Close

Spec == Init /\ [][Next]_vars

(* The server answers every request, the runtime runs every task that can  *)
(* go on, and the main queue is served.                                    *)
FairSpec ==
    /\ Spec
    /\ WF_vars(ServerAnswers) /\ WF_vars(HandleSignal)
    /\ WF_vars(TaskReads) /\ WF_vars(TaskHasRead) /\ WF_vars(TaskSends)
    /\ WF_vars(Main)

-----------------------------------------------------------------------------
(* What can be relied on. *)

(* No cache directory is left over: each belongs to the fetch at work, to  *)
(* files that wait to be published, or was given to the pasteboard.  Only  *)
(* files finished while the window closes are forgotten.                   *)
NoOrphanCache ==
    ~closed => \A d \in DOMAIN cache :
                   \/ HasJob /\ job.dir = d
                   \/ \E n \in DOMAIN events : events[n] = Event("ready", d)
                   \/ d \in published

(* What the window writes to the pasteboard is never offered to Windows as *)
(* the user's own copy, and nothing the user copied is taken for its own:  *)
(* it is the last that was offered.                                        *)
LastOffer == IF posted = <<>> THEN localClip ELSE posted[Len(posted)]
OnlyOwnCopiesOffered ==
    /\ localClip.by # "remote"
    /\ \A n \in DOMAIN posted : posted[n].by # "remote"
    /\ delivered = changes /\ board.by = "user" /\ board.what # "nothing"
           => LastOffer = board

(* The server's answer comes from the selection that was on offer when it  *)
(* asked, or is an error; it never gets bytes of another selection.        *)
ServedAsAsked ==
    \A id \in DOMAIN served : served[id] \in {asOf[id].file, 0}

(* Every cache directory and every copy has the owner it is taken for,     *)
(* whatever answers, connections and copies come in between.               *)
Inv == TypeOK /\ NoOrphanCache /\ OnlyOwnCopiesOffered /\ ServedAsAsked

(* The files appear all at once, complete, and never over a newer copy.    *)
Shown ==
    [kind  |-> CASE board.by = "user" -> "user"
                 [] board.by = "nobody" -> "nothing"
                 [] OTHER -> board.what,
     files |-> IF board.what = "files" /\ board.by = "remote" THEN cache[board.n] ELSE <<>>]
Offer == INSTANCE FileOffer WITH copied <- copies, shown <- Shown,
                                 reserved <- (reserved = changes)
ImplementsOffer == Offer!Spec

(* A preparation that was announced ends: published, given up or replaced. *)
(* A dropped answer leaves it hanging, and so does a list without a        *)
(* top-level name, which ends the job and tells nobody.                    *)
NothingNamed == listing # 0 /\ Roots(ListOf(listing)) = {}
PreparationEnds ==
    reserved # None ~> reserved = None \/ closed \/ dropped \/ NothingNamed

(* A request of the server is answered while its connection lasts.         *)
Outlived(id) == id \in DOMAIN asOf /\ (~online \/ asOf[id].on # left.losses)
RequestsAreServed ==
    \A id \in UNION {1 .. b.served : b \in Budgets} :
        id \in DOMAIN asOf ~> id \in DOMAIN served \/ Outlived(id)
=============================================================================
