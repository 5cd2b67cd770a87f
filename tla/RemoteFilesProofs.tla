-------------------------- MODULE RemoteFilesProofs --------------------------
(***************************************************************************)
(* Proofs about RemoteFiles, for every set of selections a remote user may *)
(* copy, every queue, chunk and number of permits, and every bound.        *)
(*                                                                         *)
(* The first part is about who owns what: a cache directory, a request, a  *)
(* place on the pasteboard (Owned).  The second is about what is in a      *)
(* directory while it is filled (Filled), and shows that RemoteFiles       *)
(* implements FileOffer.  The third is about what is under way: requests   *)
(* of Windows and preparations that must not be forgotten.                 *)
(***************************************************************************)
EXTENDS RemoteFiles, TLAPS, FiniteSetTheorems, SequenceTheorems

Requests ==
    [id : 1 .. MaxStreamId, copy : Nat, index : Nat, size : BOOLEAN, from : Nat, len : Nat]
AskedOK ==
    /\ asked \subseteq Requests
    /\ \A r \in asked : r.copy \in DOMAIN copies /\ r.index \in DOMAIN ListOf(r.copy)
ServerOK ==
    /\ left \in [copies : Nat, user : Nat, served : Nat, losses : Nat]
    /\ copies \in Seq(Selections)
    /\ wanted \in Seq({"text", "files"}) /\ (wanted # <<>> => copies # <<>>)
    /\ AskedOK
    /\ online \in BOOLEAN /\ dropped \in BOOLEAN /\ closed \in BOOLEAN

(* A signal that names a copy or a request names one there is. *)
Contents == Seq(Nat \X Nat \X Nat)
Responses == [kind : {"refused", "short", "size", "bytes"}, bytes : Contents, size : Nat]
Signals ==
    [kind : {"paste"}, arg : {"text", "files"}]
    \cup [kind : {"text", "files"}, arg : Nat]
    \cup [kind : {"contents"}, arg : [id : 1 .. MaxStreamId, data : Responses]]
    \cup [kind : {"serve"}, arg : [id : Nat, file : Nat]]
SignalOK(s) ==
    /\ s.kind = "paste" => copies # <<>>
    /\ s.kind \in {"text", "files"} => s.arg \in DOMAIN copies /\ copies[s.arg].what = s.kind
    /\ s.kind = "serve" => s.arg.id \in DOMAIN asOf /\ s.arg.file \in {asOf[s.arg.id].file, 0}
SignalsOK ==
    /\ signals \in Seq(Signals) /\ Len(signals) <= ClipQueueCap
    /\ \A n \in DOMAIN signals : SignalOK(signals[n])

Tasks == [id : Nat, file : Nat, at : {"waiting", "reading", "done"}, on : Nat]
Reading(ts) == {t \in ts : t.at = "reading"}
ServingOK ==
    /\ serving \subseteq Tasks /\ IsFiniteSet(serving)
    /\ Cardinality(Reading(serving)) <= Permits
    /\ asOf \in Seq([file : Nat, on : Nat])
    /\ \A t \in serving : t.id \in DOMAIN asOf /\ t.file \in {asOf[t.id].file, 0}
    /\ \A id \in DOMAIN served : id \in DOMAIN asOf /\ served[id] \in {asOf[id].file, 0}

(* A job has one request open, for the file it is at; the file is as long  *)
(* as what was received of it.                                             *)
Jobs == [dir : Nat \ {0}, copy : Nat, plan : SUBSET Nat, current : Currents \cup {None}]
Workable(j, files) ==
    /\ j \in Jobs /\ j.copy \in DOMAIN copies /\ copies[j.copy].what = "files"
    /\ j.plan \subseteq DOMAIN ListOf(j.copy)
    /\ \A i \in DOMAIN files : files[i] \in Contents
    /\ j.current # None =>
           /\ j.current.index \in DOMAIN ListOf(j.copy)
           /\ j.current.index \in DOMAIN files
           /\ Len(files[j.current.index]) = j.current.offset
           /\ j.current.sized => j.current.offset <= j.current.size
           /\ ~j.current.sized => j.current.offset = 0
JobOK ==
    /\ listing \in 0 .. Len(copies) /\ nextId \in 1 .. MaxStreamId
    /\ ~HasJob => outstanding = None
    /\ HasJob => /\ job.dir \in DOMAIN cache /\ job.copy = listing
                 /\ Workable(job, cache[job.dir]) /\ job.current # None
                 /\ outstanding \in Openings
                 /\ outstanding.size => ~job.current.sized
                 /\ ~outstanding.size => job.current.sized

(* A directory has one owner: the job, an event under way, the pasteboard. *)
Events == [kind : {"text", "preparing", "failed", "ready", "reconnecting"}, dir : Nat]
Ready(evs) == {evs[n].dir : n \in {k \in DOMAIN evs : evs[k].kind = "ready"}}
OnceReady(evs) ==
    \A n, k \in DOMAIN evs :
        evs[n].kind = "ready" /\ evs[k].kind = "ready" /\ evs[n].dir = evs[k].dir => n = k
EventsOK(evs) == evs \in Seq(Events) /\ OnceReady(evs) /\ (closed => evs = <<>>)
CacheOK ==
    /\ EventsOK(events)
    /\ DOMAIN cache \subseteq Dirs
    /\ published \subseteq DOMAIN cache /\ Ready(events) \subseteq DOMAIN cache
    /\ HasJob => job.dir \notin published /\ job.dir \notin Ready(events)
    /\ published \cap Ready(events) = {}
    /\ ~closed => \A d \in DOMAIN cache :
                      (HasJob /\ job.dir = d) \/ d \in published \/ d \in Ready(events)

(* What the window has written it has acknowledged, or is about to; a      *)
(* place that is reserved is still empty.                                  *)
Boards == [by : {"nobody", "user", "remote"}, what : {"nothing", "text", "files"}, n : Nat]
BoardOK ==
    /\ board \in Boards /\ localClip \in Boards /\ posted \in Seq(Boards) /\ changes \in Nat
    /\ delivered \in 0 .. changes \cup {None} /\ reserved \in 0 .. changes \cup {None}
    /\ handling \in {"nothing", "reserve", "acknowledge"}
    /\ handling # "nothing" => delivered # changes /\ reserved # changes
    /\ handling = "reserve" => board = Empty
    /\ handling = "acknowledge" => board.by = "remote"
    /\ handling = "nothing" /\ board.by = "remote" => delivered = changes
    /\ reserved = changes => board = Empty
    /\ board.by = "remote" /\ board.what = "files" => board.n \in published
    /\ OnlyOwnCopiesOffered

Owned == ServerOK /\ SignalsOK /\ ServingOK /\ JobOK /\ CacheOK /\ BoardOK
-----------------------------------------------------------------------------
(* What is in the directories. *)

FilesOf(list) == {i \in Planned(list) : ~list[i].dir}
WholeOf(c) == Whole(c, ListOf(c))
IsWhole(files) == \E c \in DOMAIN copies : copies[c].what = "files" /\ files = WholeOf(c)

(* The files of a plan that were reached are there, and all but the one at *)
(* work are complete.                                                      *)
Partial(j, files) ==
    LET list == ListOf(j.copy)
    IN /\ j.plan \subseteq Planned(list) /\ DOMAIN files \subseteq FilesOf(list)
       /\ FilesOf(list) \subseteq DOMAIN files \cup j.plan
       /\ \A i \in DOMAIN files :
              i \in j.plan \/ files[i] = Bytes(j.copy, i, 0, list[i].size)
                           \/ (j.current # None /\ i = j.current.index)
       /\ j.current # None =>
              /\ j.current.index \in DOMAIN files
              /\ files[j.current.index] = Bytes(j.copy, j.current.index, 0, j.current.offset)
              /\ j.current.sized => j.current.size = list[j.current.index].size

(* The request that is open, and what may answer it. *)
Requested ==
    [id |-> outstanding.id, copy |-> job.copy, index |-> job.current.index,
     size |-> ~job.current.sized, from |-> job.current.offset, len |-> outstanding.len]
AnswersOnly(q) ==
    /\ \A r \in asked : r.id = q.id => r = q
    /\ \A n \in DOMAIN signals :
           signals[n].kind = "contents" /\ signals[n].arg.id = q.id =>
               signals[n].arg.data \in AnswersTo(q)
Answered == \A q \in {Requested} : AnswersOnly(q)

Filled ==
    /\ \A d \in Ready(events) : \A files \in {cache[d]} : IsWhole(files)
    /\ HasJob => (\A files \in {cache[job.dir]} : Partial(job, files)) /\ Answered

(* A stream id does not come round while its last use is unanswered: there *)
(* are 2^32 - 1 of them, and they begin anew with each connection.         *)
IdIsFresh ==
    /\ \A r \in asked : r.id # nextId
    /\ \A n \in DOMAIN signals : signals[n].kind = "contents" => signals[n].arg.id # nextId

-----------------------------------------------------------------------------
(* Lists, events and directories. *)

LEMMA NoneIsNone == /\ None \notin Nat /\ None \notin Currents /\ None \notin Openings
BY NoneAssumption

(* The list of a copy is a sequence of entries. *)
LEMMA ListIsOne ==
    ASSUME ServerOK, NEW c \in DOMAIN copies
    PROVE  ListOf(c) \in Seq(Entries) /\ copies[c].what \in {"text", "files"}
<1>1. copies[c] \in Selections
  BY DEF ServerOK
<1> QED BY <1>1, FetchAssumption DEF ListOf, AllSelections

(* An event that is not about a directory leaves the ready ones alone. *)
LEMMA RaiseQuiet ==
    ASSUME NEW evs, EventsOK(evs),
           NEW kind \in {"text", "preparing", "failed", "reconnecting"}
    PROVE  EventsOK(Raise(evs, kind, 0)) /\ Ready(Raise(evs, kind, 0)) = Ready(evs)
<1> DEFINE e == Event(kind, 0)
           new == Append(evs, e)
<1>1. CASE closed
  BY <1>1 DEF Raise
<1>2. CASE ~closed
  <2>1. e \in Events /\ e.kind # "ready"
    BY DEF Events, Event
  <2>2. evs \in Seq(Events) /\ OnceReady(evs)
    BY DEF EventsOK
  <2>3. /\ new \in Seq(Events) /\ Len(new) = Len(evs) + 1 /\ new[Len(evs) + 1] = e
        /\ \A n \in DOMAIN evs : new[n] = evs[n]
        /\ DOMAIN new = DOMAIN evs \cup {Len(evs) + 1}
    BY <2>1, <2>2
  <2>4. {k \in DOMAIN new : new[k].kind = "ready"} = {k \in DOMAIN evs : evs[k].kind = "ready"}
    BY <2>1, <2>3
  <2>5. Ready(new) = Ready(evs)
    BY <2>3, <2>4 DEF Ready
  <2>6. OnceReady(new)
    BY <2>1, <2>2, <2>3 DEF OnceReady
  <2> QED BY <1>2, <2>3, <2>5, <2>6 DEF EventsOK, Raise
<1> QED BY <1>1, <1>2

LEMMA RaiseReady ==
    ASSUME NEW evs, EventsOK(evs), NEW d \in Nat, d \notin Ready(evs)
    PROVE  /\ EventsOK(Raise(evs, "ready", d))
           /\ closed => Ready(Raise(evs, "ready", d)) = Ready(evs)
           /\ ~closed => Ready(Raise(evs, "ready", d)) = Ready(evs) \cup {d}
<1> DEFINE e == Event("ready", d)
           new == Append(evs, e)
<1>1. CASE closed
  BY <1>1 DEF Raise
<1>2. CASE ~closed
  <2>1. e \in Events /\ e.kind = "ready" /\ e.dir = d
    BY DEF Events, Event
  <2>2. evs \in Seq(Events) /\ OnceReady(evs)
    BY DEF EventsOK
  <2>3. /\ new \in Seq(Events) /\ Len(new) = Len(evs) + 1 /\ new[Len(evs) + 1] = e
        /\ \A n \in DOMAIN evs : new[n] = evs[n]
        /\ DOMAIN new = DOMAIN evs \cup {Len(evs) + 1}
    BY <2>1, <2>2
  <2>4. {k \in DOMAIN new : new[k].kind = "ready"}
            = {k \in DOMAIN evs : evs[k].kind = "ready"} \cup {Len(evs) + 1}
    BY <2>1, <2>3
  <2>5. Ready(new) = Ready(evs) \cup {d}
    BY <2>1, <2>3, <2>4 DEF Ready
  <2>6. \A n \in DOMAIN evs : evs[n].kind = "ready" => evs[n].dir # d
    BY DEF Ready
  <2>7. OnceReady(new)
    BY <2>1, <2>2, <2>3, <2>6 DEF OnceReady
  <2> QED BY <1>2, <2>3, <2>5, <2>7 DEF EventsOK, Raise
<1> QED BY <1>1, <1>2

(* Handling the next event. *)
LEMMA HandledEvent ==
    ASSUME NEW evs, EventsOK(evs), evs # <<>>
    PROVE  /\ EventsOK(Tail(evs)) /\ Head(evs) \in Events
           /\ Head(evs).kind # "ready" => Ready(Tail(evs)) = Ready(evs)
           /\ Head(evs).kind = "ready" => /\ Ready(Tail(evs)) = Ready(evs) \ {Head(evs).dir}
                                          /\ Head(evs).dir \in Ready(evs)
<1> DEFINE t == Tail(evs)
<1>1. evs \in Seq(Events) /\ OnceReady(evs) /\ ~closed
  BY DEF EventsOK
<1>2. /\ t \in Seq(Events) /\ Len(t) = Len(evs) - 1 /\ Len(evs) \in Nat \ {0}
      /\ \A n \in 1 .. Len(evs) - 1 : t[n] = evs[n + 1]
      /\ Head(evs) = evs[1] /\ evs[1] \in Events
  BY <1>1
<1>3. OnceReady(t)
  BY <1>1, <1>2 DEF OnceReady
<1>4. ASSUME NEW d
      PROVE  d \in Ready(t) <=> \E n \in 2 .. Len(evs) : evs[n].kind = "ready" /\ evs[n].dir = d
  <2>1. d \in Ready(t) <=> \E n \in 1 .. Len(evs) - 1 : t[n].kind = "ready" /\ t[n].dir = d
    <3>1. DOMAIN t = 1 .. Len(evs) - 1
      BY <1>2
    <3> QED BY <3>1 DEF Ready
  <2>2. ASSUME NEW n \in 2 .. Len(evs)
        PROVE  n - 1 \in 1 .. Len(evs) - 1 /\ t[n - 1] = evs[n]
    BY <1>2
  <2>3. ASSUME NEW n \in 1 .. Len(evs) - 1
        PROVE  n + 1 \in 2 .. Len(evs) /\ t[n] = evs[n + 1]
    BY <1>2
  <2> QED BY <2>1, <2>2, <2>3
<1>5. ASSUME NEW d
      PROVE  d \in Ready(evs) <=> \E n \in 1 .. Len(evs) : evs[n].kind = "ready" /\ evs[n].dir = d
  BY <1>1 DEF Ready
<1>6. ASSUME Head(evs).kind # "ready"
      PROVE  Ready(t) = Ready(evs)
  <2>1. \A n \in 1 .. Len(evs) : n = 1 \/ n \in 2 .. Len(evs)
    BY <1>2
  <2>2. \A n \in 2 .. Len(evs) : n \in 1 .. Len(evs)
    BY <1>2
  <2>3. evs[1].kind # "ready"
    BY <1>2, <1>6
  <2>4. \A d : d \in Ready(t) <=> d \in Ready(evs)
    BY <1>4, <1>5, <2>1, <2>2, <2>3
  <2> QED BY <2>4
<1>7. ASSUME Head(evs).kind = "ready"
      PROVE  Ready(t) = Ready(evs) \ {Head(evs).dir} /\ Head(evs).dir \in Ready(evs)
  <2>1. \A n \in 2 .. Len(evs) : evs[n].kind = "ready" => evs[n].dir # evs[1].dir
    BY <1>1, <1>2, <1>7 DEF OnceReady
  <2> QED BY <1>2, <1>4, <1>5, <1>7, <2>1
<1> QED BY <1>1, <1>2, <1>3, <1>6, <1>7 DEF EventsOK

LEMMA WithoutIs ==
    ASSUME NEW dirs, NEW dir
    PROVE  /\ DOMAIN Without(dirs, dir) = DOMAIN dirs \ {dir}
           /\ \A d \in DOMAIN dirs \ {dir} : Without(dirs, dir)[d] = dirs[d]
BY DEF Without, Restrict

LEMMA WithIs ==
    ASSUME NEW dirs, NEW dir, NEW files
    PROVE  /\ DOMAIN With(dirs, dir, files) = DOMAIN dirs \cup {dir}
           /\ With(dirs, dir, files)[dir] = files
           /\ \A d \in DOMAIN dirs \ {dir} : With(dirs, dir, files)[d] = dirs[d]
BY DEF With

-----------------------------------------------------------------------------
(* How an advance ends: with a request, with nothing left to do, or in     *)
(* failure.  No other directory is touched.                                *)

Others(dirs, dir) == \A d \in DOMAIN dirs \ {dir} : cache'[d] = dirs[d]
FetchFailed(j, dirs, evs) ==
    /\ job' = NoJob /\ outstanding' = None /\ asked' = asked
    /\ events' = Raise(evs, "failed", 0)
    /\ DOMAIN cache' = DOMAIN dirs \ {j.dir} /\ Others(dirs, j.dir)
FetchEnded(j, dirs, evs) ==
    /\ job' = NoJob /\ outstanding' = None /\ asked' = asked
    /\ events' = Raise(evs, "ready", j.dir)
    /\ DOMAIN cache' = DOMAIN dirs /\ Others(dirs, j.dir)
FetchAsks(j, dirs, evs) ==
    /\ job'.dir = j.dir /\ job'.copy = j.copy
    /\ Workable(job', cache'[j.dir]) /\ job'.current # None
    /\ outstanding' \in Openings /\ outstanding'.id = nextId
    /\ outstanding'.size => ~job'.current.sized
    /\ ~outstanding'.size => job'.current.sized
    /\ asked' = asked \cup {Requested'}
    /\ events' = evs
    /\ DOMAIN cache' = DOMAIN dirs /\ Others(dirs, j.dir)

LEMMA FailStep ==
    ASSUME NEW j, NEW dirs, NEW evs, FailJob(j, dirs, evs), asked' = asked
    PROVE  FetchFailed(j, dirs, evs)
BY WithoutIs DEF FailJob, FetchFailed, Others

LEMMA AskStep ==
    ASSUME ServerOK, NEW j, NEW dirs, NEW evs,
           j.dir \in DOMAIN dirs, Workable(j, dirs[j.dir]), j.current # None,
           listing' = j.copy, nextId \in 1 .. MaxStreamId, Ask(j, dirs, evs)
    PROVE  /\ nextId' \in 1 .. MaxStreamId
           /\ FetchFailed(j, dirs, evs) \/ (FetchAsks(j, dirs, evs) /\ job' = j /\ cache' = dirs)
<1> DEFINE cur == j.current
           rest == cur.size - cur.offset
           len == IF ~cur.sized THEN 8 ELSE IF rest < Chunk THEN rest ELSE Chunk
           request == [id |-> nextId, copy |-> listing', index |-> cur.index,
                       size |-> ~cur.sized, from |-> cur.offset, len |-> len]
           opening == [id |-> nextId, size |-> ~cur.sized, len |-> len]
<1>1. j \in Jobs /\ cur \in Currents /\ (cur.sized => cur.offset <= cur.size)
  BY DEF Workable, Jobs
<1>2. cur.sized \in BOOLEAN /\ len \in Nat
  BY <1>1, FetchAssumption DEF Currents
<1>3. nextId' \in 1 .. MaxStreamId
  BY FetchAssumption DEF Ask
<1>4. CASE FailJob(j, dirs, evs) /\ UNCHANGED asked
  BY <1>3, <1>4, FailStep
<1>5. CASE /\ job' = j /\ cache' = dirs /\ events' = evs
           /\ outstanding' = opening /\ asked' = asked \cup {request}
  <2>1. opening \in Openings
    BY <1>2 DEF Openings
  <2>2. Requested' = request
    BY <1>5 DEF Requested
  <2> HIDE DEF request, len, rest
  <2> QED BY <1>1, <1>2, <1>3, <1>5, <2>1, <2>2 DEF FetchAsks, Others
<1>6. \/ FailJob(j, dirs, evs) /\ UNCHANGED asked
      \/ /\ job' = j /\ cache' = dirs /\ events' = evs
         /\ outstanding' = opening /\ asked' = asked \cup {request}
  BY DEF Ask
<1> QED BY <1>4, <1>5, <1>6

(* The files of a plan that an advance creates. *)
LEMMA CreatedIs ==
    ASSUME NEW list, NEW new, NEW files
    PROVE  /\ \A i : i \in DOMAIN Created(list, new, files)
                         <=> i \in DOMAIN files \/ (i \in new /\ ~list[i].dir)
           /\ \A i \in new : ~list[i].dir => Created(list, new, files)[i] = <<>>
           /\ \A i \in DOMAIN files : i \notin new \/ list[i].dir
                                          => Created(list, new, files)[i] = files[i]
BY DEF Created

UpTo(j, i) == {k \in j.plan : k = i \/ Before(ListOf(j.copy), k, i)}
Opening(j, i) ==
    [j EXCEPT !.plan = @ \ UpTo(j, i), !.current = Opened(ListOf(j.copy), i)]
OpeningIn(j, i, dirs) ==
    With(dirs, j.dir, Created(ListOf(j.copy), UpTo(j, i), dirs[j.dir]))

LEMMA OpeningIs ==
    ASSUME ServerOK, NEW j, NEW dirs, Workable(j, dirs[j.dir]), j.dir \in DOMAIN dirs,
           NEW i \in j.plan, NeedsData(ListOf(j.copy)[i])
    PROVE  /\ Workable(Opening(j, i), OpeningIn(j, i, dirs)[j.dir])
           /\ Opening(j, i).dir = j.dir /\ Opening(j, i).copy = j.copy
           /\ Opening(j, i).plan = j.plan \ UpTo(j, i)
           /\ Opening(j, i).current = Opened(ListOf(j.copy), i)
           /\ Opening(j, i).current # None
<1> DEFINE list == ListOf(j.copy)
           cur == Opened(list, i)
           files == Created(list, UpTo(j, i), dirs[j.dir])
<1>1. j \in Jobs /\ j.plan \subseteq DOMAIN list /\ j.copy \in DOMAIN copies
      /\ copies[j.copy].what = "files" /\ \A k \in DOMAIN dirs[j.dir] : dirs[j.dir][k] \in Contents
  BY DEF Workable
<1>2. list \in Seq(Entries) /\ i \in DOMAIN list
  BY <1>1, ListIsOne
<1>3. list[i] \in Entries
  BY <1>2
<1>4. /\ cur \in Currents /\ cur.index = i /\ cur.offset = 0 /\ cur.size \in Nat
      /\ cur.sized \in BOOLEAN
  BY <1>2, <1>3 DEF Opened, Currents, Entries
<1>5. cur # None
  BY <1>4, NoneIsNone
<1>6. UpTo(j, i) \subseteq j.plan /\ i \in UpTo(j, i)
  BY DEF UpTo
<1>7. /\ Opening(j, i) \in Jobs
      /\ Opening(j, i).dir = j.dir /\ Opening(j, i).copy = j.copy
      /\ Opening(j, i).plan = j.plan \ UpTo(j, i)
      /\ Opening(j, i).current = cur
  <2> HIDE DEF cur
  <2>1. Opening(j, i) = [j EXCEPT !.plan = @ \ UpTo(j, i), !.current = cur]
    BY DEF Opening, cur
  <2> QED BY <1>1, <1>4, <2>1 DEF Jobs
<1>8. OpeningIn(j, i, dirs)[j.dir] = files
  BY DEF OpeningIn, With
<1>9. ~list[i].dir
  BY DEF NeedsData
<1>10. /\ \A k : k \in DOMAIN files
                   <=> k \in DOMAIN dirs[j.dir] \/ (k \in UpTo(j, i) /\ ~list[k].dir)
       /\ \A k \in UpTo(j, i) : ~list[k].dir => files[k] = <<>>
       /\ \A k \in DOMAIN dirs[j.dir] : k \notin UpTo(j, i) \/ list[k].dir
                                              => files[k] = dirs[j.dir][k]
  BY CreatedIs
<1>11. <<>> \in Contents /\ Len(<<>>) = 0
  BY DEF Contents
<1> HIDE DEF files, cur, list
<1>12. /\ \A k \in DOMAIN files : files[k] \in Contents
       /\ i \in DOMAIN files /\ files[i] = <<>>
  BY <1>1, <1>6, <1>9, <1>10, <1>11
<1>13. Workable(Opening(j, i), files)
  BY <1>1, <1>2, <1>4, <1>6, <1>7, <1>11, <1>12 DEF Workable, list
<1> QED BY <1>5, <1>7, <1>8, <1>13 DEF cur, list

LEMMA AdvanceStep ==
    ASSUME ServerOK, NEW j, NEW dirs, NEW evs,
           j.dir \in DOMAIN dirs, Workable(j, dirs[j.dir]),
           listing' = j.copy, nextId \in 1 .. MaxStreamId, Advance(j, dirs, evs)
    PROVE  /\ nextId' \in 1 .. MaxStreamId
           /\ \/ FetchFailed(j, dirs, evs)
              \/ FetchAsks(j, dirs, evs)
              \/ FetchEnded(j, dirs, evs)
<1> DEFINE list == ListOf(j.copy)
           needed == {i \in j.plan : NeedsData(list[i])}
<1>1. CASE j.current # None /\ Ask(j, dirs, evs)
  BY <1>1, AskStep
<1>2. CASE \E i \in needed : Ask(Opening(j, i), OpeningIn(j, i, dirs), evs)
  <2>1. PICK i \in needed : Ask(Opening(j, i), OpeningIn(j, i, dirs), evs)
    BY <1>2
  <2> DEFINE k == Opening(j, i)
             more == OpeningIn(j, i, dirs)
  <2>2. Workable(k, more[j.dir]) /\ k.dir = j.dir /\ k.copy = j.copy /\ k.current # None
    BY OpeningIs
  <2>3. DOMAIN more = DOMAIN dirs /\ \A d \in DOMAIN dirs \ {j.dir} : more[d] = dirs[d]
    BY DEF OpeningIn, With
  <2> HIDE DEF k, more
  <2>4. Ask(k, more, evs)
    BY <2>1 DEF k, more
  <2>5. /\ nextId' \in 1 .. MaxStreamId
        /\ FetchFailed(k, more, evs) \/ FetchAsks(k, more, evs)
    BY <2>2, <2>3, <2>4, AskStep
  <2> QED BY <2>2, <2>3, <2>5 DEF FetchFailed, FetchAsks, Others
<1>3. CASE /\ job' = NoJob /\ outstanding' = None
           /\ cache' = With(dirs, j.dir, Created(list, j.plan, dirs[j.dir]))
           /\ events' = Raise(evs, "ready", j.dir)
           /\ UNCHANGED <<nextId, asked>>
  <2>1. /\ DOMAIN cache' = DOMAIN dirs
        /\ \A d \in DOMAIN dirs \ {j.dir} : cache'[d] = dirs[d]
    BY <1>3 DEF With
  <2> QED BY <1>3, <2>1 DEF FetchEnded, Others
<1>4. CASE FailJob(j, dirs, evs) /\ UNCHANGED <<nextId, asked>>
  BY <1>4, FailStep
<1> QED BY <1>1, <1>2, <1>3, <1>4 DEF Advance, Opening, OpeningIn, UpTo

(* The directory an advance works in belongs to its job alone. *)
Home(j, dirs, evs) ==
    /\ EventsOK(evs) /\ DOMAIN dirs \subseteq Dirs
    /\ published \subseteq DOMAIN dirs /\ Ready(evs) \subseteq DOMAIN dirs
    /\ j.dir \notin published /\ j.dir \notin Ready(evs)
    /\ published \cap Ready(evs) = {}
    /\ ~closed => \A d \in DOMAIN dirs : d = j.dir \/ d \in published \/ d \in Ready(evs)

LEMMA FetchKeeps ==
    ASSUME ServerOK, NEW j, NEW dirs, NEW evs,
           j \in Jobs, j.copy \in DOMAIN copies, j.dir \in DOMAIN dirs, listing' = j.copy,
           Home(j, dirs, evs), nextId \in 1 .. MaxStreamId, nextId' \in 1 .. MaxStreamId,
           UNCHANGED <<copies, closed, published>>,
           FetchFailed(j, dirs, evs) \/ FetchAsks(j, dirs, evs) \/ FetchEnded(j, dirs, evs)
    PROVE  JobOK' /\ CacheOK' /\ AskedOK'
<1>1. copies \in Seq(Selections) /\ AskedOK /\ closed \in BOOLEAN
  BY DEF ServerOK
<1>2. listing' \in 0 .. Len(copies') /\ j.dir \in Nat \ {0}
  BY <1>1 DEF Jobs
<1>3. Dirs' = Dirs
  BY DEF Dirs
<1>4. ASSUME NEW e, EventsOK(e) PROVE EventsOK(e)'
  BY <1>4 DEF EventsOK
<1>5. CASE FetchFailed(j, dirs, evs)
  <2>1. EventsOK(events') /\ Ready(events') = Ready(evs)
    BY <1>5, RaiseQuiet DEF FetchFailed, Home
  <2>2. ~HasJob'
    BY <1>5 DEF FetchFailed, HasJob
  <2>3. JobOK'
    BY <1>2, <1>5, <2>2 DEF FetchFailed, JobOK
  <2>4. AskedOK'
    BY <1>1, <1>5 DEF FetchFailed, AskedOK, ListOf
  <2>5. CacheOK'
    <3>1. DOMAIN cache' = DOMAIN dirs \ {j.dir}
      BY <1>5 DEF FetchFailed
    <3> QED BY <1>3, <1>4, <2>1, <2>2, <3>1 DEF CacheOK, Home, EventsOK
  <2> QED BY <2>3, <2>4, <2>5
<1>6. CASE FetchEnded(j, dirs, evs)
  <2>1. /\ EventsOK(events')
        /\ closed => Ready(events') = Ready(evs)
        /\ ~closed => Ready(events') = Ready(evs) \cup {j.dir}
    BY <1>2, <1>6, RaiseReady DEF FetchEnded, Home
  <2>2. ~HasJob'
    BY <1>6 DEF FetchEnded, HasJob
  <2>3. JobOK'
    BY <1>2, <1>6, <2>2 DEF FetchEnded, JobOK
  <2>4. AskedOK'
    BY <1>1, <1>6 DEF FetchEnded, AskedOK, ListOf
  <2>5. CacheOK'
    <3>1. DOMAIN cache' = DOMAIN dirs
      BY <1>6 DEF FetchEnded
    <3> QED BY <1>1, <1>3, <1>4, <2>1, <2>2, <3>1 DEF CacheOK, Home, EventsOK
  <2> QED BY <2>3, <2>4, <2>5
<1>7. CASE FetchAsks(j, dirs, evs)
  <2>1. /\ events' = evs /\ DOMAIN cache' = DOMAIN dirs /\ job'.dir = j.dir
        /\ Workable(job', cache'[j.dir]) /\ job'.current # None /\ job'.copy = j.copy
        /\ outstanding' \in Openings
        /\ outstanding'.size => ~job'.current.sized
        /\ ~outstanding'.size => job'.current.sized
        /\ asked' = asked \cup {Requested'}
    BY <1>7 DEF FetchAsks
  <2>2. HasJob'
    BY <1>2, <2>1 DEF HasJob, NoJob
  <2>3. Workable(job, cache[job.dir])'
    BY <2>1 DEF Workable, ListOf
  <2>4. JobOK'
    BY <1>2, <2>1, <2>2, <2>3 DEF JobOK
  <2>5. CacheOK'
    BY <1>3, <1>4, <2>1, <2>2 DEF CacheOK, Home, EventsOK
  <2>6. /\ job' \in Jobs /\ job'.current \in Currents
        /\ job'.current.index \in DOMAIN ListOf(job'.copy)
    BY <2>1 DEF Workable, Jobs
  <2>7. Requested' \in Requests
    BY <2>1, <2>6 DEF Requested, Requests, Jobs, Currents, Openings
  <2>8. Requested'.copy = job'.copy /\ Requested'.index = job'.current.index
    BY DEF Requested
  <2>9. AskedOK'
    BY <1>1, <2>1, <2>6, <2>7, <2>8 DEF AskedOK, ListOf
  <2> QED BY <2>4, <2>5, <2>9
<1> QED BY <1>5, <1>6, <1>7

(* Dropping the job at work leaves the directories of the others. *)
Kept == IF HasJob THEN Without(cache, job.dir) ELSE cache
LEMMA KeptIs ==
    ASSUME JobOK, CacheOK
    PROVE  /\ \A d : d \in DOMAIN Kept <=> d \in DOMAIN cache /\ ~(HasJob /\ job.dir = d)
           /\ \A d \in DOMAIN Kept : Kept[d] = cache[d]
           /\ published \subseteq DOMAIN Kept /\ Ready(events) \subseteq DOMAIN Kept
<1>1. CASE HasJob
  <2>1. /\ DOMAIN Kept = DOMAIN cache \ {job.dir}
        /\ \A d \in DOMAIN cache \ {job.dir} : Kept[d] = cache[d]
    BY <1>1, WithoutIs DEF Kept
  <2> QED BY <1>1, <2>1 DEF CacheOK
<1>2. CASE ~HasJob
  BY <1>2 DEF Kept, CacheOK
<1> QED BY <1>1, <1>2

Fresh(dir, c) == [dir |-> dir, copy |-> c, plan |-> Planned(ListOf(c)), current |-> None]
LEMMA FreshIs ==
    ASSUME ServerOK, JobOK, CacheOK, NEW c \in DOMAIN copies, copies[c].what = "files",
           NEW dir \in Dirs \ DOMAIN Kept
    PROVE  /\ Workable(Fresh(dir, c), With(Kept, dir, <<>>)[dir])
           /\ dir \in DOMAIN With(Kept, dir, <<>>)
           /\ Home(Fresh(dir, c), With(Kept, dir, <<>>), Raise(events, "preparing", 0))
           /\ Fresh(dir, c) \in Jobs /\ Fresh(dir, c).dir = dir /\ Fresh(dir, c).copy = c
<1>1. ListOf(c) \in Seq(Entries) /\ copies \in Seq(Selections)
  BY ListIsOne DEF ServerOK
<1>2. Planned(ListOf(c)) \subseteq DOMAIN ListOf(c) /\ DOMAIN ListOf(c) \subseteq Nat
  BY <1>1 DEF Planned
<1>3. c \in Nat /\ dir \in Nat \ {0}
  BY <1>1 DEF Dirs
<1>4. Fresh(dir, c) \in Jobs
  BY <1>2, <1>3 DEF Fresh, Jobs
<1>5. /\ Fresh(dir, c).dir = dir /\ Fresh(dir, c).copy = c
      /\ Fresh(dir, c).plan = Planned(ListOf(c)) /\ Fresh(dir, c).current = None
  BY DEF Fresh
<1>6. DOMAIN With(Kept, dir, <<>>) = DOMAIN Kept \cup {dir} /\ With(Kept, dir, <<>>)[dir] = <<>>
  BY DEF With
<1>7. Workable(Fresh(dir, c), <<>>)
  BY <1>2, <1>4, <1>5 DEF Workable
<1>8. LET evs == Raise(events, "preparing", 0) IN EventsOK(evs) /\ Ready(evs) = Ready(events)
  BY RaiseQuiet DEF CacheOK
<1>9. Home(Fresh(dir, c), With(Kept, dir, <<>>), Raise(events, "preparing", 0))
  BY <1>5, <1>6, <1>8, KeptIs DEF Home, CacheOK
<1> QED BY <1>4, <1>5, <1>6, <1>7, <1>9

LEMMA ListStep ==
    ASSUME ServerOK, JobOK, CacheOK, NEW c \in DOMAIN copies, copies[c].what = "files",
           HandleList(c)
    PROVE  /\ listing' = c
           /\ \/ /\ job' = NoJob /\ outstanding' = None /\ cache' = Kept
                 /\ UNCHANGED <<nextId, asked>>
                 /\ \/ events' = events
                    \/ events' = Raise(Raise(events, "preparing", 0), "failed", 0)
              \/ \E dir \in Dirs \ DOMAIN Kept :
                    /\ MayPlan(ListOf(c))
                    /\ Advance(Fresh(dir, c), With(Kept, dir, <<>>),
                               Raise(events, "preparing", 0))
BY DEF HandleList, Kept, Fresh

LEMMA HandleListKeeps ==
    ASSUME ServerOK, JobOK, CacheOK, NEW c \in DOMAIN copies, copies[c].what = "files",
           HandleList(c), UNCHANGED <<copies, closed, published>>
    PROVE  JobOK' /\ CacheOK' /\ AskedOK'
<1>1. CASE /\ job' = NoJob /\ outstanding' = None /\ cache' = Kept
           /\ UNCHANGED <<nextId, asked>>
           /\ \/ events' = events
              \/ events' = Raise(Raise(events, "preparing", 0), "failed", 0)
  <2>1. EventsOK(events') /\ Ready(events') = Ready(events)
    BY <1>1, RaiseQuiet DEF CacheOK
  <2>2. ~HasJob' /\ listing' = c
    BY <1>1, ListStep DEF HasJob
  <2>3. JobOK'
    BY <1>1, <2>2 DEF JobOK, ServerOK
  <2>4. AskedOK'
    BY <1>1 DEF ServerOK, AskedOK, ListOf
  <2>5. CacheOK'
    BY <1>1, <2>1, <2>2, KeptIs DEF CacheOK, EventsOK, Dirs
  <2> QED BY <2>3, <2>4, <2>5
<1>2. ASSUME NEW dir \in Dirs \ DOMAIN Kept,
             Advance(Fresh(dir, c), With(Kept, dir, <<>>), Raise(events, "preparing", 0))
      PROVE  JobOK' /\ CacheOK' /\ AskedOK'
  <2> DEFINE j == Fresh(dir, c)
             dirs == With(Kept, dir, <<>>)
             evs == Raise(events, "preparing", 0)
  <2>1. /\ Workable(j, dirs[dir]) /\ dir \in DOMAIN dirs /\ Home(j, dirs, evs)
        /\ j \in Jobs /\ j.dir = dir /\ j.copy = c
    BY FreshIs
  <2>2. listing' = c /\ nextId \in 1 .. MaxStreamId /\ Advance(j, dirs, evs)
    BY <1>2, ListStep DEF JobOK
  <2> HIDE DEF j, dirs, evs
  <2>3. /\ nextId' \in 1 .. MaxStreamId
        /\ FetchFailed(j, dirs, evs) \/ FetchAsks(j, dirs, evs) \/ FetchEnded(j, dirs, evs)
    BY <2>1, <2>2, AdvanceStep
  <2> QED BY <2>1, <2>2, <2>3, FetchKeeps
<1> QED BY <1>1, <1>2, ListStep

(* The job and its files after an answer that can be used. *)
Sized(d) ==
    [job EXCEPT !.current =
        IF d.size = 0 THEN None ELSE [job.current EXCEPT !.size = d.size, !.sized = TRUE]]
Written(d) ==
    [job EXCEPT !.current =
        IF job.current.offset + Len(d.bytes) >= job.current.size THEN None
        ELSE [job.current EXCEPT !.offset = job.current.offset + Len(d.bytes)]]
Grown(d) == [cache[job.dir] EXCEPT ![job.current.index] = @ \o d.bytes]
Fits(d) ==
    /\ ~outstanding.size /\ d.kind = "bytes" /\ d.bytes # <<>>
    /\ Len(d.bytes) <= outstanding.len
    /\ Len(d.bytes) <= job.current.size - job.current.offset

LEMMA ContentsAre ==
    /\ \A b \in Contents : Len(b) \in Nat
    /\ \A b, c \in Contents : b \o c \in Contents /\ Len(b \o c) = Len(b) + Len(c)
BY DEF Contents

LEMMA CurrentsAre ==
    ASSUME NEW cur \in Currents, NEW n \in Nat
    PROVE  /\ cur.index \in Nat /\ cur.size \in Nat /\ cur.sized \in BOOLEAN /\ cur.offset \in Nat
           /\ [cur EXCEPT !.size = n, !.sized = TRUE]
                  = [index |-> cur.index, size |-> n, sized |-> TRUE, offset |-> cur.offset]
           /\ [cur EXCEPT !.offset = n]
                  = [index |-> cur.index, size |-> cur.size, sized |-> cur.sized, offset |-> n]
<1>1. /\ cur.index \in Nat /\ cur.size \in Nat /\ cur.sized \in BOOLEAN /\ cur.offset \in Nat
      /\ cur = [index |-> cur.index, size |-> cur.size, sized |-> cur.sized,
                offset |-> cur.offset]
  BY DEF Currents
<1>2. [cur EXCEPT !.offset = n]
          = [index |-> cur.index, size |-> cur.size, sized |-> cur.sized, offset |-> n]
  BY <1>1
<1>3. [cur EXCEPT !.size = n]
          = [index |-> cur.index, size |-> n, sized |-> cur.sized, offset |-> cur.offset]
  BY <1>1
<1>4. [cur EXCEPT !.size = n, !.sized = TRUE]
          = [index |-> cur.index, size |-> n, sized |-> TRUE, offset |-> cur.offset]
  <2> DEFINE c == [cur EXCEPT !.size = n]
  <2>1. c = [index |-> cur.index, size |-> n, sized |-> cur.sized, offset |-> cur.offset]
    BY <1>3
  <2> HIDE DEF c
  <2>2. \A s : [c EXCEPT !.sized = s]
                   = [index |-> cur.index, size |-> n, sized |-> s, offset |-> cur.offset]
    BY <2>1
  <2> QED BY <2>2, Zenon DEF c
<1> QED BY <1>1, <1>2, <1>4

LEMMA SizedIs ==
    ASSUME ServerOK, JobOK, HasJob, outstanding.size, NEW d \in Responses
    PROVE  /\ Workable(Sized(d), cache[job.dir]) /\ Sized(d) \in Jobs
           /\ Sized(d).dir = job.dir /\ Sized(d).copy = job.copy /\ Sized(d).plan = job.plan
           /\ Sized(d).current # None =>
                  /\ Sized(d).current = [index |-> job.current.index, size |-> d.size,
                                         sized |-> TRUE, offset |-> 0]
           /\ Sized(d).current = None => d.size = 0
<1> DEFINE cur == job.current
           new == [index |-> cur.index, size |-> d.size, sized |-> TRUE, offset |-> 0]
<1>1. /\ job \in Jobs /\ Workable(job, cache[job.dir]) /\ cur # None
      /\ ~cur.sized /\ d.size \in Nat
  BY DEF JobOK, Workable, Responses
<1>2. cur \in Currents /\ cur.offset = 0
  BY <1>1 DEF Workable, Jobs
<1>3. [cur EXCEPT !.size = d.size, !.sized = TRUE] = new /\ new \in Currents
  <2>1. new \in Currents
    BY <1>1, <1>2, CurrentsAre DEF Currents
  <2>2. [cur EXCEPT !.size = d.size, !.sized = TRUE]
            = [index |-> cur.index, size |-> d.size, sized |-> TRUE, offset |-> cur.offset]
    BY <1>1, <1>2, CurrentsAre
  <2> QED BY <1>2, <2>1, <2>2
<1>4. CASE d.size = 0
  <2>1. Sized(d) = [job EXCEPT !.current = None]
    BY <1>4 DEF Sized
  <2>2. /\ Sized(d) \in Jobs /\ Sized(d).dir = job.dir /\ Sized(d).copy = job.copy
        /\ Sized(d).plan = job.plan /\ Sized(d).current = None
    BY <1>1, <2>1 DEF Jobs
  <2> QED BY <1>1, <1>4, <2>2 DEF Workable
<1>5. CASE d.size # 0
  <2>1. Sized(d) = [job EXCEPT !.current = new]
    BY <1>3, <1>5 DEF Sized
  <2> HIDE DEF new
  <2>2. /\ Sized(d) \in Jobs /\ Sized(d).dir = job.dir /\ Sized(d).copy = job.copy
        /\ Sized(d).plan = job.plan /\ Sized(d).current = new /\ new # None
    BY <1>1, <1>3, <2>1, NoneIsNone DEF Jobs
  <2>3. /\ new.index = cur.index /\ new.sized = TRUE /\ new.offset = 0 /\ new.size = d.size
    BY DEF new
  <2>4. Workable(Sized(d), cache[job.dir])
    BY <1>1, <1>2, <2>2, <2>3 DEF Workable
  <2> QED BY <2>2, <2>4 DEF new
<1> QED BY <1>4, <1>5

LEMMA WrittenIs ==
    ASSUME ServerOK, JobOK, HasJob, NEW d \in Responses, Fits(d)
    PROVE  /\ Workable(Written(d), Grown(d)) /\ Written(d) \in Jobs
           /\ Written(d).dir = job.dir /\ Written(d).copy = job.copy
           /\ Written(d).plan = job.plan
           /\ Written(d).current # None =>
                  Written(d).current = [index |-> job.current.index, size |-> job.current.size,
                                        sized |-> TRUE,
                                        offset |-> job.current.offset + Len(d.bytes)]
           /\ Written(d).current = None => job.current.offset + Len(d.bytes) = job.current.size
           /\ DOMAIN Grown(d) = DOMAIN cache[job.dir]
           /\ \A i \in DOMAIN Grown(d) : i # job.current.index => Grown(d)[i] = cache[job.dir][i]
           /\ Grown(d)[job.current.index] = cache[job.dir][job.current.index] \o d.bytes
<1> DEFINE cur == job.current
           files == cache[job.dir]
           offset == cur.offset + Len(d.bytes)
           new == [index |-> cur.index, size |-> cur.size, sized |-> TRUE, offset |-> offset]
<1>1. /\ job \in Jobs /\ Workable(job, files) /\ cur # None /\ cur.sized
      /\ d.bytes \in Contents
  BY DEF JobOK, Fits, Workable, Responses
<1>2. /\ cur \in Currents /\ cur.index \in DOMAIN files
      /\ Len(files[cur.index]) = cur.offset /\ files[cur.index] \in Contents
      /\ \A i \in DOMAIN files : files[i] \in Contents
  BY <1>1 DEF Workable, Jobs
<1>3. /\ cur.offset \in Nat /\ cur.size \in Nat /\ Len(d.bytes) \in Nat /\ offset \in Nat
      /\ Len(d.bytes) <= cur.size - cur.offset
  <2>1. cur.offset \in Nat /\ cur.size \in Nat /\ Len(d.bytes) \in Nat
    BY <1>1, <1>2, ContentsAre, CurrentsAre
  <2> QED BY <2>1 DEF Fits
<1>4. [cur EXCEPT !.offset = offset] = new /\ new \in Currents
  <2>1. [cur EXCEPT !.offset = offset]
            = [index |-> cur.index, size |-> cur.size, sized |-> cur.sized, offset |-> offset]
    BY <1>2, <1>3, CurrentsAre
  <2>2. cur.sized = TRUE
    BY <1>1, <1>2, CurrentsAre
  <2>3. new \in Currents
    BY <1>2, <1>3, CurrentsAre DEF Currents
  <2> QED BY <2>1, <2>2, <2>3
<1>5. /\ files[cur.index] \o d.bytes \in Contents
      /\ Len(files[cur.index] \o d.bytes) = offset
  <2> HIDE DEF cur, files
  <2>1. \A b, c \in Contents : b \o c \in Contents /\ Len(b \o c) = Len(b) + Len(c)
    BY ContentsAre
  <2>2. d.bytes \in Contents /\ files[cur.index] \in Contents
    BY <1>1, <1>2
  <2>3. /\ files[cur.index] \o d.bytes \in Contents
        /\ Len(files[cur.index] \o d.bytes) = Len(files[cur.index]) + Len(d.bytes)
    BY <2>1, <2>2, Zenon
  <2> QED BY <1>2, <2>3 DEF offset
<1>6. /\ DOMAIN Grown(d) = DOMAIN files
      /\ \A i \in DOMAIN Grown(d) : i # cur.index => Grown(d)[i] = files[i]
      /\ Grown(d)[cur.index] = files[cur.index] \o d.bytes
  BY <1>2 DEF Grown
<1>7. \A i \in DOMAIN Grown(d) : Grown(d)[i] \in Contents
  BY <1>2, <1>5, <1>6
<1>8. CASE offset >= cur.size
  <2>1. Written(d) = [job EXCEPT !.current = None]
    BY <1>8 DEF Written
  <2>2. /\ Written(d) \in Jobs /\ Written(d).dir = job.dir /\ Written(d).copy = job.copy
        /\ Written(d).plan = job.plan /\ Written(d).current = None
    BY <1>1, <2>1 DEF Jobs
  <2>3. offset = cur.size
    BY <1>3, <1>8
  <2>4. Workable(Written(d), Grown(d))
    BY <1>1, <1>7, <2>2 DEF Workable
  <2> QED BY <1>6, <2>2, <2>3, <2>4
<1>9. CASE ~(offset >= cur.size)
  <2>1. Written(d) = [job EXCEPT !.current = new]
    BY <1>4, <1>9 DEF Written
  <2>2. new # None /\ new \in Currents
    BY <1>4, NoneIsNone
  <2>3. /\ new.index = cur.index /\ new.sized = TRUE /\ new.offset = offset
        /\ new.size = cur.size
    OBVIOUS
  <2> HIDE DEF new
  <2>4. /\ Written(d) \in Jobs /\ Written(d).dir = job.dir /\ Written(d).copy = job.copy
        /\ Written(d).plan = job.plan /\ Written(d).current = new
    BY <1>1, <2>1, <2>2 DEF Jobs
  <2>5. Workable(Written(d), Grown(d))
    <3>1. offset <= new.size
      BY <1>3, <1>9, <2>3
    <3>2. /\ cur.index \in DOMAIN ListOf(job.copy) /\ job.copy \in DOMAIN copies
          /\ copies[job.copy].what = "files" /\ job.plan \subseteq DOMAIN ListOf(job.copy)
      BY <1>1 DEF Workable
    <3>3. cur.index \in DOMAIN Grown(d) /\ Len(Grown(d)[cur.index]) = offset
      BY <1>2, <1>5, <1>6
    <3> HIDE DEF cur, files, offset
    <3> QED BY <1>7, <2>2, <2>3, <2>4, <3>1, <3>2, <3>3 DEF Workable
  <2> QED BY <1>6, <2>2, <2>4, <2>5 DEF new
<1> QED BY <1>8, <1>9

LEMMA ContentsStep ==
    ASSUME NEW answer, HandleContents(answer)
    PROVE  /\ listing' = listing
           /\ \/ UNCHANGED <<job, outstanding, nextId, cache, asked, events>>
              \/ /\ Expected(answer)
                 /\ \/ FailJob(job, cache, events) /\ UNCHANGED <<nextId, asked>>
                    \/ /\ outstanding.size /\ answer.data.kind = "size"
                       /\ Advance(Sized(answer.data), cache, events)
                    \/ /\ Fits(answer.data)
                       /\ Advance(Written(answer.data),
                                  With(cache, job.dir, Grown(answer.data)), events)
BY DEF HandleContents, Sized, Written, Grown, Fits

LEMMA HandleContentsKeeps ==
    ASSUME ServerOK, JobOK, CacheOK, NEW answer, answer.data \in Responses,
           HandleContents(answer), UNCHANGED <<copies, closed, published>>
    PROVE  JobOK' /\ CacheOK' /\ AskedOK'
<1> DEFINE d == answer.data
<1>1. CASE UNCHANGED <<job, outstanding, nextId, cache, asked, events>>
  <2>1. JobOK'
    BY <1>1, ContentsStep DEF JobOK, HasJob, Workable, ListOf
  <2>2. CacheOK'
    BY <1>1 DEF CacheOK, HasJob, EventsOK, Dirs
  <2>3. AskedOK'
    BY <1>1 DEF ServerOK, AskedOK, ListOf
  <2> QED BY <2>1, <2>2, <2>3
<1>2. ASSUME Expected(answer) PROVE HasJob
  BY <1>2 DEF Expected, JobOK
<1>3. ASSUME HasJob
      PROVE  /\ job \in Jobs /\ job.copy \in DOMAIN copies /\ job.dir \in DOMAIN cache
             /\ job.copy = listing /\ nextId \in 1 .. MaxStreamId
             /\ Home(job, cache, events)
  BY <1>3 DEF JobOK, Workable, CacheOK, Home
<1>4. CASE Expected(answer) /\ FailJob(job, cache, events) /\ UNCHANGED <<nextId, asked>>
  <2>1. FetchFailed(job, cache, events)
    BY <1>4, FailStep
  <2>2. HasJob /\ listing' = listing /\ nextId' = nextId
    BY <1>2, <1>4, ContentsStep
  <2> QED BY <1>3, <2>1, <2>2, FetchKeeps
<1>5. ASSUME NEW j, NEW dirs, HasJob, j \in Jobs, j.dir = job.dir, j.copy = job.copy,
             Workable(j, dirs[job.dir]), DOMAIN dirs = DOMAIN cache,
             Advance(j, dirs, events)
      PROVE  JobOK' /\ CacheOK' /\ AskedOK'
  <2>1. listing' = j.copy /\ nextId \in 1 .. MaxStreamId /\ j.dir \in DOMAIN dirs
    BY <1>3, <1>5, ContentsStep
  <2>2. Home(j, dirs, events)
    BY <1>3, <1>5 DEF Home
  <2>3. /\ nextId' \in 1 .. MaxStreamId
        /\ FetchFailed(j, dirs, events) \/ FetchAsks(j, dirs, events)
                                        \/ FetchEnded(j, dirs, events)
    BY <1>5, <2>1, AdvanceStep
  <2>4. j.copy \in DOMAIN copies
    BY <1>3, <1>5
  <2> QED BY <1>5, <2>1, <2>2, <2>3, <2>4, FetchKeeps
<1>6. CASE /\ Expected(answer) /\ outstanding.size
           /\ Advance(Sized(d), cache, events)
  BY <1>2, <1>5, <1>6, SizedIs
<1>7. CASE /\ Expected(answer) /\ Fits(d)
           /\ Advance(Written(d), With(cache, job.dir, Grown(d)), events)
  <2> DEFINE dirs == With(cache, job.dir, Grown(d))
  <2>1. HasJob
    BY <1>2, <1>7
  <2>2. dirs[job.dir] = Grown(d) /\ DOMAIN dirs = DOMAIN cache
    BY <1>3, <2>1 DEF With
  <2> HIDE DEF dirs
  <2>3. /\ Written(d) \in Jobs /\ Written(d).dir = job.dir /\ Written(d).copy = job.copy
        /\ Workable(Written(d), dirs[job.dir])
    BY <1>7, <2>1, <2>2, WrittenIs
  <2>4. Advance(Written(d), dirs, events)
    BY <1>7 DEF dirs
  <2> QED BY <1>5, <2>1, <2>2, <2>3, <2>4
<1> QED BY <1>1, <1>4, <1>6, <1>7, ContentsStep

-----------------------------------------------------------------------------
(* The queue of signals. *)

LEMMA QueueSignal ==
    ASSUME SignalsOK, NEW sig \in Signals, Queue(sig), SignalOK(sig)',
           \A s \in Signals : SignalOK(s) => SignalOK(s)'
    PROVE  SignalsOK' /\ dropped' \in {dropped, TRUE}
<1>1. CASE Len(signals) < ClipQueueCap
  <2>1. signals' = Append(signals, sig) /\ dropped' = dropped
    BY <1>1 DEF Queue
  <2>2. /\ signals \in Seq(Signals)
        /\ \A n \in DOMAIN signals : \A s \in Signals : s = signals[n] => SignalOK(s)'
    BY DEF SignalsOK
  <2>3. /\ signals' \in Seq(Signals) /\ Len(signals') = Len(signals) + 1
        /\ \A n \in DOMAIN signals' : signals'[n] = sig \/ (n \in DOMAIN signals /\ signals'[n] = signals[n])
    BY <2>1, <2>2
  <2>4. Len(signals') <= ClipQueueCap
    BY <1>1, <2>2, <2>3, FetchAssumption
  <2>5. \A n \in DOMAIN signals' : \A s \in Signals : s = signals'[n] => SignalOK(s)'
    BY <2>2, <2>3
  <2> QED BY <2>1, <2>3, <2>4, <2>5 DEF SignalsOK, SignalOK
<1>2. CASE ~(Len(signals) < ClipQueueCap)
  <2>1. signals' = signals /\ dropped' = TRUE
    BY <1>2 DEF Queue
  <2>2. \A n \in DOMAIN signals : \A s \in Signals : s = signals[n] => SignalOK(s)'
    BY DEF SignalsOK
  <2> QED BY <2>1, <2>2 DEF SignalsOK, SignalOK
<1> QED BY <1>1, <1>2

(* What was said about a copy or a request stays true. *)
LEMMA SignalsStay ==
    ASSUME ServerOK, \/ copies' = copies
                     \/ \E s \in Selections : copies' = Append(copies, s),
           ServingOK, \/ asOf' = asOf
                      \/ \E r \in [file : Nat, on : Nat] : asOf' = Append(asOf, r),
           NEW s \in Signals, SignalOK(s)
    PROVE  SignalOK(s)'
<1>1. copies \in Seq(Selections) /\ asOf \in Seq([file : Nat, on : Nat])
  BY DEF ServerOK, ServingOK
<1>2. /\ copies # <<>> => copies' # <<>>
      /\ \A c \in DOMAIN copies : c \in DOMAIN copies' /\ copies'[c] = copies[c]
  <2>1. CASE copies' = copies
    BY <2>1
  <2>2. ASSUME NEW x \in Selections, copies' = Append(copies, x)
        PROVE  /\ copies # <<>> => copies' # <<>>
               /\ \A c \in DOMAIN copies : c \in DOMAIN copies' /\ copies'[c] = copies[c]
    BY <1>1, <2>2
  <2> QED BY <2>1, <2>2
<1>3. \A i \in DOMAIN asOf : i \in DOMAIN asOf' /\ asOf'[i] = asOf[i]
  <2>1. ASSUME NEW r \in [file : Nat, on : Nat], asOf' = Append(asOf, r)
        PROVE  \A i \in DOMAIN asOf : i \in DOMAIN asOf' /\ asOf'[i] = asOf[i]
    BY <1>1, <2>1
  <2> QED BY <2>1
<1> QED BY <1>2, <1>3 DEF SignalOK

LEMMA SignalTaken ==
    ASSUME ServerOK, ServingOK, SignalsOK, signals # <<>>, signals' = Tail(signals),
           UNCHANGED <<copies, asOf>>
    PROVE  SignalsOK' /\ Head(signals) \in Signals /\ SignalOK(Head(signals))
<1>1. /\ signals \in Seq(Signals) /\ Len(signals) <= ClipQueueCap
      /\ \A n \in DOMAIN signals : SignalOK(signals[n])
  BY DEF SignalsOK
<1>2. /\ signals' \in Seq(Signals) /\ Len(signals') = Len(signals) - 1
      /\ Len(signals) \in Nat \ {0} /\ DOMAIN signals = 1 .. Len(signals)
      /\ DOMAIN signals' = 1 .. Len(signals) - 1
      /\ \A n \in DOMAIN signals' : signals'[n] = signals[n + 1]
      /\ Head(signals) = signals[1] /\ 1 \in DOMAIN signals
  BY <1>1
<1>3. Head(signals) \in Signals /\ SignalOK(Head(signals))
  BY <1>1, <1>2
<1>4. \A n \in DOMAIN signals : \A s \in Signals : s = signals[n] => SignalOK(s)'
  BY <1>1, SignalsStay
<1>5. \A n \in DOMAIN signals' : signals'[n] \in Signals
  BY <1>2
<1>6. \A n \in DOMAIN signals' : \A s \in Signals : s = signals'[n] => SignalOK(s)'
  BY <1>2, <1>4
<1>7. Len(signals') <= ClipQueueCap
  BY <1>1, <1>2, FetchAssumption
<1> QED BY <1>2, <1>3, <1>5, <1>6, <1>7 DEF SignalsOK, SignalOK

LEMMA KeepSignals ==
    ASSUME ServerOK, ServingOK, SignalsOK, UNCHANGED signals,
           \/ copies' = copies
           \/ \E s \in Selections : copies' = Append(copies, s),
           \/ asOf' = asOf
           \/ \E r \in [file : Nat, on : Nat] : asOf' = Append(asOf, r)
    PROVE  SignalsOK'
<1>1. /\ signals \in Seq(Signals) /\ Len(signals) <= ClipQueueCap
      /\ \A n \in DOMAIN signals : signals[n] \in Signals /\ SignalOK(signals[n])
  BY DEF SignalsOK
<1>2. \A n \in DOMAIN signals : \A s \in Signals : s = signals[n] => SignalOK(s)'
  BY <1>1, SignalsStay
<1> QED BY <1>1, <1>2 DEF SignalsOK, SignalOK

LEMMA KeepServing == ServingOK /\ UNCHANGED <<serving, asOf, served>> => ServingOK'
BY DEF ServingOK, Reading

LEMMA KeepJob ==
    ASSUME ServerOK, JobOK, UNCHANGED fetch, UNCHANGED cache,
           \/ copies' = copies
           \/ \E s \in Selections : copies' = Append(copies, s)
    PROVE  JobOK'
<1>1. copies \in Seq(Selections)
  BY DEF ServerOK
<1>2. /\ \A c \in DOMAIN copies : c \in DOMAIN copies' /\ copies'[c] = copies[c]
      /\ \A c \in 0 .. Len(copies) : c \in 0 .. Len(copies')
  <2>1. ASSUME NEW s \in Selections, copies' = Append(copies, s)
        PROVE  /\ \A c \in DOMAIN copies : c \in DOMAIN copies' /\ copies'[c] = copies[c]
               /\ \A c \in 0 .. Len(copies) : c \in 0 .. Len(copies')
    BY <1>1, <2>1
  <2> QED BY <2>1
<1>3. UNCHANGED <<listing, job, outstanding, nextId>>
  BY DEF fetch
<1>4. ASSUME HasJob
      PROVE  Workable(job, cache[job.dir])'
  BY <1>2, <1>3, <1>4 DEF JobOK, Workable, ListOf
<1>5. HasJob' <=> HasJob
  BY <1>3 DEF HasJob
<1> QED BY <1>2, <1>3, <1>4, <1>5 DEF JobOK

LEMMA KeepCache ==
    ASSUME ServerOK, CacheOK, UNCHANGED <<events, closed, cache, published, job>>,
           \/ copies' = copies
           \/ \E s \in Selections : copies' = Append(copies, s)
    PROVE  CacheOK'
<1>1. copies \in Seq(Selections)
  BY DEF ServerOK
<1>2. Dirs \subseteq Dirs'
  <2>1. ASSUME NEW s \in Selections, copies' = Append(copies, s)
        PROVE  Dirs \subseteq Dirs'
    BY <1>1, <2>1 DEF Dirs
  <2> QED BY <2>1 DEF Dirs
<1>3. HasJob' <=> HasJob
  BY DEF HasJob
<1> QED BY <1>2, <1>3 DEF CacheOK, EventsOK

LEMMA KeepBoard ==
    ASSUME BoardOK, published \subseteq published',
           UNCHANGED <<board, posted, localClip, changes, delivered, reserved, handling>>
    PROVE  BoardOK'
BY DEF BoardOK, OnlyOwnCopiesOffered, LastOffer

-----------------------------------------------------------------------------
(* The server and its callbacks. *)

LEMMA OwnedServerCopies ==
    ASSUME Owned, ServerCopies PROVE Owned'
<1>1. PICK s \in Selections : copies' = Append(copies, s) /\ Queue(Signal("paste", s.what))
  BY DEF ServerCopies
<1>2. /\ ServerOK /\ ServingOK /\ SignalsOK /\ JobOK /\ CacheOK /\ BoardOK
      /\ left.copies > 0 /\ left' = [left EXCEPT !.copies = @ - 1]
      /\ UNCHANGED <<wanted, asked, online, fetch, local, disk, events, window>>
  BY DEF Owned, ServerCopies, Spend
<1>3. /\ copies \in Seq(Selections) /\ s.what \in {"text", "files"}
      /\ UNCHANGED <<listing, job, outstanding, nextId, posted, localClip, serving, served, asOf,
                     cache, published, handling, closed, board, changes, delivered, reserved>>
  BY <1>2, FetchAssumption DEF ServerOK, AllSelections, fetch, local, disk, window
<1>4. copies' \in Seq(Selections) /\ copies' # <<>>
      /\ \A c \in DOMAIN copies : c \in DOMAIN copies' /\ copies'[c] = copies[c]
  BY <1>1, <1>3
<1>5. SignalsOK' /\ dropped' \in {dropped, TRUE}
  <2>1. Signal("paste", s.what) \in Signals
    BY <1>3 DEF Signal, Signals
  <2>2. SignalOK(Signal("paste", s.what))'
    BY <1>4 DEF Signal, SignalOK
  <2>3. \A x \in Signals : SignalOK(x) => SignalOK(x)'
    BY <1>1, <1>2, <1>3, SignalsStay
  <2> QED BY <1>1, <1>2, <2>1, <2>2, <2>3, QueueSignal
<1>6. ServerOK'
  <2>1. left' \in [copies : Nat, user : Nat, served : Nat, losses : Nat]
    BY <1>2 DEF ServerOK
  <2>2. AskedOK'
    BY <1>2, <1>4 DEF ServerOK, AskedOK, ListOf
  <2> QED BY <1>2, <1>3, <1>4, <1>5, <2>1, <2>2 DEF ServerOK
<1>7. ServingOK' /\ BoardOK'
  BY <1>2, <1>3, KeepServing, KeepBoard
<1>8. JobOK' /\ CacheOK'
  BY <1>1, <1>2, <1>3, KeepJob, KeepCache DEF fetch
<1> QED BY <1>5, <1>6, <1>7, <1>8 DEF Owned

IsPart(x, c, i, from, to) ==
    /\ x \in Contents /\ Len(x) = to - from
    /\ \A p \in 1 .. (to - from) : x[p] = <<c, i, from + p - 1>>
LEMMA BytesAre ==
    ASSUME NEW c \in Nat, NEW i \in Nat, NEW from \in Nat, NEW to \in Nat, from <= to
    PROVE  IsPart(Bytes(c, i, from, to), c, i, from, to)
<1> DEFINE n == to - from
           b == [p \in 1 .. n |-> <<c, i, from + p - 1>>]
<1>1. n \in Nat
  OBVIOUS
<1> HIDE DEF n
<1>2. \A p \in 1 .. n : from + p - 1 \in Nat
  BY <1>1
<1>3. \A p \in 1 .. n : <<c, i, from + p - 1>> \in Nat \X Nat \X Nat
  BY <1>2
<1>4. b \in Seq(Nat \X Nat \X Nat)
  BY <1>1, <1>3
<1>5. Len(b) = n
  BY <1>1, <1>4
<1>6. Bytes(c, i, from, to) = b
  BY DEF Bytes, n
<1>7. \A p \in 1 .. n : b[p] = <<c, i, from + p - 1>>
  OBVIOUS
<1> HIDE DEF b
<1> QED BY <1>4, <1>5, <1>6, <1>7 DEF Contents, n, IsPart

LEMMA PartIs ==
    ASSUME NEW x, NEW c \in Nat, NEW i \in Nat, NEW from \in Nat, NEW to \in Nat,
           IsPart(x, c, i, from, to)
    PROVE  x \in Contents /\ Len(x) = to - from
BY DEF IsPart

LEMMA AnswersAre ==
    ASSUME ServerOK, NEW r \in Requests, r.copy \in DOMAIN copies,
           r.index \in DOMAIN ListOf(r.copy)
    PROVE  AnswersTo(r) \subseteq Responses
<1>1. /\ r.copy \in Nat /\ r.index \in Nat /\ r.from \in Nat /\ r.len \in Nat
  BY DEF Requests
<1>2. ListOf(r.copy)[r.index].size \in Nat
  <2>1. ListOf(r.copy)[r.index] \in Entries
    BY ListIsOne
  <2> QED BY <2>1 DEF Entries
<1>3. <<>> \in Contents
  BY DEF Contents
<1>4. \A n \in 0 .. r.len + 1 : Bytes(r.copy, r.index, r.from, r.from + n) \in Contents
  <2>1. \A n \in 0 .. r.len + 1 : r.from + n \in Nat /\ r.from <= r.from + n
    BY <1>1
  <2> QED BY <1>1, <2>1, BytesAre DEF IsPart
<1>5. Refused \in Responses
  BY <1>3 DEF Refused, Data, Responses
<1>6. /\ Data("size", <<>>, ListOf(r.copy)[r.index].size) \in Responses
      /\ Data("short", <<>>, 0) \in Responses
  BY <1>2, <1>3 DEF Data, Responses
<1>7. \A n \in 0 .. r.len + 1 :
          Data("bytes", Bytes(r.copy, r.index, r.from, r.from + n), 0) \in Responses
  BY <1>4 DEF Data, Responses
<1> QED BY <1>5, <1>6, <1>7 DEF AnswersTo

LEMMA OwnedServerSendsData ==
    ASSUME Owned, ServerSendsData PROVE Owned'
<1>1. /\ ServerOK /\ ServingOK /\ SignalsOK /\ JobOK /\ CacheOK /\ BoardOK
      /\ wanted # <<>> /\ wanted' = Tail(wanted)
      /\ UNCHANGED <<copies, asked, left, online, fetch, local, disk, events, window>>
      /\ \/ /\ copies[Len(copies)].what = Head(wanted)
            /\ Queue(Signal(Head(wanted), Len(copies)))
         \/ UNCHANGED <<signals, dropped>>
  BY DEF Owned, ServerSendsData
<1>2. UNCHANGED <<listing, job, outstanding, nextId, posted, localClip, serving, served, asOf,
                  cache, published, handling, closed, board, changes, delivered, reserved>>
  BY <1>1 DEF fetch, local, disk, window
<1>3. /\ Head(wanted) \in {"text", "files"} /\ wanted' \in Seq({"text", "files"})
      /\ copies # <<>> /\ copies \in Seq(Selections)
  BY <1>1 DEF ServerOK
<1>4. SignalsOK' /\ dropped' \in {dropped, TRUE}
  <2>1. CASE /\ copies[Len(copies)].what = Head(wanted)
             /\ Queue(Signal(Head(wanted), Len(copies)))
    <3>1. PICK kind \in {"text", "files"}, c \in DOMAIN copies :
              kind = Head(wanted) /\ c = Len(copies)
      BY <1>3
    <3> DEFINE sig == Signal(kind, c)
    <3>2. Queue(sig) /\ c \in Nat /\ copies[c].what = kind
      BY <1>3, <2>1, <3>1
    <3>3. sig \in Signals
      BY <3>1, <3>2 DEF Signal, Signals
    <3>4. SignalOK(sig)'
      BY <1>1, <1>3, <3>1, <3>2 DEF Signal, SignalOK
    <3>5. \A x \in Signals : SignalOK(x) => SignalOK(x)'
      BY <1>1, <1>2, SignalsStay
    <3> HIDE DEF sig
    <3> QED BY <1>1, <3>2, <3>3, <3>4, <3>5, QueueSignal
  <2>2. CASE UNCHANGED <<signals, dropped>>
    BY <1>1, <1>2, <2>2, KeepSignals
  <2> QED BY <1>1, <2>1, <2>2
<1>5. ServerOK'
  BY <1>1, <1>2, <1>3, <1>4 DEF ServerOK, AskedOK, ListOf
<1>6. ServingOK' /\ BoardOK'
  BY <1>1, <1>2, KeepServing, KeepBoard
<1>7. JobOK' /\ CacheOK'
  BY <1>1, <1>2, KeepJob, KeepCache
<1> QED BY <1>4, <1>5, <1>6, <1>7 DEF Owned

LEMMA OwnedServerAnswers ==
    ASSUME Owned, ServerAnswers PROVE Owned'
<1>1. PICK r \in asked : \E d \in AnswersTo(r) :
          /\ asked' = asked \ {r}
          /\ Queue(Signal("contents", Answer(r.id, d)))
  BY DEF ServerAnswers
<1>2. PICK d \in AnswersTo(r) : /\ asked' = asked \ {r}
                                /\ Queue(Signal("contents", Answer(r.id, d)))
  BY <1>1
<1>3. /\ ServerOK /\ ServingOK /\ SignalsOK /\ JobOK /\ CacheOK /\ BoardOK
      /\ UNCHANGED <<copies, wanted, left, online, fetch, local, disk, events, window>>
  BY DEF Owned, ServerAnswers
<1>4. UNCHANGED <<listing, job, outstanding, nextId, posted, localClip, serving, served, asOf,
                  cache, published, handling, closed, board, changes, delivered, reserved>>
  BY <1>3 DEF fetch, local, disk, window
<1>5. r \in Requests /\ r.copy \in DOMAIN copies /\ r.index \in DOMAIN ListOf(r.copy)
  BY <1>3 DEF ServerOK, AskedOK
<1>6. d \in Responses /\ r.id \in 1 .. MaxStreamId
  BY <1>3, <1>5, AnswersAre DEF Requests
<1>7. SignalsOK' /\ dropped' \in {dropped, TRUE}
  <2> DEFINE sig == Signal("contents", Answer(r.id, d))
  <2>1. sig \in Signals
    BY <1>6 DEF Signal, Signals, Answer
  <2>2. SignalOK(sig)'
    BY DEF Signal, SignalOK
  <2>3. \A x \in Signals : SignalOK(x) => SignalOK(x)'
    BY <1>3, <1>4, SignalsStay
  <2> QED BY <1>2, <1>3, <2>1, <2>2, <2>3, QueueSignal
<1>8. ServerOK'
  BY <1>2, <1>3, <1>4, <1>7 DEF ServerOK, AskedOK, ListOf
<1>9. ServingOK' /\ BoardOK'
  BY <1>3, <1>4, KeepServing, KeepBoard
<1>10. JobOK' /\ CacheOK'
  BY <1>3, <1>4, KeepJob, KeepCache
<1> QED BY <1>7, <1>8, <1>9, <1>10 DEF Owned

LEMMA OwnedServerRequests ==
    ASSUME Owned, ServerRequests PROVE Owned'
<1>1. /\ ServerOK /\ ServingOK /\ SignalsOK /\ JobOK /\ CacheOK /\ BoardOK
      /\ left.served > 0 /\ left' = [left EXCEPT !.served = @ - 1]
      /\ UNCHANGED <<server, online, signals, fetch, posted, localClip, served, dropped, disk,
                     events, window>>
  BY DEF Owned, ServerRequests, Spend
<1>2. UNCHANGED <<copies, wanted, asked, listing, job, outstanding, nextId,
                  cache, published, handling, closed, board, changes, delivered, reserved>>
  BY <1>1 DEF fetch, local, disk, window, server
<1>3. OnOffer \in Nat /\ left.losses \in Nat /\ asOf \in Seq([file : Nat, on : Nat])
  BY <1>1 DEF OnOffer, BoardOK, Boards, ServerOK, ServingOK
<1> DEFINE r == [file |-> OnOffer, on |-> left.losses]
           t == [id |-> Len(asOf) + 1, file |-> OnOffer, at |-> "waiting", on |-> left.losses]
<1>4. asOf' = Append(asOf, r) /\ serving' = serving \cup {t}
  BY DEF ServerRequests
<1>5. /\ r \in [file : Nat, on : Nat] /\ r.file = OnOffer
      /\ t \in Tasks /\ t.id = Len(asOf) + 1 /\ t.file = OnOffer /\ t.at = "waiting"
  BY <1>3 DEF Tasks
<1> HIDE DEF r, t
<1>6. /\ asOf' \in Seq([file : Nat, on : Nat])
      /\ \A i \in DOMAIN asOf : i \in DOMAIN asOf' /\ asOf'[i] = asOf[i]
      /\ Len(asOf) + 1 \in DOMAIN asOf' /\ asOf'[Len(asOf) + 1] = r
  BY <1>3, <1>4, <1>5
<1>7. ServingOK'
  <2>1. Reading(serving') = Reading(serving)
    BY <1>4, <1>5 DEF Reading
  <2>2. IsFiniteSet(serving')
    BY <1>1, <1>4, FS_AddElement DEF ServingOK
  <2>3. \A x \in serving' : x \in Tasks /\ x.id \in DOMAIN asOf' /\ x.file \in {asOf'[x.id].file, 0}
    BY <1>1, <1>4, <1>5, <1>6 DEF ServingOK
  <2>4. \A id \in DOMAIN served : id \in DOMAIN asOf' /\ served[id] \in {asOf'[id].file, 0}
    BY <1>1, <1>6 DEF ServingOK
  <2>5. served' = served /\ Cardinality(Reading(serving')) <= Permits
    BY <1>1, <2>1 DEF ServingOK
  <2> QED BY <1>6, <2>2, <2>3, <2>4, <2>5 DEF ServingOK
<1>8. SignalsOK'
  BY <1>1, <1>2, <1>4, <1>5, KeepSignals
<1>9. ServerOK'
  <2>1. left' \in [copies : Nat, user : Nat, served : Nat, losses : Nat]
    BY <1>1 DEF ServerOK
  <2> QED BY <1>1, <1>2, <2>1 DEF ServerOK, AskedOK, ListOf
<1>10. BoardOK' /\ CacheOK' /\ JobOK'
  BY <1>1, <1>2, KeepBoard, KeepCache, KeepJob
<1> QED BY <1>7, <1>8, <1>9, <1>10 DEF Owned

-----------------------------------------------------------------------------
(* The tasks that serve local files. *)

(* What a serving task does touches nothing but the tasks and the queue. *)
LEMMA OwnedServing ==
    ASSUME Owned, ServingOnly, ServingOK', SignalsOK' PROVE Owned'
<1>1. /\ ServerOK /\ JobOK /\ CacheOK /\ BoardOK
      /\ UNCHANGED <<server, left, online, fetch, posted, localClip, served, asOf, dropped, disk,
                     events, window>>
  BY DEF Owned, ServingOnly
<1>2. UNCHANGED <<copies, wanted, asked, listing, job, outstanding, nextId,
                  cache, published, handling, closed, board, changes, delivered, reserved>>
  BY <1>1 DEF fetch, disk, window, server
<1>3. ServerOK'
  BY <1>1, <1>2 DEF ServerOK, AskedOK, ListOf
<1>4. BoardOK' /\ CacheOK' /\ JobOK'
  BY <1>1, <1>2, KeepBoard, KeepCache, KeepJob
<1> QED BY <1>3, <1>4 DEF Owned

(* A task that goes on stays the task of its request. *)
LEMMA TaskMoves ==
    ASSUME ServingOK, NEW t \in serving, NEW new \in Tasks,
           serving' = (serving \ {t}) \cup {new},
           new.id = t.id, new.file \in {t.file, 0},
           UNCHANGED <<asOf, served>>,
           Cardinality(Reading(serving')) <= Permits
    PROVE  ServingOK'
<1>1. serving \subseteq Tasks /\ IsFiniteSet(serving)
      /\ \A x \in serving : x.id \in DOMAIN asOf /\ x.file \in {asOf[x.id].file, 0}
  BY DEF ServingOK
<1>2. IsFiniteSet(serving')
  <2>1. IsFiniteSet(serving \ {t})
    BY <1>1, FS_RemoveElement
  <2> QED BY <2>1, FS_AddElement
<1>3. new.id \in DOMAIN asOf /\ new.file \in {asOf[new.id].file, 0}
  BY <1>1
<1> QED BY <1>1, <1>2, <1>3 DEF ServingOK, Reading

LEMMA ReadingIsFinite ==
    ASSUME ServingOK PROVE IsFiniteSet(Reading(serving)) /\ Cardinality(Reading(serving)) \in Nat
<1>1. IsFiniteSet(serving) /\ Reading(serving) \subseteq serving
  BY DEF ServingOK, Reading
<1>2. IsFiniteSet(Reading(serving))
  BY <1>1, FS_Subset
<1> QED BY <1>2, FS_CardinalityType

LEMMA OwnedTaskReads ==
    ASSUME Owned, TaskReads PROVE Owned'
<1>1. PICK t \in serving : t.at = "waiting" /\ MoveTask(t, "reading")
  BY DEF TaskReads
<1> DEFINE new == [t EXCEPT !.at = "reading"]
<1>2. /\ ServerOK /\ ServingOK /\ SignalsOK /\ ServingOnly /\ signals' = signals
      /\ Cardinality(Reading(serving)) < Permits
  BY DEF Owned, TaskReads, Reading
<1>3. copies' = copies /\ asOf' = asOf /\ served' = served
  BY <1>2 DEF ServingOnly, server
<1>4. t \in Tasks
  BY <1>2 DEF ServingOK
<1>5. new \in Tasks /\ new.id = t.id /\ new.file = t.file /\ new.at = "reading"
  BY <1>4 DEF Tasks
<1>6. serving' = (serving \ {t}) \cup {new}
  BY <1>1 DEF MoveTask
<1> HIDE DEF new
<1>7. Reading(serving') = Reading(serving) \cup {new}
  BY <1>1, <1>5, <1>6 DEF Reading
<1>8. Cardinality(Reading(serving')) <= Permits
  <2>1. /\ IsFiniteSet(Reading(serving)) /\ Cardinality(Reading(serving)) \in Nat
    BY <1>2, ReadingIsFinite
  <2>2. Cardinality(Reading(serving')) \in {Cardinality(Reading(serving)),
                                           Cardinality(Reading(serving)) + 1}
    BY <1>7, <2>1, FS_AddElement
  <2> QED BY <1>2, <2>1, <2>2, FetchAssumption
<1>9. ServingOK'
  BY <1>2, <1>3, <1>5, <1>6, <1>8, TaskMoves
<1>10. SignalsOK'
  BY <1>2, <1>3, KeepSignals
<1> QED BY <1>2, <1>9, <1>10, OwnedServing

(* Fewer tasks read. *)
LEMMA ReadingShrinks ==
    ASSUME ServingOK, NEW ts, Reading(ts) \subseteq Reading(serving)
    PROVE  Cardinality(Reading(ts)) <= Permits
<1>1. IsFiniteSet(Reading(serving)) /\ Cardinality(Reading(serving)) \in Nat
      /\ Cardinality(Reading(serving)) <= Permits
  BY ReadingIsFinite DEF ServingOK
<1>2. /\ IsFiniteSet(Reading(ts))
      /\ Cardinality(Reading(ts)) <= Cardinality(Reading(serving))
  BY <1>1, FS_Subset
<1>3. Cardinality(Reading(ts)) \in Nat
  BY <1>2, FS_CardinalityType
<1> QED BY <1>1, <1>2, <1>3, FetchAssumption

LEMMA OwnedTaskHasRead ==
    ASSUME Owned, TaskHasRead PROVE Owned'
<1>1. PICK t \in serving : /\ t.at = "reading"
                           /\ \E file \in {t.file, 0} :
                                  serving' = (serving \ {t})
                                     \cup {[t EXCEPT !.at = "done", !.file = file]}
  BY DEF TaskHasRead
<1>2. PICK file \in {t.file, 0} :
          serving' = (serving \ {t}) \cup {[t EXCEPT !.at = "done", !.file = file]}
  BY <1>1
<1> DEFINE new == [t EXCEPT !.at = "done", !.file = file]
<1>3. /\ ServerOK /\ ServingOK /\ SignalsOK /\ ServingOnly /\ signals' = signals
  BY DEF Owned, TaskHasRead
<1>4. copies' = copies /\ asOf' = asOf /\ served' = served
  BY <1>3 DEF ServingOnly, server
<1>5. t \in Tasks
  BY <1>3 DEF ServingOK
<1>6. new \in Tasks /\ new.id = t.id /\ new.file = file /\ new.at = "done"
  <2> DEFINE c == [t EXCEPT !.at = "done"]
  <2>1. c \in Tasks /\ c.id = t.id /\ c.at = "done" /\ file \in Nat
    BY <1>5 DEF Tasks
  <2> HIDE DEF c
  <2>2. LET n == [c EXCEPT !.file = file]
        IN  n \in Tasks /\ n.id = t.id /\ n.file = file /\ n.at = "done"
    BY <2>1 DEF Tasks
  <2> QED BY <2>2 DEF c
<1> HIDE DEF new
<1>7. serving' = (serving \ {t}) \cup {new}
  BY <1>2 DEF new
<1>8. Reading(serving') \subseteq Reading(serving)
  BY <1>6, <1>7 DEF Reading
<1>9. Cardinality(Reading(serving')) <= Permits
  BY <1>3, <1>8, ReadingShrinks
<1>10. ServingOK'
  BY <1>2, <1>3, <1>4, <1>6, <1>7, <1>9, TaskMoves
<1>11. SignalsOK'
  BY <1>3, <1>4, KeepSignals
<1> QED BY <1>3, <1>10, <1>11, OwnedServing

LEMMA OwnedTaskSends ==
    ASSUME Owned, TaskSends PROVE Owned'
<1>1. PICK t \in serving :
          /\ t.at = "done" /\ serving' = serving \ {t}
          /\ \/ /\ Len(signals) < ClipQueueCap
                /\ signals' = Append(signals, Signal("serve", [id |-> t.id, file |-> t.file]))
             \/ UNCHANGED signals
  BY DEF TaskSends
<1>2. ServerOK /\ ServingOK /\ SignalsOK /\ ServingOnly
  BY DEF Owned, TaskSends
<1>3. copies' = copies /\ asOf' = asOf /\ served' = served /\ dropped' = dropped
  BY <1>2 DEF ServingOnly, server
<1>4. t \in Tasks /\ t.id \in DOMAIN asOf /\ t.file \in {asOf[t.id].file, 0}
  BY <1>2 DEF ServingOK
<1>5. ServingOK'
  <2>1. Reading(serving') \subseteq Reading(serving)
    BY <1>1 DEF Reading
  <2>2. Cardinality(Reading(serving')) <= Permits
    BY <1>2, <2>1, ReadingShrinks
  <2>3. IsFiniteSet(serving')
    BY <1>1, <1>2, FS_RemoveElement DEF ServingOK
  <2> QED BY <1>1, <1>2, <1>3, <2>2, <2>3 DEF ServingOK, Reading
<1>6. SignalsOK'
  <2>1. CASE UNCHANGED signals
    BY <1>2, <1>3, <2>1, KeepSignals
  <2>2. CASE /\ Len(signals) < ClipQueueCap
             /\ signals' = Append(signals, Signal("serve", [id |-> t.id, file |-> t.file]))
    <3> DEFINE sig == Signal("serve", [id |-> t.id, file |-> t.file])
    <3>1. Queue(sig)
      BY <1>3, <2>2 DEF Queue
    <3>2. sig \in Signals
      BY <1>4 DEF Signal, Signals, Tasks
    <3>3. sig.kind = "serve" /\ sig.arg.id = t.id /\ sig.arg.file = t.file
      BY DEF Signal
    <3> HIDE DEF sig
    <3>4. SignalOK(sig)'
      BY <1>3, <1>4, <3>3 DEF SignalOK
    <3>5. \A x \in Signals : SignalOK(x) => SignalOK(x)'
      BY <1>2, <1>3, SignalsStay
    <3> QED BY <1>2, <3>1, <3>2, <3>4, <3>5, QueueSignal
  <2> QED BY <1>1, <2>1, <2>2
<1> QED BY <1>2, <1>5, <1>6, OwnedServing

-----------------------------------------------------------------------------
(* The session task. *)

LEMMA OwnedHandleSignal ==
    ASSUME Owned, HandleSignal PROVE Owned'
<1>1. /\ ServerOK /\ ServingOK /\ SignalsOK /\ JobOK /\ CacheOK /\ BoardOK
      /\ signals # <<>> /\ signals' = Tail(signals)
      /\ UNCHANGED <<copies, left, online, posted, localClip, serving, asOf, dropped, published, window>>
  BY DEF Owned, HandleSignal
<1>2. UNCHANGED <<handling, closed, board, changes, delivered, reserved>>
  BY <1>1 DEF window
<1> DEFINE s == Head(signals)
<1>3. SignalsOK' /\ s \in Signals /\ SignalOK(s)
  BY <1>1, SignalTaken
<1>4. BoardOK'
  BY <1>1, <1>2, KeepBoard
<1>5. SUFFICES wanted' \in Seq({"text", "files"}) /\ (wanted' # <<>> => copies # <<>>)
               /\ AskedOK' /\ ServingOK' /\ JobOK' /\ CacheOK'
  BY <1>1, <1>2, <1>3, <1>4 DEF Owned, ServerOK
<1>6. wanted \in Seq({"text", "files"}) /\ (wanted # <<>> => copies # <<>>) /\ AskedOK
  BY <1>1 DEF ServerOK
<1>7. ASSUME served' = served PROVE ServingOK'
  BY <1>1, <1>7, KeepServing
<1>8. ASSUME UNCHANGED <<asked, fetch, cache>> PROVE JobOK' /\ AskedOK'
  BY <1>1, <1>6, <1>8, KeepJob DEF AskedOK, ListOf
<1>9. CASE /\ s.kind = "paste" /\ wanted' = Append(wanted, s.arg)
           /\ UNCHANGED <<asked, fetch, served, cache, events>>
  <2>1. s.arg \in {"text", "files"} /\ copies # <<>>
    BY <1>3, <1>9 DEF Signals, SignalOK
  <2>2. CacheOK'
    BY <1>1, <1>2, <1>9, KeepCache DEF fetch
  <2> QED BY <1>6, <1>7, <1>8, <1>9, <2>1, <2>2
<1>10. CASE /\ s.kind = "text" /\ events' = Raise(events, "text", 0)
            /\ UNCHANGED <<wanted, asked, fetch, served, cache>>
  <2>1. EventsOK(events') /\ Ready(events') = Ready(events)
    BY <1>1, <1>10, RaiseQuiet DEF CacheOK
  <2>2. CacheOK'
    BY <1>1, <1>2, <1>10, <2>1 DEF CacheOK, EventsOK, HasJob, Dirs, fetch
  <2> QED BY <1>6, <1>7, <1>8, <1>10, <2>2
<1>11. CASE s.kind = "files" /\ HandleList(s.arg) /\ UNCHANGED <<wanted, served>>
  <2>1. s.arg \in DOMAIN copies /\ copies[s.arg].what = "files"
    BY <1>3, <1>11 DEF SignalOK
  <2>2. JobOK' /\ CacheOK' /\ AskedOK'
    BY <1>1, <1>2, <1>11, <2>1, HandleListKeeps
  <2> QED BY <1>6, <1>7, <1>11, <2>2
<1>12. CASE s.kind = "contents" /\ HandleContents(s.arg) /\ UNCHANGED <<wanted, served>>
  <2>1. s.arg.data \in Responses
    BY <1>3, <1>12 DEF Signals
  <2>2. JobOK' /\ CacheOK' /\ AskedOK'
    BY <1>1, <1>2, <1>12, <2>1, HandleContentsKeeps
  <2> QED BY <1>6, <1>7, <1>12, <2>2
<1>13. CASE /\ s.kind = "serve"
            /\ served' = [i \in DOMAIN served \cup {s.arg.id} |->
                              IF i = s.arg.id THEN s.arg.file ELSE served[i]]
            /\ UNCHANGED <<wanted, asked, fetch, cache, events>>
  <2>1. s.arg.id \in DOMAIN asOf /\ s.arg.file \in {asOf[s.arg.id].file, 0}
    BY <1>3, <1>13 DEF SignalOK
  <2>2. /\ DOMAIN served' = DOMAIN served \cup {s.arg.id}
        /\ served'[s.arg.id] = s.arg.file
        /\ \A i \in DOMAIN served \ {s.arg.id} : served'[i] = served[i]
    BY <1>13
  <2> HIDE DEF s
  <2>3. ServingOK'
    BY <1>1, <2>1, <2>2 DEF ServingOK, Reading
  <2>4. CacheOK'
    BY <1>1, <1>2, <1>13, KeepCache DEF fetch
  <2> QED BY <1>6, <1>8, <1>13, <2>3, <2>4
<1> QED BY <1>9, <1>10, <1>11, <1>12, <1>13 DEF HandleSignal

LEMMA TailsLast ==
    ASSUME NEW S, NEW q \in Seq(S), q # <<>>
    PROVE  /\ Tail(q) = <<>> => Head(q) = q[Len(q)]
           /\ Tail(q) # <<>> => Tail(q)[Len(Tail(q))] = q[Len(q)]
<1>1. Len(q) \in Nat /\ Len(q) >= 1 /\ Len(Tail(q)) = Len(q) - 1 /\ Head(q) = q[1]
  OBVIOUS
<1>2. CASE Len(q) = 1
  <2>1. Tail(q) \in Seq(S) /\ Len(Tail(q)) = 0
    BY <1>1, <1>2
  <2>2. Tail(q) = <<>>
    BY <2>1, EmptySeq
  <2> QED BY <1>1, <1>2, <2>2
<1>3. CASE Len(q) >= 2
  <2>1. Tail(q) # <<>>
    BY <1>1, <1>3
  <2>2. Tail(q)[Len(q) - 1] = q[Len(q)]
    BY <1>1, <1>3
  <2> QED BY <1>1, <2>1, <2>2
<1> QED BY <1>1, <1>2, <1>3

(* An offer that is taken stays the last, or is followed by the last.      *)
LEMMA OwnedTakeOffer ==
    ASSUME Owned, TakeOffer PROVE Owned'
<1>1. /\ ServerOK /\ ServingOK /\ SignalsOK /\ JobOK /\ CacheOK /\ BoardOK
      /\ posted # <<>> /\ posted' = Tail(posted) /\ localClip' = Head(posted)
      /\ UNCHANGED <<server, left, online, signals, fetch, serving, served, asOf, dropped,
                     disk, events, window>>
  BY DEF Owned, TakeOffer
<1>2. UNCHANGED <<copies, wanted, asked, listing, job, outstanding, nextId, cache, published,
                  handling, closed, board, changes, delivered, reserved>>
  BY <1>1 DEF fetch, disk, window, server
<1>3. ServerOK' /\ SignalsOK'
  BY <1>1, <1>2, KeepSignals DEF ServerOK, AskedOK, ListOf
<1>4. ServingOK' /\ CacheOK' /\ JobOK'
  BY <1>1, <1>2, KeepServing, KeepCache, KeepJob
<1>5. posted \in Seq(Boards)
  BY <1>1 DEF BoardOK
<1>6. /\ posted' \in Seq(Boards) /\ localClip' \in Boards /\ localClip' = posted[1]
      /\ 1 \in DOMAIN posted
      /\ \A n \in DOMAIN posted' : n + 1 \in DOMAIN posted /\ posted'[n] = posted[n + 1]
  BY <1>1, <1>5
<1>7. LastOffer' = LastOffer
  BY <1>1, <1>5, TailsLast DEF LastOffer
<1>8. BoardOK'
  <2>1. localClip'.by # "remote" /\ \A n \in DOMAIN posted' : posted'[n].by # "remote"
    BY <1>1, <1>6 DEF BoardOK, OnlyOwnCopiesOffered
  <2> QED BY <1>1, <1>2, <1>6, <1>7, <2>1 DEF BoardOK, OnlyOwnCopiesOffered
<1> QED BY <1>3, <1>4, <1>8 DEF Owned

LEMMA OwnedDisconnect ==
    ASSUME Owned, Disconnect PROVE Owned'
<1>1. /\ ServerOK /\ ServingOK /\ SignalsOK /\ JobOK /\ CacheOK /\ BoardOK
      /\ UNCHANGED <<copies, local, published, window>>
      /\ online' = FALSE /\ (IF closed THEN UNCHANGED left ELSE Spend("losses"))
      /\ signals' = <<>> /\ wanted' = <<>> /\ asked' = {} /\ dropped' = FALSE
      /\ listing' = 0 /\ job' = NoJob /\ outstanding' = None /\ nextId' = 1
      /\ cache' = Kept /\ events' = Raise(events, "reconnecting", 0)
  BY DEF Owned, Disconnect, Kept
<1>2. UNCHANGED <<posted, localClip, serving, served, asOf, handling, closed, board, changes,
                  delivered, reserved>>
  BY <1>1 DEF local, window
<1>3. ServerOK'
  <2>1. left' \in [copies : Nat, user : Nat, served : Nat, losses : Nat]
    <3>1. CASE closed
      BY <1>1, <3>1 DEF ServerOK
    <3>2. CASE ~closed
      <4>1. left.losses > 0 /\ left' = [left EXCEPT !.losses = @ - 1]
        BY <1>1, <3>2 DEF Spend
      <4> QED BY <1>1, <4>1 DEF ServerOK
    <3> QED BY <3>1, <3>2
  <2>2. AskedOK'
    BY <1>1 DEF AskedOK
  <2>3. wanted' \in Seq({"text", "files"})
    BY <1>1
  <2> QED BY <1>1, <1>2, <2>1, <2>2, <2>3 DEF ServerOK
<1>4. SignalsOK'
  BY <1>1, FetchAssumption DEF SignalsOK
<1>5. ~HasJob'
  BY <1>1 DEF HasJob
<1>6. JobOK'
  BY <1>1, <1>5, FetchAssumption DEF JobOK, ServerOK
<1>7. EventsOK(events') /\ Ready(events') = Ready(events)
  BY <1>1, RaiseQuiet DEF CacheOK
<1>8. CacheOK'
  BY <1>1, <1>2, <1>5, <1>7, KeptIs DEF CacheOK, EventsOK, Dirs
<1>9. ServingOK' /\ BoardOK'
  BY <1>1, <1>2, KeepServing, KeepBoard
<1> QED BY <1>3, <1>4, <1>6, <1>8, <1>9 DEF Owned

LEMMA OwnedReconnect ==
    ASSUME Owned, Reconnect PROVE Owned'
<1>1. /\ ServerOK /\ ServingOK /\ SignalsOK /\ JobOK /\ CacheOK /\ BoardOK
      /\ UNCHANGED <<server, left, signals, fetch, local, dropped, disk, events, window>>
      /\ online' = TRUE
  BY DEF Owned, Reconnect
<1>2. UNCHANGED <<copies, wanted, asked, listing, job, outstanding, nextId, posted, localClip, serving,
                  served, asOf, cache, published, handling, closed, board, changes, delivered,
                  reserved>>
  BY <1>1 DEF fetch, local, disk, window, server
<1>3. ServerOK'
  BY <1>1, <1>2 DEF ServerOK, AskedOK, ListOf
<1>4. SignalsOK'
  BY <1>1, <1>2, KeepSignals
<1>5. ServingOK' /\ BoardOK' /\ CacheOK' /\ JobOK'
  BY <1>1, <1>2, KeepServing, KeepBoard, KeepCache, KeepJob
<1> QED BY <1>3, <1>4, <1>5 DEF Owned

-----------------------------------------------------------------------------
(* The main thread and the user. *)

(* What happens there leaves the session alone. *)
LEMMA OwnedMain ==
    ASSUME Owned, MainOnly, closed' \in BOOLEAN, JobOK', CacheOK', BoardOK' PROVE Owned'
<1>1. /\ ServerOK /\ ServingOK /\ SignalsOK
      /\ UNCHANGED <<server, left, online, signals, fetch, serving, served, asOf, dropped>>
  BY DEF Owned, MainOnly
<1>2. UNCHANGED <<copies, wanted, asked>>
  BY <1>1 DEF server
<1>3. ServerOK'
  BY <1>1, <1>2 DEF ServerOK, AskedOK, ListOf
<1>4. SignalsOK' /\ ServingOK'
  BY <1>1, <1>2, KeepSignals, KeepServing
<1> QED BY <1>3, <1>4 DEF Owned

LEMMA OwnedUserCopies ==
    ASSUME Owned, ~CopyRaces, UserCopies PROVE Owned'
<1>1. /\ ServerOK /\ ServingOK /\ SignalsOK /\ JobOK /\ CacheOK /\ BoardOK
      /\ left.user > 0 /\ left' = [left EXCEPT !.user = @ - 1]
      /\ handling = "nothing" /\ changes' = changes + 1
      /\ UNCHANGED <<server, online, signals, fetch, local, dropped, disk, events, handling,
                     closed, delivered, reserved>>
  BY DEF Owned, UserCopies, Spend
<1>2. UNCHANGED <<copies, wanted, asked, listing, job, outstanding, nextId, posted, localClip, serving,
                  served, asOf, cache, published>>
  BY <1>1 DEF fetch, local, disk, server
<1>3. PICK what \in {"text", "files"} : board' = BoardOf("user", what, left.user)
  BY DEF UserCopies
<1>4. left' \in [copies : Nat, user : Nat, served : Nat, losses : Nat] /\ left.user \in Nat
  BY <1>1 DEF ServerOK
<1>5. ServerOK'
  BY <1>1, <1>2, <1>4 DEF ServerOK, AskedOK, ListOf
<1>6. SignalsOK'
  BY <1>1, <1>2, KeepSignals
<1>7. ServingOK' /\ CacheOK' /\ JobOK'
  BY <1>1, <1>2, KeepServing, KeepCache, KeepJob
<1>8. BoardOK'
  <2>1. board' \in Boards /\ board'.by = "user"
    BY <1>3, <1>4 DEF BoardOf, Boards
  <2>2. changes' \in Nat /\ delivered # changes' /\ reserved # changes'
        /\ delivered \in 0 .. changes' \cup {None} /\ reserved \in 0 .. changes' \cup {None}
    BY <1>1, NoneIsNone DEF BoardOK
  <2> QED BY <1>1, <1>2, <2>1, <2>2 DEF BoardOK, OnlyOwnCopiesOffered, LastOffer
<1> QED BY <1>5, <1>6, <1>7, <1>8 DEF Owned

LEMMA OwnedPoll ==
    ASSUME Owned, NEW accepted, Poll(accepted) PROVE Owned'
<1>1. /\ ServerOK /\ JobOK /\ CacheOK /\ BoardOK /\ MainOnly
      /\ handling = "nothing" /\ delivered # changes
      /\ \/ /\ board.what = "nothing" /\ delivered' = changes /\ UNCHANGED posted
         \/ /\ board.what # "nothing" /\ delivered' = changes /\ posted' = Append(posted, board)
         \/ UNCHANGED <<delivered, posted>>
      /\ UNCHANGED <<localClip, disk, events, handling, closed, board, changes, reserved>>
  BY DEF Owned, Poll, MainOnly
<1>2. UNCHANGED <<copies, fetch, cache, published, job>>
  BY <1>1 DEF MainOnly, server, fetch, disk
<1>3. board.by # "remote" /\ changes \in Nat /\ board \in Boards /\ posted \in Seq(Boards)
  BY <1>1 DEF BoardOK
<1>4. BoardOK'
  <2>1. CASE posted' = Append(posted, board) /\ delivered' = changes
    <3>1. /\ posted' \in Seq(Boards) /\ posted' # <<>> /\ posted'[Len(posted')] = board
          /\ \A n \in DOMAIN posted' : posted'[n] = board \/ (n \in DOMAIN posted /\ posted'[n] = posted[n])
      BY <1>3, <2>1
    <3> QED BY <1>1, <1>2, <1>3, <2>1, <3>1 DEF BoardOK, OnlyOwnCopiesOffered, LastOffer
  <2>2. CASE UNCHANGED posted
    BY <1>1, <1>2, <1>3, <2>2 DEF BoardOK, OnlyOwnCopiesOffered, LastOffer
  <2> QED BY <1>1, <2>1, <2>2
<1>5. JobOK' /\ CacheOK'
  BY <1>1, <1>2, KeepJob, KeepCache
<1>6. closed' \in BOOLEAN
  BY <1>1 DEF ServerOK
<1> QED BY <1>1, <1>4, <1>5, <1>6, OwnedMain

LEMMA EventTaken ==
    ASSUME CacheOK, NEW kind, NextEvent(kind)
    PROVE  /\ handling = "nothing" /\ Head(events) \in Events /\ Head(events).kind = kind
           /\ EventsOK(events')
           /\ kind # "ready" => Ready(events') = Ready(events)
           /\ kind = "ready" => /\ Ready(events') = Ready(events) \ {Head(events).dir}
                                /\ Head(events).dir \in Ready(events)
<1>1. /\ events # <<>> /\ Head(events).kind = kind /\ handling = "nothing"
      /\ events' = Tail(events) /\ EventsOK(events)
  BY DEF NextEvent, CacheOK
<1> QED BY <1>1, HandledEvent

(* An event that is not about a directory. *)
LEMMA QuietEvent ==
    ASSUME Owned, NEW kind \in {"text", "preparing", "failed", "reconnecting"},
           NextEvent(kind), MainOnly, UNCHANGED <<disk, closed>>, BoardOK'
    PROVE  Owned'
<1>1. /\ ServerOK /\ JobOK /\ CacheOK
      /\ UNCHANGED <<copies, fetch, job, cache, published>>
  BY DEF Owned, MainOnly, server, fetch, disk
<1>2. EventsOK(events') /\ Ready(events') = Ready(events)
  BY <1>1, EventTaken
<1>3. CacheOK'
  BY <1>1, <1>2 DEF CacheOK, EventsOK, HasJob, Dirs
<1>4. JobOK' /\ closed' \in BOOLEAN
  BY <1>1, KeepJob DEF ServerOK
<1> QED BY <1>3, <1>4, OwnedMain

LEMMA OwnedPrepare ==
    ASSUME Owned, Prepare PROVE Owned'
<1>1. /\ BoardOK /\ CacheOK /\ NextEvent("preparing") /\ MainOnly
      /\ board' = Empty /\ changes' = changes + 1 /\ handling' = "reserve"
      /\ UNCHANGED <<posted, localClip, disk, closed, delivered, reserved>>
  BY DEF Owned, Prepare, Overwrite, MainOnly
<1>2. changes' \in Nat /\ delivered # changes' /\ reserved # changes'
      /\ delivered \in 0 .. changes' \cup {None} /\ reserved \in 0 .. changes' \cup {None}
  BY <1>1, NoneIsNone DEF BoardOK
<1>3. Empty \in Boards /\ Empty.by = "nobody"
  BY DEF Empty, BoardOf, Boards
<1>4. BoardOK'
  BY <1>1, <1>2, <1>3 DEF BoardOK, OnlyOwnCopiesOffered, LastOffer, disk
<1> QED BY <1>1, <1>4, QuietEvent

LEMMA OwnedShowText ==
    ASSUME Owned, ShowText PROVE Owned'
<1>1. /\ BoardOK /\ NextEvent("text") /\ MainOnly
      /\ board' = BoardOf("remote", "text", 0) /\ changes' = changes + 1
      /\ handling' = "acknowledge" /\ reserved' = None
      /\ UNCHANGED <<posted, localClip, disk, closed, delivered>>
  BY DEF Owned, ShowText, Overwrite, MainOnly
<1>2. changes' \in Nat /\ delivered # changes' /\ None # changes'
      /\ delivered \in 0 .. changes' \cup {None}
  BY <1>1, NoneIsNone DEF BoardOK
<1>3. board' \in Boards /\ board'.by = "remote" /\ board'.what = "text"
  BY <1>1 DEF BoardOf, Boards
<1>4. BoardOK'
  BY <1>1, <1>2, <1>3 DEF BoardOK, OnlyOwnCopiesOffered, LastOffer, disk
<1> QED BY <1>1, <1>4, QuietEvent

LEMMA OwnedGiveUpOffer ==
    ASSUME Owned, GiveUpOffer PROVE Owned'
<1>1. PICK kind \in {"failed", "reconnecting"} : NextEvent(kind)
  BY DEF GiveUpOffer
<1>2. /\ BoardOK /\ MainOnly /\ reserved' = None
      /\ UNCHANGED <<posted, localClip, disk, handling, closed, board, changes, delivered>>
  BY DEF Owned, GiveUpOffer, MainOnly
<1>3. BoardOK'
  <2>1. changes # None
    BY <1>2, NoneIsNone DEF BoardOK
  <2> QED BY <1>2, <2>1 DEF BoardOK, OnlyOwnCopiesOffered, LastOffer, disk
<1> QED BY <1>1, <1>2, <1>3, QuietEvent

LEMMA OwnedAcknowledge ==
    ASSUME Owned, Acknowledge PROVE Owned'
<1>1. /\ ServerOK /\ JobOK /\ CacheOK /\ BoardOK /\ MainOnly
      /\ handling # "nothing" /\ handling' = "nothing" /\ delivered' = changes
      /\ (handling = "reserve" => reserved' = changes)
      /\ (handling # "reserve" => reserved' = reserved)
      /\ UNCHANGED <<posted, localClip, disk, events, closed, board, changes>>
  BY DEF Owned, Acknowledge, MainOnly
<1>2. UNCHANGED <<copies, fetch, cache, published, job>>
  BY <1>1 DEF MainOnly, server, fetch, disk
<1>3. board.by # "user" /\ changes \in Nat
  BY <1>1 DEF BoardOK, Empty, BoardOf
<1>4. BoardOK'
  BY <1>1, <1>2, <1>3 DEF BoardOK, OnlyOwnCopiesOffered, LastOffer
<1>5. JobOK' /\ CacheOK' /\ closed' \in BOOLEAN
  BY <1>1, <1>2, KeepJob, KeepCache DEF ServerOK
<1> QED BY <1>1, <1>4, <1>5, OwnedMain

(* A directory that is offered is the pasteboard's from then on, one that  *)
(* is not is gone. *)
OfferOutcome(dir) ==
    \/ /\ reserved = changes
       /\ board' = BoardOf("remote", "files", dir) /\ changes' = changes + 1
       /\ handling' = "acknowledge" /\ published' = published \cup {dir} /\ cache' = cache
    \/ /\ reserved = changes
       /\ board' = Empty /\ changes' = changes + 1
       /\ cache' = Without(cache, dir) /\ UNCHANGED <<handling, published>>
    \/ cache' = Without(cache, dir) /\ UNCHANGED <<handling, published, board, changes>>

LEMMA OfferFilesStep ==
    ASSUME OfferFiles
    PROVE  /\ NextEvent("ready") /\ reserved' = None /\ OfferOutcome(Head(events).dir)
           /\ MainOnly /\ UNCHANGED <<posted, localClip, closed, delivered>>
BY DEF OfferFiles, OfferOutcome, MayPublish, Overwrite, MainOnly

LEMMA OwnedOfferFiles ==
    ASSUME Owned, OfferFiles PROVE Owned'
<1>1. /\ ServerOK /\ JobOK /\ CacheOK /\ BoardOK /\ MainOnly
      /\ NextEvent("ready") /\ reserved' = None
      /\ UNCHANGED <<posted, localClip, closed, delivered>>
  BY OfferFilesStep DEF Owned
<1>2. PICK dir : dir = Head(events).dir
  OBVIOUS
<1>3. OfferOutcome(dir) /\ UNCHANGED <<copies, listing, job, outstanding, nextId>>
  BY <1>1, <1>2, OfferFilesStep DEF MainOnly, server, fetch
<1>4. /\ handling = "nothing" /\ EventsOK(events')
      /\ Ready(events') = Ready(events) \ {dir} /\ dir \in Ready(events) /\ dir \in Nat
  BY <1>1, <1>2, EventTaken DEF Events
<1>5. /\ dir \in DOMAIN cache /\ dir \notin published
      /\ HasJob => job.dir # dir
  BY <1>1, <1>4 DEF CacheOK
<1>6. /\ HasJob' <=> HasJob
      /\ Dirs' = Dirs
  BY <1>3 DEF HasJob, Dirs
<1>7. changes \in Nat /\ delivered \in 0 .. changes \cup {None} /\ None # changes
      /\ None # changes + 1
  BY <1>1, NoneIsNone DEF BoardOK
<1>8. CASE cache' = cache
  <2>1. /\ board' = BoardOf("remote", "files", dir) /\ changes' = changes + 1
        /\ handling' = "acknowledge" /\ published' = published \cup {dir}
    <3>1. DOMAIN Without(cache, dir) = DOMAIN cache \ {dir}
      BY WithoutIs
    <3>2. Without(cache, dir) # cache'
      BY <1>5, <1>8, <3>1
    <3> QED BY <1>3, <3>2 DEF OfferOutcome
  <2>2. board' \in Boards /\ board'.by = "remote" /\ board'.n = dir
    BY <1>4, <2>1 DEF BoardOf, Boards
  <2>3. delivered # changes' /\ delivered \in 0 .. changes' \cup {None}
    BY <1>7, <2>1
  <2>4. BoardOK'
    BY <1>1, <1>7, <2>1, <2>2, <2>3 DEF BoardOK, OnlyOwnCopiesOffered, LastOffer
  <2>5. CacheOK'
    BY <1>1, <1>3, <1>4, <1>5, <1>6, <1>8, <2>1 DEF CacheOK, EventsOK
  <2>6. JobOK'
    BY <1>1, <1>3, <1>8, KeepJob DEF fetch
  <2> QED BY <1>1, <2>4, <2>5, <2>6, OwnedMain DEF ServerOK
<1>9. CASE cache' # cache
  <2>1. /\ cache' = Without(cache, dir) /\ UNCHANGED <<handling, published>>
        /\ \/ UNCHANGED <<board, changes>>
           \/ board' = Empty /\ changes' = changes + 1
    BY <1>3, <1>9 DEF OfferOutcome
  <2>2. /\ DOMAIN cache' = DOMAIN cache \ {dir}
        /\ \A d \in DOMAIN cache \ {dir} : cache'[d] = cache[d]
    BY <2>1, WithoutIs
  <2>3. Empty \in Boards /\ Empty.by = "nobody"
    BY DEF Empty, BoardOf, Boards
  <2>4. BoardOK'
    <3>1. CASE UNCHANGED <<board, changes>>
      BY <1>1, <1>4, <1>7, <2>1, <3>1 DEF BoardOK, OnlyOwnCopiesOffered, LastOffer
    <3>2. CASE board' = Empty /\ changes' = changes + 1
      <4>1. delivered # changes' /\ delivered \in 0 .. changes' \cup {None}
        BY <1>7, <3>2
      <4> QED BY <1>1, <1>4, <1>7, <2>1, <2>3, <3>2, <4>1 DEF BoardOK, OnlyOwnCopiesOffered, LastOffer
    <3> QED BY <2>1, <3>1, <3>2
  <2>5. CacheOK'
    BY <1>1, <1>3, <1>4, <1>5, <1>6, <2>1, <2>2 DEF CacheOK, EventsOK
  <2>6. JobOK'
    <3>1. ASSUME HasJob PROVE Workable(job, cache[job.dir])'
      <4>1. job.dir \in DOMAIN cache \ {dir} /\ Workable(job, cache[job.dir])
        BY <1>1, <1>5, <3>1 DEF JobOK
      <4>2. cache'[job'.dir] = cache[job.dir]
        BY <1>3, <2>2, <4>1
      <4> QED BY <1>3, <4>1, <4>2 DEF Workable, ListOf
    <3> QED BY <1>1, <1>3, <1>5, <1>6, <2>2, <3>1 DEF JobOK
  <2> QED BY <1>1, <2>4, <2>5, <2>6, OwnedMain DEF ServerOK
<1> QED BY <1>8, <1>9

LEMMA OwnedClose ==
    ASSUME Owned, Close PROVE Owned'
<1>1. /\ ServerOK /\ JobOK /\ CacheOK /\ BoardOK /\ MainOnly
      /\ closed' = TRUE /\ events' = <<>>
      /\ UNCHANGED <<posted, localClip, disk, handling, board, changes, delivered, reserved>>
  BY DEF Owned, Close, MainOnly
<1>2. UNCHANGED <<copies, fetch, cache, published, job>>
  BY <1>1 DEF MainOnly, server, fetch, disk
<1>3. Ready(events') = {} /\ events' \in Seq(Events) /\ OnceReady(events')
  BY <1>1 DEF Ready, OnceReady
<1>4. CacheOK'
  BY <1>1, <1>2, <1>3 DEF CacheOK, EventsOK, HasJob, Dirs
<1>5. BoardOK' /\ JobOK'
  BY <1>1, <1>2, KeepBoard, KeepJob
<1> QED BY <1>1, <1>4, <1>5, OwnedMain

-----------------------------------------------------------------------------
(* Who owns what. *)

LEMMA InitOwned == Init => Owned
<1> SUFFICES ASSUME Init PROVE Owned
  OBVIOUS
<1>1. left \in [copies : Nat, user : Nat, served : Nat, losses : Nat]
  BY FetchAssumption DEF Init
<1>2. copies = <<>> /\ wanted = <<>> /\ asked = {} /\ signals = <<>> /\ served = <<>>
      /\ asOf = <<>> /\ cache = <<>> /\ events = <<>> /\ serving = {} /\ published = {}
  BY DEF Init
<1>3. AskedOK
  BY <1>2 DEF AskedOK
<1>4. copies \in Seq(Selections) /\ wanted \in Seq({"text", "files"})
  BY <1>2
<1>5. ServerOK
  BY <1>1, <1>2, <1>3, <1>4 DEF Init, ServerOK
<1>6. signals \in Seq(Signals) /\ Len(signals) = 0 /\ DOMAIN signals = {}
  BY <1>2
<1>7. SignalsOK
  BY <1>6, FetchAssumption DEF SignalsOK
<1>8. Reading(serving) = {} /\ IsFiniteSet({}) /\ Cardinality({}) = 0
  BY <1>2, FS_EmptySet DEF Reading
<1>9. asOf \in Seq([file : Nat, on : Nat]) /\ DOMAIN served = {}
  BY <1>2
<1>10. ServingOK
  <2>1. Cardinality(Reading(serving)) <= Permits
    BY <1>8, FetchAssumption
  <2> QED BY <1>2, <1>8, <1>9, <2>1 DEF ServingOK
<1>11. ~HasJob
  BY DEF Init, HasJob
<1>12. JobOK
  BY <1>2, <1>11, FetchAssumption DEF Init, JobOK
<1>13. events \in Seq(Events) /\ DOMAIN events = {} /\ DOMAIN cache = {}
  BY <1>2
<1>14. CacheOK
  BY <1>2, <1>11, <1>13 DEF CacheOK, EventsOK, OnceReady, Ready
<1>15. BoardOf("user", "nothing", 0) \in Boards /\ Empty \in Boards
       /\ BoardOf("user", "nothing", 0).by = "user"
       /\ BoardOf("user", "nothing", 0).what = "nothing" /\ Empty.by = "nobody"
  BY DEF Empty, BoardOf, Boards
<1>16. BoardOK
  BY <1>15, NoneIsNone DEF Init, BoardOK, OnlyOwnCopiesOffered, LastOffer
<1> QED BY <1>5, <1>7, <1>10, <1>12, <1>14, <1>16 DEF Owned

LEMMA OwnedStep ==
    ASSUME ~CopyRaces, Owned, [Next]_vars
    PROVE  Owned'
<1>1. CASE UNCHANGED vars
  <2>1. /\ ServerOK /\ ServingOK /\ SignalsOK /\ JobOK /\ CacheOK /\ BoardOK
        /\ UNCHANGED <<left, copies, wanted, asked, online, signals, fetch, listing, job,
                       outstanding, nextId, posted, localClip, serving, served, asOf, dropped, cache,
                       published, events, handling, closed, board, changes, delivered, reserved>>
    BY <1>1 DEF Owned, vars, server, fetch, local, disk, window
  <2>2. ServerOK' /\ SignalsOK' /\ ServingOK'
    BY <2>1, KeepSignals, KeepServing DEF ServerOK, AskedOK, ListOf
  <2>3. JobOK' /\ CacheOK' /\ BoardOK'
    BY <2>1, KeepJob, KeepCache, KeepBoard
  <2> QED BY <2>2, <2>3 DEF Owned
<1>2. CASE Next
  BY <1>2, OwnedServerCopies, OwnedServerSendsData, OwnedServerAnswers, OwnedServerRequests,
     OwnedTaskReads, OwnedTaskHasRead, OwnedTaskSends, OwnedHandleSignal, OwnedTakeOffer,
     OwnedDisconnect,
     OwnedReconnect, OwnedUserCopies, OwnedPoll, OwnedPrepare, OwnedShowText,
     OwnedAcknowledge, OwnedOfferFiles, OwnedGiveUpOffer, OwnedClose DEF Next, Main
<1> QED BY <1>1, <1>2

LEMMA OwnedImpliesInv == Owned => Inv
<1> SUFFICES ASSUME Owned PROVE Inv
  OBVIOUS
<1>1. ServerOK /\ ServingOK /\ SignalsOK /\ JobOK /\ CacheOK /\ BoardOK
  BY DEF Owned
<1>2. TypeOK
  <2>1. \A r \in asked : r.id \in 1 .. MaxStreamId /\ r.copy \in DOMAIN copies
    BY <1>1 DEF ServerOK, AskedOK, Requests
  <2>2. HasJob => /\ job.dir \in DOMAIN cache /\ job.copy = listing
                  /\ job.current \in Currents
                  /\ job.current.offset = Len(cache[job.dir][job.current.index])
    BY <1>1 DEF JobOK, Workable, Jobs
  <2>3. outstanding # None => outstanding \in Openings
    BY <1>1 DEF JobOK
  <2>4. Cardinality({t \in serving : t.at = "reading"}) <= Permits
    BY <1>1 DEF ServingOK, Reading
  <2>5. board.by \in {"nobody", "user", "remote"}
    BY <1>1 DEF BoardOK, Boards
  <2>6. {delivered, reserved} \subseteq Nat \cup {None} /\ changes \in Nat
    BY <1>1 DEF BoardOK
  <2>7. {online, dropped, closed} \subseteq BOOLEAN
    BY <1>1 DEF ServerOK
  <2> QED BY <1>1, <2>1, <2>2, <2>3, <2>4, <2>5, <2>6, <2>7
          DEF TypeOK, ServerOK, SignalsOK, JobOK, CacheOK, BoardOK
<1>3. NoOrphanCache
  <2> SUFFICES ASSUME ~closed, NEW d \in DOMAIN cache, ~(HasJob /\ job.dir = d), d \notin published
               PROVE  \E n \in DOMAIN events : events[n] = Event("ready", d)
    BY DEF NoOrphanCache
  <2>1. PICK n \in DOMAIN events : events[n].kind = "ready" /\ events[n].dir = d
    BY <1>1 DEF CacheOK, Ready
  <2>2. events[n] \in Events
    BY <1>1 DEF CacheOK, EventsOK
  <2>3. events[n] = Event("ready", d)
    BY <2>1, <2>2 DEF Events, Event
  <2> QED BY <2>3
<1>4. OnlyOwnCopiesOffered
  BY <1>1 DEF BoardOK
<1>5. ServedAsAsked
  BY <1>1 DEF ServingOK, ServedAsAsked
<1> QED BY <1>2, <1>3, <1>4, <1>5 DEF Inv

(* Every cache directory has an owner and every copy is taken for what it  *)
(* is: nothing is left on the disk, what the window shows does not go back *)
(* to Windows, and what Windows reads is from the selection it asked for.  *)
(* The user does not copy between a write of the window and the change     *)
(* count it then reads.                                                    *)
THEOREM OwnersAreRight ==
    ASSUME ~CopyRaces
    PROVE  Spec => []Inv
<1>1. Owned /\ [Next]_vars => Owned'
  BY OwnedStep
<1> QED BY <1>1, InitOwned, OwnedImpliesInv, PTL DEF Spec

-----------------------------------------------------------------------------
(* Contents: what is received in pieces is the whole. *)

LEMMA BytesEmpty ==
    ASSUME NEW c \in Nat, NEW i \in Nat
    PROVE  Bytes(c, i, 0, 0) = <<>>
<1>1. IsPart(Bytes(c, i, 0, 0), c, i, 0, 0)
  BY BytesAre
<1>2. Bytes(c, i, 0, 0) \in Contents /\ Len(Bytes(c, i, 0, 0)) = 0
  BY <1>1 DEF IsPart
<1>3. \A s \in Seq(Nat \X Nat \X Nat) : Len(s) = 0 => s = <<>>
  OBVIOUS
<1> QED BY <1>2, <1>3 DEF Contents

LEMMA BytesJoin ==
    ASSUME NEW c \in Nat, NEW i \in Nat, NEW m \in Nat, NEW n \in Nat
    PROVE  Bytes(c, i, 0, m) \o Bytes(c, i, m, m + n) = Bytes(c, i, 0, m + n)
<1> DEFINE a == Bytes(c, i, 0, m)
           b == Bytes(c, i, m, m + n)
           w == Bytes(c, i, 0, m + n)
<1>1. m + n \in Nat /\ m <= m + n /\ 0 \in Nat /\ 0 <= m /\ 0 <= m + n
      /\ m + n - m = n /\ m - 0 = m /\ m + n - 0 = m + n
  OBVIOUS
<1>2. IsPart(a, c, i, 0, m) /\ IsPart(b, c, i, m, m + n) /\ IsPart(w, c, i, 0, m + n)
  BY <1>1, BytesAre
<1> HIDE DEF a, b, w
<1>3. /\ a \in Contents /\ Len(a) = m /\ b \in Contents /\ Len(b) = n
      /\ w \in Contents /\ Len(w) = m + n
  BY <1>1, <1>2 DEF IsPart
<1>4. /\ \A p \in 1 .. m : a[p] = <<c, i, 0 + p - 1>>
      /\ \A p \in 1 .. n : b[p] = <<c, i, m + p - 1>>
      /\ \A p \in 1 .. m + n : w[p] = <<c, i, 0 + p - 1>>
  BY <1>1, <1>2 DEF IsPart
<1> DEFINE j == a \o b
<1>5. /\ j \in Seq(Nat \X Nat \X Nat) /\ Len(j) = m + n
      /\ \A p \in 1 .. m + n : p <= m => j[p] = a[p]
      /\ \A p \in 1 .. m + n : p > m => j[p] = b[p - m]
  <2>1. /\ j \in Seq(Nat \X Nat \X Nat) /\ Len(j) = Len(a) + Len(b)
        /\ \A p \in 1 .. Len(a) + Len(b) : j[p] = IF p <= Len(a) THEN a[p] ELSE b[p - Len(a)]
    BY <1>3, ConcatProperties DEF Contents
  <2> QED BY <1>3, <2>1
<1> HIDE DEF j
<1>6. ASSUME NEW p \in 1 .. m + n PROVE j[p] = w[p]
  <2>1. w[p] = <<c, i, 0 + p - 1>>
    BY <1>4
  <2>2. CASE p <= m
    <3>1. p \in 1 .. m
      BY <2>2
    <3>2. j[p] = a[p]
      BY <1>5, <2>2
    <3>3. a[p] = <<c, i, 0 + p - 1>>
      BY <1>4, <3>1
    <3> QED BY <2>1, <3>2, <3>3
  <2>3. CASE p > m
    <3>1. p - m \in 1 .. n /\ m + (p - m) - 1 = 0 + p - 1
      BY <2>3
    <3>2. j[p] = b[p - m] /\ b[p - m] = <<c, i, m + (p - m) - 1>>
      BY <1>4, <1>5, <2>3, <3>1
    <3> QED BY <2>1, <3>1, <3>2
  <2> QED BY <2>2, <2>3
<1>7. w \in Seq(Nat \X Nat \X Nat)
  BY <1>3 DEF Contents
<1>8. j = w
  BY <1>3, <1>5, <1>6, <1>7, SeqEqual
<1> QED BY <1>8 DEF j, a, b, w

(* Entries of which nothing has to be asked are empty. *)
LEMMA NothingToAsk ==
    ASSUME NEW list \in Seq(Entries), NEW i \in DOMAIN list, ~list[i].dir,
           ~NeedsData(list[i]), NEW c \in Nat
    PROVE  Bytes(c, i, 0, list[i].size) = <<>>
<1>1. list[i].size = 0 /\ i \in Nat
  BY DEF NeedsData
<1> QED BY <1>1, BytesEmpty

LEMMA OpeningFills ==
    ASSUME ServerOK, NEW j, NEW dirs, Workable(j, dirs[j.dir]), j.dir \in DOMAIN dirs,
           Partial(j, dirs[j.dir]), j.current = None,
           NEW i \in j.plan, NeedsData(ListOf(j.copy)[i]),
           \A k \in j.plan : NeedsData(ListOf(j.copy)[k]) => ~Before(ListOf(j.copy), k, i)
    PROVE  Partial(Opening(j, i), OpeningIn(j, i, dirs)[j.dir])
<1> DEFINE list == ListOf(j.copy)
           old == dirs[j.dir]
           files == Created(list, UpTo(j, i), old)
           k == Opening(j, i)
           cur == Opened(list, i)
<1>1. j.copy \in DOMAIN copies /\ j.plan \subseteq DOMAIN list
  BY DEF Workable
<1>2. list \in Seq(Entries) /\ j.copy \in Nat
  BY <1>1, ListIsOne DEF ServerOK
<1>3. /\ k.copy = j.copy /\ k.plan = j.plan \ UpTo(j, i) /\ k.current = cur /\ k.current # None
  BY OpeningIs
<1>4. /\ cur.index = i /\ cur.offset = 0 /\ (cur.sized => cur.size = list[i].size)
  BY DEF Opened
<1>5. OpeningIn(j, i, dirs)[j.dir] = files
  BY DEF OpeningIn, With
<1>6. /\ \A x : x \in DOMAIN files <=> x \in DOMAIN old \/ (x \in UpTo(j, i) /\ ~list[x].dir)
      /\ \A x \in UpTo(j, i) : ~list[x].dir => files[x] = <<>>
      /\ \A x \in DOMAIN old : x \notin UpTo(j, i) \/ list[x].dir => files[x] = old[x]
  BY CreatedIs
<1>7. /\ j.plan \subseteq Planned(list) /\ DOMAIN old \subseteq FilesOf(list)
      /\ FilesOf(list) \subseteq DOMAIN old \cup j.plan
      /\ \A x \in DOMAIN old : x \in j.plan \/ old[x] = Bytes(j.copy, x, 0, list[x].size)
  BY DEF Partial
<1>8. /\ UpTo(j, i) \subseteq j.plan /\ i \in UpTo(j, i) /\ ~list[i].dir
      /\ \A x \in UpTo(j, i) : x = i \/ ~NeedsData(list[x])
  BY DEF UpTo, NeedsData
<1>9. \A x : x \in FilesOf(list) <=> x \in Planned(list) /\ ~list[x].dir
  BY DEF FilesOf
<1>10. \A x \in UpTo(j, i) : x # i /\ ~list[x].dir => Bytes(j.copy, x, 0, list[x].size) = <<>>
  BY <1>1, <1>2, <1>8, NothingToAsk
<1>11. Bytes(j.copy, i, 0, 0) = <<>>
  BY <1>1, <1>2, BytesEmpty
<1> HIDE DEF files, k, cur, list, old
<1>12. DOMAIN files \subseteq FilesOf(list)
  BY <1>6, <1>7, <1>8, <1>9
<1>13. FilesOf(list) \subseteq DOMAIN files \cup k.plan /\ k.plan \subseteq Planned(list)
  BY <1>3, <1>6, <1>7, <1>9
<1>14. ASSUME NEW x \in DOMAIN files
       PROVE  x \in k.plan \/ files[x] = Bytes(j.copy, x, 0, list[x].size) \/ x = i
  <2>1. ~list[x].dir
    BY <1>9, <1>12
  <2>2. CASE x \in UpTo(j, i)
    BY <1>6, <1>10, <2>1, <2>2
  <2>3. CASE x \notin UpTo(j, i)
    BY <1>3, <1>6, <1>7, <2>3
  <2> QED BY <2>2, <2>3
<1>15. i \in DOMAIN files /\ files[i] = Bytes(j.copy, i, 0, 0)
  BY <1>6, <1>8, <1>11
<1>16. Partial(k, files)
  BY <1>3, <1>4, <1>12, <1>13, <1>14, <1>15 DEF Partial, list
<1> QED BY <1>5, <1>16 DEF k, files

(* With nothing left to ask for the files are the whole. *)
LEMMA EndingIsWhole ==
    ASSUME ServerOK, NEW j, NEW files, Workable(j, files), Partial(j, files),
           j.current = None, \A i \in j.plan : ~NeedsData(ListOf(j.copy)[i])
    PROVE  IsWhole(Created(ListOf(j.copy), j.plan, files))
<1> DEFINE list == ListOf(j.copy)
           all == Created(list, j.plan, files)
<1>1. j.copy \in DOMAIN copies /\ j.plan \subseteq DOMAIN list /\ copies[j.copy].what = "files"
  BY DEF Workable
<1>2. list \in Seq(Entries) /\ j.copy \in Nat
  BY <1>1, ListIsOne DEF ServerOK
<1>3. /\ j.plan \subseteq Planned(list) /\ DOMAIN files \subseteq FilesOf(list)
      /\ FilesOf(list) \subseteq DOMAIN files \cup j.plan
      /\ \A x \in DOMAIN files : x \in j.plan \/ files[x] = Bytes(j.copy, x, 0, list[x].size)
  BY DEF Partial
<1>4. /\ \A x : x \in DOMAIN all <=> x \in DOMAIN files \/ (x \in j.plan /\ ~list[x].dir)
      /\ \A x \in j.plan : ~list[x].dir => all[x] = <<>>
      /\ \A x \in DOMAIN files : x \notin j.plan \/ list[x].dir => all[x] = files[x]
  BY CreatedIs
<1>5. \A x : x \in FilesOf(list) <=> x \in Planned(list) /\ ~list[x].dir
  BY DEF FilesOf
<1>6. \A x \in j.plan : ~list[x].dir => Bytes(j.copy, x, 0, list[x].size) = <<>>
  BY <1>1, <1>2, NothingToAsk
<1>7. all = [x \in DOMAIN all |-> all[x]]
  BY DEF Created
<1>8. WholeOf(j.copy) = [x \in FilesOf(list) |-> Bytes(j.copy, x, 0, list[x].size)]
  BY DEF WholeOf, Whole, FilesOf
<1> HIDE DEF all, list
<1>9. DOMAIN all = FilesOf(list)
  BY <1>3, <1>4, <1>5
<1>10. ASSUME NEW x \in FilesOf(list) PROVE all[x] = Bytes(j.copy, x, 0, list[x].size)
  <2>1. ~list[x].dir /\ x \in DOMAIN all
    BY <1>5, <1>9
  <2>2. CASE x \in j.plan
    BY <1>4, <1>6, <2>1, <2>2
  <2>3. CASE x \notin j.plan
    BY <1>3, <1>4, <2>1, <2>3
  <2> QED BY <2>2, <2>3
<1>11. all = WholeOf(j.copy)
  BY <1>7, <1>8, <1>9, <1>10
<1> QED BY <1>1, <1>11 DEF IsWhole, all, list

(* What an advance asks for continues the files, and what it finishes is   *)
(* whole. *)
LEMMA AdvanceFills ==
    ASSUME ServerOK, NEW j, NEW dirs, NEW evs,
           j.dir \in DOMAIN dirs, Workable(j, dirs[j.dir]), Partial(j, dirs[j.dir]),
           listing' = j.copy, nextId \in 1 .. MaxStreamId, Advance(j, dirs, evs)
    PROVE  \/ FetchFailed(j, dirs, evs)
           \/ FetchAsks(j, dirs, evs) /\ Partial(job', cache'[j.dir])
           \/ FetchEnded(j, dirs, evs) /\ IsWhole(cache'[j.dir])
<1> DEFINE list == ListOf(j.copy)
           needed == {i \in j.plan : NeedsData(list[i])}
<1>1. CASE j.current # None /\ Ask(j, dirs, evs)
  BY <1>1, AskStep
<1>2. CASE /\ j.current = None
           /\ \E i \in needed : /\ \A k \in needed : ~Before(list, k, i)
                                /\ Ask(Opening(j, i), OpeningIn(j, i, dirs), evs)
  <2>1. PICK i \in needed : /\ \A k \in needed : ~Before(list, k, i)
                            /\ Ask(Opening(j, i), OpeningIn(j, i, dirs), evs)
    BY <1>2
  <2> DEFINE k == Opening(j, i)
             more == OpeningIn(j, i, dirs)
  <2>2. Workable(k, more[j.dir]) /\ k.dir = j.dir /\ k.copy = j.copy /\ k.current # None
    BY OpeningIs
  <2>3. Partial(k, more[j.dir])
    BY <1>2, <2>1, OpeningFills
  <2>4. DOMAIN more = DOMAIN dirs /\ \A d \in DOMAIN dirs \ {j.dir} : more[d] = dirs[d]
    BY DEF OpeningIn, With
  <2> HIDE DEF k, more
  <2>5. Ask(k, more, evs)
    BY <2>1 DEF k, more
  <2>6. FetchFailed(k, more, evs) \/ (FetchAsks(k, more, evs) /\ job' = k /\ cache' = more)
    BY <2>2, <2>4, <2>5, AskStep
  <2> QED BY <2>2, <2>3, <2>4, <2>6 DEF FetchFailed, FetchAsks, Others
<1>3. CASE /\ j.current = None /\ needed = {}
           /\ job' = NoJob /\ outstanding' = None
           /\ cache' = With(dirs, j.dir, Created(list, j.plan, dirs[j.dir]))
           /\ events' = Raise(evs, "ready", j.dir)
           /\ UNCHANGED <<nextId, asked>>
  <2>1. /\ DOMAIN cache' = DOMAIN dirs
        /\ \A d \in DOMAIN dirs \ {j.dir} : cache'[d] = dirs[d]
        /\ cache'[j.dir] = Created(list, j.plan, dirs[j.dir])
    BY <1>3 DEF With
  <2>2. IsWhole(Created(list, j.plan, dirs[j.dir]))
    BY <1>3, EndingIsWhole
  <2> QED BY <1>3, <2>1, <2>2 DEF FetchEnded, Others
<1>4. CASE FailJob(j, dirs, evs) /\ UNCHANGED <<nextId, asked>>
  BY <1>4, FailStep
<1> QED BY <1>1, <1>2, <1>3, <1>4 DEF Advance, Opening, OpeningIn, UpTo

(* The three steps of a job that leave it with less to do. *)
LEMMA FreshFills ==
    ASSUME ServerOK, NEW c \in DOMAIN copies, copies[c].what = "files", NEW dir
    PROVE  Partial(Fresh(dir, c), <<>>)
<1>1. /\ Fresh(dir, c).copy = c /\ Fresh(dir, c).plan = Planned(ListOf(c))
      /\ Fresh(dir, c).current = None
  BY DEF Fresh
<1>2. DOMAIN <<>> = {}
  OBVIOUS
<1> QED BY <1>1, <1>2 DEF Partial, FilesOf

LEMMA SizedFills ==
    ASSUME ServerOK, JobOK, HasJob, outstanding.size, Partial(job, cache[job.dir]),
           NEW d \in AnswersTo(Requested), d.kind = "size", d \in Responses
    PROVE  Partial(Sized(d), cache[job.dir])
<1> DEFINE list == ListOf(job.copy)
           cur == job.current
           files == cache[job.dir]
           new == [index |-> cur.index, size |-> d.size, sized |-> TRUE, offset |-> 0]
<1>1. /\ cur # None /\ ~cur.sized /\ cur.offset = 0 /\ cur.index \in DOMAIN list
      /\ job.copy \in DOMAIN copies
  BY DEF JobOK, Workable
<1>2. d.size = list[cur.index].size
  <2>1. /\ Requested.size /\ Requested.copy = job.copy /\ Requested.index = cur.index
    BY <1>1 DEF Requested
  <2>2. \/ d = Refused \/ d = Data("size", <<>>, list[cur.index].size)
        \/ d = Data("short", <<>>, 0)
    BY <2>1 DEF AnswersTo
  <2> QED BY <2>2 DEF Refused, Data
<1>3. /\ Sized(d).copy = job.copy /\ Sized(d).plan = job.plan
      /\ Sized(d).current # None => Sized(d).current = new
      /\ Sized(d).current = None => d.size = 0
  BY SizedIs
<1>4. /\ job.plan \subseteq Planned(list) /\ DOMAIN files \subseteq FilesOf(list)
      /\ FilesOf(list) \subseteq DOMAIN files \cup job.plan
      /\ \A i \in DOMAIN files :
             i \in job.plan \/ files[i] = Bytes(job.copy, i, 0, list[i].size) \/ i = cur.index
      /\ cur.index \in DOMAIN files
      /\ files[cur.index] = Bytes(job.copy, cur.index, 0, 0)
  BY <1>1 DEF Partial
<1> HIDE DEF cur, files, list
<1>5. CASE Sized(d).current # None
  <2>1. /\ new.index = cur.index /\ new.size = d.size /\ new.offset = 0
    OBVIOUS
  <2> HIDE DEF new
  <2> QED BY <1>2, <1>3, <1>4, <1>5, <2>1 DEF Partial, cur, files, list
<1>6. CASE Sized(d).current = None
  <2>1. \A i \in DOMAIN files :
            i \in job.plan \/ files[i] = Bytes(job.copy, i, 0, list[i].size)
    BY <1>2, <1>3, <1>4, <1>6
  <2> QED BY <1>3, <1>4, <1>6, <2>1 DEF Partial, list, files
<1> QED BY <1>5, <1>6 DEF files

LEMMA WrittenFills ==
    ASSUME ServerOK, JobOK, HasJob, Partial(job, cache[job.dir]),
           NEW d \in AnswersTo(Requested), Fits(d), d \in Responses
    PROVE  Partial(Written(d), Grown(d))
<1> DEFINE list == ListOf(job.copy)
           cur == job.current
           files == cache[job.dir]
           offset == cur.offset + Len(d.bytes)
           new == [index |-> cur.index, size |-> cur.size, sized |-> TRUE, offset |-> offset]
<1>1. /\ job \in Jobs /\ cur # None /\ cur.sized /\ cur.index \in DOMAIN list
      /\ job.copy \in DOMAIN copies /\ outstanding \in Openings
  BY DEF JobOK, Fits, Workable
<1>2. /\ cur.offset \in Nat /\ cur.index \in Nat /\ job.copy \in Nat
  BY <1>1, CurrentsAre DEF Jobs
<1>3. PICK n \in Nat : d.bytes = Bytes(job.copy, cur.index, cur.offset, cur.offset + n)
  <2>1. /\ ~Requested.size /\ Requested.copy = job.copy /\ Requested.index = cur.index
        /\ Requested.from = cur.offset /\ Requested.len \in Nat
    BY <1>1 DEF Requested, Openings
  <2>2. \/ d = Refused
        \/ \E n \in 0 .. Requested.len + 1 :
              d = Data("bytes", Bytes(job.copy, cur.index, cur.offset, cur.offset + n), 0)
    BY <2>1 DEF AnswersTo
  <2>3. d.kind = "bytes"
    BY DEF Fits
  <2>4. d # Refused
    BY <2>3 DEF Refused, Data
  <2>5. PICK n \in 0 .. Requested.len + 1 :
            d = Data("bytes", Bytes(job.copy, cur.index, cur.offset, cur.offset + n), 0)
    BY <2>2, <2>4
  <2>6. n \in Nat
    BY <2>1
  <2> QED BY <2>5, <2>6 DEF Data
<1>4. Len(d.bytes) = n
  <2>1. PICK m \in Nat : m = cur.offset
    BY <1>2
  <2>2. PICK e \in Nat : e = m + n
    OBVIOUS
  <2>3. m <= e /\ e - m = n
    BY <2>2
  <2>4. d.bytes = Bytes(job.copy, cur.index, m, e)
    BY <1>3, <2>1, <2>2
  <2>5. IsPart(d.bytes, job.copy, cur.index, m, e)
    BY <1>2, <2>3, <2>4, BytesAre
  <2>6. Len(d.bytes) = e - m
    BY <1>2, <2>5, PartIs
  <2> QED BY <2>3, <2>6
<1>5. /\ Written(d).copy = job.copy /\ Written(d).plan = job.plan
      /\ Written(d).current # None => Written(d).current = new
      /\ Written(d).current = None => offset = cur.size
      /\ DOMAIN Grown(d) = DOMAIN files
      /\ \A i \in DOMAIN Grown(d) : i # cur.index => Grown(d)[i] = files[i]
      /\ Grown(d)[cur.index] = files[cur.index] \o d.bytes
  BY WrittenIs
<1>6. /\ job.plan \subseteq Planned(list) /\ DOMAIN files \subseteq FilesOf(list)
      /\ FilesOf(list) \subseteq DOMAIN files \cup job.plan
      /\ \A i \in DOMAIN files :
             i \in job.plan \/ files[i] = Bytes(job.copy, i, 0, list[i].size) \/ i = cur.index
      /\ cur.index \in DOMAIN files
      /\ files[cur.index] = Bytes(job.copy, cur.index, 0, cur.offset)
      /\ cur.size = list[cur.index].size
  BY <1>1 DEF Partial
<1>7. Grown(d)[cur.index] = Bytes(job.copy, cur.index, 0, offset)
  <2> HIDE DEF cur, files
  <2>1. Bytes(job.copy, cur.index, 0, cur.offset)
            \o Bytes(job.copy, cur.index, cur.offset, cur.offset + n)
        = Bytes(job.copy, cur.index, 0, cur.offset + n)
    BY <1>2, BytesJoin
  <2> QED BY <1>3, <1>4, <1>5, <1>6, <2>1 DEF offset
<1>8. /\ new.index = cur.index /\ new.size = cur.size /\ new.offset = offset
  OBVIOUS
<1> HIDE DEF cur, files, list, new, offset
<1>9. CASE Written(d).current # None
  BY <1>5, <1>6, <1>7, <1>8, <1>9 DEF Partial, list
<1>10. CASE Written(d).current = None
  <2>1. \A i \in DOMAIN Grown(d) :
            i \in job.plan \/ Grown(d)[i] = Bytes(job.copy, i, 0, list[i].size)
    BY <1>5, <1>6, <1>7, <1>10
  <2> QED BY <1>5, <1>6, <1>10, <2>1 DEF Partial, list
<1> QED BY <1>9, <1>10

-----------------------------------------------------------------------------
(* What is filled stays filled, and a fetch fills on. *)

Grows == copies' = copies \/ \E s \in Selections : copies' = Append(copies, s)

LEMMA ListsStay ==
    ASSUME ServerOK, Grows
    PROVE  \A c \in DOMAIN copies : c \in DOMAIN copies' /\ copies'[c] = copies[c]
<1>1. copies \in Seq(Selections)
  BY DEF ServerOK
<1>2. ASSUME NEW s \in Selections, copies' = Append(copies, s)
      PROVE  \A c \in DOMAIN copies : c \in DOMAIN copies' /\ copies'[c] = copies[c]
  BY <1>1, <1>2
<1> QED BY <1>2 DEF Grows

LEMMA WholeStays ==
    ASSUME ServerOK, Grows, NEW files, IsWhole(files)
    PROVE  IsWhole(files)'
<1>1. PICK c \in DOMAIN copies : copies[c].what = "files" /\ files = WholeOf(c)
  BY DEF IsWhole
<1>2. c \in DOMAIN copies' /\ copies'[c] = copies[c]
  BY ListsStay
<1>3. WholeOf(c)' = WholeOf(c)
  BY <1>2 DEF WholeOf, ListOf
<1> QED BY <1>1, <1>2, <1>3 DEF IsWhole

LEMMA AnswersStay ==
    ASSUME ServerOK, Grows, NEW r, r.copy \in DOMAIN copies
    PROVE  AnswersTo(r)' = AnswersTo(r)
<1>1. copies'[r.copy] = copies[r.copy]
  BY ListsStay
<1> QED BY <1>1 DEF AnswersTo, ListOf

(* Steps that neither advance the fetch nor drop it. *)
LEMMA FilledStays ==
    ASSUME Owned, Filled, Grows, UNCHANGED <<job, outstanding>>,
           Ready(events') \subseteq Ready(events),
           \A d \in Ready(events') : cache'[d] = cache[d],
           HasJob => cache'[job.dir] = cache[job.dir],
           asked' \subseteq asked,
           \A n \in DOMAIN signals' : signals'[n].kind = "contents" =>
               \/ \E m \in DOMAIN signals : signals[m] = signals'[n]
               \/ \E r \in asked : \E x \in AnswersTo(r) :
                      signals'[n] = Signal("contents", Answer(r.id, x))
    PROVE  Filled'
<1>1. ServerOK /\ JobOK
  BY DEF Owned
<1>2. ASSUME NEW d \in Ready(events')
      PROVE  \A files \in {cache'[d]} : IsWhole(files)'
  BY <1>1, <1>2, WholeStays DEF Filled
<1>3. ASSUME HasJob
      PROVE  /\ \A files \in {cache'[job.dir]} : Partial(job, files)'
             /\ \A q \in {Requested} : AnswersOnly(q)'
  <2>1. PICK files : files = cache[job.dir] /\ files = cache'[job.dir] /\ Partial(job, files)
    BY <1>3 DEF Filled
  <2>2. job.copy \in DOMAIN copies
    BY <1>1, <1>3 DEF JobOK, Workable
  <2>3. copies'[job.copy] = copies[job.copy]
    BY <1>1, <2>2, ListsStay
  <2>4. Partial(job, files)'
    BY <2>1, <2>3 DEF Partial, ListOf
  <2>5. PICK q : q = Requested /\ AnswersOnly(q) /\ q.copy \in DOMAIN copies
    BY <1>3, <2>2 DEF Filled, Answered, Requested
  <2>6. AnswersTo(q)' = AnswersTo(q)
    BY <1>1, <2>5, AnswersStay
  <2>7. ASSUME NEW n \in DOMAIN signals', signals'[n].kind = "contents",
               signals'[n].arg.id = q.id
        PROVE  signals'[n].arg.data \in AnswersTo(q)
    <3>1. CASE \E m \in DOMAIN signals : signals[m] = signals'[n]
      BY <2>5, <2>7, <3>1 DEF AnswersOnly
    <3>2. CASE \E r \in asked : \E x \in AnswersTo(r) :
                   signals'[n] = Signal("contents", Answer(r.id, x))
      <4>1. PICK r \in asked : \E x \in AnswersTo(r) :
                signals'[n] = Signal("contents", Answer(r.id, x))
        BY <3>2
      <4>2. PICK x \in AnswersTo(r) : signals'[n] = Signal("contents", Answer(r.id, x))
        BY <4>1
      <4>3. signals'[n].arg.id = r.id /\ signals'[n].arg.data = x
        BY <4>2 DEF Signal, Answer
      <4>4. r = q
        BY <2>5, <2>7, <4>3 DEF AnswersOnly
      <4> QED BY <4>3, <4>4
    <3> QED BY <2>7, <3>1, <3>2
  <2>8. AnswersOnly(q)'
    BY <2>5, <2>6, <2>7 DEF AnswersOnly
  <2> QED BY <2>1, <2>4, <2>5, <2>8
<1>4. HasJob' <=> HasJob
  BY DEF HasJob
<1>5. Requested' = Requested
  BY DEF Requested
<1>6. Answered' <=> \A q \in {Requested} : AnswersOnly(q)'
  BY <1>5 DEF Answered
<1>7. HasJob => \A files \in {cache'[job'.dir]} : Partial(job, files)'
  BY <1>3
<1> QED BY <1>2, <1>3, <1>4, <1>6, <1>7 DEF Filled

(* An advance leaves whole what was whole, and asks under a fresh id. *)
LEMMA FetchFills ==
    ASSUME ServerOK, copies' = copies, IdIsFresh,
           NEW j \in Jobs, NEW dirs, NEW evs, Home(j, dirs, evs),
           \A d \in Ready(evs) : IsWhole(dirs[d]),
           \A n \in DOMAIN signals' : \E m \in DOMAIN signals : signals[m] = signals'[n],
           \/ FetchFailed(j, dirs, evs)
           \/ FetchAsks(j, dirs, evs) /\ Partial(job', cache'[j.dir])
           \/ FetchEnded(j, dirs, evs) /\ IsWhole(cache'[j.dir])
    PROVE  Filled'
<1> USE DEF Grows
<1>1. /\ j.dir \in Nat \ {0} /\ EventsOK(evs) /\ j.dir \notin Ready(evs)
      /\ Ready(evs) \subseteq DOMAIN dirs
  BY DEF Jobs, Home
<1>2. ASSUME Others(dirs, j.dir), NEW d \in Ready(evs)
      PROVE  \A files \in {cache'[d]} : IsWhole(files)'
  <2>1. cache'[d] = dirs[d]
    BY <1>1, <1>2 DEF Others
  <2> QED BY <2>1, WholeStays
<1>3. CASE FetchFailed(j, dirs, evs)
  <2>1. Ready(events') = Ready(evs) /\ Others(dirs, j.dir) /\ ~HasJob'
    BY <1>1, <1>3, RaiseQuiet DEF FetchFailed, HasJob
  <2> QED BY <1>2, <2>1 DEF Filled
<1>4. CASE FetchEnded(j, dirs, evs) /\ IsWhole(cache'[j.dir])
  <2>1. Ready(events') \subseteq Ready(evs) \cup {j.dir} /\ Others(dirs, j.dir) /\ ~HasJob'
    BY <1>1, <1>4, RaiseReady DEF FetchEnded, HasJob, ServerOK
  <2>2. \A files \in {cache'[j.dir]} : IsWhole(files)'
    BY <1>4, WholeStays
  <2>3. \A d \in Ready(events') : \A files \in {cache'[d]} : IsWhole(files)'
    BY <1>2, <2>1, <2>2
  <2> QED BY <2>1, <2>3 DEF Filled
<1>5. CASE FetchAsks(j, dirs, evs) /\ Partial(job', cache'[j.dir])
  <2>1. /\ events' = evs /\ Others(dirs, j.dir) /\ job'.dir = j.dir
        /\ outstanding'.id = nextId /\ asked' = asked \cup {Requested'}
    BY <1>5 DEF FetchAsks
  <2>2. \A files \in {cache'[job'.dir]} : Partial(job, files)'
    BY <1>5, <2>1 DEF Partial, ListOf
  <2>3. PICK q : q = Requested'
    OBVIOUS
  <2>6. q.id = nextId
    BY <2>1, <2>3 DEF Requested
  <2>4. AnswersOnly(q)'
    BY <2>1, <2>3, <2>6 DEF AnswersOnly, IdIsFresh
  <2>5. Answered'
    BY <2>3, <2>4 DEF Answered
  <2> QED BY <1>2, <2>1, <2>2, <2>5 DEF Filled
<1> QED BY <1>3, <1>4, <1>5

LEMMA ListFills ==
    ASSUME Owned, Filled, IdIsFresh, NEW c \in DOMAIN copies, copies[c].what = "files",
           HandleList(c), UNCHANGED <<copies, closed, published>>,
           \A n \in DOMAIN signals' : \E m \in DOMAIN signals : signals[m] = signals'[n]
    PROVE  Filled'
<1>1. ServerOK /\ JobOK /\ CacheOK
  BY DEF Owned
<1>2. \A d \in Ready(events) : d \in DOMAIN Kept /\ Kept[d] = cache[d] /\ IsWhole(cache[d])
  BY <1>1, KeptIs DEF Filled
<1>3. CASE /\ job' = NoJob /\ outstanding' = None /\ cache' = Kept
           /\ UNCHANGED <<nextId, asked>>
           /\ \/ events' = events
              \/ events' = Raise(Raise(events, "preparing", 0), "failed", 0)
  <2>1. Ready(events') = Ready(events) /\ ~HasJob'
    BY <1>1, <1>3, RaiseQuiet DEF CacheOK, HasJob
  <2>2. ASSUME NEW d \in Ready(events')
        PROVE  \A files \in {cache'[d]} : IsWhole(files)'
    BY <1>1, <1>2, <1>3, <2>1, WholeStays DEF Grows
  <2> QED BY <2>1, <2>2 DEF Filled
<1>4. ASSUME NEW dir \in Dirs \ DOMAIN Kept,
             Advance(Fresh(dir, c), With(Kept, dir, <<>>), Raise(events, "preparing", 0))
      PROVE  Filled'
  <2> DEFINE j == Fresh(dir, c)
             dirs == With(Kept, dir, <<>>)
             evs == Raise(events, "preparing", 0)
  <2>1. /\ Workable(j, dirs[dir]) /\ dir \in DOMAIN dirs /\ Home(j, dirs, evs)
        /\ j \in Jobs /\ j.dir = dir /\ j.copy = c
    BY <1>1, FreshIs
  <2>2. listing' = c /\ nextId \in 1 .. MaxStreamId /\ Advance(j, dirs, evs)
    BY <1>1, <1>4, ListStep DEF JobOK
  <2>3. dirs[dir] = <<>> /\ \A d \in DOMAIN Kept : dirs[d] = Kept[d]
    BY DEF With
  <2>4. Partial(j, dirs[dir])
    BY <1>1, <2>3, FreshFills
  <2>5. Ready(evs) = Ready(events)
    BY <1>1, RaiseQuiet DEF CacheOK
  <2> HIDE DEF j, dirs, evs
  <2>6. \A d \in Ready(evs) : IsWhole(dirs[d])
    BY <1>2, <2>3, <2>5
  <2>7. \/ FetchFailed(j, dirs, evs)
        \/ FetchAsks(j, dirs, evs) /\ Partial(job', cache'[j.dir])
        \/ FetchEnded(j, dirs, evs) /\ IsWhole(cache'[j.dir])
    BY <1>1, <2>1, <2>2, <2>4, AdvanceFills
  <2> QED BY <1>1, <2>1, <2>6, <2>7, FetchFills
<1> QED BY <1>1, <1>3, <1>4, ListStep

LEMMA ContentsFill ==
    ASSUME Owned, Filled, IdIsFresh, NEW answer, answer.data \in Responses,
           \E m \in DOMAIN signals :
               signals[m].kind = "contents" /\ signals[m].arg = answer,
           HandleContents(answer), UNCHANGED <<copies, closed, published>>,
           \A n \in DOMAIN signals' : \E m \in DOMAIN signals : signals[m] = signals'[n]
    PROVE  Filled'
<1> DEFINE d == answer.data
<1>1. ServerOK /\ JobOK /\ CacheOK
  BY DEF Owned
<1>2. CASE UNCHANGED <<job, outstanding, nextId, cache, asked, events>>
  BY <1>2, FilledStays DEF Grows
<1>3. ASSUME Expected(answer)
      PROVE  /\ HasJob /\ job \in Jobs /\ job.copy \in DOMAIN copies /\ job.dir \in DOMAIN cache
             /\ job.copy = listing /\ nextId \in 1 .. MaxStreamId /\ listing' = listing
             /\ Home(job, cache, events) /\ Partial(job, cache[job.dir])
             /\ d \in AnswersTo(Requested)
  <2>1. HasJob
    BY <1>1, <1>3 DEF Expected, JobOK
  <2>2. /\ job \in Jobs /\ job.copy \in DOMAIN copies /\ job.dir \in DOMAIN cache
        /\ job.copy = listing /\ nextId \in 1 .. MaxStreamId
    BY <1>1, <2>1 DEF JobOK, Workable
  <2>3. Home(job, cache, events)
    BY <1>1, <2>1 DEF CacheOK, Home
  <2>4. Partial(job, cache[job.dir]) /\ AnswersOnly(Requested)
    BY <2>1 DEF Filled, Answered
  <2>5. Requested.id = outstanding.id /\ outstanding.id = answer.id
    BY <1>3 DEF Requested, Expected
  <2>6. d \in AnswersTo(Requested)
    BY <2>4, <2>5 DEF AnswersOnly
  <2> QED BY <2>1, <2>2, <2>3, <2>4, <2>6, ContentsStep
<1>4. \A x \in Ready(events) : x \in DOMAIN cache /\ IsWhole(cache[x])
  BY <1>1 DEF Filled, CacheOK
<1>5. CASE Expected(answer) /\ FailJob(job, cache, events) /\ UNCHANGED <<nextId, asked>>
  BY <1>1, <1>3, <1>4, <1>5, FailStep, FetchFills
<1>6. ASSUME NEW j \in Jobs, NEW dirs, Expected(answer), j.dir = job.dir, j.copy = job.copy,
             Workable(j, dirs[job.dir]), DOMAIN dirs = DOMAIN cache,
             \A x \in DOMAIN cache \ {job.dir} : dirs[x] = cache[x],
             Partial(j, dirs[job.dir]), Advance(j, dirs, events)
      PROVE  Filled'
  <2>1. listing' = j.copy /\ nextId \in 1 .. MaxStreamId /\ j.dir \in DOMAIN dirs
    BY <1>3, <1>6
  <2>2. Home(j, dirs, events)
    BY <1>3, <1>6 DEF Home
  <2>3. \A x \in Ready(events) : IsWhole(dirs[x])
    BY <1>4, <1>6, <2>2 DEF Home
  <2>4. \/ FetchFailed(j, dirs, events)
        \/ FetchAsks(j, dirs, events) /\ Partial(job', cache'[j.dir])
        \/ FetchEnded(j, dirs, events) /\ IsWhole(cache'[j.dir])
    BY <1>1, <1>6, <2>1, AdvanceFills
  <2> QED BY <1>1, <1>6, <2>2, <2>3, <2>4, FetchFills
<1>7. CASE Expected(answer) /\ outstanding.size /\ d.kind = "size"
           /\ Advance(Sized(d), cache, events)
  <2>1. Partial(Sized(d), cache[job.dir])
    BY <1>1, <1>3, <1>7, SizedFills
  <2>2. /\ Workable(Sized(d), cache[job.dir]) /\ Sized(d) \in Jobs
        /\ Sized(d).dir = job.dir /\ Sized(d).copy = job.copy
    BY <1>1, <1>3, <1>7, SizedIs
  <2> QED BY <1>6, <1>7, <2>1, <2>2
<1>8. CASE /\ Expected(answer) /\ Fits(d)
           /\ Advance(Written(d), With(cache, job.dir, Grown(d)), events)
  <2> DEFINE dirs == With(cache, job.dir, Grown(d))
  <2>1. /\ dirs[job.dir] = Grown(d) /\ DOMAIN dirs = DOMAIN cache
        /\ \A x \in DOMAIN cache \ {job.dir} : dirs[x] = cache[x]
    BY <1>3, <1>8 DEF With
  <2>2. Advance(Written(d), dirs, events)
    BY <1>8
  <2> HIDE DEF dirs
  <2>3. Partial(Written(d), dirs[job.dir])
    BY <1>1, <1>3, <1>8, <2>1, WrittenFills
  <2>4. /\ Workable(Written(d), dirs[job.dir]) /\ Written(d) \in Jobs
        /\ Written(d).dir = job.dir /\ Written(d).copy = job.copy
    BY <1>1, <1>3, <1>8, <2>1, WrittenIs
  <2> QED BY <1>6, <1>8, <2>1, <2>2, <2>3, <2>4
<1> QED BY <1>2, <1>5, <1>7, <1>8, ContentsStep

(* What is in a queue that may have grown. *)
LEMMA QueueHolds ==
    ASSUME Owned, NEW sig, signals' = signals \/ signals' = Append(signals, sig)
    PROVE  \A n \in DOMAIN signals' :
               signals'[n] = sig \/ \E m \in DOMAIN signals : signals[m] = signals'[n]
<1>1. signals \in Seq(Signals)
  BY DEF Owned, SignalsOK
<1>2. ASSUME signals' = Append(signals, sig), NEW n \in DOMAIN signals', signals'[n] # sig
      PROVE  \E m \in DOMAIN signals : signals[m] = signals'[n]
  <2> DEFINE S == Signals \cup {sig}
  <2>1. signals \in Seq(S) /\ sig \in S
    BY <1>1
  <2>2. /\ Len(signals') = Len(signals) + 1 /\ signals' \in Seq(S)
        /\ \A i \in 1 .. Len(signals) : signals'[i] = signals[i]
        /\ signals'[Len(signals) + 1] = sig
    BY <1>2, <2>1, AppendProperties
  <2>3. n \in 1 .. Len(signals)
    BY <1>1, <1>2, <2>2
  <2> QED BY <1>1, <2>2, <2>3
<1> QED BY <1>2

(* A queue that grows by a signal that fits the open request, or by one    *)
(* that has nothing to do with it.                                         *)
LEMMA QueueFills ==
    ASSUME Owned, Filled, Grows, UNCHANGED <<job, outstanding, cache, events>>,
           asked' \subseteq asked, NEW sig,
           signals' = signals \/ signals' = Append(signals, sig),
           \/ sig.kind # "contents"
           \/ \E r \in asked : \E x \in AnswersTo(r) : sig = Signal("contents", Answer(r.id, x))
    PROVE  Filled'
<1>1. \A n \in DOMAIN signals' : signals'[n].kind = "contents" =>
          \/ \E m \in DOMAIN signals : signals[m] = signals'[n]
          \/ \E r \in asked : \E x \in AnswersTo(r) :
                 signals'[n] = Signal("contents", Answer(r.id, x))
  BY QueueHolds
<1>2. \A d \in Ready(events') : cache'[d] = cache[d]
  OBVIOUS
<1> QED BY <1>1, <1>2, FilledStays

(* Steps the fetch has no part in. *)
LEMMA QuietFills ==
    ASSUME Owned, Filled, UNCHANGED <<copies, asked, signals, job, outstanding, cache>>,
           Ready(events') \subseteq Ready(events)
    PROVE  Filled'
<1>1. \A n \in DOMAIN signals' : \E m \in DOMAIN signals : signals[m] = signals'[n]
  OBVIOUS
<1> QED BY <1>1, FilledStays DEF Grows

(* The signal at the head is one of the queue, and so are those behind it. *)
LEMMA TailIsOfQueue ==
    ASSUME Owned, signals # <<>>, signals' = Tail(signals)
    PROVE  /\ \A n \in DOMAIN signals' : \E m \in DOMAIN signals : signals[m] = signals'[n]
           /\ \E m \in DOMAIN signals : signals[m] = Head(signals)
           /\ Head(signals) \in Signals /\ SignalOK(Head(signals))
<1>1. signals \in Seq(Signals) /\ \A n \in DOMAIN signals : SignalOK(signals[n])
  BY DEF Owned, SignalsOK
<1>2. /\ Len(signals) \in Nat \ {0} /\ DOMAIN signals = 1 .. Len(signals)
      /\ DOMAIN signals' = 1 .. Len(signals) - 1
      /\ \A n \in DOMAIN signals' : signals'[n] = signals[n + 1]
      /\ Head(signals) = signals[1] /\ 1 \in DOMAIN signals
  BY <1>1
<1>3. \A n \in DOMAIN signals' : n + 1 \in DOMAIN signals
  BY <1>2
<1>4. \A n \in DOMAIN signals' : \E m \in DOMAIN signals : signals[m] = signals'[n]
  BY <1>2, <1>3
<1> QED BY <1>1, <1>2, <1>4

LEMMA FilledHandleSignal ==
    ASSUME Owned, Filled, IdIsFresh, HandleSignal
    PROVE  Filled'
<1> DEFINE s == Head(signals)
<1>1. /\ signals # <<>> /\ signals' = Tail(signals)
      /\ UNCHANGED <<copies, closed, published>> /\ CacheOK
  BY DEF HandleSignal, window, Owned
<1>2. /\ \A n \in DOMAIN signals' : \E m \in DOMAIN signals : signals[m] = signals'[n]
      /\ \E m \in DOMAIN signals : signals[m] = s
      /\ s \in Signals /\ SignalOK(s)
  BY <1>1, TailIsOfQueue
<1>3. ASSUME UNCHANGED <<asked, fetch, cache>>, Ready(events') = Ready(events)
      PROVE  Filled'
  BY <1>1, <1>2, <1>3, FilledStays DEF fetch, Grows
<1>4. CASE UNCHANGED <<asked, fetch, cache, events>>
  BY <1>3, <1>4
<1>5. CASE events' = Raise(events, "text", 0) /\ UNCHANGED <<asked, fetch, cache>>
  BY <1>1, <1>3, <1>5, RaiseQuiet DEF CacheOK
<1>6. CASE s.kind = "files" /\ HandleList(s.arg)
  <2>1. s.arg \in DOMAIN copies /\ copies[s.arg].what = "files"
    BY <1>2, <1>6 DEF SignalOK
  <2> QED BY <1>1, <1>2, <1>6, <2>1, ListFills
<1>7. CASE s.kind = "contents" /\ HandleContents(s.arg)
  <2>1. s.arg.data \in Responses
    BY <1>2, <1>7 DEF Signals
  <2> QED BY <1>1, <1>2, <1>7, <2>1, ContentsFill
<1> QED BY <1>4, <1>5, <1>6, <1>7 DEF HandleSignal

LEMMA FilledDisconnect ==
    ASSUME Owned, Filled, Disconnect
    PROVE  Filled'
<1>1. /\ ServerOK /\ CacheOK /\ copies' = copies /\ job' = NoJob /\ cache' = Kept
      /\ events' = Raise(events, "reconnecting", 0)
  BY DEF Owned, Disconnect, Kept
<1>2. Ready(events') = Ready(events) /\ ~HasJob'
  BY <1>1, RaiseQuiet DEF CacheOK, HasJob
<1>3. ASSUME NEW d \in Ready(events')
      PROVE  \A files \in {cache'[d]} : IsWhole(files)'
  <2>1. cache'[d] = cache[d]
    <3>1. d \in DOMAIN cache /\ (HasJob => job.dir # d)
      BY <1>1, <1>2, <1>3 DEF CacheOK
    <3> QED BY <1>1, <3>1, WithoutIs DEF Kept
  <2>2. IsWhole(cache[d])
    BY <1>2, <1>3 DEF Filled
  <2> QED BY <1>1, <2>1, <2>2, WholeStays DEF Grows
<1> QED BY <1>2, <1>3 DEF Filled

LEMMA FilledOfferFiles ==
    ASSUME Owned, Filled, OfferFiles
    PROVE  Filled'
<1>1. /\ CacheOK /\ NextEvent("ready")
      /\ UNCHANGED <<copies, job, outstanding, asked, signals>>
  BY OfferFilesStep DEF Owned, MainOnly, server, fetch
<1>2. PICK dir : dir = Head(events).dir
  OBVIOUS
<1>3. Ready(events') = Ready(events) \ {dir} /\ dir \in Ready(events)
  BY <1>1, <1>2, EventTaken
<1>4. cache' = cache \/ cache' = Without(cache, dir)
  BY <1>2, OfferFilesStep DEF OfferOutcome
<1>5. \A d \in DOMAIN cache \ {dir} : cache'[d] = cache[d]
  <2>1. \A d \in DOMAIN cache \ {dir} : Without(cache, dir)[d] = cache[d]
    BY WithoutIs
  <2> QED BY <1>4, <2>1
<1>6. \A d \in Ready(events') : cache'[d] = cache[d]
  BY <1>1, <1>3, <1>5 DEF CacheOK
<1>7. HasJob => cache'[job.dir] = cache[job.dir]
  BY <1>1, <1>3, <1>5 DEF CacheOK, Owned, JobOK
<1>8. \A n \in DOMAIN signals' : \E m \in DOMAIN signals : signals[m] = signals'[n]
  BY <1>1
<1> QED BY <1>1, <1>3, <1>6, <1>7, <1>8, FilledStays DEF Grows

LEMMA InitFilled == Init => Filled
<1> SUFFICES ASSUME Init PROVE Filled
  OBVIOUS
<1>1. events = <<>> /\ job = NoJob
  BY DEF Init
<1>2. Ready(events) = {}
  BY <1>1 DEF Ready
<1> QED BY <1>1, <1>2 DEF Filled, HasJob

LEMMA FilledStep ==
    ASSUME Owned, Filled, IdIsFresh, [Next]_vars
    PROVE  Filled'
<1>1. CacheOK
  BY DEF Owned
<1>2. CASE ServerCopies
  <2>1. PICK x \in Selections : copies' = Append(copies, x) /\ Queue(Signal("paste", x.what))
    BY <1>2 DEF ServerCopies
  <2>2. signals' = signals \/ signals' = Append(signals, Signal("paste", x.what))
    BY <2>1 DEF Queue
  <2>3. Signal("paste", x.what).kind # "contents" /\ Grows
    BY <2>1 DEF Signal, Grows
  <2> QED BY <1>2, <2>2, <2>3, QueueFills DEF ServerCopies, fetch, disk
<1>3. CASE ServerSendsData
  <2>1. PICK sig : /\ sig.kind \in {"text", "files"}
                   /\ signals' = signals \/ signals' = Append(signals, sig)
    <3>1. wanted \in Seq({"text", "files"}) /\ wanted # <<>>
      BY <1>3 DEF ServerSendsData, Owned, ServerOK
    <3>2. Head(wanted) \in {"text", "files"}
      BY <3>1
    <3>3. Signal(Head(wanted), Len(copies)).kind = Head(wanted)
      BY DEF Signal
    <3>4. \/ signals' = signals
          \/ signals' = Append(signals, Signal(Head(wanted), Len(copies)))
      BY <1>3 DEF ServerSendsData, Queue
    <3> QED BY <3>2, <3>3, <3>4
  <2> QED BY <1>3, <2>1, QueueFills DEF ServerSendsData, fetch, disk, Grows
<1>4. CASE ServerAnswers
  <2>1. PICK r \in asked : \E d \in AnswersTo(r) :
            asked' = asked \ {r} /\ Queue(Signal("contents", Answer(r.id, d)))
    BY <1>4 DEF ServerAnswers
  <2>2. PICK d \in AnswersTo(r) :
            asked' = asked \ {r} /\ Queue(Signal("contents", Answer(r.id, d)))
    BY <2>1
  <2>3. PICK sig : /\ sig = Signal("contents", Answer(r.id, d))
                   /\ signals' = signals \/ signals' = Append(signals, sig)
    BY <2>2 DEF Queue
  <2> QED BY <1>4, <2>2, <2>3, QueueFills DEF ServerAnswers, fetch, disk, Grows
<1>5. CASE ServerRequests
  BY <1>5, QuietFills DEF ServerRequests, server, fetch, disk
<1>6. CASE TaskReads \/ TaskHasRead
  BY <1>6, QuietFills DEF TaskReads, TaskHasRead, ServingOnly, server, fetch, disk
<1>7. CASE TaskSends
  <2>1. PICK sig : /\ sig.kind = "serve"
                   /\ signals' = signals \/ signals' = Append(signals, sig)
    BY <1>7 DEF TaskSends, Signal
  <2> QED BY <1>7, <2>1, QueueFills DEF TaskSends, ServingOnly, server, fetch, disk, Grows
<1>8. CASE HandleSignal
  BY <1>8, FilledHandleSignal
<1>9. CASE Disconnect
  BY <1>9, FilledDisconnect
<1>10. CASE Reconnect \/ UserCopies \/ TakeOffer
  BY <1>10, QuietFills DEF Reconnect, UserCopies, TakeOffer, server, fetch, disk
<1>11. CASE Poll(TRUE) \/ Poll(FALSE) \/ Acknowledge
  BY <1>11, QuietFills DEF Poll, Acknowledge, MainOnly, server, fetch, disk
<1>12. CASE Prepare \/ ShowText \/ GiveUpOffer
  <2>1. PICK kind \in {"preparing", "text", "failed", "reconnecting"} : NextEvent(kind)
    BY <1>12 DEF Prepare, ShowText, GiveUpOffer
  <2>2. Ready(events') = Ready(events)
    BY <1>1, <2>1, EventTaken
  <2> QED BY <1>12, <2>2, QuietFills
          DEF Prepare, ShowText, GiveUpOffer, MainOnly, server, fetch, disk
<1>13. CASE OfferFiles
  BY <1>13, FilledOfferFiles
<1>14. CASE Close
  <2>1. Ready(events') = {}
    BY <1>14 DEF Close, Ready
  <2> QED BY <1>14, <2>1, QuietFills DEF Close, MainOnly, server, fetch, disk
<1>15. CASE UNCHANGED vars
  BY <1>15, QuietFills DEF vars, server, fetch, disk
<1> QED BY <1>2, <1>3, <1>4, <1>5, <1>6, <1>7, <1>8, <1>9, <1>10, <1>11, <1>12, <1>13, <1>14,
           <1>15 DEF Next, Main

-----------------------------------------------------------------------------
(* What a step of the fetch does elsewhere: nothing to the directories of  *)
(* others, and what it asks is asked under the next id.                    *)

NextId == IF nextId = MaxStreamId THEN 1 ELSE nextId + 1
AsksNext ==
    \/ asked' = asked /\ nextId' \in {nextId, NextId}
    \/ nextId' = NextId /\ \E r : asked' = asked \cup {r} /\ r.id = nextId

LEMMA AskElsewhere ==
    ASSUME NEW j, NEW dirs, NEW evs, Ask(j, dirs, evs)
    PROVE  Others(dirs, j.dir) /\ AsksNext
<1>1. nextId' = NextId
  BY DEF Ask, NextId
<1>2. CASE cache' = dirs
  <2> DEFINE len == IF ~j.current.sized THEN 8
                    ELSE IF j.current.size - j.current.offset < Chunk
                         THEN j.current.size - j.current.offset ELSE Chunk
             r == [id |-> nextId, copy |-> listing', index |-> j.current.index,
                   size |-> ~j.current.sized, from |-> j.current.offset, len |-> len]
  <2>1. r.id = nextId /\ (asked' = asked \/ asked' = asked \cup {r})
    BY DEF Ask
  <2> HIDE DEF r
  <2> QED BY <1>1, <1>2, <2>1 DEF Others, AsksNext
<1>3. CASE FailJob(j, dirs, evs) /\ UNCHANGED asked
  BY <1>1, <1>3, WithoutIs DEF FailJob, Others, AsksNext
<1> QED BY <1>2, <1>3 DEF Ask

LEMMA AdvanceElsewhere ==
    ASSUME NEW j \in Jobs, NEW dirs, NEW evs, Advance(j, dirs, evs)
    PROVE  Others(dirs, j.dir) /\ AsksNext
<1> DEFINE list == ListOf(j.copy)
<1>1. CASE Ask(j, dirs, evs)
  BY <1>1, AskElsewhere
<1>2. CASE \E i : Ask(Opening(j, i), OpeningIn(j, i, dirs), evs)
  <2>1. PICK i : Ask(Opening(j, i), OpeningIn(j, i, dirs), evs)
    BY <1>2
  <2>2. Opening(j, i).dir = j.dir
    BY DEF Opening, Jobs
  <2>3. /\ DOMAIN dirs \subseteq DOMAIN OpeningIn(j, i, dirs)
        /\ \A d \in DOMAIN dirs \ {j.dir} : OpeningIn(j, i, dirs)[d] = dirs[d]
    BY DEF OpeningIn, With
  <2>4. Others(OpeningIn(j, i, dirs), Opening(j, i).dir) /\ AsksNext
    BY <2>1, AskElsewhere
  <2> QED BY <2>2, <2>3, <2>4 DEF Others
<1>3. CASE /\ cache' = With(dirs, j.dir, Created(list, j.plan, dirs[j.dir]))
           /\ UNCHANGED <<nextId, asked>>
  BY <1>3 DEF With, Others, AsksNext
<1>4. CASE FailJob(j, dirs, evs) /\ UNCHANGED <<nextId, asked>>
  BY <1>4, WithoutIs DEF FailJob, Others, AsksNext
<1> QED BY <1>1, <1>2, <1>3, <1>4 DEF Advance, Opening, OpeningIn, UpTo

Elsewhere == (\A d \in published : cache'[d] = cache[d]) /\ AsksNext

LEMMA ListElsewhere ==
    ASSUME Owned, NEW c \in DOMAIN copies, copies[c].what = "files", HandleList(c)
    PROVE  Elsewhere
<1>1. ServerOK /\ JobOK /\ CacheOK
  BY DEF Owned
<1>2. \A d \in published : d \in DOMAIN Kept /\ Kept[d] = cache[d]
  BY <1>1, KeptIs
<1>3. CASE cache' = Kept /\ UNCHANGED <<nextId, asked>>
  BY <1>2, <1>3 DEF Elsewhere, AsksNext
<1>4. ASSUME NEW dir \in Dirs \ DOMAIN Kept,
             Advance(Fresh(dir, c), With(Kept, dir, <<>>), Raise(events, "preparing", 0))
      PROVE  Elsewhere
  <2> DEFINE dirs == With(Kept, dir, <<>>)
  <2>1. Fresh(dir, c) \in Jobs /\ Fresh(dir, c).dir = dir
    BY <1>1, FreshIs
  <2>2. DOMAIN dirs = DOMAIN Kept \cup {dir} /\ \A d \in DOMAIN Kept : dirs[d] = Kept[d]
    BY DEF With
  <2>3. Others(dirs, dir) /\ AsksNext
    BY <1>4, <2>1, AdvanceElsewhere
  <2> HIDE DEF dirs
  <2> QED BY <1>2, <2>2, <2>3 DEF Others, Elsewhere
<1> QED BY <1>1, <1>3, <1>4, ListStep

LEMMA ContentsElsewhere ==
    ASSUME Owned, NEW answer, answer.data \in Responses, HandleContents(answer)
    PROVE  Elsewhere
<1> DEFINE d == answer.data
<1>1. ServerOK /\ JobOK /\ CacheOK
  BY DEF Owned
<1>2. CASE UNCHANGED <<nextId, cache, asked>>
  BY <1>2 DEF Elsewhere, AsksNext
<1>3. ASSUME Expected(answer)
      PROVE  /\ HasJob /\ job \in Jobs /\ job.dir \notin published
             /\ published \subseteq DOMAIN cache
  BY <1>1, <1>3 DEF Expected, JobOK, Workable, CacheOK
<1>4. CASE Expected(answer) /\ FailJob(job, cache, events) /\ UNCHANGED <<nextId, asked>>
  BY <1>3, <1>4, WithoutIs DEF FailJob, Elsewhere, AsksNext
<1>5. CASE /\ Expected(answer) /\ outstanding.size /\ d.kind = "size"
           /\ Advance(Sized(d), cache, events)
  <2>1. Sized(d) \in Jobs /\ Sized(d).dir = job.dir
    BY <1>1, <1>3, <1>5, SizedIs
  <2>2. Others(cache, job.dir) /\ AsksNext
    BY <1>5, <2>1, AdvanceElsewhere
  <2> QED BY <1>3, <1>5, <2>2 DEF Others, Elsewhere
<1>6. CASE /\ Expected(answer) /\ Fits(d)
           /\ Advance(Written(d), With(cache, job.dir, Grown(d)), events)
  <2> DEFINE dirs == With(cache, job.dir, Grown(d))
  <2>1. Written(d) \in Jobs /\ Written(d).dir = job.dir
    BY <1>1, <1>3, <1>6, WrittenIs
  <2>2. Others(dirs, job.dir) /\ AsksNext
    BY <1>6, <2>1, AdvanceElsewhere
  <2>3. \A x \in DOMAIN cache \ {job.dir} : x \in DOMAIN dirs /\ dirs[x] = cache[x]
    BY DEF With
  <2> HIDE DEF dirs
  <2> QED BY <1>3, <1>6, <2>2, <2>3 DEF Others, Elsewhere
<1> QED BY <1>2, <1>4, <1>5, <1>6, ContentsStep

(* Ids come round only after the last of them: until then each request has *)
(* an id of its own, on the queue and at the server.                       *)
IdsBelow ==
    /\ \A r \in asked : r.id \in 0 .. nextId - 1
    /\ \A n \in DOMAIN signals :
           signals[n].kind = "contents" => signals[n].arg.id \in 0 .. nextId - 1

LEMMA IdsStay ==
    ASSUME IdsBelow, nextId \in Nat, nextId' \in {nextId, nextId + 1},
           \A r \in asked' : r \in asked \/ (r.id = nextId /\ nextId' = nextId + 1),
           \A n \in DOMAIN signals' : signals'[n].kind = "contents" =>
               \/ \E m \in DOMAIN signals : signals[m] = signals'[n]
               \/ \E r \in asked : signals'[n].arg.id = r.id
    PROVE  IdsBelow'
<1>1. PICK m \in Nat, n \in Nat : m = nextId /\ n = nextId' /\ n \in {m, m + 1}
  OBVIOUS
<1>2. ASSUME NEW i \in 0 .. m - 1 PROVE i \in 0 .. n - 1
  <2>1. i \in Nat /\ i <= m - 1 /\ m <= n
    BY <1>1
  <2> QED BY <2>1
<1>3. n = m + 1 => m \in 0 .. n - 1
  BY <1>1
<1> QED BY <1>1, <1>2, <1>3 DEF IdsBelow

LEMMA IdsQueue ==
    ASSUME Owned, IdsBelow, nextId' = nextId, asked' \subseteq asked, NEW sig,
           signals' = signals \/ signals' = Append(signals, sig),
           sig.kind # "contents" \/ \E r \in asked : sig.arg.id = r.id
    PROVE  IdsBelow'
<1>1. nextId \in Nat
  BY FetchAssumption DEF Owned, JobOK
<1>2. \A n \in DOMAIN signals' : signals'[n].kind = "contents" =>
          \/ \E m \in DOMAIN signals : signals[m] = signals'[n]
          \/ \E r \in asked : signals'[n].arg.id = r.id
  BY QueueHolds
<1> QED BY <1>1, <1>2, IdsStay

LEMMA IdsHandleSignal ==
    ASSUME Owned, IdsBelow, nextId < MaxStreamId, HandleSignal
    PROVE  IdsBelow'
<1> DEFINE s == Head(signals)
<1>1. signals # <<>> /\ signals' = Tail(signals) /\ nextId \in Nat /\ MaxStreamId \in Nat
  BY FetchAssumption DEF HandleSignal, Owned, JobOK
<1>2. /\ \A n \in DOMAIN signals' : \E m \in DOMAIN signals : signals[m] = signals'[n]
      /\ s \in Signals /\ SignalOK(s)
  BY <1>1, TailIsOfQueue
<1>3. ASSUME AsksNext PROVE IdsBelow'
  <2>1. NextId = nextId + 1
    BY <1>1 DEF NextId
  <2>2. nextId' \in {nextId, nextId + 1}
    BY <1>3, <2>1 DEF AsksNext
  <2>3. \A r \in asked' : r \in asked \/ (r.id = nextId /\ nextId' = nextId + 1)
    BY <1>3, <2>1 DEF AsksNext
  <2> QED BY <1>1, <1>2, <2>2, <2>3, IdsStay
<1>4. CASE UNCHANGED <<asked, fetch>>
  BY <1>3, <1>4 DEF AsksNext, fetch
<1>5. CASE s.kind = "files" /\ HandleList(s.arg)
  <2>1. s.arg \in DOMAIN copies /\ copies[s.arg].what = "files"
    BY <1>2, <1>5 DEF SignalOK
  <2> QED BY <1>3, <1>5, <2>1, ListElsewhere DEF Elsewhere
<1>6. CASE s.kind = "contents" /\ HandleContents(s.arg)
  <2>1. s.arg.data \in Responses
    BY <1>2, <1>6 DEF Signals
  <2> QED BY <1>3, <1>6, <2>1, ContentsElsewhere DEF Elsewhere
<1> QED BY <1>4, <1>5, <1>6 DEF HandleSignal

LEMMA IdsStep ==
    ASSUME Owned, IdsBelow, nextId < MaxStreamId, [Next]_vars
    PROVE  IdsBelow'
<1>1. CASE ServerCopies
  <2>1. PICK sig : sig.kind = "paste" /\ (signals' = signals \/ signals' = Append(signals, sig))
    BY <1>1 DEF ServerCopies, Queue, Signal
  <2> QED BY <1>1, <2>1, IdsQueue DEF ServerCopies, fetch
<1>2. CASE ServerSendsData
  <2>1. Head(wanted) # "contents"
    <3>1. wanted \in Seq({"text", "files"}) /\ wanted # <<>>
      BY <1>2 DEF ServerSendsData, Owned, ServerOK
    <3> QED BY <3>1
  <2>2. PICK sig : /\ sig.kind # "contents"
                   /\ signals' = signals \/ signals' = Append(signals, sig)
    <3>1. Signal(Head(wanted), Len(copies)).kind = Head(wanted)
      BY DEF Signal
    <3>2. \/ signals' = signals
          \/ signals' = Append(signals, Signal(Head(wanted), Len(copies)))
      BY <1>2 DEF ServerSendsData, Queue
    <3> QED BY <2>1, <3>1, <3>2
  <2> QED BY <1>2, <2>2, IdsQueue DEF ServerSendsData, fetch
<1>3. CASE ServerAnswers
  <2>1. PICK r \in asked : \E d \in AnswersTo(r) :
            asked' = asked \ {r} /\ Queue(Signal("contents", Answer(r.id, d)))
    BY <1>3 DEF ServerAnswers
  <2>2. PICK sig : /\ sig.arg.id = r.id
                   /\ signals' = signals \/ signals' = Append(signals, sig)
    BY <2>1 DEF Queue, Signal, Answer
  <2> QED BY <1>3, <2>1, <2>2, IdsQueue DEF ServerAnswers, fetch
<1>4. CASE TaskSends
  <2>1. PICK sig : sig.kind = "serve" /\ (signals' = signals \/ signals' = Append(signals, sig))
    BY <1>4 DEF TaskSends, Signal
  <2> QED BY <1>4, <2>1, IdsQueue DEF TaskSends, ServingOnly, server, fetch
<1>5. CASE HandleSignal
  BY <1>5, IdsHandleSignal
<1>6. CASE Disconnect
  <2>1. asked' = {} /\ DOMAIN signals' = {}
    BY <1>6 DEF Disconnect
  <2> QED BY <2>1 DEF IdsBelow
<1>7. CASE UNCHANGED <<asked, signals, nextId>>
  BY <1>7 DEF IdsBelow
<1>8. CASE ServerRequests \/ TaskReads \/ TaskHasRead \/ Reconnect \/ UserCopies \/ TakeOffer
  BY <1>7, <1>8
     DEF ServerRequests, TaskReads, TaskHasRead, ServingOnly, Reconnect, UserCopies, TakeOffer,
         server, fetch
<1>9. CASE Poll(TRUE) \/ Poll(FALSE) \/ Main \/ Close
  BY <1>7, <1>9 DEF Poll, Main, Prepare, ShowText, Acknowledge, OfferFiles, GiveUpOffer, Close,
                    MainOnly, server, fetch
<1>10. CASE UNCHANGED vars
  BY <1>7, <1>10 DEF vars, server, fetch
<1> QED BY <1>1, <1>2, <1>3, <1>4, <1>5, <1>6, <1>8, <1>9, <1>10 DEF Next

(* Ids are fresh for as long as the last of them is not reached on any one *)
(* connection.                                                             *)
LEMMA FreshUntilTheLast ==
    ASSUME ~CopyRaces
    PROVE  Spec /\ [](nextId < MaxStreamId) => []IdIsFresh
<1>1. Init => IdsBelow
  BY DEF Init, IdsBelow
<1>2. Owned /\ IdsBelow /\ nextId < MaxStreamId /\ [Next]_vars => IdsBelow'
  BY IdsStep
<1>3. Owned /\ IdsBelow => IdIsFresh
  BY FetchAssumption DEF Owned, JobOK, IdsBelow, IdIsFresh
<1>4. Owned /\ [Next]_vars => Owned'
  BY OwnedStep
<1> QED BY <1>1, <1>2, <1>3, <1>4, InitOwned, PTL DEF Spec

-----------------------------------------------------------------------------
(* RemoteFiles implements FileOffer. *)

(* What is shown does not change while the pasteboard and the directories  *)
(* that were given to it do not.                                           *)
LEMMA ShownStays ==
    ASSUME Owned, UNCHANGED board, \A d \in published : cache'[d] = cache[d]
    PROVE  Shown' = Shown
<1>1. board.what = "files" /\ board.by = "remote" => cache'[board.n] = cache[board.n]
  BY DEF Owned, BoardOK
<1>2. CASE board.what = "files" /\ board.by = "remote"
  BY <1>1, <1>2 DEF Shown
<1>3. CASE ~(board.what = "files" /\ board.by = "remote")
  BY <1>3 DEF Shown
<1> QED BY <1>2, <1>3

LEMMA OfferStays ==
    ASSUME Owned, UNCHANGED <<copies, board, changes, reserved>>,
           \A d \in published : cache'[d] = cache[d]
    PROVE  UNCHANGED Offer!vars
<1>1. Shown' = Shown
  BY ShownStays
<1> QED BY <1>1 DEF Offer!vars

LEMMA OfferInit == Init => Offer!Init
<1> SUFFICES ASSUME Init PROVE Offer!Init
  OBVIOUS
<1>1. board.by = "user" /\ board.what = "nothing" /\ copies = <<>> /\ reserved # changes
  BY NoneIsNone DEF Init, BoardOf
<1>2. Shown = [kind |-> "user", files |-> <<>>]
  BY <1>1 DEF Shown
<1> QED BY <1>1, <1>2 DEF Offer!Init, Offer!Shows, Offer!NoFiles

(* A copy on the remote is one more. *)
LEMMA AppendIsPrefix ==
    ASSUME NEW S, NEW s \in Seq(S), NEW x \in S
    PROVE  /\ Len(Append(s, x)) = Len(s) + 1
           /\ s = SubSeq(Append(s, x), 1, Len(s))
<1> DEFINE t == Append(s, x)
           b == SubSeq(t, 1, Len(s))
<1>1. /\ t \in Seq(S) /\ Len(t) = Len(s) + 1 /\ \A i \in 1 .. Len(s) : t[i] = s[i]
      /\ Len(s) \in Nat /\ \A i \in 1 .. Len(s) : s[i] \in S
  BY AppendProperties
<1>2. /\ b \in Seq(S) /\ Len(b) = Len(s)
      /\ \A i \in 1 .. Len(s) : b[i] = t[i]
  <2> HIDE DEF t
  <2>1. PICK n \in Nat : n = Len(s)
    BY <1>1
  <2>2. \A i \in 1 .. n : t[i] \in S
    BY <1>1, <2>1
  <2>3. /\ SubSeq(t, 1, n) \in Seq(S) /\ Len(SubSeq(t, 1, n)) = n
        /\ \A i \in 1 .. n : SubSeq(t, 1, n)[i] = t[i]
    BY <2>2, SubSeqProperties
  <2> QED BY <2>1, <2>3
<1>3. b = s
  <2> HIDE DEF b, t
  <2> QED BY <1>1, <1>2, SeqEqual
<1> QED BY <1>1, <1>3

LEMMA OfferServerCopies ==
    ASSUME Owned, ServerCopies
    PROVE  Offer!RemoteCopy
<1>1. PICK x \in Selections : copies' = Append(copies, x)
  BY DEF ServerCopies
<1>2. copies \in Seq(Selections) /\ UNCHANGED <<cache, board, changes, reserved>>
  BY DEF ServerCopies, Owned, ServerOK, disk, window
<1>3. Len(copies') = Len(copies) + 1 /\ copies = SubSeq(copies', 1, Len(copies))
  BY <1>1, <1>2, AppendIsPrefix
<1>4. Shown' = Shown
  BY <1>2, ShownStays
<1> QED BY <1>2, <1>3, <1>4 DEF Offer!RemoteCopy

(* The fetch works where nothing is shown yet. *)
LEMMA OfferHandleSignal ==
    ASSUME Owned, HandleSignal
    PROVE  UNCHANGED Offer!vars
<1> DEFINE s == Head(signals)
<1>1. /\ signals # <<>> /\ signals' = Tail(signals)
      /\ UNCHANGED <<copies, board, changes, reserved>>
  BY DEF HandleSignal, window
<1>2. s \in Signals /\ SignalOK(s)
  BY <1>1, TailIsOfQueue
<1>3. \A d \in published : cache'[d] = cache[d]
  <2>1. CASE UNCHANGED cache
    BY <2>1
  <2>2. CASE s.kind = "files" /\ HandleList(s.arg)
    BY <1>2, <2>2, ListElsewhere DEF Elsewhere, SignalOK
  <2>3. CASE s.kind = "contents" /\ HandleContents(s.arg)
    <3>1. s.arg.data \in Responses
      BY <1>2, <2>3 DEF Signals
    <3> QED BY <2>3, <3>1, ContentsElsewhere DEF Elsewhere
  <2> QED BY <2>1, <2>2, <2>3 DEF HandleSignal
<1> QED BY <1>1, <1>3, OfferStays

LEMMA OfferDisconnect ==
    ASSUME Owned, Disconnect
    PROVE  UNCHANGED Offer!vars
<1>1. UNCHANGED <<copies, board, changes, reserved>> /\ cache' = Kept
  BY DEF Disconnect, window, Kept
<1>2. \A d \in published : cache'[d] = cache[d]
  <2>1. \A d \in published : d \in DOMAIN Kept /\ Kept[d] = cache[d]
    BY KeptIs DEF Owned
  <2> QED BY <1>1, <2>1
<1> QED BY <1>1, <1>2, OfferStays

(* Nothing is reserved once the pasteboard was written. *)
LEMMA WrittenAgain ==
    ASSUME Owned, changes' = changes + 1, reserved' \in {reserved, None}
    PROVE  reserved' # changes'
BY NoneIsNone DEF Owned, BoardOK

LEMMA OfferUserCopies ==
    ASSUME Owned, UserCopies
    PROVE  Offer!UserCopy
<1>1. PICK what : board' = BoardOf("user", what, left.user)
  BY DEF UserCopies
<1>2. changes' = changes + 1 /\ UNCHANGED <<copies, reserved>>
  BY DEF UserCopies, server
<1>3. board'.by = "user"
  BY <1>1 DEF BoardOf
<1>4. Shown' = [kind |-> "user", files |-> <<>>]
  BY <1>3 DEF Shown
<1>5. reserved' # changes'
  BY <1>2, WrittenAgain
<1> QED BY <1>2, <1>4, <1>5 DEF Offer!UserCopy, Offer!Shows, Offer!NoFiles

LEMMA OfferPrepare ==
    ASSUME Owned, Prepare
    PROVE  Offer!Clear
<1>1. board' = Empty /\ changes' = changes + 1 /\ UNCHANGED <<copies, reserved>>
  BY DEF Prepare, Overwrite, MainOnly, server
<1>2. Shown' = [kind |-> "nothing", files |-> <<>>]
  BY <1>1 DEF Shown, Empty, BoardOf
<1>3. reserved' # changes'
  BY <1>1, WrittenAgain
<1> QED BY <1>1, <1>2, <1>3 DEF Offer!Clear, Offer!Shows, Offer!NoFiles

LEMMA OfferShowText ==
    ASSUME Owned, ShowText
    PROVE  Offer!RemoteText
<1>1. /\ board' = BoardOf("remote", "text", 0) /\ changes' = changes + 1
      /\ reserved' = None /\ UNCHANGED copies
  BY DEF ShowText, Overwrite, MainOnly, server
<1>2. Shown' = [kind |-> "text", files |-> <<>>]
  BY <1>1 DEF Shown, BoardOf
<1>3. reserved' # changes'
  BY <1>1, WrittenAgain
<1> QED BY <1>1, <1>2, <1>3 DEF Offer!RemoteText, Offer!Shows, Offer!NoFiles

LEMMA OfferAcknowledge ==
    ASSUME Owned, Acknowledge
    PROVE  Offer!Reserve \/ UNCHANGED Offer!vars
<1>1. /\ UNCHANGED <<copies, cache, board, changes>>
      /\ handling = "reserve" => reserved' = changes
      /\ handling # "reserve" => reserved' = reserved
  BY DEF Acknowledge, MainOnly, server, disk
<1>2. CASE handling = "reserve"
  <2>1. board = Empty
    BY <1>2 DEF Owned, BoardOK
  <2>2. Shown.kind = "nothing"
    BY <2>1 DEF Shown, Empty, BoardOf
  <2>3. Shown' = Shown
    BY <1>1, ShownStays
  <2> QED BY <1>1, <1>2, <2>2, <2>3 DEF Offer!Reserve
<1>3. CASE handling # "reserve"
  BY <1>1, <1>3, OfferStays
<1> QED BY <1>2, <1>3

LEMMA OfferAbandons ==
    ASSUME Owned, UNCHANGED <<copies, board, changes>>, reserved' = None,
           \A d \in published : cache'[d] = cache[d]
    PROVE  Offer!Abandon
<1>1. Shown' = Shown
  BY ShownStays
<1>2. reserved' # changes'
  BY NoneIsNone DEF Owned, BoardOK
<1> QED BY <1>1, <1>2 DEF Offer!Abandon

(* Files that wait to be published are whole, and are published only into  *)
(* the place that was reserved for them.                                   *)
LEMMA OfferOfferFiles ==
    ASSUME Owned, Filled, OfferFiles
    PROVE  Offer!Next
<1>1. /\ CacheOK /\ ServerOK /\ NextEvent("ready") /\ reserved' = None /\ UNCHANGED copies
  BY OfferFilesStep DEF Owned, MainOnly, server
<1>2. PICK dir : dir = Head(events).dir
  OBVIOUS
<1>3. dir \in Ready(events) /\ dir \in Nat
  BY <1>1, <1>2, EventTaken DEF Events
<1>4. OfferOutcome(dir)
  BY <1>2, OfferFilesStep
<1>5. CASE /\ reserved = changes /\ board' = BoardOf("remote", "files", dir)
           /\ changes' = changes + 1 /\ cache' = cache
  <2>1. IsWhole(cache[dir])
    BY <1>3 DEF Filled
  <2>2. PICK c \in DOMAIN copies : copies[c].what = "files" /\ cache[dir] = WholeOf(c)
    BY <2>1 DEF IsWhole
  <2>3. Shown' = [kind |-> "files", files |-> cache[dir]]
    BY <1>5 DEF Shown, BoardOf
  <2>4. cache[dir] = Offer!Whole(c, copies[c].entries)
    BY <2>2 DEF WholeOf, ListOf, Whole, Offer!Whole, Planned, Offer!Planned, Roots, Offer!Roots,
                Bytes, Offer!Bytes
  <2>5. reserved' # changes'
    BY <1>1, <1>5, WrittenAgain
  <2> QED BY <1>1, <1>5, <2>2, <2>3, <2>4, <2>5 DEF Offer!Next, Offer!Publish, Offer!Shows
<1>6. CASE board' = Empty /\ changes' = changes + 1
  <2>1. Shown' = [kind |-> "nothing", files |-> <<>>]
    BY <1>6 DEF Shown, Empty, BoardOf
  <2>2. reserved' # changes'
    BY <1>1, <1>6, WrittenAgain
  <2> QED BY <1>1, <2>1, <2>2 DEF Offer!Next, Offer!Clear, Offer!Shows, Offer!NoFiles
<1>7. CASE cache' = Without(cache, dir) /\ UNCHANGED <<board, changes>>
  <2>1. published \subseteq DOMAIN cache \ {dir}
    BY <1>1, <1>3 DEF CacheOK
  <2>2. \A d \in published : cache'[d] = cache[d]
    BY <1>7, <2>1, WithoutIs
  <2> QED BY <1>1, <1>7, <2>2, OfferAbandons DEF Offer!Next
<1> QED BY <1>4, <1>5, <1>6, <1>7 DEF OfferOutcome

LEMMA OfferStep ==
    ASSUME Owned, Filled, [Next]_vars
    PROVE  [Offer!Next]_Offer!vars
<1>1. CASE ServerCopies
  BY <1>1, OfferServerCopies DEF Offer!Next
<1>2. CASE HandleSignal \/ Disconnect
  BY <1>2, OfferHandleSignal, OfferDisconnect
<1>3. CASE UserCopies
  BY <1>3, OfferUserCopies DEF Offer!Next
<1>4. CASE Prepare
  BY <1>4, OfferPrepare DEF Offer!Next
<1>5. CASE ShowText
  BY <1>5, OfferShowText DEF Offer!Next
<1>6. CASE Acknowledge
  BY <1>6, OfferAcknowledge DEF Offer!Next
<1>7. CASE OfferFiles
  BY <1>7, OfferOfferFiles
<1>8. CASE GiveUpOffer
  BY <1>8, OfferAbandons DEF Offer!Next, GiveUpOffer, MainOnly, server, disk
<1>9. CASE UNCHANGED <<copies, cache, board, changes, reserved>>
  BY <1>9, OfferStays
<1>10. CASE ServerSendsData \/ ServerAnswers \/ ServerRequests \/ Reconnect \/ TakeOffer
  BY <1>9, <1>10
     DEF ServerSendsData, ServerAnswers, ServerRequests, Reconnect, TakeOffer, server, disk, window
<1>11. CASE TaskReads \/ TaskHasRead \/ TaskSends
  BY <1>9, <1>11 DEF TaskReads, TaskHasRead, TaskSends, ServingOnly, server, disk, window
<1>12. CASE Poll(TRUE) \/ Poll(FALSE) \/ Close
  BY <1>9, <1>12 DEF Poll, Close, MainOnly, server, disk
<1>13. CASE UNCHANGED vars
  BY <1>9, <1>13 DEF vars, server, disk, window
<1> QED BY <1>1, <1>2, <1>3, <1>4, <1>5, <1>6, <1>7, <1>8, <1>10, <1>11, <1>12, <1>13
        DEF Next, Main

(* The files of a remote copy appear on the pasteboard all at once, each   *)
(* complete and from that one copy, and never over a copy the user made    *)
(* meanwhile: whatever is received in which pieces, dropped, answered late *)
(* or interrupted.  A stream id does not come round while its last use is  *)
(* unanswered (FreshUntilTheLast: not before 2^32 - 1 requests were sent   *)
(* on one connection), and the user does not copy between a write of the   *)
(* window and the change count it then reads.                              *)
THEOREM FilesAreOfferedWhole ==
    ASSUME ~CopyRaces
    PROVE  Spec /\ []IdIsFresh => ImplementsOffer
<1>1. Owned /\ [Next]_vars => Owned'
  BY OwnedStep
<1>2. Owned /\ Filled /\ IdIsFresh /\ [Next]_vars => Filled'
  BY FilledStep
<1>3. Owned /\ Filled /\ [Next]_vars => [Offer!Next]_Offer!vars
  BY OfferStep
<1> QED BY <1>1, <1>2, <1>3, InitOwned, InitFilled, OfferInit, PTL
        DEF Spec, ImplementsOffer, Offer!Spec

(* The same with nothing but the number of requests for a hypothesis.      *)
COROLLARY FilesAreOfferedWholeAtFirst ==
    ASSUME ~CopyRaces
    PROVE  Spec /\ [](nextId < MaxStreamId) => ImplementsOffer
BY FreshUntilTheLast, FilesAreOfferedWhole, PTL

-----------------------------------------------------------------------------
(* The requests of the server: the part of RequestsAreServed that is about *)
(* single states.  As long as its connection lasts a request that is not   *)
(* answered has a task or an answer in the queue, so that the answer can   *)
(* only be late.                                                           *)
Serve(s, id) == s.kind = "serve" /\ s.arg.id = id
Serves(q, id) == \E n \in DOMAIN q : Serve(q[n], id)
ServesOnce(q) == \A n, k \in DOMAIN q : \A id : Serve(q[n], id) /\ Serve(q[k], id) => n = k

RequestIsTracked ==
    \A id \in DOMAIN asOf : \/ id \in DOMAIN served \/ Outlived(id)
                            \/ \E t \in serving : t.id = id
                            \/ Serves(signals, id)
AnswersStand ==
    [][\A id \in DOMAIN served : id \in DOMAIN served' /\ served'[id] = served[id]]_vars

(* A connection does not come back, and a request is in one place only. *)
Lasting ==
    \A id \in DOMAIN asOf :
        asOf[id].on >= left.losses /\ (~online /\ ~closed => asOf[id].on > left.losses)
AnsweredOnce ==
    /\ \A t \in serving : t.on = asOf[t.id].on
    /\ \A t, u \in serving : t.id = u.id => t = u
    /\ \A t \in serving : t.id \notin DOMAIN served /\ ~Serves(signals, t.id)
    /\ \A id \in DOMAIN served : ~Serves(signals, id)
    /\ ServesOnce(signals)
ServedInv == Lasting /\ RequestIsTracked /\ AnsweredOnce

LEMMA ServesAppended ==
    ASSUME SignalsOK, NEW sig \in Signals, signals' = Append(signals, sig)
    PROVE  /\ \A id : Serves(signals', id) <=> Serves(signals, id) \/ Serve(sig, id)
           /\ ServesOnce(signals) /\ (\A id : Serve(sig, id) => ~Serves(signals, id))
                  => ServesOnce(signals')
<1>1. signals \in Seq(Signals)
  BY DEF SignalsOK
<1>2. /\ Len(signals) \in Nat /\ DOMAIN signals = 1 .. Len(signals)
      /\ DOMAIN signals' = 1 .. Len(signals) + 1
      /\ \A n \in DOMAIN signals : signals'[n] = signals[n]
      /\ signals'[Len(signals) + 1] = sig
  BY <1>1
<1>3. /\ \A n \in DOMAIN signals' : n \in DOMAIN signals \/ n = Len(signals) + 1
      /\ \A n \in DOMAIN signals : n \in DOMAIN signals'
      /\ Len(signals) + 1 \in DOMAIN signals'
  BY <1>2
<1>4. \A id : Serves(signals', id) <=> Serves(signals, id) \/ Serve(sig, id)
  BY <1>2, <1>3, Zenon DEF Serves
<1>5. ASSUME ServesOnce(signals), \A id : Serve(sig, id) => ~Serves(signals, id)
      PROVE  ServesOnce(signals')
  <2> SUFFICES ASSUME NEW n \in DOMAIN signals', NEW k \in DOMAIN signals', NEW id,
                      Serve(signals'[n], id), Serve(signals'[k], id)
               PROVE  n = k
    BY DEF ServesOnce
  <2>1. ASSUME n \in DOMAIN signals, k = Len(signals) + 1
        PROVE  FALSE
    BY <1>2, <1>5, <2>1 DEF Serves
  <2>2. ASSUME k \in DOMAIN signals, n = Len(signals) + 1
        PROVE  FALSE
    BY <1>2, <1>5, <2>2 DEF Serves
  <2>3. ASSUME n \in DOMAIN signals, k \in DOMAIN signals
        PROVE  n = k
    BY <1>2, <1>5, <2>3 DEF ServesOnce
  <2> QED BY <1>3, <2>1, <2>2, <2>3
<1> QED BY <1>4, <1>5

LEMMA ServesTaken ==
    ASSUME SignalsOK, signals # <<>>, signals' = Tail(signals)
    PROVE  /\ \A id : Serves(signals, id) <=> Serves(signals', id) \/ Serve(Head(signals), id)
           /\ ServesOnce(signals) => /\ ServesOnce(signals')
                                     /\ \A id : Serve(Head(signals), id) => ~Serves(signals', id)
<1>1. signals \in Seq(Signals)
  BY DEF SignalsOK
<1>2. /\ Len(signals) \in Nat \ {0} /\ DOMAIN signals = 1 .. Len(signals)
      /\ DOMAIN signals' = 1 .. Len(signals) - 1
      /\ \A n \in DOMAIN signals' : signals'[n] = signals[n + 1]
      /\ Head(signals) = signals[1]
  BY <1>1
<1>3. /\ \A n \in DOMAIN signals : n = 1 \/ (n - 1 \in DOMAIN signals' /\ signals'[n - 1] = signals[n])
      /\ \A n \in DOMAIN signals' : n + 1 \in DOMAIN signals /\ n + 1 # 1
      /\ \A n, k \in DOMAIN signals' : n + 1 = k + 1 => n = k
      /\ 1 \in DOMAIN signals
  BY <1>2
<1>4. ASSUME NEW id
      PROVE  Serves(signals, id) <=> Serves(signals', id) \/ Serve(Head(signals), id)
  BY <1>2, <1>3 DEF Serves
<1>5. ASSUME ServesOnce(signals)
      PROVE  ServesOnce(signals')
  <2> SUFFICES ASSUME NEW n \in DOMAIN signals', NEW k \in DOMAIN signals', NEW id,
                      Serve(signals'[n], id), Serve(signals'[k], id)
               PROVE  n = k
    BY DEF ServesOnce
  <2>1. Serve(signals[n + 1], id) /\ Serve(signals[k + 1], id)
    BY <1>2
  <2>2. n + 1 = k + 1
    BY <1>3, <1>5, <2>1 DEF ServesOnce
  <2> QED BY <1>3, <2>2
<1>6. ASSUME ServesOnce(signals), NEW id, Serve(Head(signals), id), Serves(signals', id)
      PROVE  FALSE
  <2>1. PICK n \in DOMAIN signals' : Serve(signals'[n], id)
    BY <1>6 DEF Serves
  <2>2. Serve(signals[n + 1], id) /\ Serve(signals[1], id)
    BY <1>2, <1>6, <2>1
  <2> QED BY <1>3, <1>6, <2>2 DEF ServesOnce
<1> QED BY <1>4, <1>5, <1>6

(* Steps the requests of the server have no part in. *)
LEMMA ServedStays ==
    ASSUME Owned, ServedInv, UNCHANGED <<online, serving, served, asOf>>,
           left'.losses = left.losses, closed => closed',
           \A id : Serves(signals', id) <=> Serves(signals, id),
           ServesOnce(signals) => ServesOnce(signals')
    PROVE  ServedInv'
<1>1. Lasting'
  BY DEF ServedInv, Lasting, Owned, ServerOK
<1>2. RequestIsTracked'
  BY DEF ServedInv, RequestIsTracked, Outlived
<1>3. AnsweredOnce'
  BY DEF ServedInv, AnsweredOnce
<1> QED BY <1>1, <1>2, <1>3 DEF ServedInv

(* So are those that queue another signal. *)
LEMMA ServedQueue ==
    ASSUME Owned, ServedInv, UNCHANGED <<online, closed, serving, served, asOf>>,
           left'.losses = left.losses, NEW sig \in Signals, sig.kind # "serve", Queue(sig)
    PROVE  ServedInv'
<1>1. signals' = signals \/ signals' = Append(signals, sig)
  BY DEF Queue
<1>2. SignalsOK /\ \A id : ~Serve(sig, id)
  BY DEF Owned, Serve
<1>3. /\ \A id : Serves(signals', id) <=> Serves(signals, id)
      /\ ServesOnce(signals) => ServesOnce(signals')
  <2>1. CASE signals' = signals
    BY <2>1
  <2>2. CASE signals' = Append(signals, sig)
    BY <1>2, <2>2, ServesAppended, Zenon
  <2> QED BY <1>1, <2>1, <2>2
<1> QED BY <1>3, ServedStays

LEMMA ServedServerCopies ==
    ASSUME Owned, ServedInv, ServerCopies PROVE ServedInv'
<1>1. PICK s \in Selections : Queue(Signal("paste", s.what))
  BY DEF ServerCopies
<1>2. /\ left' = [left EXCEPT !.copies = @ - 1]
      /\ UNCHANGED <<online, closed, serving, served, asOf>>
  BY DEF ServerCopies, Spend, local, window
<1>3. left'.losses = left.losses
  BY <1>2 DEF Owned, ServerOK
<1>4. Signal("paste", s.what) \in Signals /\ Signal("paste", s.what).kind # "serve"
  <2>1. s.what \in {"text", "files"}
    BY FetchAssumption, ListIsOne DEF AllSelections
  <2> QED BY <2>1 DEF Signal, Signals
<1> QED BY <1>1, <1>2, <1>3, <1>4, ServedQueue

LEMMA ServedServerSendsData ==
    ASSUME Owned, ServedInv, ServerSendsData PROVE ServedInv'
<1>1. /\ Queue(Signal(Head(wanted), Len(copies))) \/ UNCHANGED <<signals, dropped>>
      /\ UNCHANGED <<left, online, closed, serving, served, asOf>> /\ wanted # <<>>
  BY DEF ServerSendsData, local, window
<1>2. Head(wanted) \in {"text", "files"} /\ Len(copies) \in Nat
  BY <1>1 DEF Owned, ServerOK
<1> DEFINE sig == Signal(Head(wanted), Len(copies))
<1>3. sig \in Signals /\ sig.kind # "serve"
  BY <1>2 DEF Signal, Signals
<1> HIDE DEF sig
<1>4. CASE Queue(sig)
  BY <1>1, <1>3, <1>4, ServedQueue
<1>5. CASE UNCHANGED signals
  BY <1>1, <1>5, ServedStays
<1> QED BY <1>1, <1>4, <1>5 DEF sig

LEMMA ServedServerAnswers ==
    ASSUME Owned, ServedInv, ServerAnswers PROVE ServedInv'
<1>1. PICK r \in asked : \E d \in AnswersTo(r) : Queue(Signal("contents", Answer(r.id, d)))
  BY DEF ServerAnswers
<1>2. PICK d \in AnswersTo(r) : Queue(Signal("contents", Answer(r.id, d)))
  BY <1>1
<1>3. UNCHANGED <<left, online, closed, serving, served, asOf>>
  BY DEF ServerAnswers, local, window
<1> DEFINE sig == Signal("contents", Answer(r.id, d))
<1>4. sig \in Signals /\ sig.kind # "serve"
  <2>1. r.id \in 1 .. MaxStreamId /\ d \in Responses
    BY AnswersAre DEF Owned, ServerOK, AskedOK, Requests
  <2> QED BY <2>1 DEF Signal, Answer, Signals
<1> HIDE DEF sig
<1> QED BY <1>2, <1>3, <1>4, ServedQueue DEF sig

(* A new request has a number of its own and a task. *)
LEMMA ServedServerRequests ==
    ASSUME Owned, ServedInv, ServerRequests PROVE ServedInv'
<1>1. /\ online /\ left' = [left EXCEPT !.served = @ - 1] /\ OnOffer \in Nat
      /\ UNCHANGED <<online, closed, signals, served>>
      /\ asOf \in Seq([file : Nat, on : Nat]) /\ left.losses \in Nat /\ SignalsOK
  BY DEF Owned, ServerRequests, Spend, window, OnOffer, BoardOK, Boards, ServerOK, ServingOK
<1>2. left'.losses = left.losses
  BY <1>1 DEF Owned, ServerOK
<1> DEFINE r == [file |-> OnOffer, on |-> left.losses]
           new == Len(asOf) + 1
           t == [id |-> Len(asOf) + 1, file |-> OnOffer, at |-> "waiting", on |-> left.losses]
<1>3. asOf' = Append(asOf, r) /\ serving' = serving \cup {t}
  BY DEF ServerRequests
<1>4. r \in [file : Nat, on : Nat] /\ r.on = left.losses /\ t.id = new /\ t.on = left.losses
  BY <1>1
<1> HIDE DEF r, t
<1>5. /\ \A id \in DOMAIN asOf : id # new /\ id \in DOMAIN asOf' /\ asOf'[id] = asOf[id]
      /\ new \in DOMAIN asOf' /\ asOf'[new] = r /\ new \notin DOMAIN asOf
      /\ \A id \in DOMAIN asOf' : id \in DOMAIN asOf \/ id = new
  BY <1>1, <1>3, <1>4
<1> HIDE DEF new
<1>6. /\ new \notin DOMAIN served /\ ~Serves(signals, new)
      /\ \A x \in serving : x.id \in DOMAIN asOf
  <2>1. \A id \in DOMAIN served : id \in DOMAIN asOf
    BY DEF Owned, ServingOK
  <2>2. \A n \in DOMAIN signals : signals[n].kind = "serve" => signals[n].arg.id \in DOMAIN asOf
    BY <1>1 DEF SignalsOK, SignalOK
  <2>3. \A x \in serving : x.id \in DOMAIN asOf
    BY DEF Owned, ServingOK
  <2> QED BY <1>5, <2>1, <2>2, <2>3 DEF Serves, Serve
<1>7. Lasting'
  BY <1>1, <1>2, <1>4, <1>5 DEF ServedInv, Lasting
<1>8. RequestIsTracked'
  <2> SUFFICES ASSUME NEW id \in DOMAIN asOf'
               PROVE  \/ id \in DOMAIN served' \/ Outlived(id)'
                      \/ \E x \in serving' : x.id = id
                      \/ Serves(signals', id)
    BY DEF RequestIsTracked
  <2>1. CASE id = new
    BY <1>3, <1>4, <2>1
  <2>2. CASE id \in DOMAIN asOf
    BY <1>1, <1>2, <1>3, <1>5, <2>2 DEF ServedInv, RequestIsTracked, Outlived
  <2> QED BY <1>5, <2>1, <2>2
<1>9. AnsweredOnce'
  <2>1. \A x \in serving' : x.on = asOf'[x.id].on
    BY <1>3, <1>4, <1>5, <1>6 DEF ServedInv, AnsweredOnce
  <2>2. \A x, y \in serving' : x.id = y.id => x = y
    BY <1>3, <1>4, <1>5, <1>6 DEF ServedInv, AnsweredOnce
  <2>3. \A x \in serving' : x.id \notin DOMAIN served /\ ~Serves(signals, x.id)
    BY <1>3, <1>4, <1>6 DEF ServedInv, AnsweredOnce
  <2> QED BY <1>1, <2>1, <2>2, <2>3 DEF ServedInv, AnsweredOnce
<1> QED BY <1>7, <1>8, <1>9 DEF ServedInv

(* A task that goes on stays the task of its request. *)
LEMMA ServedTaskMoves ==
    ASSUME Owned, ServedInv, ServingOnly, signals' = signals, NEW t \in serving, NEW new,
           new.id = t.id, new.on = t.on, serving' = (serving \ {t}) \cup {new}
    PROVE  ServedInv'
<1>1. UNCHANGED <<left, online, closed, served, asOf, signals>>
  BY DEF ServingOnly, window
<1>2. Lasting'
  BY <1>1 DEF ServedInv, Lasting
<1>3. \A id : (\E x \in serving : x.id = id) => \E x \in serving' : x.id = id
  OBVIOUS
<1>4. RequestIsTracked'
  BY <1>1, <1>3 DEF ServedInv, RequestIsTracked, Outlived
<1>5. AnsweredOnce'
  BY <1>1 DEF ServedInv, AnsweredOnce
<1> QED BY <1>2, <1>4, <1>5 DEF ServedInv

LEMMA ServedTaskReads ==
    ASSUME Owned, ServedInv, TaskReads PROVE ServedInv'
<1>1. PICK t \in serving : serving' = (serving \ {t}) \cup {[t EXCEPT !.at = "reading"]}
  BY DEF TaskReads, MoveTask
<1>2. t \in Tasks
  BY DEF Owned, ServingOK
<1>3. [t EXCEPT !.at = "reading"].id = t.id /\ [t EXCEPT !.at = "reading"].on = t.on
  BY <1>2 DEF Tasks
<1> QED BY <1>1, <1>3, ServedTaskMoves DEF TaskReads

LEMMA ServedTaskHasRead ==
    ASSUME Owned, ServedInv, TaskHasRead PROVE ServedInv'
<1>1. PICK t \in serving : \E file \in {t.file, 0} :
          serving' = (serving \ {t}) \cup {[t EXCEPT !.at = "done", !.file = file]}
  BY DEF TaskHasRead
<1>2. PICK file \in {t.file, 0} :
          serving' = (serving \ {t}) \cup {[t EXCEPT !.at = "done", !.file = file]}
  BY <1>1
<1> DEFINE c == [t EXCEPT !.at = "done"]
           new == [c EXCEPT !.file = file]
<1>3. t \in Tasks
  BY DEF Owned, ServingOK
<1>4. c \in Tasks /\ c.id = t.id /\ c.on = t.on
  BY <1>3 DEF Tasks
<1>5. new.id = t.id /\ new.on = t.on
  <2> HIDE DEF c
  <2> QED BY <1>4 DEF Tasks
<1> HIDE DEF new
<1>6. serving' = (serving \ {t}) \cup {new}
  BY <1>2 DEF new
<1> QED BY <1>5, <1>6, ServedTaskMoves DEF TaskHasRead

(* A task that ends leaves an answer, unless its connection is gone. *)
LEMMA ServedTaskSends ==
    ASSUME Owned, ServedInv, TaskSends PROVE ServedInv'
<1>1. PICK t \in serving :
          /\ serving' = serving \ {t}
          /\ IF online /\ t.on = left.losses
             THEN signals' = Append(signals, Signal("serve", [id |-> t.id, file |-> t.file]))
             ELSE UNCHANGED signals
  BY DEF TaskSends
<1>2. UNCHANGED <<left, online, closed, served, asOf>> /\ SignalsOK
  BY DEF TaskSends, ServingOnly, window, Owned
<1>3. Lasting'
  BY <1>2 DEF ServedInv, Lasting
<1>4. /\ \A x \in serving' : x.on = asOf[x.id].on
      /\ \A x, y \in serving' : x.id = y.id => x = y
      /\ \A x \in serving' : x.id # t.id /\ x.id \notin DOMAIN served /\ ~Serves(signals, x.id)
      /\ t.id \notin DOMAIN served /\ ~Serves(signals, t.id) /\ t.on = asOf[t.id].on
  BY <1>1 DEF ServedInv, AnsweredOnce
<1>5. \A id : (\E x \in serving : x.id = id) => id = t.id \/ \E x \in serving' : x.id = id
  BY <1>1
<1>6. CASE online /\ t.on = left.losses
  <2> DEFINE sig == Signal("serve", [id |-> t.id, file |-> t.file])
  <2>1. signals' = Append(signals, sig)
    BY <1>1, <1>6
  <2>2. sig \in Signals /\ sig.kind = "serve" /\ sig.arg.id = t.id
    <3>1. t \in Tasks
      BY DEF Owned, ServingOK
    <3> QED BY <3>1 DEF Signal, Signals, Tasks
  <2> HIDE DEF sig
  <2>3. \A id : Serve(sig, id) <=> id = t.id
    BY <2>2 DEF Serve
  <2>4. /\ \A id : Serves(signals', id) <=> Serves(signals, id) \/ id = t.id
        /\ ServesOnce(signals) => ServesOnce(signals')
    BY <1>2, <1>4, <2>1, <2>2, <2>3, ServesAppended, Zenon
  <2>5. RequestIsTracked'
    BY <1>2, <1>5, <2>4 DEF ServedInv, RequestIsTracked, Outlived
  <2>6. AnsweredOnce'
    BY <1>2, <1>4, <2>4 DEF ServedInv, AnsweredOnce
  <2> QED BY <1>3, <2>5, <2>6 DEF ServedInv
<1>7. CASE ~(online /\ t.on = left.losses)
  <2>1. signals' = signals
    BY <1>1, <1>7
  <2>2. RequestIsTracked'
    BY <1>2, <1>4, <1>5, <1>7, <2>1 DEF ServedInv, RequestIsTracked, Outlived
  <2>3. AnsweredOnce'
    BY <1>2, <1>4, <2>1 DEF ServedInv, AnsweredOnce
  <2> QED BY <1>3, <2>2, <2>3 DEF ServedInv
<1> QED BY <1>6, <1>7

(* An answer that is given stands; the next one is to another request. *)
LEMMA ServedHandleSignal ==
    ASSUME Owned, ServedInv, HandleSignal
    PROVE  /\ ServedInv'
           /\ \A id \in DOMAIN served : id \in DOMAIN served' /\ served'[id] = served[id]
<1> DEFINE s == Head(signals)
<1>1. /\ signals # <<>> /\ signals' = Tail(signals) /\ SignalsOK
      /\ UNCHANGED <<left, online, closed, serving, asOf>>
      /\ \/ s.kind # "serve" /\ served' = served
         \/ /\ s.kind = "serve"
            /\ served' = [i \in DOMAIN served \cup {s.arg.id} |->
                              IF i = s.arg.id THEN s.arg.file ELSE served[i]]
  BY DEF HandleSignal, window, Owned
<1>2. /\ \A id : Serves(signals, id) <=> Serves(signals', id) \/ Serve(s, id)
      /\ ServesOnce(signals) => /\ ServesOnce(signals')
                                /\ \A id : Serve(s, id) => ~Serves(signals', id)
  BY <1>1, ServesTaken
<1>3. CASE s.kind # "serve" /\ served' = served
  <2>1. \A id : Serves(signals', id) <=> Serves(signals, id)
    BY <1>2, <1>3 DEF Serve
  <2>2. ServedInv'
    BY <1>1, <1>2, <1>3, <2>1, ServedStays
  <2> QED BY <1>3, <2>2
<1>4. CASE /\ s.kind = "serve"
           /\ served' = [i \in DOMAIN served \cup {s.arg.id} |->
                             IF i = s.arg.id THEN s.arg.file ELSE served[i]]
  <2> DEFINE new == s.arg.id
  <2>1. /\ DOMAIN served' = DOMAIN served \cup {new}
        /\ \A id \in DOMAIN served : id # new => served'[id] = served[id]
    BY <1>4
  <2>2. \A id : Serve(s, id) <=> id = new
    BY <1>4 DEF Serve
  <2> HIDE DEF s, new
  <2>3. /\ Serves(signals, new) /\ ~Serves(signals', new) /\ ServesOnce(signals')
        /\ \A id : id # new => (Serves(signals', id) <=> Serves(signals, id))
    BY <1>2, <2>2 DEF ServedInv, AnsweredOnce
  <2>4. new \notin DOMAIN served /\ \A t \in serving : t.id # new
    BY <2>3 DEF ServedInv, AnsweredOnce
  <2>5. Lasting'
    BY <1>1 DEF ServedInv, Lasting
  <2>6. RequestIsTracked'
    BY <1>1, <2>1, <2>3 DEF ServedInv, RequestIsTracked, Outlived
  <2>7. AnsweredOnce'
    BY <1>1, <2>1, <2>3, <2>4 DEF ServedInv, AnsweredOnce
  <2> QED BY <2>1, <2>4, <2>5, <2>6, <2>7 DEF ServedInv
<1> QED BY <1>1, <1>3, <1>4

LEMMA LastIsNumber ==
    ASSUME ServingOK PROVE \A id \in DOMAIN asOf : asOf[id].on \in Nat
<1>1. asOf \in Seq([file : Nat, on : Nat])
  BY DEF ServingOK
<1>2. \A S : \A q \in Seq(S) : \A id \in DOMAIN q : q[id] \in S
  OBVIOUS
<1>3. \A id \in DOMAIN asOf : asOf[id] \in [file : Nat, on : Nat]
  BY <1>1, <1>2, Zenon
<1> QED BY <1>3

(* What is under way when a connection ends does not count for the next. *)
LEMMA ServedDisconnect ==
    ASSUME Owned, ServedInv, Disconnect PROVE ServedInv'
<1>1. /\ ~online' /\ signals' = <<>> /\ UNCHANGED <<closed, serving, served, asOf>>
      /\ IF closed THEN UNCHANGED left ELSE Spend("losses")
  BY DEF Disconnect, local, window
<1>2. \A id : ~Serves(signals', id)
  BY <1>1 DEF Serves
<1>3. left'.losses <= left.losses /\ (~closed => left'.losses < left.losses)
      /\ left.losses \in Nat /\ left'.losses \in Nat
  <2>1. left \in [copies : Nat, user : Nat, served : Nat, losses : Nat]
    BY DEF Owned, ServerOK
  <2>2. CASE closed
    BY <1>1, <2>1, <2>2
  <2>3. CASE ~closed
    <3>1. left.losses > 0 /\ left' = [left EXCEPT !.losses = @ - 1]
      BY <1>1, <2>3 DEF Spend
    <3> QED BY <2>1, <3>1
  <2> QED BY <2>2, <2>3
<1>4. Lasting'
  <2>1. \A id \in DOMAIN asOf : asOf[id].on \in Nat
    BY LastIsNumber DEF Owned
  <2> QED BY <1>1, <1>3, <2>1 DEF ServedInv, Lasting
<1>5. RequestIsTracked'
  BY <1>1 DEF RequestIsTracked, Outlived
<1>6. AnsweredOnce'
  BY <1>1, <1>2 DEF ServedInv, AnsweredOnce, ServesOnce
<1> QED BY <1>4, <1>5, <1>6 DEF ServedInv

LEMMA ServedReconnect ==
    ASSUME Owned, ServedInv, Reconnect PROVE ServedInv'
<1>1. /\ ~online /\ ~closed /\ online'
      /\ UNCHANGED <<left, signals, closed, serving, served, asOf>>
  BY DEF Reconnect, local, window
<1>2. \A id \in DOMAIN asOf : asOf[id].on > left.losses
  BY <1>1 DEF ServedInv, Lasting
<1>3. left.losses \in Nat /\ \A id \in DOMAIN asOf : asOf[id].on \in Nat
  BY LastIsNumber DEF Owned, ServerOK
<1>4. Lasting' /\ RequestIsTracked'
  BY <1>1, <1>2, <1>3 DEF Lasting, RequestIsTracked, Outlived
<1>5. AnsweredOnce'
  BY <1>1 DEF ServedInv, AnsweredOnce
<1> QED BY <1>4, <1>5 DEF ServedInv

LEMMA ServedStep ==
    ASSUME Owned, ServedInv, [Next]_vars
    PROVE  /\ ServedInv'
           /\ \A id \in DOMAIN served : id \in DOMAIN served' /\ served'[id] = served[id]
<1>1. ASSUME UNCHANGED <<online, signals, serving, served, asOf>>, left'.losses = left.losses,
             closed => closed'
      PROVE  ServedInv'
  BY <1>1, ServedStays
<1>2. CASE UNCHANGED vars
  BY <1>1, <1>2 DEF vars, local, window
<1>3. CASE UserCopies
  <2>1. /\ UNCHANGED <<online, signals, closed, serving, served, asOf>>
        /\ left' = [left EXCEPT !.user = @ - 1]
    BY <1>3 DEF UserCopies, Spend, local
  <2>2. left'.losses = left.losses
    BY <2>1 DEF Owned, ServerOK
  <2> QED BY <1>1, <2>1, <2>2
<1>4. CASE Poll(TRUE) \/ Poll(FALSE) \/ Main \/ Close
  <2>1. MainOnly /\ (closed => closed')
    BY <1>4 DEF Poll, Main, Prepare, ShowText, Acknowledge, OfferFiles, GiveUpOffer, Close
  <2> QED BY <1>1, <2>1 DEF MainOnly
<1>5. CASE ServerCopies \/ ServerSendsData \/ ServerAnswers \/ ServerRequests \/ Disconnect
           \/ Reconnect
  <2>1. served' = served
    BY <1>5 DEF ServerCopies, ServerSendsData, ServerAnswers, ServerRequests, Disconnect,
                Reconnect, local
  <2> QED BY <1>5, <2>1, ServedServerCopies, ServedServerSendsData, ServedServerAnswers,
             ServedServerRequests, ServedDisconnect, ServedReconnect
<1>6. CASE TaskReads \/ TaskHasRead \/ TaskSends
  <2>1. served' = served
    BY <1>6 DEF TaskReads, TaskHasRead, TaskSends, ServingOnly
  <2> QED BY <1>6, <2>1, ServedTaskReads, ServedTaskHasRead, ServedTaskSends
<1>7. CASE HandleSignal
  BY <1>7, ServedHandleSignal
<1>8. CASE TakeOffer
  BY <1>1, <1>8 DEF TakeOffer, window
<1> QED BY <1>2, <1>3, <1>4, <1>5, <1>6, <1>7, <1>8 DEF Next

LEMMA ServedAlways ==
    ASSUME ~CopyRaces
    PROVE  Spec => [](Owned /\ ServedInv)
<1>1. Init => ServedInv
  BY DEF Init, ServedInv, Lasting, RequestIsTracked, AnsweredOnce, Serves, ServesOnce
<1>2. Owned /\ ServedInv /\ [Next]_vars => (Owned /\ ServedInv)'
  BY OwnedStep, ServedStep
<1> QED BY <1>1, <1>2, InitOwned, PTL DEF Spec

(* No request of Windows is forgotten while its connection lasts: it is    *)
(* answered, or a task works on it, or its answer is in the queue, which a *)
(* full queue only delays.                                                 *)
THEOREM NoRequestForgotten ==
    ASSUME ~CopyRaces
    PROVE  Spec => []RequestIsTracked
BY ServedAlways, PTL DEF ServedInv

(* A request of Windows is answered once, and no later connection, copy or *)
(* task changes the answer.                                                *)
THEOREM AnswersAreFinal ==
    ASSUME ~CopyRaces
    PROVE  Spec => AnswersStand
<1>1. Owned /\ ServedInv /\ [Next]_vars
          => [\A id \in DOMAIN served : id \in DOMAIN served' /\ served'[id] = served[id]]_vars
  BY ServedStep
<1> QED BY <1>1, ServedAlways, PTL DEF Spec, AnswersStand

-----------------------------------------------------------------------------
(* A fetch goes on and a place on the pasteboard is given back: the part   *)
(* of PreparationEnds that is about single states.  The job at work has a  *)
(* request at the server or its answer in the queue; a place that is       *)
(* reserved, or about to be, has a job that works for it or an event on    *)
(* the way that gives it back.                                             *)
Ending == {"ready", "failed", "reconnecting", "text"}
Prepares(evs) == \E n \in DOMAIN evs : evs[n].kind = "preparing"
EndsAfter(evs) ==
    \E n \in DOMAIN evs : /\ evs[n].kind \in Ending
                          /\ \A k \in DOMAIN evs : k > n => evs[k].kind # "preparing"
AnswerQueued(id) ==
    \E n \in DOMAIN signals : signals[n].kind = "contents" /\ signals[n].arg.id = id

FetchGoesOn ==
    HasJob => \/ \E r \in asked : r.id = outstanding.id
              \/ AnswerQueued(outstanding.id) \/ dropped
PlaceIsGivenBack ==
    reserved # None \/ handling = "reserve" \/ Prepares(events)
        => closed \/ NothingNamed \/ HasJob \/ EndsAfter(events)

LEMMA RaisedIsLast ==
    ASSUME NEW evs \in Seq(Events), NEW kind, NEW d, ~closed
    PROVE  /\ kind \in Ending => EndsAfter(Raise(evs, kind, d))
           /\ Raise(evs, kind, d) = Append(evs, Event(kind, d))
<1> DEFINE e == Event(kind, d)
           S == Events \cup {e}
           new == Append(evs, e)
<1>1. evs \in Seq(S) /\ e \in S /\ e.kind = kind
  BY DEF Event
<1> HIDE DEF S, e
<1>2. /\ Len(evs) \in Nat /\ DOMAIN new = 1 .. Len(evs) + 1 /\ new[Len(evs) + 1] = e
  BY <1>1
<1>3. Raise(evs, kind, d) = new
  BY DEF Raise, e
<1>4. \A k \in DOMAIN new : ~(k > Len(evs) + 1)
  BY <1>2
<1>5. Len(evs) + 1 \in DOMAIN new
  BY <1>2
<1> HIDE DEF new
<1>6. kind \in Ending => EndsAfter(new)
  BY <1>1, <1>2, <1>4, <1>5 DEF EndsAfter, Ending
<1> QED BY <1>3, <1>6 DEF new, e

(* The handler of the next event: what follows it is still on the way. *)
LEMMA EndsOnceTaken ==
    ASSUME NEW evs \in Seq(Events), evs # <<>>
    PROVE  /\ Prepares(evs) <=> Head(evs).kind = "preparing" \/ Prepares(Tail(evs))
           /\ EndsAfter(evs) /\ (Head(evs).kind = "preparing" \/ Prepares(Tail(evs)))
                  => EndsAfter(Tail(evs))
<1> DEFINE t == Tail(evs)
<1>1. /\ Len(evs) \in Nat \ {0} /\ DOMAIN evs = 1 .. Len(evs)
      /\ DOMAIN t = 1 .. Len(evs) - 1
      /\ \A n \in DOMAIN t : t[n] = evs[n + 1]
      /\ Head(evs) = evs[1]
  OBVIOUS
<1> HIDE DEF t
<1>2. /\ \A n \in DOMAIN evs : n = 1 \/ (n - 1 \in DOMAIN t /\ t[n - 1] = evs[n])
      /\ \A n \in DOMAIN t : n + 1 \in DOMAIN evs /\ n + 1 > 1
      /\ 1 \in DOMAIN evs
  BY <1>1
<1>3. Prepares(evs) <=> Head(evs).kind = "preparing" \/ Prepares(t)
  BY <1>1, <1>2 DEF Prepares
<1>4. ASSUME EndsAfter(evs), Head(evs).kind = "preparing" \/ Prepares(t)
      PROVE  EndsAfter(t)
  <2>1. PICK n \in DOMAIN evs : /\ evs[n].kind \in Ending
                                /\ \A k \in DOMAIN evs : k > n => evs[k].kind # "preparing"
    BY <1>4 DEF EndsAfter
  <2>2. n # 1
    <3> SUFFICES ASSUME n = 1 PROVE FALSE
      OBVIOUS
    <3>1. Head(evs).kind # "preparing"
      BY <1>1, <2>1 DEF Ending
    <3>2. PICK k \in DOMAIN t : t[k].kind = "preparing"
      BY <1>4, <3>1 DEF Prepares
    <3> QED BY <1>1, <1>2, <2>1, <3>2
  <2>3. n - 1 \in DOMAIN t /\ t[n - 1].kind \in Ending
    BY <1>2, <2>1, <2>2
  <2>4. ASSUME NEW k \in DOMAIN t, k > n - 1
        PROVE  t[k].kind # "preparing"
    <3>1. k + 1 \in DOMAIN evs /\ k + 1 > n /\ t[k] = evs[k + 1]
      BY <1>1, <2>1, <2>4
    <3> QED BY <2>1, <3>1
  <2> QED BY <2>3, <2>4 DEF EndsAfter
<1> QED BY <1>3, <1>4 DEF t

(* However an advance ends, it asks for more or says that it has ended. *)
LEMMA FetchLives ==
    ASSUME NEW j \in Jobs, NEW dirs, NEW evs \in Seq(Events), closed' = closed,
           FetchFailed(j, dirs, evs) \/ FetchAsks(j, dirs, evs) \/ FetchEnded(j, dirs, evs)
    PROVE  FetchGoesOn' /\ PlaceIsGivenBack'
<1>1. CASE FetchAsks(j, dirs, evs)
  <2>1. job'.dir # 0 /\ Requested' \in asked' /\ Requested'.id = outstanding'.id
    BY <1>1 DEF FetchAsks, Jobs, Requested
  <2>2. HasJob'
    BY <2>1 DEF HasJob, NoJob
  <2> HIDE DEF Requested
  <2> QED BY <2>1, <2>2 DEF FetchGoesOn, PlaceIsGivenBack
<1>2. CASE FetchFailed(j, dirs, evs) \/ FetchEnded(j, dirs, evs)
  <2>1. ~HasJob' /\ \E kind \in Ending : \E d : events' = Raise(evs, kind, d)
    BY <1>2 DEF FetchFailed, FetchEnded, HasJob, Ending
  <2>2. closed' \/ EndsAfter(events')
    BY <2>1, RaisedIsLast
  <2> QED BY <2>1, <2>2 DEF FetchGoesOn, PlaceIsGivenBack
<1> QED BY <1>1, <1>2

(* A new list replaces the job at work; if it names nothing that is seen.  *)
LEMMA ListLives ==
    ASSUME Owned, NEW c \in DOMAIN copies, copies[c].what = "files", HandleList(c),
           UNCHANGED <<copies, closed, reserved, handling>>
    PROVE  FetchGoesOn' /\ PlaceIsGivenBack'
<1>1. /\ ServerOK /\ JobOK /\ CacheOK /\ events \in Seq(Events) /\ listing' = c /\ c # 0
  BY DEF Owned, CacheOK, EventsOK, HandleList, ServerOK
<1>2. CASE Roots(ListOf(c)) = {} /\ job' = NoJob
  BY <1>1, <1>2 DEF FetchGoesOn, PlaceIsGivenBack, NothingNamed, HasJob, ListOf
<1>3. CASE job' = NoJob /\ events' = Raise(Raise(events, "preparing", 0), "failed", 0)
  <2>1. ASSUME ~closed
        PROVE  EndsAfter(events')
    <3> DEFINE evs == Raise(events, "preparing", 0)
    <3>1. evs \in Seq(Events)
      BY <1>1, RaiseQuiet DEF CacheOK, EventsOK
    <3> HIDE DEF evs
    <3>2. EndsAfter(Raise(evs, "failed", 0))
      BY <2>1, <3>1, RaisedIsLast DEF Ending
    <3> QED BY <1>3, <3>2 DEF evs
  <2> QED BY <1>3, <2>1 DEF FetchGoesOn, PlaceIsGivenBack, HasJob
<1>4. ASSUME NEW dir \in Dirs \ DOMAIN Kept,
             Advance(Fresh(dir, c), With(Kept, dir, <<>>), Raise(events, "preparing", 0))
      PROVE  FetchGoesOn' /\ PlaceIsGivenBack'
  <2> DEFINE j == Fresh(dir, c)
             dirs == With(Kept, dir, <<>>)
             evs == Raise(events, "preparing", 0)
  <2>1. /\ Workable(j, dirs[dir]) /\ dir \in DOMAIN dirs
        /\ j \in Jobs /\ j.dir = dir /\ j.copy = c
    BY <1>1, FreshIs
  <2>2. nextId \in 1 .. MaxStreamId /\ Advance(j, dirs, evs)
    BY <1>1, <1>4 DEF JobOK
  <2>3. evs \in Seq(Events)
    BY <1>1, RaiseQuiet DEF CacheOK, EventsOK
  <2> HIDE DEF j, dirs, evs
  <2>4. FetchFailed(j, dirs, evs) \/ FetchAsks(j, dirs, evs) \/ FetchEnded(j, dirs, evs)
    BY <1>1, <2>1, <2>2, AdvanceStep
  <2> QED BY <2>1, <2>3, <2>4, FetchLives
<1>5. \/ Roots(ListOf(c)) = {} /\ job' = NoJob
      \/ job' = NoJob /\ events' = Raise(Raise(events, "preparing", 0), "failed", 0)
      \/ \E dir \in Dirs \ DOMAIN Kept :
             Advance(Fresh(dir, c), With(Kept, dir, <<>>), Raise(events, "preparing", 0))
  BY DEF HandleList, Kept, Fresh
<1> QED BY <1>2, <1>3, <1>4, <1>5

(* The answer to the open request ends the job or leads to the next one.   *)
LEMMA ContentsLive ==
    ASSUME Owned, NEW answer, answer.data \in Responses, HandleContents(answer),
           Expected(answer), UNCHANGED <<copies, closed>>
    PROVE  FetchGoesOn' /\ PlaceIsGivenBack'
<1> DEFINE d == answer.data
<1>1. /\ ServerOK /\ JobOK /\ CacheOK /\ events \in Seq(Events) /\ HasJob
  BY DEF Owned, CacheOK, EventsOK, Expected, JobOK
<1>2. /\ job \in Jobs /\ job.dir \in DOMAIN cache /\ job.copy = listing
      /\ nextId \in 1 .. MaxStreamId /\ listing' = listing
  BY <1>1, ContentsStep DEF JobOK, Workable
<1>3. CASE FailJob(job, cache, events) /\ UNCHANGED <<nextId, asked>>
  BY <1>1, <1>2, <1>3, FailStep, FetchLives
<1>4. ASSUME NEW j, NEW dirs, j \in Jobs, j.dir = job.dir, j.copy = job.copy,
             Workable(j, dirs[job.dir]), DOMAIN dirs = DOMAIN cache, Advance(j, dirs, events)
      PROVE  FetchGoesOn' /\ PlaceIsGivenBack'
  <2>1. \/ FetchFailed(j, dirs, events) \/ FetchAsks(j, dirs, events)
        \/ FetchEnded(j, dirs, events)
    BY <1>1, <1>2, <1>4, AdvanceStep
  <2> QED BY <1>1, <1>4, <2>1, FetchLives
<1>5. CASE outstanding.size /\ Advance(Sized(d), cache, events)
  BY <1>1, <1>4, <1>5, SizedIs
<1>6. CASE Fits(d) /\ Advance(Written(d), With(cache, job.dir, Grown(d)), events)
  <2> DEFINE dirs == With(cache, job.dir, Grown(d))
  <2>1. dirs[job.dir] = Grown(d) /\ DOMAIN dirs = DOMAIN cache
    BY <1>2 DEF With
  <2> HIDE DEF dirs
  <2>2. /\ Written(d) \in Jobs /\ Written(d).dir = job.dir /\ Written(d).copy = job.copy
        /\ Workable(Written(d), dirs[job.dir])
    BY <1>1, <1>6, <2>1, WrittenIs
  <2>3. Advance(Written(d), dirs, events)
    BY <1>6 DEF dirs
  <2> QED BY <1>4, <2>1, <2>2, <2>3
<1>7. \/ FailJob(job, cache, events) /\ UNCHANGED <<nextId, asked>>
      \/ outstanding.size /\ Advance(Sized(d), cache, events)
      \/ Fits(d) /\ Advance(Written(d), With(cache, job.dir, Grown(d)), events)
  BY DEF HandleContents, Sized, Written, Grown, Fits
<1> QED BY <1>3, <1>5, <1>6, <1>7

(* Steps that leave the fetch and the events alone. *)
LEMMA FetchStays ==
    ASSUME FetchGoesOn, UNCHANGED <<job, outstanding>>, dropped => dropped',
           \A r \in asked : r \in asked' \/ AnswerQueued(r.id)' \/ dropped',
           \A id : AnswerQueued(id) => AnswerQueued(id)'
    PROVE  FetchGoesOn'
<1>1. HasJob' <=> HasJob
  BY DEF HasJob
<1>2. outstanding' = outstanding
  OBVIOUS
<1>3. AnswerQueued(outstanding.id) => AnswerQueued(outstanding.id)'
  <2>1. PICK id : id = outstanding.id
    OBVIOUS
  <2>2. AnswerQueued(id) => AnswerQueued(id)'
    OBVIOUS
  <2> QED BY <1>2, <2>1, <2>2 DEF AnswerQueued
<1>4. \A r \in asked :
          r.id = outstanding.id /\ AnswerQueued(r.id)' => AnswerQueued(outstanding.id)'
  BY <1>2 DEF AnswerQueued
<1> QED BY <1>1, <1>2, <1>3, <1>4 DEF FetchGoesOn

LEMMA PlaceStays ==
    ASSUME Owned, Grows, PlaceIsGivenBack, UNCHANGED <<listing, job>>, closed => closed',
           reserved' # None \/ handling' = "reserve" \/ Prepares(events')
               => reserved # None \/ handling = "reserve" \/ Prepares(events),
           closed' \/ (EndsAfter(events) => EndsAfter(events'))
    PROVE  PlaceIsGivenBack'
<1>1. NothingNamed => NothingNamed'
  <2>1. ServerOK /\ listing \in 0 .. Len(copies) /\ copies \in Seq(Selections)
    BY DEF Owned, JobOK, ServerOK
  <2>2. ASSUME listing # 0 PROVE listing \in DOMAIN copies
    BY <2>1, <2>2
  <2> QED BY <2>1, <2>2, ListsStay DEF NothingNamed, ListOf
<1>2. HasJob' <=> HasJob
  BY DEF HasJob
<1> QED BY <1>1, <1>2 DEF PlaceIsGivenBack

(* A signal that is queued or dropped loses none of those before it. *)
LEMMA AnswersQueued ==
    ASSUME SignalsOK, NEW sig \in Signals,
           signals' = signals \/ signals' = Append(signals, sig)
    PROVE  /\ \A id : AnswerQueued(id) => AnswerQueued(id)'
           /\ signals' = Append(signals, sig) /\ sig.kind = "contents" => AnswerQueued(sig.arg.id)'
<1>1. CASE signals' = Append(signals, sig)
  <2>1. signals \in Seq(Signals)
    BY DEF SignalsOK
  <2>2. /\ \A n \in DOMAIN signals : n \in DOMAIN signals' /\ signals'[n] = signals[n]
        /\ Len(signals) + 1 \in DOMAIN signals' /\ signals'[Len(signals) + 1] = sig
    BY <1>1, <2>1
  <2>3. \A id : AnswerQueued(id) => AnswerQueued(id)'
    BY <2>2 DEF AnswerQueued
  <2>4. sig.kind = "contents" => AnswerQueued(sig.arg.id)'
    BY <2>2 DEF AnswerQueued
  <2> QED BY <2>3, <2>4
<1>2. CASE signals' = signals
  <2>1. \A id : AnswerQueued(id) => AnswerQueued(id)'
    BY <1>2 DEF AnswerQueued
  <2>2. ASSUME signals' = Append(signals, sig) PROVE FALSE
    <3>1. signals \in Seq(Signals)
      BY DEF SignalsOK
    <3>2. Len(Append(signals, sig)) = Len(signals) + 1 /\ Len(signals) \in Nat
      BY <3>1
    <3>3. Len(signals') = Len(signals)
      BY <1>2
    <3> QED BY <2>2, <3>2, <3>3
  <2> QED BY <2>1, <2>2
<1> QED BY <1>1, <1>2

ProgressInv == FetchGoesOn /\ PlaceIsGivenBack

(* What the server and the serving tasks do. *)
LEMMA ProgressServer ==
    ASSUME Owned, ProgressInv, Grows, UNCHANGED <<fetch, events, window>>,
           dropped => dropped', NEW sig \in Signals,
           signals' = signals \/ signals' = Append(signals, sig),
           \/ asked' = asked
           \/ \E r \in asked : /\ asked' = asked \ {r}
                               /\ \/ dropped'
                                  \/ /\ signals' = Append(signals, sig)
                                     /\ sig.kind = "contents" /\ sig.arg.id = r.id
    PROVE  ProgressInv'
<1>1. /\ SignalsOK /\ FetchGoesOn /\ PlaceIsGivenBack
      /\ UNCHANGED <<listing, job, outstanding, handling, closed, reserved>>
  BY DEF Owned, ProgressInv, fetch, window
<1>2. /\ \A id : AnswerQueued(id) => AnswerQueued(id)'
      /\ signals' = Append(signals, sig) /\ sig.kind = "contents" => AnswerQueued(sig.arg.id)'
  BY <1>1, AnswersQueued
<1>3. \A r \in asked : r \in asked' \/ AnswerQueued(r.id)' \/ dropped'
  BY <1>2 DEF AnswerQueued
<1>4. FetchGoesOn'
  BY <1>1, <1>2, <1>3, FetchStays
<1>5. PlaceIsGivenBack'
  BY <1>1, PlaceStays
<1> QED BY <1>4, <1>5 DEF ProgressInv

LEMMA ProgressServerAnswers ==
    ASSUME Owned, ProgressInv, ServerAnswers PROVE ProgressInv'
<1>1. PICK r \in asked : \E d \in AnswersTo(r) :
          asked' = asked \ {r} /\ Queue(Signal("contents", Answer(r.id, d)))
  BY DEF ServerAnswers
<1>2. PICK d \in AnswersTo(r) :
          asked' = asked \ {r} /\ Queue(Signal("contents", Answer(r.id, d)))
  BY <1>1
<1>3. UNCHANGED <<fetch, events, window>> /\ Grows
  BY DEF ServerAnswers, Grows
<1> DEFINE sig == Signal("contents", Answer(r.id, d))
<1>4. sig \in Signals /\ sig.kind = "contents" /\ sig.arg.id = r.id
  <2>1. r.id \in 1 .. MaxStreamId /\ d \in Responses
    BY AnswersAre DEF Owned, ServerOK, AskedOK, Requests
  <2> QED BY <2>1 DEF Signal, Answer, Signals
<1>5. asked' = asked \ {r} /\ Queue(sig)
  BY <1>2
<1> HIDE DEF sig
<1>6. /\ signals' = signals \/ signals' = Append(signals, sig)
      /\ dropped => dropped'
      /\ dropped' \/ signals' = Append(signals, sig)
  BY <1>5 DEF Queue
<1> QED BY <1>3, <1>4, <1>5, <1>6, ProgressServer

LEMMA ProgressQuietServer ==
    ASSUME Owned, ProgressInv,
           ServerCopies \/ ServerSendsData \/ ServerRequests \/ TaskReads \/ TaskHasRead \/ TaskSends
    PROVE  ProgressInv'
<1>1. /\ Grows /\ UNCHANGED <<asked, fetch, events, window>> /\ (dropped => dropped')
  <2>1. CASE ServerCopies
    BY <2>1 DEF ServerCopies, Queue, Grows
  <2>2. CASE ServerSendsData
    BY <2>2 DEF ServerSendsData, Queue, Grows
  <2>3. CASE ServerRequests
    BY <2>3 DEF ServerRequests, server, Grows
  <2>4. CASE TaskReads \/ TaskHasRead \/ TaskSends
    <3>1. ServingOnly
      BY <2>4 DEF TaskReads, TaskHasRead, TaskSends
    <3>2. copies' = copies /\ asked' = asked
      BY <3>1 DEF ServingOnly, server
    <3> QED BY <3>1, <3>2 DEF ServingOnly, Grows
  <2> QED BY <2>1, <2>2, <2>3, <2>4
<1>2. PICK sig \in Signals : signals' = signals \/ signals' = Append(signals, sig)
  <2>1. Signal("text", 0) \in Signals
    BY DEF Signal, Signals
  <2>2. CASE ServerCopies
    <3>1. PICK s \in Selections : Queue(Signal("paste", s.what))
      BY <2>2 DEF ServerCopies
    <3>2. s.what \in {"text", "files"}
      BY FetchAssumption DEF AllSelections
    <3>3. Signal("paste", s.what) \in Signals
      BY <3>2 DEF Signal, Signals
    <3> QED BY <3>1, <3>3 DEF Queue
  <2>3. CASE ServerSendsData
    <3>1. Head(wanted) \in {"text", "files"} /\ Len(copies) \in Nat
      BY <2>3 DEF Owned, ServerOK, ServerSendsData
    <3>2. Signal(Head(wanted), Len(copies)) \in Signals
      BY <3>1 DEF Signal, Signals
    <3>3. signals' = signals \/ signals' = Append(signals, Signal(Head(wanted), Len(copies)))
      BY <2>3 DEF ServerSendsData, Queue
    <3> QED BY <3>2, <3>3
  <2>4. CASE TaskSends
    <3>1. PICK t \in serving :
              \/ signals' = Append(signals, Signal("serve", [id |-> t.id, file |-> t.file]))
              \/ UNCHANGED signals
      BY <2>4 DEF TaskSends
    <3>2. t \in Tasks
      BY DEF Owned, ServingOK
    <3>3. Signal("serve", [id |-> t.id, file |-> t.file]) \in Signals
      BY <3>2 DEF Signal, Signals, Tasks
    <3> QED BY <3>1, <3>3
  <2>5. CASE ServerRequests \/ TaskReads \/ TaskHasRead
    BY <2>1, <2>5 DEF ServerRequests, TaskReads, TaskHasRead
  <2> QED BY <2>2, <2>3, <2>4, <2>5
<1> QED BY <1>1, <1>2, ProgressServer

(* What the session task does. *)
LEMMA ProgressHandleSignal ==
    ASSUME Owned, ProgressInv, HandleSignal PROVE ProgressInv'
<1> DEFINE s == Head(signals)
<1>1. /\ signals # <<>> /\ signals' = Tail(signals) /\ Grows
      /\ UNCHANGED <<copies, dropped, handling, closed, reserved>>
      /\ FetchGoesOn /\ PlaceIsGivenBack /\ events \in Seq(Events)
  BY DEF HandleSignal, window, ProgressInv, Owned, CacheOK, EventsOK, Grows
<1>2. s \in Signals /\ SignalOK(s)
  BY <1>1, TailIsOfQueue
<1>3. ASSUME NEW id, AnswerQueued(id), ~(s.kind = "contents" /\ s.arg.id = id)
      PROVE  AnswerQueued(id)'
  <2>1. PICK n \in DOMAIN signals : signals[n].kind = "contents" /\ signals[n].arg.id = id
    BY <1>3 DEF AnswerQueued
  <2>2. signals \in Seq(Signals)
    BY DEF Owned, SignalsOK
  <2>3. n # 1
    BY <1>3, <2>1, <2>2
  <2>4. n - 1 \in DOMAIN signals' /\ signals'[n - 1] = signals[n]
    BY <1>1, <2>1, <2>2, <2>3
  <2> QED BY <2>1, <2>4 DEF AnswerQueued
<1>4. ASSUME UNCHANGED <<asked, job, outstanding>>,
             HasJob => ~(s.kind = "contents" /\ s.arg.id = outstanding.id)
      PROVE  FetchGoesOn'
  <2>1. HasJob' <=> HasJob
    BY <1>4 DEF HasJob
  <2>2. ASSUME HasJob, AnswerQueued(outstanding.id)
        PROVE  AnswerQueued(outstanding.id)'
    <3>1. PICK id : id = outstanding.id
      OBVIOUS
    <3>2. AnswerQueued(id)
      BY <2>2, <3>1
    <3>3. AnswerQueued(id)'
      BY <1>3, <1>4, <2>2, <3>1, <3>2
    <3> QED BY <1>4, <3>1, <3>3 DEF AnswerQueued
  <2> QED BY <1>1, <1>4, <2>1, <2>2 DEF FetchGoesOn
<1>5. CASE s.kind = "paste" /\ UNCHANGED <<asked, fetch, cache, events>>
  <2>1. FetchGoesOn'
    BY <1>4, <1>5 DEF fetch
  <2>2. PlaceIsGivenBack'
    BY <1>1, <1>5, PlaceStays DEF fetch
  <2> QED BY <2>1, <2>2 DEF ProgressInv
<1>6. CASE s.kind = "serve" /\ UNCHANGED <<asked, fetch, cache, events>>
  <2>1. FetchGoesOn'
    BY <1>4, <1>6 DEF fetch
  <2>2. PlaceIsGivenBack'
    BY <1>1, <1>6, PlaceStays DEF fetch
  <2> QED BY <2>1, <2>2 DEF ProgressInv
<1>7. CASE /\ s.kind = "text" /\ events' = Raise(events, "text", 0)
           /\ UNCHANGED <<asked, fetch, cache>>
  <2>1. FetchGoesOn'
    BY <1>4, <1>7 DEF fetch
  <2>2. closed' \/ EndsAfter(events')
    BY <1>1, <1>7, RaisedIsLast DEF Ending
  <2> QED BY <2>1, <2>2 DEF ProgressInv, PlaceIsGivenBack
<1>8. CASE s.kind = "files" /\ HandleList(s.arg)
  <2>1. s.arg \in DOMAIN copies /\ copies[s.arg].what = "files"
    BY <1>2, <1>8 DEF SignalOK
  <2> QED BY <1>1, <1>8, <2>1, ListLives DEF ProgressInv
<1>9. CASE s.kind = "contents" /\ HandleContents(s.arg)
  <2>1. s.arg.data \in Responses
    BY <1>2, <1>9 DEF Signals
  <2>2. CASE Expected(s.arg)
    BY <1>1, <1>9, <2>1, <2>2, ContentsLive DEF ProgressInv
  <2>3. CASE ~Expected(s.arg)
    <3>1. UNCHANGED <<listing, job, outstanding, nextId, cache, asked, events>>
      BY <1>9, <2>3 DEF HandleContents
    <3>2. HasJob => s.arg.id # outstanding.id
      <4>1. HasJob => outstanding # None
        BY NoneIsNone DEF Owned, JobOK
      <4> QED BY <2>3, <4>1 DEF Expected
    <3>3. FetchGoesOn'
      BY <1>4, <3>1, <3>2
    <3>4. PlaceIsGivenBack'
      BY <1>1, <3>1, PlaceStays
    <3> QED BY <3>3, <3>4 DEF ProgressInv
  <2> QED BY <2>2, <2>3
<1>10. \/ s.kind = "paste" /\ UNCHANGED <<asked, fetch, cache, events>>
       \/ s.kind = "serve" /\ UNCHANGED <<asked, fetch, cache, events>>
       \/ /\ s.kind = "text" /\ events' = Raise(events, "text", 0)
          /\ UNCHANGED <<asked, fetch, cache>>
       \/ s.kind = "files" /\ HandleList(s.arg)
       \/ s.kind = "contents" /\ HandleContents(s.arg)
  BY DEF HandleSignal
<1> QED BY <1>5, <1>6, <1>7, <1>8, <1>9, <1>10

LEMMA ProgressConnection ==
    ASSUME Owned, ProgressInv, Disconnect \/ Reconnect PROVE ProgressInv'
<1>1. CASE Disconnect
  <2>1. /\ job' = NoJob /\ events' = Raise(events, "reconnecting", 0) /\ closed' = closed
        /\ events \in Seq(Events)
    BY <1>1 DEF Disconnect, window, Owned, CacheOK, EventsOK
  <2>2. closed' \/ EndsAfter(events')
    BY <2>1, RaisedIsLast DEF Ending
  <2> QED BY <2>1, <2>2 DEF ProgressInv, FetchGoesOn, PlaceIsGivenBack, HasJob
<1>2. CASE Reconnect
  <2>1. UNCHANGED <<server, signals, fetch, dropped, events, window>>
    BY <1>2 DEF Reconnect
  <2>2. Signal("text", 0) \in Signals
    BY DEF Signal, Signals
  <2>3. Grows /\ asked' = asked
    BY <2>1 DEF server, Grows
  <2> QED BY <2>1, <2>2, <2>3, ProgressServer
<1> QED BY <1>1, <1>2

(* What the main thread does: an event that is handled is the one that     *)
(* reserves the place, or gives it back.                                   *)
LEMMA ProgressMain ==
    ASSUME Owned, ProgressInv, MainOnly, closed => closed',
           \/ closed'
           \/ UNCHANGED <<events, handling, reserved>>
           \/ Acknowledge \/ Prepare
           \/ \E kind \in Ending : NextEvent(kind) /\ reserved' = None /\ handling' # "reserve"
    PROVE  ProgressInv'
<1>1. /\ UNCHANGED <<copies, asked, signals, listing, job, outstanding, dropped>> /\ Grows
      /\ FetchGoesOn /\ PlaceIsGivenBack /\ events \in Seq(Events)
  BY DEF MainOnly, server, fetch, ProgressInv, Owned, CacheOK, EventsOK, Grows
<1>2. FetchGoesOn'
  <2>1. \A id : AnswerQueued(id) => AnswerQueued(id)'
    BY <1>1 DEF AnswerQueued
  <2> QED BY <1>1, <2>1, FetchStays
<1>3. CASE closed'
  BY <1>2, <1>3 DEF ProgressInv, PlaceIsGivenBack
<1>4. CASE UNCHANGED <<events, handling, reserved>>
  BY <1>1, <1>2, <1>4, PlaceStays DEF ProgressInv
<1>5. CASE Acknowledge
  <2>1. /\ handling' = "nothing" /\ events' = events
        /\ reserved' = IF handling = "reserve" THEN changes ELSE reserved
    BY <1>5 DEF Acknowledge
  <2> QED BY <1>1, <1>2, <2>1, PlaceStays DEF ProgressInv
<1>6. ASSUME NEW kind, NextEvent(kind)
      PROVE  /\ Head(events).kind = kind
             /\ Prepares(events) <=> kind = "preparing" \/ Prepares(events')
             /\ EndsAfter(events) /\ (kind = "preparing" \/ Prepares(events'))
                    => EndsAfter(events')
  BY <1>1, <1>6, EndsOnceTaken DEF NextEvent
<1>7. CASE Prepare
  <2>1. NextEvent("preparing") /\ reserved' = reserved
    BY <1>7 DEF Prepare
  <2>2. Prepares(events) /\ (EndsAfter(events) => EndsAfter(events'))
    BY <1>6, <2>1
  <2> QED BY <1>1, <1>2, <2>1, <2>2, PlaceStays DEF ProgressInv
<1>8. ASSUME NEW kind \in Ending, NextEvent(kind), reserved' = None, handling' # "reserve"
      PROVE  ProgressInv'
  <2>1. kind # "preparing"
    BY DEF Ending
  <2>2. Prepares(events) <=> Prepares(events')
    BY <1>6, <1>8, <2>1
  <2>3. CASE Prepares(events')
    BY <1>1, <1>2, <1>6, <1>8, <2>2, <2>3, PlaceStays DEF ProgressInv
  <2>4. CASE ~Prepares(events')
    BY <1>2, <1>8, <2>4 DEF ProgressInv, PlaceIsGivenBack
  <2> QED BY <2>3, <2>4
<1> QED BY <1>3, <1>4, <1>5, <1>7, <1>8

LEMMA ProgressStep ==
    ASSUME Owned, ProgressInv, [Next]_vars
    PROVE  ProgressInv'
<1>1. CASE UNCHANGED vars
  BY <1>1, ProgressMain DEF vars, MainOnly, window, local
<1>2. CASE UserCopies \/ TakeOffer
  <2>1. UNCHANGED <<server, signals, fetch, dropped, events, handling, closed, reserved>>
    BY <1>2 DEF UserCopies, TakeOffer, window
  <2>2. UNCHANGED <<copies, asked, listing, job, outstanding>> /\ Grows
    BY <2>1 DEF server, fetch, Grows
  <2>3. \A id : AnswerQueued(id) => AnswerQueued(id)'
    BY <2>1 DEF AnswerQueued
  <2> QED BY <2>1, <2>2, <2>3, FetchStays, PlaceStays DEF ProgressInv
<1>3. CASE Poll(TRUE) \/ Poll(FALSE) \/ Close
  BY <1>3, ProgressMain DEF Poll, Close
<1>4. CASE Prepare \/ Acknowledge
  <2>1. MainOnly /\ closed' = closed
    BY <1>4 DEF Prepare, Acknowledge
  <2> QED BY <1>4, <2>1, ProgressMain
<1>5. CASE ShowText
  <2>1. MainOnly /\ closed' = closed /\ NextEvent("text") /\ reserved' = None
        /\ handling' = "acknowledge"
    BY <1>5 DEF ShowText
  <2> QED BY <2>1, ProgressMain DEF Ending
<1>6. CASE OfferFiles
  <2>1. /\ MainOnly /\ closed' = closed /\ NextEvent("ready") /\ reserved' = None
        /\ handling' \in {"nothing", "acknowledge"}
    BY <1>6 DEF OfferFiles, NextEvent
  <2> QED BY <2>1, ProgressMain DEF Ending
<1>7. CASE GiveUpOffer
  <2>1. /\ MainOnly /\ closed' = closed /\ reserved' = None /\ handling' = handling
        /\ NextEvent("failed") \/ NextEvent("reconnecting")
    BY <1>7 DEF GiveUpOffer
  <2>2. handling = "nothing"
    BY <2>1 DEF NextEvent
  <2> QED BY <2>1, <2>2, ProgressMain DEF Ending
<1>8. CASE ServerCopies \/ ServerSendsData \/ ServerRequests \/ TaskReads \/ TaskHasRead \/ TaskSends
  BY <1>8, ProgressQuietServer
<1> QED BY <1>1, <1>2, <1>3, <1>4, <1>5, <1>6, <1>7, <1>8, ProgressServerAnswers,
           ProgressHandleSignal, ProgressConnection DEF Next, Main

(* A fetch never stalls and a place that is kept free on the pasteboard is *)
(* never kept for nothing: unless a signal was dropped, the job at work    *)
(* has its request at the server or the answer in the queue, and unless    *)
(* the list named nothing, a preparation that was announced has a job or   *)
(* an event on the way that ends it.                                       *)
THEOREM PreparationIsNotStuck ==
    ASSUME ~CopyRaces
    PROVE  Spec => [](FetchGoesOn /\ PlaceIsGivenBack)
<1>1. Init => ProgressInv
  BY DEF Init, ProgressInv, FetchGoesOn, PlaceIsGivenBack, HasJob, Prepares
<1>2. Owned /\ ProgressInv /\ [Next]_vars => (Owned /\ ProgressInv)'
  BY OwnedStep, ProgressStep
<1>3. ProgressInv => FetchGoesOn /\ PlaceIsGivenBack
  BY DEF ProgressInv
<1> QED BY <1>1, <1>2, <1>3, InitOwned, PTL DEF Spec
=============================================================================
