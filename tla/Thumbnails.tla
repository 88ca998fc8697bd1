------------------------------ MODULE Thumbnails ------------------------------
(***************************************************************************)
(* Thumbnails of a user's images (FilesService.toThumbnail and             *)
(* ThumbnailCacheInterceptor) and the two caches they are kept in: files   *)
(* named after the id of the image's row, without an end, and Redis keys   *)
(* named after the path as the request spells it, for 30 days. Uploads and *)
(* deletions drop both, the keys as far as SCAN finds them: by the path of *)
(* the row, which is normalized, in a pattern where it is not escaped.     *)
(*                                                                         *)
(* An image is a version and its thumbnail the version it was made from.   *)
(* Thumbnails are of one size: entries of two sizes never meet, but are    *)
(* dropped together. Feature flags may switch each cache off at every      *)
(* point where the code asks for them. One action is what happens between  *)
(* two awaits.                                                             *)
(***************************************************************************)
EXTENDS Integers, FiniteSets

CONSTANTS
    Paths,      \* of files that have thumbnails
    Readers,    \* requests for thumbnails that may be in flight
    Writers,    \* requests that change files that may be in flight
    MaxVersion, \* bound: changes of contents
    Absent      \* no file, no row, no thumbnail

ASSUME VersionAssumption == MaxVersion \in Nat
ASSUME AbsentAssumption == Absent \notin Paths \cup Nat

Versions == 0..MaxVersion   \* 0: a file that was there before, without a row
Ids == 1..MaxVersion        \* bound: as many rows as changes

VARIABLES
    image,      \* image[n]: the version stored under n, or Absent
    ids,        \* ids[n]: ids of the UploadedFile rows of n
    thumb,      \* thumb[i]: the version the thumbnail files of row i show, or Absent
    redis,      \* redis[n]: the version the cached thumbnails of n show, or Absent
    unfound,    \* names with keys in Redis that the pattern does not match; what
                \* they show is not followed
    reader,     \* reader[r]: where the request stands
    writer,     \* writer[w]: where the request stands
    version,    \* number of versions so far
    lastId,     \* id of the last row
    excuse      \* history: excuse[n]: why thumbnails of n may be out of date

caches == <<thumb, redis, unfound>>
thumbsVars == <<image, ids, caches, reader, writer, version, lastId, excuse>>

(* A request for a thumbnail, or another change, while the file changes; a *)
(* change by save or new, which leave the caches alone; a rename, which    *)
(* does too; a change that failed before the caches were dropped; a        *)
(* chunked upload or a deletion that finds no row, and leaves them alone   *)
(* as well; a thumbnail cached under another spelling of the path, or for  *)
(* a path with a character that the pattern takes for a wildcard. A second *)
(* reason makes it "several".                                              *)
Excuses == {"none", "raced", "save", "rename", "failed", "norow", "spelled", "several"}

NotReading == [pc |-> "idle", n |-> Absent, id |-> Absent, got |-> Absent]
NotWriting == [pc |-> "idle", op |-> "none", n |-> Absent, to |-> Absent, id |-> Absent,
               found |-> FALSE, raced |-> FALSE]

ThumbsInit ==
    /\ image \in [Paths -> {Absent, 0}]
    /\ ids = [n \in Paths |-> {}]
    /\ thumb = [i \in Ids |-> Absent]
    /\ redis = [n \in Paths |-> Absent]
    /\ unfound = {}
    /\ reader = [r \in Readers |-> NotReading]
    /\ writer = [w \in Writers |-> NotWriting]
    /\ version = 0
    /\ lastId = 0
    /\ excuse = [n \in Paths |-> "none"]

Reads(r, m) == reader' = [reader EXCEPT ![r] = m]
Writes(w, m) == writer' = [writer EXCEPT ![w] = m]

(* The excuse e and one more. *)
Also(e, why) == IF e \in {"none", why} THEN why ELSE "several"
Excused(n, why) == excuse' = [excuse EXCEPT ![n] = Also(@, why)]

(* The change of w, still to be finished, is about n. *)
Concerns(w, n) == n \in {writer[w].n, writer[w].to}

(* The row findOne may return for n. *)
Found(n) == IF ids[n] = {} THEN {Absent} ELSE ids[n]

-----------------------------------------------------------------------------
(* Requests for thumbnails                                                 *)

(* Somebody else comes to the file n, that may be being changed. *)
Joins(n, harmless) ==
    /\ writer' = [w \in Writers |-> IF Concerns(w, n) THEN [writer[w] EXCEPT !.raced = TRUE]
                                    ELSE writer[w]]
    /\ IF harmless /\ ~(\E w \in Writers : Concerns(w, n)) THEN UNCHANGED excuse
       ELSE Excused(n, "raced")

(* The interceptor asks Redis: a hit is the answer. *)
Intercept(r, n) ==
    /\ reader[r] = NotReading
    /\ image[n] # Absent
    /\ Reads(r, [NotReading EXCEPT !.pc = "row", !.n = n])
    /\ Joins(n, TRUE)
    /\ UNCHANGED <<image, ids, caches, version, lastId>>

(* toThumbnail: findOne, unless the original is to be sent. *)
FindUploaded(r) ==
    LET m == reader[r] IN
    /\ m.pc = "row"
    /\ \/ \E i \in Found(m.n) :
             Reads(r, [m EXCEPT !.pc = "look", !.id = i])
       \/ image[m.n] # Absent /\ Reads(r, [m EXCEPT !.pc = "store", !.got = image[m.n]])
    /\ UNCHANGED <<image, ids, caches, writer, version, lastId, excuse>>

(* A thumbnail on disk is sent. *)
FoundOnDisk(r) ==
    LET m == reader[r] IN
    /\ m.pc = "look"
    /\ m.id # Absent /\ thumb[m.id] # Absent
    /\ Reads(r, [m EXCEPT !.pc = "store", !.id = Absent, !.got = thumb[m.id]])
    /\ UNCHANGED <<image, ids, caches, writer, version, lastId, excuse>>

(* There is none, or the flag is set: the image is read and resized. *)
Resize(r) ==
    LET m == reader[r] IN
    /\ m.pc = "look"
    /\ image[m.n] # Absent
    /\ Reads(r, [m EXCEPT !.pc = IF m.id = Absent THEN "store" ELSE "write", !.got = image[m.n]])
    /\ UNCHANGED <<image, ids, caches, writer, version, lastId, excuse>>

WriteThumbnail(r) ==
    LET m == reader[r] IN
    /\ m.pc = "write"
    /\ \/ thumb' = [thumb EXCEPT ![m.id] = m.got]
       \/ UNCHANGED thumb
    /\ Reads(r, [m EXCEPT !.pc = "store", !.id = Absent])
    /\ UNCHANGED <<image, ids, redis, unfound, writer, version, lastId, excuse>>

(* The interceptor reads the stream and caches it under the path of the    *)
(* request.                                                                *)
CacheThumbnail(r) ==
    LET m == reader[r] IN
    /\ m.pc = "store"
    /\ \/ redis' = [redis EXCEPT ![m.n] = m.got] /\ UNCHANGED <<unfound, excuse>>
       \/ /\ unfound' = unfound \cup {m.n}
          /\ Excused(m.n, "spelled")
          /\ UNCHANGED redis
       \/ UNCHANGED <<redis, unfound, excuse>>
    /\ Reads(r, NotReading)
    /\ UNCHANGED <<image, ids, thumb, writer, version, lastId>>

(* The file is gone, or cannot be read; or Redis had the answer. *)
ReadEnds(r) ==
    /\ reader[r] # NotReading
    /\ Reads(r, NotReading)
    /\ UNCHANGED <<image, ids, caches, writer, version, lastId, excuse>>

ExpireThumbnail(n) ==
    /\ \/ /\ redis[n] # Absent
          /\ redis' = [redis EXCEPT ![n] = Absent]
          /\ UNCHANGED unfound
       \/ /\ n \in unfound
          /\ unfound' = unfound \ {n}
          /\ UNCHANGED redis
    /\ UNCHANGED <<image, ids, thumb, reader, writer, version, lastId, excuse>>

(* A download gives a file that has no row one (updateStats). It may have  *)
(* looked before another was inserted: then there are two.                 *)
UpdateStats(n) ==
    /\ lastId < MaxVersion
    /\ ids' = [ids EXCEPT ![n] = @ \cup {lastId + 1}]
    /\ lastId' = lastId + 1
    /\ Joins(n, ids[n] = {})
    /\ UNCHANGED <<image, caches, reader, version>>

-----------------------------------------------------------------------------
(* Changes                                                                 *)

(* A change of the files n and t races with everybody who is at one of     *)
(* them, or holds its row from the time it had another name; excuses are   *)
(* the one of the operation, if any, and the race.                         *)
Start(w, op, n, t, why) ==
    LET ns == {n, t}
        at(v) == \E x \in ns : Concerns(v, x)
        races == \/ \E r \in Readers : \E x \in ns : reader[r].n = x \/ reader[r].id \in ids[x]
                 \/ \E v \in Writers : at(v)
    IN
    /\ writer[w] = NotWriting
    /\ writer' = [v \in Writers |->
          IF v = w THEN [NotWriting EXCEPT !.pc = "find", !.op = op, !.n = n, !.to = t,
                                           !.raced = races]
          ELSE IF at(v) THEN [writer[v] EXCEPT !.raced = TRUE] ELSE writer[v]]
    /\ excuse' = [x \in Paths |->
          LET e == IF why = "none" THEN excuse[x] ELSE Also(excuse[x], why)
          IN  IF x \notin ns THEN excuse[x] ELSE IF races THEN Also(e, "raced") ELSE e]
    /\ UNCHANGED <<ids, caches, reader, lastId>>

NewVersion(n) ==
    /\ version < MaxVersion
    /\ version' = version + 1
    /\ image' = [image EXCEPT ![n] = version + 1]

(* upload, chunkedUploadComplete, save and new write the file first. *)
Store(w, op, n) ==
    /\ NewVersion(n)
    /\ Start(w, op, n, n, IF op \in {"save", "new"} THEN "save" ELSE "none")

Delete(w, n) ==
    /\ image[n] # Absent
    /\ image' = [image EXCEPT ![n] = Absent]
    /\ Start(w, "delete", n, n, "none")
    /\ UNCHANGED version

Rename(w, n, m) ==
    /\ n # m
    /\ image[n] # Absent
    /\ image' = [image EXCEPT ![m] = image[n], ![n] = Absent]
    /\ Start(w, "rename", n, m, "rename")
    /\ UNCHANGED version

(* upload drops the caches for a new row too. *)
Drops(op, id) == op = "upload" \/ (op \in {"chunked", "delete"} /\ id # Absent)

(* findOne (new does not look and inserts a row). A rename moves the row   *)
(* at once: see below.                                                     *)
FindChanged(w) ==
    LET m == writer[w] IN
    /\ m.pc = "find"
    /\ m.op # "rename"
    /\ \E i \in IF m.op = "new" THEN {Absent} ELSE Found(m.n) :
          /\ Writes(w, [m EXCEPT !.pc = IF Drops(m.op, i) THEN "files" ELSE "save", !.id = i])
          /\ IF m.op \in {"chunked", "delete"} /\ i = Absent
             THEN Excused(m.n, "norow") ELSE UNCHANGED excuse
    /\ UNCHANGED <<image, ids, caches, reader, version, lastId>>

(* The row is given the new path, or one is inserted. *)
RenameRow(w) ==
    LET n == writer[w].n
        m == writer[w].to
    IN
    /\ writer[w].pc = "find" /\ writer[w].op = "rename"
    /\ \/ \E i \in ids[n] :
             /\ ids' = [ids EXCEPT ![n] = @ \ {i}, ![m] = @ \cup {i}]
             /\ UNCHANGED lastId
       \/ /\ ids[n] = {} /\ lastId < MaxVersion
          /\ ids' = [ids EXCEPT ![m] = @ \cup {lastId + 1}]
          /\ lastId' = lastId + 1
    /\ Writes(w, NotWriting)
    /\ UNCHANGED <<image, caches, reader, version, excuse>>

(* Mutant: only the files are dropped. *)
InvalidateFiles_Only(w) ==
    LET m == writer[w] IN
    /\ m.pc = "files"
    /\ thumb' = IF m.id = Absent THEN thumb ELSE [thumb EXCEPT ![m.id] = Absent]
    /\ Writes(w, [m EXCEPT !.pc = "save"])
    /\ UNCHANGED <<image, ids, redis, unfound, reader, version, lastId, excuse>>

(* invalidateThumbnailsFor: the files of the row (a new one has none), ... *)
InvalidateFiles(w) ==
    LET m == writer[w] IN
    /\ m.pc = "files"
    /\ thumb' = IF m.id = Absent THEN thumb ELSE [thumb EXCEPT ![m.id] = Absent]
    /\ Writes(w, [m EXCEPT !.pc = "scan"])
    /\ UNCHANGED <<image, ids, redis, unfound, reader, version, lastId, excuse>>

(* ... SCAN for the keys that begin with the path of the row, ... *)
ScanKeys(w) ==
    LET m == writer[w] IN
    /\ m.pc = "scan"
    /\ Writes(w, [m EXCEPT !.pc = "del", !.found = redis[m.n] # Absent])
    /\ UNCHANGED <<image, ids, caches, reader, version, lastId, excuse>>

(* ... and DEL of those. *)
DeleteKeys(w) ==
    LET m == writer[w] IN
    /\ m.pc = "del"
    /\ redis' = IF m.found THEN [redis EXCEPT ![m.n] = Absent] ELSE redis
    /\ Writes(w, [m EXCEPT !.pc = "save", !.found = FALSE])
    /\ UNCHANGED <<image, ids, thumb, unfound, reader, version, lastId, excuse>>

(* The row is inserted, kept or removed. A change that dropped the caches  *)
(* with nobody else at the file makes up for what happened before, if this *)
(* was its only row, whose thumbnails alone are dropped, and no key was    *)
(* left unfound.                                                           *)
SaveChanged(w) ==
    LET m == writer[w]
        cured == Drops(m.op, m.id) /\ ~m.raced /\ ids[m.n] \subseteq {m.id}
                   /\ m.n \notin unfound
    IN
    /\ m.pc = "save"
    /\ \/ /\ m.op # "delete" /\ m.id = Absent /\ lastId < MaxVersion
          /\ ids' = [ids EXCEPT ![m.n] = @ \cup {lastId + 1}]
          /\ lastId' = lastId + 1
       \/ /\ m.op # "delete" /\ m.id # Absent
          /\ UNCHANGED <<ids, lastId>>
       \/ /\ m.op = "delete"
          /\ ids' = [ids EXCEPT ![m.n] = @ \ {m.id}]
          /\ UNCHANGED lastId
    /\ Writes(w, NotWriting)
    /\ excuse' = IF cured THEN [excuse EXCEPT ![m.n] = "none"]
                 ELSE excuse
    /\ UNCHANGED <<image, caches, reader, version>>

(* The database or Redis fails: the file is changed, the rest is left. *)
ChangeFails(w) ==
    /\ writer[w] # NotWriting
    /\ Writes(w, NotWriting)
    /\ Excused(writer[w].n, "failed")
    /\ UNCHANGED <<image, ids, caches, reader, version, lastId>>

-----------------------------------------------------------------------------
Reading(r) ==
    \/ \E n \in Paths : Intercept(r, n)
    \/ FindUploaded(r) \/ FoundOnDisk(r) \/ Resize(r) \/ WriteThumbnail(r)
    \/ CacheThumbnail(r) \/ ReadEnds(r)

Changing(w) ==
    \/ \E n \in Paths, op \in {"upload", "chunked", "save", "new"} : Store(w, op, n)
    \/ \E n \in Paths : Delete(w, n)
    \/ \E n, m \in Paths : Rename(w, n, m)
    \/ RenameRow(w) \/ FindChanged(w) \/ InvalidateFiles(w) \/ ScanKeys(w) \/ DeleteKeys(w)
    \/ SaveChanged(w) \/ ChangeFails(w)

ThumbsNext ==
    \/ \E r \in Readers : Reading(r)
    \/ \E w \in Writers : Changing(w)
    \/ \E n \in Paths : ExpireThumbnail(n) \/ UpdateStats(n)

ThumbsSpec == ThumbsInit /\ [][ThumbsNext]_thumbsVars

-----------------------------------------------------------------------------
ThumbsTypeOK ==
    /\ image \in [Paths -> Versions \cup {Absent}]
    /\ ids \in [Paths -> SUBSET Ids]
    /\ thumb \in [Ids -> Versions \cup {Absent}]
    /\ redis \in [Paths -> Versions \cup {Absent}]
    /\ unfound \subseteq Paths
    /\ reader \in [Readers -> [pc : {"idle", "row", "look", "write", "store"},
                               n : Paths \cup {Absent}, id : Ids \cup {Absent},
                               got : Versions \cup {Absent}]]
    /\ writer \in [Writers -> [pc : {"idle", "find", "files", "scan", "del", "save"},
                               op : {"none", "upload", "chunked", "save", "new", "delete", "rename"},
                               n : Paths \cup {Absent}, to : Paths \cup {Absent}, id : Ids \cup {Absent},
                               found : BOOLEAN, raced : BOOLEAN]]
    /\ version \in 0..MaxVersion /\ lastId \in 0..MaxVersion
    /\ excuse \in [Paths -> Excuses]

(* What a request for n can be answered with from the caches. *)
Cached(n) ==
    IF n \in unfound THEN Versions
    ELSE ({redis[n]} \cup {thumb[i] : i \in ids[n]}) \ {Absent}

UpToDate(n, but) ==
    excuse[n] \in {"none", but} /\ ~(\E w \in Writers : Concerns(w, n))
        => Cached(n) \subseteq {image[n]}

(* "In this case, we'll invalidate old thumbnails": once a file has been   *)
(* uploaded, replaced or deleted, both caches show its present contents or *)
(* nothing, whatever was read before and flags did; if nobody asked for    *)
(* its thumbnail meanwhile.                                                *)
Fresh == \A n \in Paths : UpToDate(n, "none")

(* The same with one more thing happening. *)
FreshThoughRaced == \A n \in Paths : UpToDate(n, "raced")
FreshThoughSaved == \A n \in Paths : UpToDate(n, "save")
FreshThoughRenamed == \A n \in Paths : UpToDate(n, "rename")
FreshWithoutRow == \A n \in Paths : UpToDate(n, "norow")
=============================================================================
