------------------------------- MODULE Uploads -------------------------------
(***************************************************************************)
(* Files going into the drive of one user and out of it (FilesService and  *)
(* its controller): whole uploads, chunked uploads, the quota both are     *)
(* checked against, and downloads of byte ranges.                          *)
(*                                                                         *)
(* A chunked upload is a session in the memory of the process: its parts   *)
(* are stored in a directory next to the destination, and completion       *)
(* streams them into the destination one after the other. The quota is     *)
(* checked against a total that is cached for an hour.                     *)
(*                                                                         *)
(* The unit of size is a part. One action is what happens between two      *)
(* awaits of a handler.                                                    *)
(***************************************************************************)
EXTENDS Integers, Sequences, FiniteSets

CONSTANTS
    Names,      \* destinations
    Hidden,     \* those whose path below the user's root begins with a dot
    Sessions,   \* upload ids; each is given out once
    Handlers,   \* requests in flight
    MaxSize,    \* bound: the size of an upload, in parts
    MaxData,    \* user.getMaxData()
    MaxRequests,\* bound: uploads, sessions and completions asked for
    Direct,     \* stands for the contents of whole uploads
    None

ASSUME MaxAssumption == MaxSize \in Nat \ {0} /\ MaxData \in Nat /\ MaxRequests \in Nat
ASSUME NamesAssumption == IsFiniteSet(Names) /\ Hidden \subseteq Names /\ Direct \notin Sessions
ASSUME NoneAssumption == None \notin Names \cup Sessions /\ None \notin Nat

VARIABLES
    disk,       \* disk[n]: the parts stored under n, or None
    tmp,        \* tmp[n][i]: who wrote part_i of n.chunked_tmp; None: no such directory
    rows,       \* rows[n]: UploadedFile rows of n
    session,    \* FilesService.chunkedUploads, and the sessions that are gone
    handler,    \* handler[h]: where the request stands
    cache,      \* the cached total of used_data, or None
    requests,   \* number of requests so far
    told,       \* history: told[n]: the completion last reported as done, None once
                \* anything was written to n again
    rough       \* history: what happened that this design does not stand

store == <<disk, tmp, rows>>
vars == <<store, session, handler, cache, requests, told, rough>>

(* Two uploads to one name at a time; a completion asked for twice; whole  *)
(* uploads in parallel; chunked uploads at all, which never update the     *)
(* total; a total that expires between EXISTS and GET; an upload that ends *)
(* between storing the file and updating the total; a whole upload into a  *)
(* hidden directory, which a total summed up later leaves out.             *)
Roughness == {"shared", "again", "parallel", "chunked", "gap", "uncounted", "hidden"}

Sizes == 1..MaxSize
Index == 0..(MaxSize - 1)

Idle == [pc |-> "idle", op |-> "none", n |-> None, size |-> 0, used |-> 0,
         s |-> None, k |-> 0, hit |-> FALSE]
Unused == [st |-> "unused", n |-> None, size |-> 0, got |-> {}]
NoParts == [i \in Index |-> None]

Init ==
    /\ disk = [n \in Names |-> None]
    /\ tmp = [n \in Names |-> None]
    /\ rows = [n \in Names |-> 0]
    /\ session = [s \in Sessions |-> Unused]
    /\ handler = [h \in Handlers |-> Idle]
    /\ cache = None
    /\ requests = 0
    /\ told = [n \in Names |-> None]
    /\ rough = {}

-----------------------------------------------------------------------------
Part(who, i) == [of |-> who, i |-> i]
Size(n) == IF disk[n] = None THEN 0 ELSE Len(disk[n])
PartFiles(n) == IF tmp[n] = None THEN {} ELSE {i \in Index : tmp[n][i] # None}

(* The parts stored under these names, in a file or not yet in one. *)
SizeOf(names) ==
    Cardinality(UNION {{n} \X (0..(Size(n) - 1)) : n \in names})
    + Cardinality(UNION {{n} \X PartFiles(n) : n \in names})

(* What getUsedData sums up: every file that listrecursive() lists, which  *)
(* are those below the user's root, the parts of chunked uploads included, *)
(* but for the hidden ones.                                                *)
Total == SizeOf(Names \ Hidden)

(* A write at offset k of an open file, whatever became of the file. *)
WriteAt(file, k, part) ==
    [i \in 1..(IF k + 1 > Len(file) THEN k + 1 ELSE Len(file)) |->
        IF i = k + 1 THEN part ELSE IF i <= Len(file) THEN file[i] ELSE Part(None, 0)]

Become(h, m) == handler' = [handler EXCEPT ![h] = m]
At(h, op, pc) == handler[h].op = op /\ handler[h].pc = pc
Others(h) == {handler[g] : g \in Handlers \ {h}}
Cause(c, happens) == rough' = rough \cup IF happens THEN {c} ELSE {}
Written(n) == told' = [told EXCEPT ![n] = None]
Requested == requests < MaxRequests /\ requests' = requests + 1
Gone(s) == session' = [session EXCEPT ![s].st = "gone"]

-----------------------------------------------------------------------------
(* The quota.                                                              *)

(* upload and chunkedUploadInit ask getUsedData first: it finds the total  *)
(* in the cache (EXISTS, then GET) or walks the tree and caches the sum.   *)
Ask(h, op, n, size) ==
    /\ handler[h] = Idle
    /\ Requested
    /\ IF cache = None
       THEN cache' = Total
            /\ Become(h, [Idle EXCEPT !.pc = "check", !.op = op, !.n = n, !.size = size,
                                      !.used = Total])
       ELSE Become(h, [Idle EXCEPT !.pc = "get", !.op = op, !.n = n, !.size = size])
            /\ UNCHANGED cache
    /\ rough' = rough
          \cup (IF \E o \in Others(h) : o.op = "upload" THEN {"parallel"} ELSE {})
          \cup (IF \E o \in Others(h) : o.op # "none" /\ o.n = n THEN {"shared"} ELSE {})
    /\ UNCHANGED <<store, session, told>>

(* The answer to GET. A total that has expired since EXISTS reads as an    *)
(* empty one.                                                              *)
GetUsedData(h) ==
    /\ handler[h].pc = "get"
    /\ Become(h, [handler[h] EXCEPT !.pc = "check", !.used = IF cache = None THEN 0 ELSE cache])
    /\ Cause("gap", cache = None)
    /\ UNCHANGED <<store, session, cache, requests, told>>

(* Mutant: the size of the new file is not added. *)
Fits_Exclusive(h) == handler[h].used <= MaxData

Fits(h) == handler[h].used + handler[h].size <= MaxData

Refuse(h) ==
    /\ handler[h].pc = "check"
    /\ ~Fits(h)
    /\ Become(h, Idle)
    /\ UNCHANGED <<store, session, cache, requests, told, rough>>

Expire ==
    /\ cache # None
    /\ cache' = None
    /\ UNCHANGED <<store, session, handler, requests, told, rough>>

-----------------------------------------------------------------------------
(* upload                                                                  *)

UploadWrite(h) ==
    LET n == handler[h].n IN
    /\ At(h, "upload", "check")
    /\ Fits(h)
    /\ disk' = [disk EXCEPT ![n] = [i \in 1..handler[h].size |-> Part(Direct, i - 1)]]
    /\ Written(n)
    /\ Become(h, [handler[h] EXCEPT !.pc = "index"])
    /\ Cause("hidden", n \in Hidden)
    /\ UNCHANGED <<tmp, rows, session, cache, requests>>

(* findOne answers, for upload and for chunkedUploadComplete. *)
FindRow(h) ==
    /\ handler[h].pc = "index"
    /\ Become(h, [handler[h] EXCEPT !.pc = "save", !.hit = rows[handler[h].n] > 0])
    /\ UNCHANGED <<store, session, cache, requests, told, rough>>

(* A row that was found is kept, one that was not is inserted. *)
SaveRow(h) ==
    rows' = [rows EXCEPT ![handler[h].n] = IF handler[h].hit THEN @ ELSE @ + 1]

UploadSave(h) ==
    /\ At(h, "upload", "save")
    /\ SaveRow(h)
    /\ Become(h, [handler[h] EXCEPT !.pc = "count"])
    /\ UNCHANGED <<disk, tmp, session, cache, requests, told, rough>>

(* The total this upload read, plus its own size. *)
UploadCount(h) ==
    /\ At(h, "upload", "count")
    /\ cache' = handler[h].used + handler[h].size
    /\ Become(h, Idle)
    /\ UNCHANGED <<store, session, requests, told, rough>>

(* The database or the thumbnail cache fails: the file stays. *)
UploadFails(h) ==
    /\ handler[h].op = "upload" /\ handler[h].pc \in {"index", "save", "count"}
    /\ Become(h, Idle)
    /\ Cause("uncounted", TRUE)
    /\ UNCHANGED <<store, session, cache, requests, told>>

-----------------------------------------------------------------------------
(* Chunked uploads                                                         *)

ChunkedUploadInit(h, s) ==
    LET n == handler[h].n IN
    /\ At(h, "init", "check")
    /\ Fits(h)
    /\ session[s].st = "unused"
    /\ tmp' = [tmp EXCEPT ![n] = IF @ = None THEN NoParts ELSE @]
    /\ session' = [session EXCEPT ![s] = [st |-> "open", n |-> n,
                                          size |-> handler[h].size, got |-> {}]]
    /\ Become(h, Idle)
    /\ rough' = rough \cup {"chunked"}
          \cup IF \E z \in Sessions : session[z].st = "open" /\ session[z].n = n
               THEN {"shared"} ELSE {}
    /\ UNCHANGED <<disk, rows, cache, requests, told>>

(* Parts come in any order, and may be sent again. *)
ChunkedUploadPart(s, i) ==
    LET n == session[s].n IN
    /\ session[s].st = "open"
    /\ i < session[s].size
    /\ tmp[n] # None
    /\ tmp' = [tmp EXCEPT ![n][i] = s]
    /\ session' = [session EXCEPT ![s].got = @ \cup {i}]
    /\ UNCHANGED <<disk, rows, handler, cache, requests, told, rough>>

(* Completion is asked for once all parts are acknowledged. It truncates   *)
(* the destination.                                                        *)
ChunkedUploadComplete(h, s) ==
    LET n == session[s].n IN
    /\ handler[h] = Idle
    /\ Requested
    /\ session[s].st = "open"
    /\ session[s].got = 0..(session[s].size - 1)
    /\ disk' = [disk EXCEPT ![n] = <<>>]
    /\ Written(n)
    /\ Become(h, [Idle EXCEPT !.pc = "pipe", !.op = "complete", !.n = n, !.s = s,
                              !.size = session[s].size])
    /\ rough' = rough
          \cup (IF \E o \in Others(h) : o.s = s THEN {"again"} ELSE {})
          \cup (IF \E o \in Others(h) : o.op # "none" /\ o.n = n THEN {"shared"} ELSE {})
    /\ UNCHANGED <<tmp, rows, session, cache>>

(* The finally block: the session is released. *)
Release(h) == Become(h, Idle) /\ Gone(handler[h].s)

HasPart(h) == tmp[handler[h].n] # None /\ tmp[handler[h].n][handler[h].k] # None

(* pipeline() of one part into the destination. *)
Pipe(h) ==
    LET m == handler[h] IN
    /\ At(h, "complete", "pipe")
    /\ HasPart(h)
    /\ disk' = [disk EXCEPT ![m.n] = WriteAt(@, m.k, Part(tmp[m.n][m.k], m.k))]
    /\ Written(m.n)
    /\ Become(h, [m EXCEPT !.pc = "piped"])
    /\ UNCHANGED <<tmp, rows, session, cache, requests, rough>>

(* Mutant: the last part is left out. *)
Piped_OneLess(h) ==
    LET m == handler[h]
        last == m.k + 2 >= m.size
    IN
    /\ At(h, "complete", "piped")
    /\ HasPart(h)
    /\ tmp' = [tmp EXCEPT ![m.n] = IF last THEN None ELSE [@ EXCEPT ![m.k] = None]]
    /\ Become(h, IF last THEN [m EXCEPT !.pc = "index"]
                 ELSE [m EXCEPT !.pc = "pipe", !.k = @ + 1])
    /\ UNCHANGED <<disk, rows, session, cache, requests, told, rough>>

(* The part is unlinked, after the last one the directory is removed with  *)
(* whatever it still holds.                                                *)
Piped(h) ==
    LET m == handler[h]
        last == m.k + 1 = m.size
    IN
    /\ At(h, "complete", "piped")
    /\ HasPart(h)
    /\ tmp' = [tmp EXCEPT ![m.n] = IF last THEN None ELSE [@ EXCEPT ![m.k] = None]]
    /\ Become(h, IF last THEN [m EXCEPT !.pc = "index"]
                 ELSE [m EXCEPT !.pc = "pipe", !.k = @ + 1])
    /\ UNCHANGED <<disk, rows, session, cache, requests, told, rough>>

(* The part cannot be read or unlinked, the destination cannot be written, *)
(* or the database fails.                                                  *)
CompleteFails(h) ==
    /\ handler[h].op = "complete"
    /\ Release(h)
    /\ UNCHANGED <<store, cache, requests, told, rough>>

CompleteSave(h) ==
    /\ At(h, "complete", "save")
    /\ SaveRow(h)
    /\ Release(h)
    /\ told' = [told EXCEPT ![handler[h].n] = handler[h].s]
    /\ UNCHANGED <<disk, tmp, cache, requests, rough>>

-----------------------------------------------------------------------------
(* Downloads                                                               *)

(* A Range header: first and last byte, each of which may be left out. *)
Positions == 0..(MaxSize + 1)
Ranges == [first : Positions \cup {None}, last : Positions \cup {None}]

(* The status of an answer and the bytes it announces. *)
Reply(status, start, end) == [status |-> status, start |-> start, end |-> end]

(* Mutant: the end of the range is taken as it comes. *)
ParseByteRange_Unclamped(r, total) ==
    LET end == IF r.last = None THEN total - 1 ELSE r.last
    IN  IF r.first = None /\ r.last = None THEN Reply(200, 0, total - 1)
        ELSE IF total = 0 \/ (r.first = None /\ r.last = 0) THEN Reply(416, 0, 0)
        ELSE IF r.first = None
        THEN Reply(206, IF r.last > total THEN 0 ELSE total - r.last, total - 1)
        ELSE IF r.first >= total \/ end < r.first THEN Reply(416, 0, 0)
        ELSE Reply(206, r.first, end)

(* parseByteRange: what its three results (undefined, "unsatisfiable", a   *)
(* range) are answered with. Only the first range of a header is looked    *)
(* at, and getFile asks for audio and video alone: what else there is, it  *)
(* sends as a whole.                                                       *)
ParseByteRange(r, total) ==
    LET end == IF r.last = None \/ r.last >= total THEN total - 1 ELSE r.last
    IN  IF r.first = None /\ r.last = None THEN Reply(200, 0, total - 1)
        ELSE IF total = 0 \/ (r.first = None /\ r.last = 0) THEN Reply(416, 0, 0)
        ELSE IF r.first = None
        THEN Reply(206, IF r.last > total THEN 0 ELSE total - r.last, total - 1)
        ELSE IF r.first >= total \/ end < r.first THEN Reply(416, 0, 0)
        ELSE Reply(206, r.first, end)

-----------------------------------------------------------------------------
(* The process dies: sessions and requests are forgotten, files stay. *)
Crash ==
    /\ \E h \in Handlers : handler[h] # Idle
    /\ handler' = [h \in Handlers |-> Idle]
    /\ session' = [s \in Sessions |->
                    IF session[s].st = "open" THEN [session[s] EXCEPT !.st = "gone"]
                    ELSE session[s]]
    /\ Cause("uncounted", \E h \in Handlers : handler[h].op = "upload")
    /\ UNCHANGED <<store, cache, requests, told>>

Continue(h) ==
    \/ GetUsedData(h) \/ Refuse(h)
    \/ UploadWrite(h) \/ FindRow(h) \/ UploadSave(h) \/ UploadCount(h)
    \/ \E s \in Sessions : ChunkedUploadInit(h, s)
    \/ Pipe(h) \/ Piped(h) \/ CompleteSave(h)

Request(h) ==
    \/ \E n \in Names, size \in Sizes : Ask(h, "upload", n, size) \/ Ask(h, "init", n, size)
    \/ \E s \in Sessions : ChunkedUploadComplete(h, s)

Failing(h) == UploadFails(h) \/ CompleteFails(h)

Next ==
    \/ \E h \in Handlers : Request(h) \/ Continue(h) \/ Failing(h)
    \/ \E s \in Sessions, i \in Index : ChunkedUploadPart(s, i)
    \/ Expire \/ Crash

Spec == Init /\ [][Next]_vars

-----------------------------------------------------------------------------
TypeOK ==
    /\ disk \in [Names -> Seq([of : Sessions \cup {Direct, None}, i : Index]) \cup {None}]
    /\ tmp \in [Names -> [Index -> Sessions \cup {None}] \cup {None}]
    /\ rows \in [Names -> Nat]
    /\ session \in [Sessions -> [st : {"unused", "open", "gone"}, n : Names \cup {None},
                                 size : Sizes \cup {0}, got : SUBSET Index]]
    /\ handler \in [Handlers ->
            [pc : {"idle", "get", "check", "index", "save", "count", "pipe", "piped"},
             op : {"none", "upload", "init", "complete"}, n : Names \cup {None},
             size : Sizes \cup {0}, used : Nat, s : Sessions \cup {None}, k : Index,
             hit : BOOLEAN]]
    /\ cache \in Nat \cup {None}
    /\ requests \in 0..MaxRequests
    /\ told \in [Names -> Sessions \cup {None}]
    /\ rough \subseteq Roughness

Assembled(s) == [i \in 1..session[s].size |-> Part(s, i - 1)]

(* "Assembles all uploaded chunks into the final file and saves it": a     *)
(* file whose completion was reported as a success consists of the parts   *)
(* of that session, in order, and has one row, until it is written again;  *)
(* as long as one upload at a time goes to a name.                         *)
AssembledWhole ==
    rough \cap {"shared", "again"} = {} =>
        \A n \in Names : told[n] # None => disk[n] = Assembled(told[n]) /\ rows[n] = 1

(* "You don't have enough space": whenever the cached total expires and    *)
(* whatever was refused or replaced, as long as whole uploads come one     *)
(* after the other, the files of a user that are counted stay within the   *)
(* quota, and when none was hidden all that is stored does.                *)
QuotaKept ==
    rough \cap {"parallel", "chunked", "gap", "uncounted"} = {} =>
        /\ Total <= MaxData
        /\ "hidden" \notin rough => SizeOf(Names) <= MaxData

(* What a Range header asks for of a file of that size. *)
AskedFor(r, total) ==
    IF r.first = None THEN {i \in 0..(total - 1) : r.last # None => i + r.last >= total}
    ELSE {i \in 0..(total - 1) : r.first <= i /\ (r.last # None => i <= r.last)}

(* Seeking in a media file, whatever its size: the bytes announced are the *)
(* bytes of the (first) range the client asks for, and the file has them;  *)
(* a range that is refused has none.                                       *)
RangeHonoured ==
    \A n \in Names, r \in Ranges :
        LET reply == ParseByteRange(r, Size(n))
        IN  (IF reply.status = 416 THEN {} ELSE reply.start..reply.end) = AskedFor(r, Size(n))

(* The same without one of the conditions. *)
WholeDespiteSharing ==
    \A n \in Names : told[n] # None /\ "again" \notin rough => disk[n] = Assembled(told[n])
QuotaDespiteChunks == rough \subseteq {"chunked"} => Total <= MaxData
QuotaDespiteParallel == rough \subseteq {"parallel", "shared"} => Total <= MaxData
QuotaDespiteHidden == rough \subseteq {"hidden"} => SizeOf(Names) <= MaxData
=============================================================================
