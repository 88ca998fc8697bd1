------------------------------- MODULE TempUrl -------------------------------
(***************************************************************************)
(* Temporary URLs (TempUrlService): links by which others download or      *)
(* overwrite a file of a user, with a limit on the number of requests, an  *)
(* expiry and an access level, until the owner deletes the link.           *)
(*                                                                         *)
(* A request reads the row of the link, checks it, resolves the file,      *)
(* counts itself by saving the row it read, and is served; every arrow is  *)
(* an await. Looking at a link or browsing it (meta, listDir, thumbnail)   *)
(* changes nothing and is left out. Tokens are random and never repeat.    *)
(***************************************************************************)
EXTENDS Integers, FiniteSets

CONSTANTS
    Links,      \* tokens
    Handlers,   \* requests that may be under way together
    Limits,     \* values of max_requests
    MaxServed,  \* bound: requests through one link
    None        \* no row

ASSUME LimitsAssumption == Limits \subseteq Nat
ASSUME BoundAssumption == MaxServed \in Nat
ASSUME HandlersAssumption == IsFiniteSet(Handlers)

(* A TempUrl row; `requests' is the only column that ever changes. The     *)
(* expiry date is in `expired' below.                                      *)
Rows == [requests : Nat, max_requests : Limits, is_readonly : BOOLEAN,
         is_dir : BOOLEAN, authenticated : BOOLEAN]
ASSUME NoneAssumption == None \notin Rows \cup Links

VARIABLES
    row,        \* row[l]: the row of l in the database, or None
    target,     \* target[l]: what is stored under the path of l
    expired,    \* links whose expires_at has passed
    handler,    \* handler[h]: where a request stands, with the row it read
    terms,      \* history: terms[l]: the row the owner generated, or None
    served,     \* history: served[l]: requests served through l
    written,    \* history: links through which a file was written
    revoked,    \* history: links whose owner deleted them
    crossed,    \* history: links on which a request counted itself in a row that was
                \* no longer what it had read: a count was lost, or the row was gone
    pressed     \* history: links deleted while a request through them was under way

history == <<terms, served, written, revoked, crossed, pressed>>
vars == <<row, target, expired, handler, history>>

Targets == {"file", "directory", "gone"}
Ops == {"get", "save"}
Idle == [pc |-> "idle", op |-> "get", link |-> None, temp |-> None]
Busy(h) == handler[h].pc # "idle"

Init ==
    /\ row = [l \in Links |-> None]
    /\ target \in [Links -> {"file", "directory"}]
    /\ expired = {}
    /\ handler = [h \in Handlers |-> Idle]
    /\ terms = [l \in Links |-> None]
    /\ served = [l \in Links |-> 0]
    /\ written = {} /\ revoked = {} /\ crossed = {} /\ pressed = {}

At(h, pc) == handler[h].pc = pc
Become(h, m) == handler' = [handler EXCEPT ![h] = m]

-----------------------------------------------------------------------------
(* The owner of the link.                                                  *)

(* generate(): a share of a directory is always read-only. The expiry date *)
(* comes from the client and may be past.                                  *)
Generate(l, max, readonly, authenticated) ==
    /\ terms[l] = None
    /\ target[l] # "gone"
    /\ LET dir == target[l] = "directory"
           new == [requests |-> 0, max_requests |-> max, is_readonly |-> readonly \/ dir,
                   is_dir |-> dir, authenticated |-> authenticated]
       IN  /\ row' = [row EXCEPT ![l] = new]
           /\ terms' = [terms EXCEPT ![l] = new]
    /\ expired' \in {expired, expired \cup {l}}
    /\ UNCHANGED <<target, handler, served, written, revoked, crossed, pressed>>

Delete(l) ==
    /\ row[l] # None
    /\ row' = [row EXCEPT ![l] = None]
    /\ revoked' = revoked \cup {l}
    /\ pressed' = IF \E h \in Handlers : handler[h].link = l THEN pressed \cup {l} ELSE pressed
    /\ UNCHANGED <<target, expired, handler, terms, served, written, crossed>>

(* The owner deletes the file, or puts a file or a directory in its place. *)
Replace(l, what) ==
    /\ target' = [target EXCEPT ![l] = what]
    /\ UNCHANGED <<row, expired, handler, history>>

Expire(l) ==
    /\ expired' = expired \cup {l}
    /\ UNCHANGED <<row, target, handler, history>>

-----------------------------------------------------------------------------
(* A request: asStream ("get") or save.                                    *)

(* Bound: requests that were or may yet be served through l. *)
Within(l) ==
    served[l] + Cardinality({h \in Handlers : handler[h].link = l}) < MaxServed

(* Mutant: a link that does not exist is not refused. *)
Find_Missing(h, op, l) ==
    /\ At(h, "idle")
    /\ Within(l)
    /\ Become(h, [pc |-> "found", op |-> op, link |-> l, temp |-> row[l]])
    /\ UNCHANGED <<row, target, expired, history>>

(* Mutant: the row is taken from a copy that a deletion does not drop. *)
Find_Cached(h, op, l) ==
    /\ At(h, "idle")
    /\ terms[l] # None
    /\ Within(l)
    /\ Become(h, [pc |-> "found", op |-> op, link |-> l,
                  temp |-> IF row[l] = None THEN terms[l] ELSE row[l]])
    /\ UNCHANGED <<row, target, expired, history>>

(* findOrThrow *)
Find(h, op, l) ==
    /\ At(h, "idle")
    /\ row[l] # None
    /\ Within(l)
    /\ Become(h, [pc |-> "found", op |-> op, link |-> l, temp |-> row[l]])
    /\ UNCHANGED <<row, target, expired, history>>

VerifyUrlConditions(temp, l, readAndWrite) ==
    /\ temp.requests < temp.max_requests
    /\ readAndWrite => ~temp.is_readonly
    /\ l \notin expired

(* assertAuthorized (the cookie is valid or not), then the conditions. *)
Check(h) ==
    /\ At(h, "found")
    /\ LET m == handler[h]
       IN  \E cookie \in BOOLEAN :
             Become(h, IF /\ m.temp.authenticated => cookie
                          /\ m.op = "save" => ~m.temp.is_dir
                          /\ VerifyUrlConditions(m.temp, m.link, m.op = "save")
                       THEN [m EXCEPT !.pc = "checked"]
                       ELSE Idle)
    /\ UNCHANGED <<row, target, expired, history>>

Counting(temp) == [temp EXCEPT !.requests = @ + 1]

(* resolveTarget and the look at the file. Streaming and saving take a     *)
(* file, or for a shared directory a path in it. The request may name a    *)
(* path that is not there, or one within a single file: it is refused.     *)
Resolve(h) ==
    /\ At(h, "checked")
    /\ LET m == handler[h]
       IN  \/ /\ \/ target[m.link] = "file"
                 \/ target[m.link] = "directory" /\ m.temp.is_dir
              /\ Become(h, [pc |-> "resolved", op |-> m.op, link |-> m.link,
                            temp |-> Counting(m.temp)])
           \/ Become(h, Idle)
    /\ UNCHANGED <<row, target, expired, history>>

(* Mutant: a request whose count the database refused is served all the    *)
(* same.                                                                   *)
Count_Unsaved(h) ==
    /\ At(h, "resolved")
    /\ LET m == handler[h]
           now == row[m.link]
       IN  /\ \/ /\ row' = [row EXCEPT ![m.link] = m.temp]
                 /\ crossed' = IF now = None \/ now.requests + 1 # m.temp.requests
                               THEN crossed \cup {m.link} ELSE crossed
              \/ UNCHANGED <<row, crossed>>
           /\ Become(h, [m EXCEPT !.pc = "counted"])
    /\ UNCHANGED <<target, expired, terms, served, written, revoked, pressed>>

(* tempUrlRepo.save(temp): the row is updated, or inserted when it is not  *)
(* there any more; the database may refuse.                                *)
Count(h) ==
    /\ At(h, "resolved")
    /\ LET m == handler[h]
           now == row[m.link]
       IN  \/ /\ row' = [row EXCEPT ![m.link] = m.temp]
              /\ crossed' = IF now = None \/ now.requests + 1 # m.temp.requests
                            THEN crossed \cup {m.link} ELSE crossed
              /\ Become(h, [m EXCEPT !.pc = "counted"])
           \/ UNCHANGED <<row, crossed>> /\ Become(h, Idle)
    /\ UNCHANGED <<target, expired, terms, served, written, revoked, pressed>>

(* The file is streamed, or written, if it is still a file or a path in    *)
(* the shared directory, and nothing fails; writing creates it again when  *)
(* it is gone.                                                             *)
Serve(h) ==
    /\ At(h, "counted")
    /\ LET m == handler[h]
           l == m.link
       IN  \/ /\ \/ target[l] = "file"
                 \/ target[l] = "gone" /\ m.op = "save"
                 \/ target[l] = "directory" /\ m.temp.is_dir
              /\ served' = [served EXCEPT ![l] = @ + 1]
              /\ written' = IF m.op = "save" THEN written \cup {l} ELSE written
              /\ target' = IF m.op = "save" THEN [target EXCEPT ![l] = "file"] ELSE target
           \/ UNCHANGED <<target, served, written>>
    /\ Become(h, Idle)
    /\ UNCHANGED <<row, expired, terms, revoked, crossed, pressed>>

-----------------------------------------------------------------------------
Owner == \/ \E l \in Links, max \in Limits, readonly, authenticated \in BOOLEAN :
                Generate(l, max, readonly, authenticated)
         \/ \E l \in Links : Delete(l)
         \/ \E l \in Links, what \in Targets : Replace(l, what)

Requests == \E h \in Handlers :
               \/ \E op \in Ops, l \in Links : Find(h, op, l)
               \/ Check(h) \/ Resolve(h) \/ Count(h) \/ Serve(h)

Next == Owner \/ Requests \/ \E l \in Links : Expire(l)

Spec == Init /\ [][Next]_vars

-----------------------------------------------------------------------------
(* Rows, requests and counters stay in their types. *)
TypeOK ==
    /\ row \in [Links -> Rows \cup {None}]
    /\ target \in [Links -> Targets]
    /\ expired \subseteq Links
    /\ handler \in [Handlers ->
            [pc : {"found", "checked", "resolved", "counted"}, op : Ops, link : Links,
             temp : Rows] \cup {Idle}]
    /\ terms \in [Links -> Rows \cup {None}]
    /\ served \in [Links -> Nat]
    /\ {written, revoked, crossed, pressed} \subseteq SUBSET Links

(* Whatever requests are interleaved: a file is written through a link     *)
(* only if its owner shared a single file and allowed writing, also when   *)
(* file and directory have changed places since.                           *)
WritesGranted ==
    \A l \in written : terms[l] # None /\ ~terms[l].is_readonly /\ ~terms[l].is_dir

(* Whatever requests are interleaved: the number of requests a link shows  *)
(* never exceeds its limit (isValid, meta).                                *)
CounterBounded == \A l \in Links : row[l] # None => row[l].requests <= row[l].max_requests

(* "Max requests exhausted": however requests are interleaved with each    *)
(* other and with the owner, no more are served through a link than the    *)
(* owner allowed, deleted or not, as long as no count was lost.            *)
LimitKept ==
    \A l \in Links \ crossed : served[l] > 0 => served[l] <= terms[l].max_requests

(* What is done through a link stays within what its owner granted.        *)
GrantKept == WritesGranted /\ CounterBounded /\ LimitKept

(* A link whose deletion was reported as a success does not exist, and     *)
(* lets nobody in, ever again: no request that failed, was refused or came *)
(* late brings its row back, but one that was under way at that moment.    *)
RevokedStays ==
    \A l \in revoked \ pressed :
        row[l] = None /\ \A h \in Handlers : handler[h].link # l

(* The same without the excuses: both are violated. *)
LimitKeptThoughCrossed ==
    \A l \in Links : served[l] > 0 => served[l] <= terms[l].max_requests
RevokedStaysThoughPressed == \A l \in revoked : row[l] = None
-----------------------------------------------------------------------------
(* What the properties rest on.                                            *)

SameTerms(a, b) ==
    /\ a.max_requests = b.max_requests /\ a.authenticated = b.authenticated
    /\ a.is_readonly = b.is_readonly /\ a.is_dir = b.is_dir

(* Every row, in the database or in the hands of a request, has the terms  *)
(* its owner generated.                                                    *)
TermsKept ==
    /\ \A l \in Links : row[l] # None => terms[l] # None /\ SameTerms(row[l], terms[l])
    /\ \A h \in Handlers : Busy(h) =>
            LET m == handler[h]
            IN  terms[m.link] # None /\ SameTerms(m.temp, terms[m.link])

(* A request that was let through has room in its counter and, to write,   *)
(* the permission.                                                         *)
LetThrough ==
    \A h \in Handlers :
        LET m == handler[h]
        IN  /\ m.pc = "checked" => m.temp.requests < m.temp.max_requests
            /\ m.pc \in {"resolved", "counted"} => m.temp.requests <= m.temp.max_requests
            /\ m.pc \in {"checked", "resolved", "counted"} /\ m.op = "save" =>
                    ~m.temp.is_readonly /\ ~m.temp.is_dir

GrantInv == TermsKept /\ LetThrough /\ WritesGranted /\ CounterBounded

(* Requests through l that have counted themselves and are not yet served. *)
Pending(l) == {h \in Handlers : handler[h].pc = "counted" /\ handler[h].link = l}

(* As long as no count is lost, whoever was or will be served is counted   *)
(* in the row; once the row is gone nobody is counted any more.            *)
Counted ==
    \A l \in Links :
        /\ terms[l] = None => served[l] = 0 /\ Pending(l) = {}
        /\ l \notin crossed /\ terms[l] # None =>
              /\ served[l] + Cardinality(Pending(l)) <= terms[l].max_requests
              /\ row[l] # None => served[l] + Cardinality(Pending(l)) <= row[l].requests

Gone == RevokedStays /\ \A l \in revoked : terms[l] # None

UseInv == Counted /\ Gone
=============================================================================
