--------------------------- MODULE ReplicaRegistry ---------------------------
(***************************************************************************)
(* The master's registry of replicas (ReplicationService): a Redis hash    *)
(* with an entry per replica, renewed by each of its requests, and the     *)
(* hourly job that mails about entries that are older than 24 hours and    *)
(* removes them. The job may run several times at once.                    *)
(*                                                                         *)
(* Of an entry the age and the number of requests are kept. One action is  *)
(* what happens between two awaits.                                        *)
(***************************************************************************)
EXTENDS Integers, FiniteSets

CONSTANTS
    Replicas,       \* keys of the hash
    Requests,       \* requests that may be in flight
    Checkers,       \* runs of checkStaleReplicas that may be in flight
    MaxRequests,    \* bound: requests
    Nobody          \* no entry, no replica

ASSUME RequestsAssumption == MaxRequests \in Nat
ASSUME NobodyAssumption == Nobody \notin Replicas

VARIABLES
    entry,      \* entry[r]: the record of r, or Nobody
    request,    \* request[q]: whose it is and what HGET returned
    check,      \* check[c]: the stale entries of its snapshot, and the one it is at
    asked,      \* asked[r]: requests of r
    lapses,     \* history: lapses[r]: how often r has gone stale
    mails,      \* history: mails[r]: how often it was mailed about
    revived     \* history: replicas that asked while a run held them for stale

registryVars == <<entry, request, check, asked, lapses, mails, revived>>

Entry(seen, count) == [seen |-> seen, count |-> count]
NoRequest == [pc |-> "idle", r |-> Nobody, count |-> 0]
NoCheck == [pc |-> "idle", todo |-> {}, at |-> Nobody]
Holding(c) == check[c].todo \cup {check[c].at}

RegistryInit ==
    /\ entry = [r \in Replicas |-> Nobody]
    /\ request = [q \in Requests |-> NoRequest]
    /\ check = [c \in Checkers |-> NoCheck]
    /\ asked = [r \in Replicas |-> 0]
    /\ lapses = [r \in Replicas |-> 0]
    /\ mails = [r \in Replicas |-> 0]
    /\ revived = {}

-----------------------------------------------------------------------------
(* recordReplicaRequest: HGET ... *)
RecordRead(q, r) ==
    /\ request[q] = NoRequest
    /\ asked[r] < MaxRequests
    /\ asked' = [asked EXCEPT ![r] = @ + 1]
    /\ request' = [request EXCEPT ![q] = [pc |-> "set", r |-> r, count |->
                        IF entry[r] = Nobody THEN 0 ELSE entry[r].count]]
    /\ UNCHANGED <<entry, check, lapses, mails, revived>>

(* ... and HSET of what was read, with the time and one more request. *)
RecordWrite(q) ==
    LET r == request[q].r IN
    /\ request[q].pc = "set"
    /\ entry' = [entry EXCEPT ![r] = Entry("fresh", request[q].count + 1)]
    /\ request' = [request EXCEPT ![q] = NoRequest]
    /\ revived' = IF \E c \in Checkers : r \in Holding(c) THEN revived \cup {r} ELSE revived
    /\ UNCHANGED <<check, asked, lapses, mails>>

(* 24 hours without a request. *)
GoStale(r) ==
    /\ entry[r] # Nobody /\ entry[r].seen = "fresh"
    /\ entry' = [entry EXCEPT ![r].seen = "stale"]
    /\ lapses' = [lapses EXCEPT ![r] = @ + 1]
    /\ UNCHANGED <<request, check, asked, mails, revived>>

-----------------------------------------------------------------------------
(* checkStaleReplicas: HGETALL. Entries that are not stale are passed over. *)
CheckStale(c) ==
    /\ check[c] = NoCheck
    /\ \E r \in Replicas : entry[r] # Nobody
    /\ check' = [check EXCEPT ![c] =
         [pc |-> "claim", at |-> Nobody,
          todo |-> {r \in Replicas : entry[r] # Nobody /\ entry[r].seen = "stale"}]]
    /\ UNCHANGED <<entry, request, asked, lapses, mails, revived>>

(* Mutant: what HDEL returned is not looked at. *)
Claimed_Always(r) == TRUE

(* HDEL removed the entry. *)
Claimed(r) == entry[r] # Nobody

Claim(c, r) ==
    /\ check[c].pc = "claim"
    /\ r \in check[c].todo
    /\ entry' = [entry EXCEPT ![r] = Nobody]
    /\ check' = [check EXCEPT ![c] =
         [pc |-> IF Claimed(r) THEN "mail" ELSE "claim", todo |-> @.todo \ {r},
          at |-> IF Claimed(r) THEN r ELSE Nobody]]
    /\ UNCHANGED <<request, asked, lapses, mails, revived>>

SendEmail(c) ==
    /\ check[c].pc = "mail"
    /\ mails' = [mails EXCEPT ![check[c].at] = @ + 1]
    /\ check' = [check EXCEPT ![c] = [@ EXCEPT !.pc = "claim", !.at = Nobody]]
    /\ UNCHANGED <<entry, request, asked, lapses, revived>>

(* Sending fails, or Redis does: the rest has to wait for the next run. *)
CheckFails(c) ==
    /\ check[c] # NoCheck
    /\ check' = [check EXCEPT ![c] = NoCheck]
    /\ UNCHANGED <<entry, request, asked, lapses, mails, revived>>

CheckEnds(c) ==
    /\ check[c].pc = "claim"
    /\ check[c].todo = {}
    /\ check' = [check EXCEPT ![c] = NoCheck]
    /\ UNCHANGED <<entry, request, asked, lapses, mails, revived>>

CheckStep(c) ==
    \/ CheckStale(c) \/ SendEmail(c) \/ CheckFails(c) \/ CheckEnds(c)
    \/ \E r \in Replicas : Claim(c, r)

RegistryNext ==
    \/ \E q \in Requests : RecordWrite(q) \/ \E r \in Replicas : RecordRead(q, r)
    \/ \E c \in Checkers : CheckStep(c)
    \/ \E r \in Replicas : GoStale(r)

-----------------------------------------------------------------------------
RegistryTypeOK ==
    /\ entry \in [Replicas -> [seen : {"fresh", "stale"}, count : 1..MaxRequests]
                              \cup {Nobody}]
    /\ request \in [Requests -> [pc : {"idle", "set"}, r : Replicas \cup {Nobody},
                                 count : 0..MaxRequests]]
    /\ check \in [Checkers -> [pc : {"idle", "claim", "mail"}, todo : SUBSET Replicas,
                               at : Replicas \cup {Nobody}]]
    /\ asked \in [Replicas -> 0..MaxRequests]
    /\ lapses \in [Replicas -> Nat] /\ mails \in [Replicas -> Nat]
    /\ revived \subseteq Replicas

(* "The alert fires exactly once per stale replica even if this cron runs  *)
(* concurrently": never more mails about a replica than times it went      *)
(* stale, if it did not come back while a run held it for stale.           *)
AlertedOnce == \A r \in Replicas : r \notin revived => mails[r] <= lapses[r]

(* The same whenever it comes back. *)
AlertedOnceThoughBack == \A r \in Replicas : mails[r] <= lapses[r]

(* "Bumping its ... request count": all requests are counted while the     *)
(* entry lives.                                                            *)
AllCounted ==
    \A r \in Replicas :
        (lapses[r] = 0 /\ \A q \in Requests : request[q] = NoRequest) =>
            asked[r] = IF entry[r] = Nobody THEN 0 ELSE entry[r].count
=============================================================================
