---------------------- MODULE DatabaseReplicationProofs ----------------------
(***************************************************************************)
(* What the replication service guarantees for any number of replicas,     *)
(* requests and overlapping runs of the hourly job: the registry keeps its *)
(* types, and no replica is mailed about more often than it went stale, as *)
(* long as it does not come back meanwhile (AlertedOnce). On the replica   *)
(* at most one copy of the databases is under way, and one that is         *)
(* reported is a clean replacement (CleanReplace), for any number of       *)
(* tables, batches and jobs.                                               *)
(***************************************************************************)
EXTENDS DatabaseReplication, SequenceTheorems, TLAPS

(* What HGET returned is behind what was asked, and a request that is in   *)
(* flight, or a mail that is due, is about a replica.                      *)
Counting ==
    /\ \A r \in Replicas : entry[r] # Nobody => entry[r].count <= asked[r]
    /\ \A q \in Requests : request[q].pc = "set" =>
            request[q].r \in Replicas /\ request[q].count < asked[request[q].r]

Stale(r) == entry[r] # Nobody /\ entry[r].seen = "stale"
Due(r) == \E c \in Checkers : check[c].at = r

(* A run of the job is at a replica exactly while it mails about it. *)
Mailing == \A c \in Checkers : /\ check[c].pc = "mail" => check[c].at \in Replicas
                               /\ check[c].pc # "mail" => check[c].at = Nobody

(* A replica that has not come back is still as the snapshot saw it, or    *)
(* claimed; and the one whose HDEL removed it is the only one to mail.     *)
HeldIsStale == \A r \in Replicas, c \in Checkers :
    r \notin revived /\ r \in Holding(c) => entry[r] = Nobody \/ Stale(r)
ClaimedOnce == \A r \in Replicas, c, d \in Checkers :
    r \notin revived /\ check[c].at = r =>
        entry[r] = Nobody /\ (check[d].at = r => d = c)

(* A lapse pays for the entry that is stale, the mail that is due and the  *)
(* mails that were sent.                                                   *)
Paid == \A r \in Replicas : r \notin revived =>
    mails[r] + (IF Due(r) THEN 1 ELSE 0) + (IF Stale(r) THEN 1 ELSE 0) <= lapses[r]

RInv == RegistryTypeOK /\ Counting /\ Mailing /\ HeldIsStale /\ ClaimedOnce /\ Paid

-----------------------------------------------------------------------------
(* The records of requests and checks. *)
RequestType == [pc : {"idle", "set"}, r : Replicas \cup {Nobody}, count : 0..MaxRequests]
CheckType == [pc : {"idle", "claim", "mail"}, todo : SUBSET Replicas, at : Replicas \cup {Nobody}]
EntryType == [seen : {"fresh", "stale"}, count : 1..MaxRequests]

(* The idle records are records, and no record is Nobody's. *)
LEMMA IdleFacts ==
    /\ NoRequest \in RequestType /\ NoRequest.pc = "idle"
    /\ NoCheck \in CheckType /\ NoCheck.pc = "idle" /\ NoCheck.at = Nobody /\ NoCheck.todo = {}
BY RequestsAssumption DEF NoRequest, NoCheck, RequestType, CheckType

(* What is known of each entry, request and check. *)
LEMMA RegistryFacts ==
    ASSUME RInv
    PROVE  /\ entry \in [Replicas -> EntryType \cup {Nobody}]
           /\ request \in [Requests -> RequestType]
           /\ check \in [Checkers -> CheckType]
           /\ asked \in [Replicas -> 0..MaxRequests]
           /\ lapses \in [Replicas -> Nat] /\ mails \in [Replicas -> Nat]
           /\ revived \subseteq Replicas
BY DEF RInv, RegistryTypeOK, EntryType, RequestType, CheckType

(* HGET and the count of what was asked. *)
LEMMA ReadStep == ASSUME RInv, NEW q \in Requests, NEW r \in Replicas, RecordRead(q, r) PROVE RInv'
<1> DEFINE n == IF entry[r] = Nobody THEN 0 ELSE entry[r].count
           e == [pc |-> "set", r |-> r, count |-> n]
<1>1. /\ asked[r] < MaxRequests /\ asked' = [asked EXCEPT ![r] = @ + 1]
      /\ request' = [request EXCEPT ![q] = e]
      /\ UNCHANGED <<entry, check, lapses, mails, revived>>
  BY DEF RecordRead
<1>2. n \in 0..MaxRequests /\ n <= asked[r] /\ asked[r] \in 0..MaxRequests
  BY RegistryFacts, RequestsAssumption DEF RInv, Counting, EntryType
<1>3. e \in RequestType /\ e.r = r /\ e.count = n
  BY <1>2 DEF RequestType
<1> HIDE DEF e, n
<1>4. asked' \in [Replicas -> 0..MaxRequests] /\ request' \in [Requests -> RequestType]
  BY <1>1, <1>2, <1>3, RegistryFacts, RequestsAssumption
<1>5. RegistryTypeOK'
  BY <1>1, <1>4 DEF RInv, RegistryTypeOK, RequestType
<1>6. \A x \in Replicas : asked'[x] >= asked[x] /\ asked'[r] = asked[r] + 1
  BY <1>1, RegistryFacts
<1>7. Counting'
  <2>1. ASSUME NEW x \in Replicas, entry[x] # Nobody PROVE entry[x].count <= asked'[x]
    BY <1>1, <1>6, <2>1, RegistryFacts, RequestsAssumption DEF RInv, Counting, EntryType
  <2>2. ASSUME NEW p \in Requests, request'[p].pc = "set"
        PROVE  request'[p].r \in Replicas /\ request'[p].count < asked'[request'[p].r]
    <3>1. CASE p = q
      BY <1>1, <1>2, <1>3, <1>6, <3>1, RegistryFacts
    <3>2. CASE p # q
      <4>1. request'[p] = request[p] /\ request[p].r \in Replicas
            /\ request[p].count < asked[request[p].r] /\ request[p].count \in Int
        BY <1>1, <2>2, <3>2, RegistryFacts DEF RInv, Counting, RequestType
      <4>2. asked[request[p].r] \in Int /\ asked'[request[p].r] \in Int
        BY <1>4, <4>1, RegistryFacts
      <4> QED BY <1>6, <4>1, <4>2
    <3> QED BY <3>1, <3>2
  <2> QED BY <1>1, <2>1, <2>2 DEF Counting
<1>8. Mailing' /\ HeldIsStale' /\ ClaimedOnce' /\ Paid'
  BY <1>1 DEF RInv, Mailing, HeldIsStale, ClaimedOnce, Paid, Holding, Stale, Due
<1> QED BY <1>5, <1>7, <1>8 DEF RInv

(* HSET: the replica is back, and whoever holds it for stale is wrong.     *)
LEMMA WriteStep == ASSUME RInv, NEW q \in Requests, RecordWrite(q) PROVE RInv'
<1> DEFINE r == request[q].r
           e == Entry("fresh", request[q].count + 1)
<1>1. /\ request[q].pc = "set"
      /\ entry' = [entry EXCEPT ![r] = e]
      /\ request' = [request EXCEPT ![q] = NoRequest]
      /\ revived' = IF \E c \in Checkers : r \in Holding(c) THEN revived \cup {r} ELSE revived
      /\ UNCHANGED <<check, asked, lapses, mails>>
  BY DEF RecordWrite
<1>2. r \in Replicas /\ request[q].count < asked[r] /\ request[q].count \in 0..MaxRequests
  BY <1>1, RegistryFacts DEF RInv, Counting, RequestType
<1>3. asked[r] \in 0..MaxRequests
  BY <1>2, RegistryFacts
<1>4. /\ e \in EntryType /\ e.seen = "fresh" /\ e.count <= asked[r] /\ e.count = request[q].count + 1
  BY <1>2, <1>3, RequestsAssumption DEF Entry, EntryType
<1> HIDE DEF r, e
<1>5. /\ entry' \in [Replicas -> EntryType \cup {Nobody}] /\ request' \in [Requests -> RequestType]
      /\ revived' \subseteq Replicas
  BY <1>1, <1>2, <1>4, RegistryFacts, IdleFacts
<1>6. RegistryTypeOK'
  BY <1>1, <1>5 DEF RInv, RegistryTypeOK, EntryType, RequestType
<1>7. /\ \A x \in Replicas : x # r => entry'[x] = entry[x]
      /\ entry'[r] = e
      /\ \A x \in Replicas : x \notin revived' => x \notin revived
      /\ \A c \in Checkers : r \in Holding(c) => r \in revived'
  BY <1>1, <1>2, RegistryFacts
<1>8. Counting'
  <2>1. \A x \in Replicas : entry'[x] # Nobody => entry'[x].count <= asked[x]
    BY <1>4, <1>7 DEF RInv, Counting
  <2>2. \A p \in Requests : request'[p].pc = "set" =>
            request'[p].r \in Replicas /\ request'[p].count < asked[request'[p].r]
    BY <1>1, IdleFacts, RegistryFacts DEF RInv, Counting
  <2> QED BY <1>1, <2>1, <2>2 DEF Counting
<1>9. Mailing'
  BY <1>1 DEF RInv, Mailing
<1>10. \A c \in Checkers : Holding(c)' = Holding(c)
  BY <1>1 DEF Holding
<1>11. HeldIsStale'
  <2> SUFFICES ASSUME NEW x \in Replicas, NEW c \in Checkers, x \notin revived', x \in Holding(c)
               PROVE  entry'[x] = Nobody \/ Stale(x)'
    BY <1>10 DEF HeldIsStale
  <2>1. x # r
    BY <1>7
  <2> QED BY <1>7, <2>1 DEF RInv, HeldIsStale, Stale
<1>12. ClaimedOnce'
  <2> SUFFICES ASSUME NEW x \in Replicas, NEW c \in Checkers, NEW d \in Checkers,
                      x \notin revived', check[c].at = x
               PROVE  entry'[x] = Nobody /\ (check[d].at = x => d = c)
    BY <1>1 DEF ClaimedOnce
  <2>1. x # r
    BY <1>7 DEF Holding
  <2> QED BY <1>7, <2>1 DEF RInv, ClaimedOnce
<1>13. Paid'
  <2> SUFFICES ASSUME NEW x \in Replicas, x \notin revived'
               PROVE  mails[x] + (IF Due(x) THEN 1 ELSE 0) + (IF Stale(x)' THEN 1 ELSE 0) <= lapses[x]
    BY <1>1 DEF Paid, Due
  <2>1. Stale(x)' => Stale(x)
    BY <1>4, <1>7 DEF Stale
  <2>2. mails[x] + (IF Due(x) THEN 1 ELSE 0) + (IF Stale(x) THEN 1 ELSE 0) <= lapses[x]
    BY <1>7 DEF RInv, Paid
  <2>3. mails[x] \in Nat /\ lapses[x] \in Nat
    BY RegistryFacts
  <2> QED BY <2>1, <2>2, <2>3
<1> QED BY <1>6, <1>8, <1>9, <1>11, <1>12, <1>13 DEF RInv

(* A lapse: nobody mails about an entry that is there. *)
LEMMA StaleStep == ASSUME RInv, NEW r \in Replicas, GoStale(r) PROVE RInv'
<1>1. /\ entry[r] # Nobody /\ entry[r].seen = "fresh"
      /\ entry' = [entry EXCEPT ![r].seen = "stale"]
      /\ lapses' = [lapses EXCEPT ![r] = @ + 1]
      /\ UNCHANGED <<request, check, asked, mails, revived>>
  BY DEF GoStale
<1>2. /\ entry[r] \in EntryType
      /\ [entry[r] EXCEPT !.seen = "stale"] \in EntryType
      /\ [entry[r] EXCEPT !.seen = "stale"].seen = "stale"
      /\ [entry[r] EXCEPT !.seen = "stale"].count = entry[r].count
  BY <1>1, RegistryFacts DEF EntryType
<1>3. /\ entry'[r] = [entry[r] EXCEPT !.seen = "stale"]
      /\ \A x \in Replicas : x # r => entry'[x] = entry[x] /\ lapses'[x] = lapses[x]
      /\ lapses'[r] = lapses[r] + 1
  BY <1>1, RegistryFacts
<1>4. /\ entry' \in [Replicas -> EntryType \cup {Nobody}] /\ lapses' \in [Replicas -> Nat]
  BY <1>1, <1>2, RegistryFacts
<1>5. RegistryTypeOK'
  BY <1>1, <1>4 DEF RInv, RegistryTypeOK, EntryType
<1>6. Counting'
  <2>1. \A x \in Replicas : entry'[x] # Nobody => entry'[x].count <= asked[x]
    BY <1>1, <1>2, <1>3 DEF RInv, Counting
  <2> QED BY <1>1, <2>1 DEF RInv, Counting
<1>7. Mailing'
  BY <1>1 DEF RInv, Mailing
<1>8. \A c \in Checkers : Holding(c)' = Holding(c)
  BY <1>1 DEF Holding
<1>9. Stale(r)' \/ entry'[r] = Nobody
  BY <1>2, <1>3 DEF Stale
<1>10. HeldIsStale'
  <2> SUFFICES ASSUME NEW x \in Replicas, NEW c \in Checkers, x \notin revived, x \in Holding(c)
               PROVE  entry'[x] = Nobody \/ Stale(x)'
    BY <1>1, <1>8 DEF HeldIsStale
  <2> QED BY <1>3, <1>9 DEF RInv, HeldIsStale, Stale
<1>11. r \notin revived => ~Due(r)
  BY <1>1 DEF RInv, ClaimedOnce, Due
<1>12. ClaimedOnce'
  <2> SUFFICES ASSUME NEW x \in Replicas, NEW c \in Checkers, NEW d \in Checkers,
                      x \notin revived, check[c].at = x
               PROVE  entry'[x] = Nobody /\ (check[d].at = x => d = c)
    BY <1>1 DEF ClaimedOnce
  <2>1. x # r
    BY <1>11 DEF Due
  <2> QED BY <1>3, <2>1 DEF RInv, ClaimedOnce
<1>13. Paid'
  <2> SUFFICES ASSUME NEW x \in Replicas, x \notin revived
               PROVE  mails[x] + (IF Due(x) THEN 1 ELSE 0) + (IF Stale(x)' THEN 1 ELSE 0) <= lapses'[x]
    BY <1>1 DEF Paid, Due
  <2>1. mails[x] + (IF Due(x) THEN 1 ELSE 0) + (IF Stale(x) THEN 1 ELSE 0) <= lapses[x]
    BY DEF RInv, Paid
  <2>2. mails[x] \in Nat /\ lapses[x] \in Nat
    BY RegistryFacts
  <2>3. CASE x = r
    <3>1. ~Stale(r)
      BY <1>1 DEF Stale
    <3> QED BY <1>3, <2>1, <2>2, <2>3, <3>1
  <2>4. CASE x # r
    <3>1. Stale(x)' = Stale(x) /\ lapses'[x] = lapses[x]
      BY <1>3, <2>4 DEF Stale
    <3> QED BY <2>1, <3>1
  <2> QED BY <2>3, <2>4
<1> QED BY <1>5, <1>6, <1>7, <1>10, <1>12, <1>13 DEF RInv

-----------------------------------------------------------------------------
(* A step of the job that leaves the entries alone and is at no replica    *)
(* afterwards, or is still where it was.                                   *)
LEMMA CheckOnly ==
    ASSUME RInv, NEW c \in Checkers, NEW e \in CheckType, check' = [check EXCEPT ![c] = e],
           UNCHANGED <<entry, request, asked, lapses, mails, revived>>,
           e.pc # "mail", e.at = Nobody,
           \A r \in Replicas : r \in e.todo => Stale(r) \/ r \in check[c].todo
    PROVE  RInv'
<1>1. check' \in [Checkers -> CheckType]
  BY RegistryFacts
<1>2. \A d \in Checkers : check'[d] = IF d = c THEN e ELSE check[d]
  BY RegistryFacts
<1>3. RegistryTypeOK' /\ Counting'
  BY <1>1 DEF RInv, RegistryTypeOK, CheckType, Counting
<1>4. Mailing'
  BY <1>2 DEF RInv, Mailing
<1>5. HeldIsStale'
  <2> SUFFICES ASSUME NEW x \in Replicas, NEW d \in Checkers, x \notin revived, x \in Holding(d)'
               PROVE  entry[x] = Nobody \/ Stale(x)
    BY DEF HeldIsStale, Stale
  <2>1. x \in Holding(d) \/ Stale(x)
    BY <1>2, NobodyAssumption DEF Holding
  <2> QED BY <2>1 DEF RInv, HeldIsStale
<1>6. \A x \in Replicas, d \in Checkers : check'[d].at = x => check[d].at = x /\ d # c
  BY <1>2, NobodyAssumption
<1>7. ClaimedOnce'
  BY <1>6 DEF RInv, ClaimedOnce
<1>8. Paid'
  <2> SUFFICES ASSUME NEW x \in Replicas, x \notin revived
               PROVE  mails[x] + (IF Due(x)' THEN 1 ELSE 0) + (IF Stale(x) THEN 1 ELSE 0) <= lapses[x]
    BY DEF Paid, Stale
  <2>1. Due(x)' => Due(x)
    BY <1>6 DEF Due
  <2>2. mails[x] + (IF Due(x) THEN 1 ELSE 0) + (IF Stale(x) THEN 1 ELSE 0) <= lapses[x]
    BY DEF RInv, Paid
  <2>3. mails[x] \in Nat /\ lapses[x] \in Nat
    BY RegistryFacts
  <2> QED BY <2>1, <2>2, <2>3
<1> QED BY <1>3, <1>4, <1>5, <1>7, <1>8 DEF RInv

(* HDEL: whoever removed the entry is the only one to mail about it, and   *)
(* the lapse that made it stale pays for that mail.                        *)
LEMMA ClaimStep == ASSUME RInv, NEW c \in Checkers, NEW r \in Replicas, Claim(c, r) PROVE RInv'
<1> DEFINE m == check[c]
           e == [pc |-> IF Claimed(r) THEN "mail" ELSE "claim", todo |-> m.todo \ {r},
                 at |-> IF Claimed(r) THEN r ELSE Nobody]
<1>1. /\ m.pc = "claim" /\ r \in m.todo
      /\ entry' = [entry EXCEPT ![r] = Nobody]
      /\ check' = [check EXCEPT ![c] = e]
      /\ UNCHANGED <<request, asked, lapses, mails, revived>>
  BY RegistryFacts DEF Claim
<1>2. m \in CheckType
  BY RegistryFacts
<1>3. e \in CheckType /\ e.todo = m.todo \ {r} /\ (Claimed(r) => e.pc = "mail" /\ e.at = r)
      /\ (~Claimed(r) => e.pc = "claim" /\ e.at = Nobody)
  BY <1>2 DEF CheckType
<1> HIDE DEF e
<1>4. CASE ~Claimed(r)
  <2>1. entry' = entry
    BY <1>1, <1>4, RegistryFacts DEF Claimed
  <2> QED BY <1>1, <1>3, <1>4, <2>1, CheckOnly
<1>5. CASE Claimed(r)
  <2>1. /\ \A d \in Checkers : check'[d] = IF d = c THEN e ELSE check[d]
        /\ check' \in [Checkers -> CheckType] /\ entry' \in [Replicas -> EntryType \cup {Nobody}]
        /\ \A x \in Replicas : entry'[x] = IF x = r THEN Nobody ELSE entry[x]
    BY <1>1, <1>3, RegistryFacts
  <2>2. RegistryTypeOK'
    BY <1>1, <2>1 DEF RInv, RegistryTypeOK, CheckType, EntryType
  <2>3. Counting' /\ Mailing'
    <3>1. Counting'
      BY <1>1, <2>1 DEF RInv, Counting
    <3>2. Mailing'
      BY <1>3, <1>5, <2>1 DEF RInv, Mailing
    <3> QED BY <3>1, <3>2
  <2>4. r \notin revived => Stale(r) /\ ~Due(r)
    BY <1>1, <1>5 DEF RInv, HeldIsStale, ClaimedOnce, Holding, Claimed, Due
  <2>5. \A d \in Checkers, x \in Replicas : x \in Holding(d)' => x \in Holding(d)
    BY <1>1, <1>3, <1>5, <2>1 DEF Holding
  <2>6. HeldIsStale'
    <3> SUFFICES ASSUME NEW x \in Replicas, NEW d \in Checkers, x \notin revived, x \in Holding(d)'
                 PROVE  entry'[x] = Nobody \/ Stale(x)'
      BY <1>1 DEF HeldIsStale
    <3> QED BY <2>1, <2>5 DEF RInv, HeldIsStale, Stale
  <2>7. check[c].at = Nobody
    BY <1>1 DEF RInv, Mailing
  <2>8. ClaimedOnce'
    <3> SUFFICES ASSUME NEW x \in Replicas, NEW d \in Checkers, NEW f \in Checkers,
                        x \notin revived, check'[d].at = x
                 PROVE  entry'[x] = Nobody /\ (check'[f].at = x => f = d)
      BY <1>1 DEF ClaimedOnce
    <3>1. CASE x = r
      BY <1>3, <1>5, <2>1, <2>4, <3>1 DEF Due
    <3>2. CASE x # r
      BY <1>3, <1>5, <2>1, <3>2 DEF RInv, ClaimedOnce
    <3> QED BY <3>1, <3>2
  <2>9. Paid'
    <3> SUFFICES ASSUME NEW x \in Replicas, x \notin revived
                 PROVE  mails[x] + (IF Due(x)' THEN 1 ELSE 0) + (IF Stale(x)' THEN 1 ELSE 0) <= lapses[x]
      BY <1>1 DEF Paid
    <3>1. mails[x] + (IF Due(x) THEN 1 ELSE 0) + (IF Stale(x) THEN 1 ELSE 0) <= lapses[x]
      BY DEF RInv, Paid
    <3>2. mails[x] \in Nat /\ lapses[x] \in Nat
      BY RegistryFacts
    <3>3. CASE x = r
      <4>1. ~Stale(x)'
        BY <2>1, <3>3 DEF Stale
      <4> QED BY <2>4, <3>1, <3>2, <3>3, <4>1
    <3>4. CASE x # r
      <4>1. Stale(x)' = Stale(x)
        BY <2>1, <3>4 DEF Stale
      <4>2. Due(x)' => Due(x)
        BY <1>3, <1>5, <2>1, <3>4 DEF Due
      <4> QED BY <3>1, <3>2, <4>1, <4>2
    <3> QED BY <3>3, <3>4
  <2> QED BY <2>2, <2>3, <2>6, <2>8, <2>9 DEF RInv
<1> QED BY <1>4, <1>5

(* The mail that was due is sent. *)
LEMMA MailStep == ASSUME RInv, NEW c \in Checkers, SendEmail(c) PROVE RInv'
<1> DEFINE r == check[c].at
           e == [check[c] EXCEPT !.pc = "claim", !.at = Nobody]
<1>1. /\ check[c].pc = "mail"
      /\ mails' = [mails EXCEPT ![r] = @ + 1]
      /\ check' = [check EXCEPT ![c] = e]
      /\ UNCHANGED <<entry, request, asked, lapses, revived>>
  BY DEF SendEmail
<1>2. r \in Replicas /\ check[c] \in CheckType
  BY <1>1, RegistryFacts DEF RInv, Mailing
<1>3. e \in CheckType /\ e.pc = "claim" /\ e.at = Nobody /\ e.todo = check[c].todo
  BY <1>2 DEF CheckType
<1> HIDE DEF e
<1>4. /\ check' \in [Checkers -> CheckType] /\ mails' \in [Replicas -> Nat]
      /\ \A d \in Checkers : check'[d] = IF d = c THEN e ELSE check[d]
      /\ \A x \in Replicas : mails'[x] = IF x = r THEN mails[x] + 1 ELSE mails[x]
  BY <1>1, <1>2, <1>3, RegistryFacts
<1>5. RegistryTypeOK' /\ Counting'
  BY <1>1, <1>4 DEF RInv, RegistryTypeOK, CheckType, Counting
<1>6. Mailing'
  BY <1>3, <1>4 DEF RInv, Mailing
<1>7. \A d \in Checkers, x \in Replicas : x \in Holding(d)' => x \in Holding(d)
  BY <1>3, <1>4, NobodyAssumption DEF Holding
<1>8. HeldIsStale'
  BY <1>1, <1>7 DEF RInv, HeldIsStale, Stale
<1>9. \A d \in Checkers, x \in Replicas : check'[d].at = x => check[d].at = x /\ d # c
  BY <1>3, <1>4, NobodyAssumption
<1>10. ClaimedOnce'
  BY <1>1, <1>9 DEF RInv, ClaimedOnce
<1>11. Paid'
  <2> SUFFICES ASSUME NEW x \in Replicas, x \notin revived
               PROVE  mails'[x] + (IF Due(x)' THEN 1 ELSE 0) + (IF Stale(x) THEN 1 ELSE 0) <= lapses[x]
    BY <1>1 DEF Paid, Stale
  <2>1. mails[x] + (IF Due(x) THEN 1 ELSE 0) + (IF Stale(x) THEN 1 ELSE 0) <= lapses[x]
    BY DEF RInv, Paid
  <2>2. mails[x] \in Nat /\ lapses[x] \in Nat
    BY RegistryFacts
  <2>3. CASE x = r
    <3>1. Due(x)
      BY <2>3 DEF Due
    <3>2. ~Due(x)'
      BY <1>9, <2>3 DEF RInv, ClaimedOnce, Due
    <3> QED BY <1>4, <2>1, <2>2, <2>3, <3>1, <3>2
  <2>4. CASE x # r
    <3>1. Due(x)' => Due(x)
      BY <1>9 DEF Due
    <3> QED BY <1>4, <2>1, <2>2, <2>4, <3>1
  <2> QED BY <2>3, <2>4
<1> QED BY <1>5, <1>6, <1>8, <1>10, <1>11 DEF RInv

LEMMA CheckingStep == ASSUME RInv, NEW c \in Checkers, CheckStep(c) PROVE RInv'
<1>1. CASE CheckStale(c)
  <2> DEFINE e == [pc |-> "claim", at |-> Nobody,
                   todo |-> {r \in Replicas : entry[r] # Nobody /\ entry[r].seen = "stale"}]
  <2>1. check' = [check EXCEPT ![c] = e] /\ UNCHANGED <<entry, request, asked, lapses, mails, revived>>
    BY <1>1 DEF CheckStale
  <2>2. e \in CheckType /\ e.pc # "mail" /\ e.at = Nobody /\ \A r \in Replicas : r \in e.todo => Stale(r)
    BY DEF CheckType, Stale
  <2> HIDE DEF e
  <2> QED BY <2>1, <2>2, CheckOnly
<1>2. CASE CheckFails(c) \/ CheckEnds(c)
  <2>1. check' = [check EXCEPT ![c] = NoCheck] /\ UNCHANGED <<entry, request, asked, lapses, mails, revived>>
    BY <1>2 DEF CheckFails, CheckEnds
  <2> QED BY <2>1, IdleFacts, CheckOnly
<1> QED BY <1>1, <1>2, ClaimStep, MailStep DEF CheckStep

LEMMA RInvInit == Init => RInv
<1> SUFFICES ASSUME Init PROVE RInv
  OBVIOUS
<1>1. RegistryTypeOK
  <2>1. request \in [Requests -> RequestType] /\ check \in [Checkers -> CheckType]
    BY IdleFacts DEF Init, RegistryInit
  <2>2. asked \in [Replicas -> 0..MaxRequests]
    BY RequestsAssumption DEF Init, RegistryInit
  <2>3. /\ entry \in [Replicas -> EntryType \cup {Nobody}] /\ lapses \in [Replicas -> Nat]
        /\ mails \in [Replicas -> Nat] /\ revived \subseteq Replicas
    BY DEF Init, RegistryInit
  <2> QED BY <2>1, <2>2, <2>3 DEF RegistryTypeOK, EntryType, RequestType, CheckType
<1>2. Counting /\ Mailing
  BY IdleFacts DEF Init, RegistryInit, Counting, Mailing
<1>3. HeldIsStale /\ ClaimedOnce
  <2>1. \A r \in Replicas, c \in Checkers : r \notin Holding(c) /\ check[c].at # r
    BY IdleFacts, NobodyAssumption DEF Init, RegistryInit, Holding
  <2> QED BY <2>1 DEF HeldIsStale, ClaimedOnce
<1>4. Paid
  <2>1. \A r \in Replicas : ~Due(r) /\ ~Stale(r) /\ mails[r] = 0 /\ lapses[r] = 0
    BY IdleFacts, NobodyAssumption DEF Init, RegistryInit, Due, Stale
  <2> QED BY <2>1 DEF Paid
<1> QED BY <1>1, <1>2, <1>3, <1>4 DEF RInv

LEMMA RInvStep == RInv /\ [Next]_vars => RInv'
<1> SUFFICES ASSUME RInv, [Next]_vars PROVE RInv'
  OBVIOUS
<1>1. CASE RegistryNext
  BY <1>1, ReadStep, WriteStep, StaleStep, CheckingStep DEF RegistryNext
<1>2. CASE UNCHANGED registryVars
  BY <1>2 DEF registryVars, RInv, RegistryTypeOK, Counting, Mailing, HeldIsStale, ClaimedOnce,
              Paid, Holding, Stale, Due
<1> QED BY <1>1, <1>2 DEF Next, vars

LEMMA RInvAlways == Spec => []RInv
<1> QED BY RInvInit, RInvStep, PTL DEF Spec

(* The registry keeps its types: no count runs ahead of the requests.      *)
THEOREM RegistryTypeCorrect == Spec => []RegistryTypeOK
<1>1. RInv => RegistryTypeOK
  BY DEF RInv
<1> QED BY <1>1, RInvAlways, PTL

(* "The alert fires exactly once per stale replica even if this cron runs  *)
(* concurrently": however many runs of the job overlap and wherever they   *)
(* fail, the mails about a replica that stays away are at most its lapses. *)
THEOREM AlertIsOnce == Spec => []AlertedOnce
<1>1. RInv => AlertedOnce
  <2> SUFFICES ASSUME RInv, NEW r \in Replicas, r \notin revived PROVE mails[r] <= lapses[r]
    BY DEF AlertedOnce
  <2>1. mails[r] + (IF Due(r) THEN 1 ELSE 0) + (IF Stale(r) THEN 1 ELSE 0) <= lapses[r]
    BY DEF RInv, Paid
  <2>2. mails[r] \in Nat /\ lapses[r] \in Nat
    BY RegistryFacts
  <2> QED BY <2>1, <2>2
<1> QED BY <1>1, RInvAlways, PTL

-----------------------------------------------------------------------------
(* isDbReplicating is set while a job is under way, and there is one: the  *)
(* statements of two dumps never mix in the replica's tables.              *)
OneJob == \A i, j \in Jobs : job[j] # NoJob => busy /\ (job[i] # NoJob => i = j)
JInv == OneJob /\ job = [j \in Jobs |-> job[j]]

(* Every step of the replica takes the flag, keeps it or gives it back.    *)
LEMMA JobStepOnce == JInv /\ DatabaseNext => JInv'
<1> SUFFICES ASSUME JInv, DatabaseNext PROVE JInv'
  OBVIOUS
<1>i. NoJob.pc = "idle"
  BY DEF NoJob
<1>e. ASSUME NEW j \in Jobs, job[j] # NoJob, EndJob(j) PROVE JInv'
  <2>1. job' = [job EXCEPT ![j] = NoJob]
    BY <1>e DEF EndJob, Become
  <2>2. \A i \in Jobs : job'[i] = NoJob
    BY <1>e, <2>1 DEF JInv, OneJob
  <2> QED BY <2>1, <2>2 DEF JInv, OneJob
<1>k. ASSUME NEW j \in Jobs, NEW m, Become(j, m), \/ job[j] # NoJob /\ UNCHANGED busy
                                                  \/ ~busy /\ busy' = TRUE
      PROVE  JInv'
  <2>1. job' = [job EXCEPT ![j] = m]
    BY <1>k DEF Become
  <2>2. \A i \in Jobs : i # j => job'[i] = NoJob
    BY <1>k, <2>1 DEF JInv, OneJob
  <2>3. busy'
    BY <1>k DEF JInv, OneJob
  <2> QED BY <2>1, <2>2, <2>3 DEF JInv, OneJob
<1>1. ASSUME NEW j \in Jobs, ReplicateDatabase(j) PROVE JInv'
  BY <1>1, <1>k DEF ReplicateDatabase, Free
<1>2. ASSUME NEW j \in Jobs, WriteDump(j) \/ Transfer(j) \/ TransferCut(j) PROVE JInv'
  <2>1. job[j] # NoJob /\ UNCHANGED busy /\ \E m : Become(j, m)
    BY <1>2, <1>i DEF WriteDump, Transfer, TransferCut
  <2> QED BY <1>k, <2>1
<1>3. ASSUME NEW j \in Jobs, Import(j) PROVE JInv'
  <2>1. job[j] # NoJob
    BY <1>3, <1>i DEF Import
  <2>2. EndJob(j) \/ (UNCHANGED busy /\ \E m : Become(j, m))
    BY <1>3 DEF Import
  <2> QED BY <1>e, <1>k, <2>1, <2>2
<1>4. ASSUME NEW j \in Jobs, ImportEnds(j) \/ JobFails(j) PROVE JInv'
  BY <1>4, <1>e, <1>i DEF ImportEnds, JobFails
<1>5. CASE Crash
  BY <1>5 DEF Crash, JInv, OneJob
<1>6. ASSUME NEW t \in Tables, Write(t) PROVE JInv'
  BY <1>6 DEF Write, JInv, OneJob
<1> QED BY <1>1, <1>2, <1>3, <1>4, <1>5, <1>6 DEF DatabaseNext, JobStep

(* At most one copy of the databases is under way, whether it was started  *)
(* by the cron job or after boot, and through failures and restarts.       *)
THEOREM OneJobAtATime == Spec => []OneJob
<1>1. Init => JInv
  BY DEF Init, JInv, OneJob
<1>2. JInv /\ [Next]_vars => JInv'
  <2> SUFFICES ASSUME JInv, [Next]_vars PROVE JInv'
    OBVIOUS
  <2>1. CASE UNCHANGED dbVars
    BY <2>1 DEF dbVars, JInv, OneJob
  <2> QED BY <2>1, JobStepOnce DEF Next, vars
<1>3. JInv => OneJob
  BY DEF JInv
<1> QED BY <1>1, <1>2, <1>3, PTL DEF Spec

-----------------------------------------------------------------------------
(* A reported copy is a clean replacement.                                 *)

Vers == [Tables -> Nat]
Places == Within \cup {End}
JobType == [pc : {"idle", "dump", "import"}, t : Nat, vers : Vers, from : Vers,
            at : Places, end : Places, torn : BOOLEAN]
Contents == [1..NBatches -> Seq(Nat)]

DbTypes ==
    /\ data \in Vers
    /\ copy \in [Tables -> Contents \cup {Nobody}]
    /\ job \in [Jobs -> JobType]
    /\ told \in Vers \cup {Nobody}

(* A table is dumped as it is at some moment since the job began.          *)
Dumped(m, t) == m.from[t] <= m.vers[t] /\ m.vers[t] <= data[t]

(* After k statements of its script a table is anything, gone, or made of  *)
(* the batches inserted since it was created.                              *)
Filled(t, v, k) ==
    /\ k = 1 => copy[t] = Nobody
    /\ k > 1 => /\ copy[t] \in Contents
                /\ \A b \in 1..NBatches : copy[t][b] = IF b <= k - 2 THEN <<v>> ELSE <<>>

(* What holds of a job: the tables it has dumped; then the tables whose    *)
(* statements it has executed, and the one it is at. Only a cut makes the  *)
(* file end before its last statement.                                     *)
Dumping(m) == m.pc = "dump" => m.at = <<1, 0>> /\ m.end = End /\ \A t \in Tables :
    m.from[t] <= data[t] /\ (t < m.t => Dumped(m, t))
Reaches(p, q) == p[1] < q[1] \/ (p[1] = q[1] /\ p[2] <= q[2])
Importing(m) == m.pc = "import" =>
    /\ ~cut => m.end = End
    /\ Reaches(m.at, m.end)
    /\ \A t \in Tables :
          /\ Dumped(m, t)
          /\ t < m.at[1] => Holds(t, m.vers[t])
          /\ t = m.at[1] => Filled(t, m.vers[t], m.at[2])

RepInv ==
    /\ DbTypes /\ JInv
    /\ \A j \in Jobs : Dumping(job[j]) /\ Importing(job[j])
    /\ CleanReplace

(* Facts about places and statements. *)
LEMMA SizeFacts == NTables \in Nat /\ NBatches \in Nat /\ MaxWrites \in Nat
BY SizeAssumption

LEMMA BatchFacts == ASSUME NEW t \in Tables PROVE Batches(t) \in Nat /\ Batches(t) <= NBatches
BY SizeFacts DEF Batches

LEMMA PlaceFacts ==
    ASSUME NEW p \in Places
    PROVE  /\ p = End \/ (p[1] \in Tables /\ p[2] \in 0..(1 + Batches(p[1])))
           /\ p # End => After(p) \in Places
           /\ p[1] \in 1..(NTables + 1) /\ p[2] \in Nat
<1>1. CASE p = End
  BY <1>1, SizeFacts DEF End
<1>2. CASE p \in Within
  <2>1. PICK t \in Tables : p \in {t} \X (0..(1 + Batches(t)))
    BY <1>2 DEF Within
  <2>2. p = <<t, p[2]>> /\ p[1] = t /\ p[2] \in 0..(1 + Batches(t))
    BY <2>1
  <2>3. Batches(t) \in Nat
    BY BatchFacts
  <2>4. ASSUME p[2] = 1 + Batches(t) PROVE After(p) \in Places
    <3>1. After(p) = <<t + 1, 0>>
      BY <2>2, <2>4 DEF After
    <3>2. CASE t = NTables
      BY <3>1, <3>2 DEF Places, End
    <3>3. CASE t # NTables
      <4>1. t + 1 \in Tables
        BY <3>3, SizeFacts DEF Tables
      <4>2. <<t + 1, 0>> \in {t + 1} \X (0..(1 + Batches(t + 1)))
        BY <4>1, BatchFacts
      <4> QED BY <3>1, <4>1, <4>2 DEF Places, Within
    <3> QED BY <3>2, <3>3
  <2>5. ASSUME p[2] # 1 + Batches(t) PROVE After(p) \in Places
    <3>1. After(p) = <<t, p[2] + 1>>
      BY <2>2, <2>5 DEF After
    <3>2. <<t, p[2] + 1>> \in {t} \X (0..(1 + Batches(t)))
      BY <2>2, <2>3, <2>5
    <3> QED BY <3>1, <3>2 DEF Places, Within
  <2> QED BY <2>2, <2>3, <2>4, <2>5, SizeFacts DEF Tables
<1> QED BY <1>1, <1>2 DEF Places

LEMMA ScriptFacts ==
    ASSUME NEW t \in Tables, NEW k \in 0..(1 + Batches(t))
    PROVE  /\ k = 0 => TableScript(t)[k + 1] = Statement("drop", t, 0)
           /\ k = 1 => TableScript(t)[k + 1] = Statement("create", t, 0)
           /\ k > 1 => TableScript(t)[k + 1] = Statement("insert", t, k - 1)
<1> DEFINE head == <<Statement("drop", t, 0), Statement("create", t, 0)>>
           tail == [b \in 1..Batches(t) |-> Statement("insert", t, b)]
           any == {head[1], head[2]} \cup {tail[b] : b \in 1..Batches(t)}
<1>1. Batches(t) \in Nat
  BY BatchFacts
<1>2. /\ head \in Seq(any) /\ Len(head) = 2
      /\ head[1] = Statement("drop", t, 0) /\ head[2] = Statement("create", t, 0)
  OBVIOUS
<1>3. /\ tail \in Seq(any) /\ Len(tail) = Batches(t)
      /\ \A b \in 1..Batches(t) : tail[b] = Statement("insert", t, b)
  BY <1>1
<1>4. TableScript(t) = head \o tail
  BY DEF TableScript
<1> HIDE DEF head, tail, any
<1>5. \A i \in 1..(2 + Batches(t)) : (head \o tail)[i] = IF i <= 2 THEN head[i] ELSE tail[i - 2]
  <2>1. head \in Seq(any) /\ tail \in Seq(any)
    BY <1>2, <1>3
  <2>2. \A i \in 1..(Len(head) + Len(tail)) :
          (head \o tail)[i] = IF i <= Len(head) THEN head[i] ELSE tail[i - Len(head)]
    BY <2>1, ConcatProperties, Zenon
  <2> QED BY <1>2, <1>3, <2>2, Zenon
<1>6. DEFINE all == head \o tail
<1> HIDE DEF all
<1>7. k + 1 \in 1..(2 + Batches(t)) /\ (k > 1 => k - 1 \in 1..Batches(t) /\ (k + 1) - 2 = k - 1)
  BY <1>1
<1>8. all[k + 1] = IF k + 1 <= 2 THEN head[k + 1] ELSE tail[(k + 1) - 2]
  BY <1>5, <1>7, Zenon DEF all
<1>9. TableScript(t)[k + 1] = all[k + 1]
  BY <1>4 DEF all
<1> QED BY <1>2, <1>3, <1>7, <1>8, <1>9

LEMMA PlaceMoves ==
    ASSUME NEW p \in Places, NEW q \in Places, p # q, Reaches(p, q)
    PROVE  p \in Within /\ Reaches(After(p), q)
<1>1. p # End
  <2> SUFFICES ASSUME p = End PROVE FALSE
    OBVIOUS
  <2>1. q[1] \in 1..(NTables + 1) /\ p[1] = NTables + 1 /\ p[2] = 0 /\ NTables \in Nat
    BY PlaceFacts, SizeFacts DEF End
  <2>2. q[1] = NTables + 1
    BY <2>1 DEF Reaches
  <2>3. q[1] \notin Tables
    BY <2>2, SizeFacts DEF Tables
  <2> QED BY <2>3, PlaceFacts
<1>2. p \in Within
  BY <1>1 DEF Places
<1>3. /\ p[1] \in Nat /\ p[2] \in 0..(1 + Batches(p[1])) /\ Batches(p[1]) \in Nat
      /\ q[1] \in Nat /\ q[2] \in Nat /\ (q = End \/ q[2] <= 1 + Batches(q[1]))
  BY <1>1, PlaceFacts, BatchFacts, SizeFacts DEF Tables
<1>4. p[1] = q[1] => p[2] # q[2]
  <2>1. \A x \in Within : x = <<x[1], x[2]>>
    BY DEF Within
  <2> QED BY <1>2, <2>1 DEF Places, End
<1>5. q = End => q[1] # p[1]
  BY <1>1, PlaceFacts, SizeFacts DEF End, Tables
<1>6. CASE p[2] = 1 + Batches(p[1])
  <2>1. After(p)[1] = p[1] + 1 /\ After(p)[2] = 0
    BY <1>6 DEF After
  <2>2. p[1] < q[1]
    BY <1>3, <1>4, <1>5, <1>6 DEF Reaches
  <2> QED BY <1>2, <1>3, <2>1, <2>2 DEF Reaches
<1>7. CASE p[2] # 1 + Batches(p[1])
  <2>1. After(p)[1] = p[1] /\ After(p)[2] = p[2] + 1
    BY <1>7 DEF After
  <2> QED BY <1>2, <1>3, <1>4, <2>1 DEF Reaches
<1> QED BY <1>6, <1>7

-----------------------------------------------------------------------------
LEMMA NoJobFacts == /\ NoJob \in JobType /\ NoJob.pc = "idle" /\ NoJob.at = <<1, 0>>
                    /\ NoJob.end = End /\ NoTables \in Vers
<1>1. NoTables \in Vers
  BY DEF NoTables, Vers
<1>2. <<1, 0>> \in Places
  <2>1. CASE NTables = 0
    BY <2>1 DEF Places, End
  <2>2. CASE NTables # 0
    <3>1. 1 \in Tables
      BY <2>2, SizeFacts DEF Tables
    <3>2. <<1, 0>> \in {1} \X (0..(1 + Batches(1)))
      BY <3>1, BatchFacts
    <3> QED BY <3>1, <3>2 DEF Places, Within
  <2> QED BY <2>1, <2>2
<1> QED BY <1>1, <1>2 DEF NoJob, JobType, Places

LEMMA RepInit == Init => RepInv
<1> SUFFICES ASSUME Init PROVE RepInv
  OBVIOUS
<1>1. DbTypes
  BY NoJobFacts DEF Init, DbTypes
<1>2. JInv
  BY DEF Init, JInv, OneJob
<1>3. \A j \in Jobs : Dumping(job[j]) /\ Importing(job[j])
  BY NoJobFacts DEF Init, Dumping, Importing
<1> QED BY <1>1, <1>2, <1>3 DEF Init, RepInv, CleanReplace

(* A job that is under way is the only one. *)
LEMMA OthersIdle ==
    ASSUME JInv, NEW j \in Jobs, job[j].pc # "idle", NEW i \in Jobs, i # j
    PROVE  job[i] = NoJob
BY NoJobFacts DEF JInv, OneJob

(* Idle jobs hold nothing. *)
LEMMA IdleHolds == ASSUME NEW m, m.pc = "idle" PROVE Dumping(m)' /\ Importing(m)'
BY DEF Dumping, Importing

(* The finally block: what was reported, and what is in the tables, stay.  *)
LEMMA EndStep ==
    ASSUME RepInv, NEW j \in Jobs, job[j] # NoJob, EndJob(j), UNCHANGED <<data, copy>>,
           told' \in {told, Nobody}, cut => cut', JInv'
    PROVE  RepInv'
<1>1. job' = [job EXCEPT ![j] = NoJob]
  BY DEF EndJob, Become
<1>2. \A i \in Jobs : job'[i] = NoJob
  BY <1>1 DEF RepInv, DbTypes, JInv, OneJob
<1>3. DbTypes'
  BY <1>1, NoJobFacts DEF RepInv, DbTypes
<1>4. CleanReplace'
  BY DEF RepInv, CleanReplace, Holds
<1>5. \A i \in Jobs : Dumping(job[i])' /\ Importing(job[i])'
  BY <1>2, NoJobFacts DEF Dumping, Importing
<1> QED BY <1>3, <1>4, <1>5 DEF RepInv

(* A job goes on to m without touching the tables. *)
LEMMA MoveStep ==
    ASSUME RepInv, NEW j \in Jobs, NEW m \in JobType, Become(j, m), JInv',
           UNCHANGED <<data, copy, told>>, cut => cut', Dumping(m)', Importing(m)',
           \A i \in Jobs : i # j => job[i] = NoJob
    PROVE  RepInv'
<1>1. job' = [job EXCEPT ![j] = m]
  BY DEF Become
<1>2. /\ job'[j] = m
      /\ \A i \in Jobs : i # j => job'[i] = NoJob
  BY <1>1 DEF RepInv, DbTypes
<1>3. DbTypes'
  BY <1>1 DEF RepInv, DbTypes
<1>4. CleanReplace'
  BY DEF RepInv, CleanReplace, Holds
<1>5. \A i \in Jobs : Dumping(job[i])' /\ Importing(job[i])'
  BY <1>2, NoJobFacts DEF Dumping, Importing
<1> QED BY <1>3, <1>4, <1>5 DEF RepInv

-----------------------------------------------------------------------------
(* One lemma per action of the replica.                                    *)

LEMMA BeginClean == ASSUME RepInv, NEW j \in Jobs, ReplicateDatabase(j), JInv' PROVE RepInv'
<1>0. PICK m : m = [NoJob EXCEPT !.pc = "dump", !.t = 1, !.from = data]
  OBVIOUS
<1>1. m = [pc |-> "dump", t |-> 1, vers |-> NoTables, from |-> data, at |-> <<1, 0>>,
           end |-> End, torn |-> FALSE]
  BY <1>0 DEF NoJob
<1>2. m \in JobType
  BY <1>1, NoJobFacts DEF RepInv, DbTypes, JobType, NoJob
<1>3. \A t \in Tables : data[t] \in Nat /\ ~(t < 1)
  BY DEF RepInv, DbTypes, Vers, Tables
<1>4. Dumping(m)' /\ Importing(m)'
  BY <1>1, <1>3 DEF ReplicateDatabase, Dumping, Importing
<1>5. \A i \in Jobs : i # j => job[i] = NoJob
  BY DEF ReplicateDatabase, Free, RepInv, JInv, OneJob
<1>6. Become(j, m) /\ UNCHANGED <<data, copy, told>> /\ (cut => cut')
  BY <1>0 DEF ReplicateDatabase
<1> QED BY <1>2, <1>4, <1>5, <1>6, MoveStep

LEMMA DumpClean == ASSUME RepInv, NEW j \in Jobs, WriteDump(j), JInv' PROVE RepInv'
<1>0. PICK o, m : o = job[j] /\ m = [o EXCEPT !.t = @ + 1, !.vers[o.t] = data[o.t]]
  OBVIOUS
<1>1. o \in JobType /\ o.pc = "dump" /\ o.t <= NTables /\ data \in Vers
  BY <1>0 DEF WriteDump, RepInv, DbTypes
<1>2. /\ m.pc = "dump" /\ m.t = o.t + 1 /\ m.vers = [o.vers EXCEPT ![o.t] = data[o.t]]
      /\ m.from = o.from /\ m.at = o.at /\ m.end = o.end /\ m.torn = o.torn
  BY <1>0, <1>1 DEF JobType
<1>3. m.vers \in Vers
  BY <1>1, <1>2 DEF JobType, Vers
<1>4. m \in JobType
  <2>1. m = [pc |-> m.pc, t |-> m.t, vers |-> m.vers, from |-> m.from, at |-> m.at,
             end |-> m.end, torn |-> m.torn]
    BY <1>0, <1>1 DEF JobType
  <2>2. m.t \in Nat
    BY <1>1, <1>2 DEF JobType
  <2> QED BY <1>1, <1>2, <1>3, <2>1, <2>2 DEF JobType
<1>5. Dumping(o)
  BY <1>0 DEF RepInv
<1>6. UNCHANGED <<data, copy, told, cut>>
  BY DEF WriteDump
<1>7. ASSUME NEW t \in Tables PROVE m.from[t] <= data[t] /\ (t < m.t => Dumped(m, t))
  <2>1. /\ o.from[t] <= data[t] /\ (t < o.t => Dumped(o, t))
        /\ data[t] \in Nat /\ t \in Nat /\ o.t \in Nat
    BY <1>1, <1>5 DEF Dumping, Vers, Tables, JobType
  <2>2. t # o.t => m.vers[t] = o.vers[t]
    BY <1>1, <1>2 DEF JobType, Vers
  <2>3. t = o.t => m.vers[t] = data[t]
    BY <1>1, <1>2 DEF JobType, Vers
  <2>4. t < m.t => t < o.t \/ t = o.t
    BY <1>2, <2>1
  <2>5. CASE t = o.t
    BY <1>2, <2>1, <2>3, <2>5 DEF Dumped
  <2>6. CASE t # o.t
    BY <1>2, <2>1, <2>2, <2>4, <2>6 DEF Dumped
  <2> QED BY <2>5, <2>6
<1>8. Dumping(m)' /\ Importing(m)'
  BY <1>1, <1>2, <1>5, <1>6, <1>7 DEF Dumping, Importing, Dumped
<1>9. \A i \in Jobs : i # j => job[i] = NoJob
  BY <1>0, <1>1, OthersIdle DEF RepInv
<1>10. Become(j, m)
  BY <1>0 DEF WriteDump
<1> QED BY <1>4, <1>6, <1>8, <1>9, <1>10, MoveStep

(* The file is there, whole or cut: all tables are dumped, none imported.  *)
LEMMA TransferClean ==
    ASSUME RepInv, NEW j \in Jobs, Transfer(j) \/ TransferCut(j), JInv'
    PROVE  RepInv'
<1>0. PICK o : o = job[j]
  OBVIOUS
<1>1. /\ o \in JobType /\ o.pc = "dump" /\ ~(o.t <= NTables) /\ data \in Vers
      /\ UNCHANGED <<data, copy, told>> /\ (cut => cut')
  <2>1. o \in JobType /\ data \in Vers /\ o.t \in Nat
    BY <1>0 DEF RepInv, DbTypes, JobType
  <2>2. o.pc = "dump" /\ o.t > NTables /\ UNCHANGED <<data, copy, told>>
    BY <1>0 DEF Transfer, TransferCut
  <2>3. cut => cut'
    BY Zenon DEF Transfer, TransferCut
  <2>4. ~(o.t <= NTables)
    BY <2>1, <2>2, SizeFacts
  <2> QED BY <2>1, <2>2, <2>3, <2>4
<1>2. PICK e \in Places, torn \in BOOLEAN :
          /\ Become(j, [o EXCEPT !.pc = "import", !.end = e, !.torn = torn])
          /\ ~cut' => e = End
  <2>1. CASE Transfer(j)
    <3>1. [o EXCEPT !.pc = "import"] = [o EXCEPT !.pc = "import", !.end = o.end, !.torn = o.torn]
      BY <1>1 DEF JobType
    <3>2. o.end = End
      BY <1>0, <1>1 DEF RepInv, Dumping
    <3> QED BY <1>0, <1>1, <2>1, <3>1, <3>2 DEF Transfer, JobType
  <2>2. CASE TransferCut(j)
    BY <1>0, <2>2 DEF TransferCut, Places
  <2> QED BY <2>1, <2>2
<1>m. PICK m : m = [o EXCEPT !.pc = "import", !.end = e, !.torn = torn]
  OBVIOUS
<1>3. /\ m.pc = "import" /\ m.vers = o.vers /\ m.from = o.from /\ m.at = o.at /\ m.end = e
      /\ m \in JobType
  BY <1>1, <1>m DEF JobType
<1>4. Dumping(o)
  BY <1>0 DEF RepInv
<1>5. m.at = <<1, 0>> /\ m.at[1] = 1 /\ m.at[2] = 0
  BY <1>1, <1>3, <1>4 DEF Dumping
<1>6. Reaches(m.at, m.end)
  <2>1. e[1] \in 1..(NTables + 1) /\ e[2] \in Nat
    BY PlaceFacts
  <2> QED BY <1>3, <1>5, <2>1, SizeFacts DEF Reaches
<1>7. ASSUME NEW t \in Tables
      PROVE  Dumped(m, t)' /\ ~(t < m.at[1]) /\ Filled(t, m.vers[t], m.at[2])'
  <2>1. t \in Nat /\ t <= NTables /\ o.t \in Nat /\ 1 <= t /\ NTables \in Nat
    BY <1>1, SizeFacts DEF Tables, JobType
  <2>2. Dumped(o, t)
    BY <1>1, <1>4, <2>1 DEF Dumping
  <2> QED BY <1>1, <1>3, <1>5, <2>1, <2>2 DEF Dumped, Filled
<1>8. Dumping(m)' /\ Importing(m)'
  BY <1>2, <1>3, <1>6, <1>7 DEF Dumping, Importing
<1>9. \A i \in Jobs : i # j => job[i] = NoJob
  BY <1>0, <1>1, OthersIdle DEF RepInv
<1>10. Become(j, m)
  BY <1>2, <1>m
<1> QED BY <1>1, <1>3, <1>8, <1>9, <1>10, MoveStep

(* Executing a statement brings the table of the import one step further   *)
(* and leaves the others alone; a refused one ends the job.                *)
LEMMA ImportClean == ASSUME RepInv, NEW j \in Jobs, Import(j), JInv' PROVE RepInv'
<1>0. PICK o : o = job[j]
  OBVIOUS
<1>1. /\ o \in JobType /\ o.pc = "import" /\ o.at # o.end /\ data \in Vers
      /\ UNCHANGED <<data, cut>> /\ told' = Nobody
  BY <1>0 DEF Import, RepInv, DbTypes
<1>2. Importing(o) /\ o.at \in Places /\ o.end \in Places
  BY <1>0, <1>1 DEF RepInv, JobType
<1>3. PICK t, k, v : t = o.at[1] /\ k = o.at[2] /\ v = o.vers[t]
  OBVIOUS
<1>4. o.at \in Within /\ Reaches(After(o.at), o.end) /\ o.at # End
  <2>1. o.at \in Within /\ Reaches(After(o.at), o.end)
    BY <1>1, <1>2, PlaceMoves DEF Importing
  <2>2. End \notin Within
    BY SizeFacts DEF End, Within, Tables
  <2> QED BY <2>1, <2>2
<1>5. /\ t \in Tables /\ k \in 0..(1 + Batches(t)) /\ After(o.at) \in Places
      /\ Batches(t) \in Nat /\ Batches(t) <= NBatches /\ NBatches \in Nat
  BY <1>2, <1>3, <1>4, PlaceFacts, BatchFacts, SizeFacts
<1>6. PICK s : s = TableScript(t)[k + 1]
  OBVIOUS
<1>7. /\ s.t = t
      /\ k = 0 => s.kind = "drop"
      /\ k = 1 => s.kind = "create"
      /\ k > 1 => s.kind = "insert" /\ s.b = k - 1
  <2>1. k = 0 \/ k = 1 \/ k > 1
    BY <1>5
  <2>2. /\ k = 0 => s = Statement("drop", t, 0)
        /\ k = 1 => s = Statement("create", t, 0)
        /\ k > 1 => s = Statement("insert", t, k - 1)
    BY <1>5, <1>6, ScriptFacts
  <2>3. ~(0 > 1) /\ ~(1 > 1) /\ 0 # 1
    OBVIOUS
  <2> QED BY <2>1, <2>2, <2>3 DEF Statement
<1>8. v \in Nat /\ Filled(t, v, k) /\ copy \in [Tables -> Contents \cup {Nobody}]
  BY <1>1, <1>2, <1>3, <1>5 DEF RepInv, DbTypes, Importing, JobType, Vers
<1>9. Executed(s, v) = Nobody => EndJob(j) /\ UNCHANGED copy
  BY <1>0, <1>3, <1>6, <1>7 DEF Import
<1>10. CASE Executed(s, v) = Nobody
  BY <1>0, <1>1, <1>9, <1>10, EndStep, NoJobFacts
<1>11. CASE Executed(s, v) # Nobody
  <2>1. PICK m : m = [o EXCEPT !.at = After(@)]
    OBVIOUS
  <2>2. /\ m \in JobType /\ m.pc = "import" /\ m.at = After(o.at) /\ m.vers = o.vers
        /\ m.from = o.from /\ m.end = o.end
    BY <1>1, <1>5, <2>1 DEF JobType
  <2>3. copy' = Executed(s, v) /\ Become(j, m)
    BY <1>0, <1>3, <1>6, <1>7, <1>11, <2>1 DEF Import
  <2>4. /\ copy' \in [Tables -> Contents \cup {Nobody}]
        /\ \A u \in Tables : u # t => copy'[u] = copy[u]
        /\ Filled(t, v, k + 1)'
    <3>1. CASE k = 0
      <4>1. copy' = [copy EXCEPT ![t] = Nobody]
        BY <1>7, <2>3, <3>1 DEF Executed
      <4> QED BY <1>5, <1>8, <3>1, <4>1 DEF Filled
    <3>2. CASE k = 1
      <4>1. copy[t] = Nobody
        BY <1>8, <3>2 DEF Filled
      <4>2. copy' = [copy EXCEPT ![t] = EmptyTable]
        BY <1>7, <2>3, <3>2, <4>1 DEF Executed
      <4>3. EmptyTable \in Contents /\ \A b \in 1..NBatches : EmptyTable[b] = <<>>
        BY DEF EmptyTable, Contents
      <4> QED BY <1>5, <1>8, <3>2, <4>2, <4>3 DEF Filled
    <3>3. CASE k > 1
      <4>1. copy[t] \in Contents /\ copy[t] # Nobody
        BY <1>8, <3>3, NoTableAssumption DEF Filled, Contents
      <4>2. s.b = k - 1 /\ k - 1 \in 1..NBatches /\ k \in Nat
        BY <1>5, <1>7, <3>3
      <4>3. copy' = [copy EXCEPT ![t][k - 1] = Append(@, v)]
        BY <1>7, <1>8, <2>3, <3>3, <4>1, <4>2 DEF Executed
      <4>4. PICK c : c = [copy[t] EXCEPT ![k - 1] = Append(copy[t][k - 1], v)]
        OBVIOUS
      <4>5. copy' = [copy EXCEPT ![t] = c]
        BY <1>5, <1>8, <4>3, <4>4
      <4>6. copy[t][k - 1] = <<>>
        BY <1>8, <3>3, <4>2 DEF Filled
      <4>7. Append(copy[t][k - 1], v) = <<v>> /\ <<v>> \in Seq(Nat)
        BY <1>8, <4>6
      <4>8. c \in Contents
        BY <4>1, <4>2, <4>4, <4>7 DEF Contents
      <4>9. \A b \in 1..NBatches : c[b] = IF b <= (k + 1) - 2 THEN <<v>> ELSE <<>>
        <5> SUFFICES ASSUME NEW b \in 1..NBatches
                     PROVE  c[b] = IF b <= (k + 1) - 2 THEN <<v>> ELSE <<>>
          OBVIOUS
        <5>1. CASE b = k - 1
          <6>1. c[b] = <<v>>
            BY <4>1, <4>2, <4>4, <4>7, <5>1 DEF Contents
          <6>2. b <= (k + 1) - 2
            BY <4>2, <5>1
          <6> QED BY <6>1, <6>2
        <5>2. CASE b # k - 1
          <6>1. c[b] = copy[t][b]
            BY <4>1, <4>2, <4>4, <5>2 DEF Contents
          <6>2. copy[t][b] = IF b <= k - 2 THEN <<v>> ELSE <<>>
            BY <1>8, <3>3 DEF Filled
          <6>3. b <= k - 2 <=> b <= (k + 1) - 2
            BY <4>2, <5>2
          <6> QED BY <6>1, <6>2, <6>3
        <5> QED BY <5>1, <5>2
      <4>10. /\ copy' \in [Tables -> Contents \cup {Nobody}]
             /\ copy'[t] = c
             /\ \A u \in Tables : u # t => copy'[u] = copy[u]
        BY <1>5, <1>8, <4>5, <4>8
      <4> QED BY <4>2, <4>8, <4>9, <4>10, <3>3 DEF Filled
    <3> QED BY <1>5, <3>1, <3>2, <3>3
  <2>5. \A i \in Jobs : i # j => job[i] = NoJob
    BY <1>0, <1>1, OthersIdle DEF RepInv
  <2>6. job' = [job EXCEPT ![j] = m] /\ job'[j] = m /\ \A i \in Jobs : i # j => job'[i] = NoJob
    BY <2>3, <2>5 DEF Become, RepInv, DbTypes
  <2>7. DbTypes'
    BY <1>1, <2>2, <2>4, <2>6 DEF RepInv, DbTypes
  <2>8. ASSUME NEW u \in Tables
        PROVE  /\ Dumped(m, u)'
               /\ u < m.at[1] => Holds(u, m.vers[u])'
               /\ u = m.at[1] => Filled(u, m.vers[u], m.at[2])'
    <3>1. Dumped(m, u)'
      BY <1>1, <1>2, <2>2 DEF Importing, Dumped
    <3>2. u < t => Holds(u, m.vers[u])'
      <4>1. u < t => u # t
        BY <1>5 DEF Tables
      <4> QED BY <1>1, <1>2, <1>3, <2>2, <2>4, <4>1 DEF Importing, Holds
    <3>3. CASE k = 1 + Batches(t)
      <4>1. m.at[1] = t + 1 /\ m.at[2] = 0
        BY <1>3, <2>2, <3>3 DEF After
      <4>2. Holds(t, v)'
        <5>1. copy'[t] \in Contents /\ (k + 1) - 2 = Batches(t)
          BY <1>5, <2>4, <3>3 DEF Filled
        <5>2. \A b \in 1..NBatches : copy'[t][b] = IF b <= Batches(t) THEN <<v>> ELSE <<>>
          BY <1>5, <2>4, <3>3, <5>1 DEF Filled
        <5> QED BY <5>1, <5>2, NoTableAssumption DEF Holds, Contents
      <4>3. u < t + 1 => u < t \/ u = t
        BY <1>5 DEF Tables
      <4> QED BY <1>3, <2>2, <3>1, <3>2, <4>1, <4>2, <4>3 DEF Filled
    <3>4. CASE k # 1 + Batches(t)
      <4>1. m.at[1] = t /\ m.at[2] = k + 1
        BY <1>3, <2>2, <3>4 DEF After
      <4> QED BY <1>3, <2>2, <2>4, <3>1, <3>2, <4>1
    <3> QED BY <3>3, <3>4
  <2>9. Importing(m)'
    BY <1>1, <1>2, <1>4, <2>2, <2>8 DEF Importing
  <2>10. \A i \in Jobs : Dumping(job[i])' /\ Importing(job[i])'
    <3>1. Dumping(m)'
      BY <2>2 DEF Dumping
    <3> QED BY <2>6, <2>9, <3>1, NoJobFacts DEF Dumping, Importing
  <2> QED BY <1>1, <2>7, <2>10 DEF RepInv, CleanReplace
<1> QED BY <1>10, <1>11

(* The end of the whole file: every table holds the version it was dumped  *)
(* in, and this is what is reported.                                       *)
LEMMA ImportEndsClean == ASSUME RepInv, NEW j \in Jobs, ImportEnds(j), JInv' PROVE RepInv'
<1>0. PICK o : o = job[j]
  OBVIOUS
<1>1. /\ o \in JobType /\ o.pc = "import" /\ o.at = o.end /\ data \in Vers
      /\ EndJob(j) /\ UNCHANGED <<data, copy, cut>>
  BY <1>0 DEF ImportEnds, RepInv, DbTypes
<1>2. Importing(o)
  BY <1>0 DEF RepInv
<1>3. told' = told \/ told' = o.from
  BY <1>0 DEF ImportEnds
<1>4. job' = [job EXCEPT ![j] = NoJob] /\ \A i \in Jobs : job'[i] = NoJob
  <2>1. job' = [job EXCEPT ![j] = NoJob]
    BY <1>1 DEF EndJob, Become
  <2>2. \A i \in Jobs : i # j => job[i] = NoJob
    BY <1>0, <1>1, OthersIdle DEF RepInv
  <2> QED BY <2>1, <2>2 DEF RepInv, DbTypes
<1>5. DbTypes'
  BY <1>1, <1>3, <1>4, NoJobFacts DEF RepInv, DbTypes, JobType
<1>6. \A i \in Jobs : Dumping(job[i])' /\ Importing(job[i])'
  BY <1>4, NoJobFacts DEF Dumping, Importing
<1>7. CleanReplace'
  <2>1. CASE told' = told
    BY <1>1, <2>1 DEF RepInv, CleanReplace, Holds
  <2>2. CASE told' = o.from
    <3> SUFFICES ASSUME ~cut, NEW t \in Tables PROVE \E v \in o.from[t]..data[t] : Holds(t, v)
      BY <1>1, <2>2 DEF CleanReplace, Holds
    <3>1. o.at[1] = NTables + 1
      BY <1>1, <1>2 DEF Importing, End
    <3>2. t < NTables + 1
      BY SizeFacts DEF Tables
    <3>3. Holds(t, o.vers[t]) /\ Dumped(o, t)
      BY <1>1, <1>2, <3>1, <3>2 DEF Importing
    <3>4. o.vers[t] \in o.from[t]..data[t]
      BY <1>1, <3>3 DEF JobType, Vers, Dumped
    <3> QED BY <3>3, <3>4
  <2> QED BY <1>3, <2>1, <2>2
<1> QED BY <1>5, <1>6, <1>7 DEF RepInv

(* The master goes on writing: the copy is a version behind, not mixed.    *)
LEMMA WriteClean == ASSUME RepInv, NEW t \in Tables, Write(t), JInv' PROVE RepInv'
<1>1. /\ data \in Vers /\ data' = [data EXCEPT ![t] = data[t] + 1]
      /\ UNCHANGED <<copy, job, told, cut>>
  BY DEF Write, RepInv, DbTypes
<1>2. data' \in Vers /\ \A u \in Tables : data[u] \in Nat /\ data'[u] \in Nat /\ data[u] <= data'[u]
  BY <1>1 DEF Vers
<1>3. DbTypes'
  BY <1>1, <1>2 DEF RepInv, DbTypes
<1>4. ASSUME NEW j \in Jobs PROVE Dumping(job[j])' /\ Importing(job[j])'
  <2>1. PICK m : m = job[j]
    OBVIOUS
  <2>2. m \in JobType /\ Dumping(m) /\ Importing(m) /\ job'[j] = m
    BY <1>1, <2>1 DEF RepInv, DbTypes
  <2>3. ASSUME NEW u \in Tables PROVE /\ Dumped(m, u) => Dumped(m, u)'
                                      /\ m.from[u] <= data[u] => m.from[u] <= data'[u]
    <3>1. m.from[u] \in Nat /\ m.vers[u] \in Nat
      BY <2>2 DEF JobType, Vers
    <3> QED BY <1>2, <3>1 DEF Dumped
  <2>4. Dumping(m)'
    BY <2>2, <2>3 DEF Dumping
  <2>5. Importing(m)'
    BY <1>1, <2>2, <2>3 DEF Importing, Holds, Filled
  <2> QED BY <2>2, <2>4, <2>5
<1>5. CleanReplace'
  <2> SUFFICES ASSUME told # Nobody, ~cut, NEW u \in Tables
               PROVE  \E v \in told[u]..data'[u] : Holds(u, v)
    BY <1>1 DEF CleanReplace, Holds
  <2>1. PICK v \in told[u]..data[u] : Holds(u, v)
    BY DEF RepInv, CleanReplace
  <2>2. told[u] \in Nat
    BY DEF RepInv, DbTypes, Vers
  <2> QED BY <1>2, <2>1, <2>2
<1> QED BY <1>3, <1>4, <1>5 DEF RepInv

LEMMA CrashClean == ASSUME RepInv, Crash, JInv' PROVE RepInv'
<1>1. /\ job' = [j \in Jobs |-> NoJob] /\ \A j \in Jobs : job'[j] = NoJob
      /\ UNCHANGED <<data, copy, told, cut>>
  BY DEF Crash
<1>2. DbTypes'
  BY <1>1, NoJobFacts DEF RepInv, DbTypes
<1>3. \A j \in Jobs : Dumping(job[j])' /\ Importing(job[j])'
  BY <1>1, NoJobFacts DEF Dumping, Importing
<1>4. CleanReplace'
  BY <1>1 DEF RepInv, CleanReplace, Holds
<1> QED BY <1>2, <1>3, <1>4 DEF RepInv

LEMMA RepStep == RepInv /\ [Next]_vars => RepInv'
<1> SUFFICES ASSUME RepInv, [Next]_vars PROVE RepInv'
  OBVIOUS
<1>1. CASE UNCHANGED dbVars
  BY <1>1 DEF dbVars, RepInv, DbTypes, JInv, OneJob, Dumping, Importing, Dumped, Filled,
              CleanReplace, Holds
<1>2. CASE DatabaseNext
  <2>1. JInv'
    BY <1>2, JobStepOnce DEF RepInv
  <2>2. ASSUME NEW j \in Jobs, JobFails(j) PROVE RepInv'
    <3>1. job[j] # NoJob /\ EndJob(j) /\ UNCHANGED <<data, copy, told>>
      BY <2>2 DEF JobFails
    <3>2. cut => cut'
      BY <2>2, Zenon DEF JobFails
    <3> QED BY <2>1, <3>1, <3>2, EndStep
  <2> QED BY <1>2, <2>1, <2>2, BeginClean, DumpClean, TransferClean, ImportClean, ImportEndsClean,
             WriteClean, CrashClean DEF DatabaseNext, JobStep
<1> QED BY <1>1, <1>2 DEF Next, vars

(* "Each import is a clean replace, never a duplicate": for any tables,    *)
(* batches and jobs, and whatever failed before, a copy that is reported   *)
(* has every row of one version of each table once, no older than when the *)
(* job began, as long as no dump ended early.                              *)
THEOREM ReplaceIsClean == Spec => []CleanReplace
<1>1. RepInv => CleanReplace
  BY DEF RepInv
<1> QED BY <1>1, RepInit, RepStep, PTL DEF Spec

-----------------------------------------------------------------------------
(* Types: versions are within the bound on writes. *)

Written == 0..MaxWrites
BoundedJob == [pc : {"idle", "dump", "import"}, t : 0..(NTables + 1), vers : [Tables -> Written],
               from : [Tables -> Written], at : Places, end : Places, torn : BOOLEAN]
BoundedTable == [1..NBatches -> Seq(Written)]
BoundedTypes ==
    /\ data \in [Tables -> Written]
    /\ copy \in [Tables -> BoundedTable \cup {Nobody}]
    /\ job \in [Jobs -> BoundedJob]
    /\ faults \in 0..MaxFaults
    /\ told \in [Tables -> Written] \cup {Nobody}
    /\ busy \in BOOLEAN /\ cut \in BOOLEAN

LEMMA NoJobBounded == NoJob \in BoundedJob
<1>1. <<1, 0>> \in Places
  BY NoJobFacts DEF JobType
<1>2. NoTables \in [Tables -> Written]
  BY SizeFacts DEF NoTables, Written
<1> QED BY <1>1, <1>2, SizeFacts DEF NoJob, BoundedJob, Places

(* A job goes on or ends. *)
LEMMA JobBounded ==
    ASSUME BoundedTypes, NEW j \in Jobs, NEW m \in BoundedJob, job' = [job EXCEPT ![j] = m],
           UNCHANGED data, copy' \in [Tables -> BoundedTable \cup {Nobody}],
           faults' \in 0..MaxFaults, told' \in [Tables -> Written] \cup {Nobody},
           busy' \in BOOLEAN, cut' \in BOOLEAN
    PROVE  BoundedTypes'
<1>1. job' \in [Jobs -> BoundedJob]
  BY DEF BoundedTypes
<1> QED BY <1>1, Zenon DEF BoundedTypes

(* A statement leaves a table, or none. *)
LEMMA ImportBounded ==
    ASSUME RepInv, BoundedTypes, NEW j \in Jobs, Import(j) PROVE BoundedTypes'
<1>0. PICK o : o = job[j]
  OBVIOUS
<1>1. /\ o \in JobType /\ o \in BoundedJob /\ o.pc = "import" /\ o.at # o.end
      /\ UNCHANGED <<data, faults>> /\ told' = Nobody /\ faults \in 0..MaxFaults
      /\ copy \in [Tables -> BoundedTable \cup {Nobody}]
  BY <1>0 DEF Import, RepInv, DbTypes, BoundedTypes
<1>2. cut' \in BOOLEAN /\ busy \in BOOLEAN
  BY Zenon DEF Import, BoundedTypes
<1>3. Importing(o) /\ o.at \in Places /\ o.end \in Places
  BY <1>0, <1>1 DEF RepInv, JobType
<1>4. PICK t, k, v : t = o.at[1] /\ k = o.at[2] /\ v = o.vers[t]
  OBVIOUS
<1>5. o.at \in Within /\ o.at # End
  <2>1. o.at \in Within
    BY <1>1, <1>3, PlaceMoves DEF Importing
  <2>2. End \notin Within
    BY SizeFacts DEF End, Within, Tables
  <2> QED BY <2>1, <2>2
<1>6. /\ t \in Tables /\ k \in 0..(1 + Batches(t)) /\ After(o.at) \in Places
      /\ Batches(t) \in Nat /\ Batches(t) <= NBatches /\ NBatches \in Nat
  BY <1>3, <1>4, <1>5, PlaceFacts, BatchFacts, SizeFacts
<1>7. PICK s : s = TableScript(t)[k + 1]
  OBVIOUS
<1>8. /\ k = 0 => s = Statement("drop", t, 0)
      /\ k = 1 => s = Statement("create", t, 0)
      /\ k > 1 => s = Statement("insert", t, k - 1)
  BY <1>6, <1>7, ScriptFacts
<1>9. k = 0 \/ k = 1 \/ k > 1
  BY <1>6
<1>10. /\ s.t = t
       /\ k = 0 => s.kind = "drop"
       /\ k = 1 => s.kind = "create"
       /\ k > 1 => s.kind = "insert" /\ s.b = k - 1
  <2>1. ~(0 > 1) /\ ~(1 > 1) /\ 0 # 1
    OBVIOUS
  <2> QED BY <1>8, <1>9, <2>1 DEF Statement
<1>11. v \in Written /\ Filled(t, v, k)
  BY <1>1, <1>3, <1>4, <1>6 DEF Importing, BoundedJob
<1>12. CASE Executed(s, v) = Nobody
  <2>1. EndJob(j) /\ UNCHANGED copy
    BY <1>0, <1>4, <1>7, <1>10, <1>12 DEF Import
  <2>2. busy' \in BOOLEAN /\ job' = [job EXCEPT ![j] = NoJob]
    BY <2>1, Zenon DEF EndJob, Become
  <2> QED BY <1>1, <1>2, <2>1, <2>2, NoJobBounded, JobBounded
<1>13. CASE Executed(s, v) # Nobody
  <2>1. PICK m : m = [o EXCEPT !.at = After(@)]
    OBVIOUS
  <2>2. m \in BoundedJob
    BY <1>1, <1>6, <2>1 DEF BoundedJob
  <2>3. copy' = Executed(s, v) /\ job' = [job EXCEPT ![j] = m]
    BY <1>0, <1>4, <1>7, <1>10, <1>13, <2>1 DEF Import, Become
  <2>4. busy' = busy
    BY <1>0, <1>4, <1>7, <1>10, <1>13 DEF Import
  <2>5. copy' \in [Tables -> BoundedTable \cup {Nobody}]
    <3>1. CASE k = 0
      <4>1. copy' = [copy EXCEPT ![t] = Nobody]
        BY <1>10, <2>3, <3>1 DEF Executed
      <4> QED BY <1>1, <4>1
    <3>2. CASE k = 1
      <4>1. copy[t] = Nobody
        BY <1>11, <3>2 DEF Filled
      <4>2. copy' = [copy EXCEPT ![t] = EmptyTable]
        BY <1>10, <2>3, <3>2, <4>1 DEF Executed
      <4>3. EmptyTable \in BoundedTable
        BY DEF EmptyTable, BoundedTable
      <4> QED BY <1>1, <4>2, <4>3
    <3>3. CASE k > 1
      <4>1. copy[t] \in BoundedTable /\ copy[t] # Nobody
        BY <1>1, <1>6, <1>11, <3>3, NoTableAssumption DEF Filled, Contents
      <4>2. k - 1 \in 1..NBatches
        BY <1>6, <3>3
      <4>3. s.kind = "insert" /\ s.b = k - 1 /\ s.t = t
        BY <1>10, <3>3
      <4>4. copy' = [copy EXCEPT ![t][k - 1] = Append(@, v)]
        BY <2>3, <4>1, <4>3 DEF Executed
      <4>5. Append(copy[t][k - 1], v) \in Seq(Written)
        <5>1. copy[t][k - 1] \in Seq(Written)
          BY <4>1, <4>2 DEF BoundedTable
        <5> QED BY <1>11, <5>1, AppendProperties
      <4>6. PICK c : c = [copy[t] EXCEPT ![k - 1] = Append(copy[t][k - 1], v)]
        OBVIOUS
      <4>7. c \in BoundedTable
        BY <4>1, <4>2, <4>5, <4>6 DEF BoundedTable
      <4>8. copy' = [copy EXCEPT ![t] = c]
        BY <1>1, <1>6, <4>4, <4>6
      <4> QED BY <1>1, <4>7, <4>8
    <3> QED BY <1>9, <3>1, <3>2, <3>3
  <2>6. busy' \in BOOLEAN
    BY <1>2, <2>4
  <2> QED BY <1>1, <1>2, <2>2, <2>3, <2>5, <2>6, JobBounded
<1> QED BY <1>12, <1>13

LEMMA BoundedStep ==
    ASSUME RepInv, BoundedTypes, [Next]_vars PROVE BoundedTypes'
<1>0. /\ data \in [Tables -> Written] /\ copy \in [Tables -> BoundedTable \cup {Nobody}]
      /\ job \in [Jobs -> BoundedJob] /\ faults \in 0..MaxFaults
      /\ told \in [Tables -> Written] \cup {Nobody}
  BY DEF BoundedTypes
<1>1. busy \in BOOLEAN /\ cut \in BOOLEAN
  BY DEF BoundedTypes
<1>2. Fault => faults' \in 0..MaxFaults
  BY <1>0, SizeAssumption DEF Fault
<1>3. CASE UNCHANGED dbVars
  BY <1>3, Zenon DEF dbVars, BoundedTypes
<1>4. ASSUME NEW j \in Jobs, ReplicateDatabase(j) PROVE BoundedTypes'
  <2>1. PICK m : m = [NoJob EXCEPT !.pc = "dump", !.t = 1, !.from = data]
    OBVIOUS
  <2>2. m \in BoundedJob
    <3>1. m = [pc |-> "dump", t |-> 1, vers |-> NoTables, from |-> data, at |-> <<1, 0>>,
               end |-> End, torn |-> FALSE]
      BY <2>1 DEF NoJob
    <3>2. NoTables \in [Tables -> Written] /\ <<1, 0>> \in Places /\ 1 \in 0..(NTables + 1)
      BY NoJobBounded, SizeFacts DEF NoJob, BoundedJob
    <3> QED BY <1>0, <3>1, <3>2 DEF BoundedJob, Places
  <2>3. job' = [job EXCEPT ![j] = m] /\ UNCHANGED <<data, copy, faults, told, cut>>
    BY <1>4, <2>1 DEF ReplicateDatabase, Become
  <2>4. busy' \in BOOLEAN /\ cut' \in BOOLEAN
    BY <1>1, <1>4, Zenon DEF ReplicateDatabase
  <2> QED BY <1>0, <2>2, <2>3, <2>4, JobBounded
<1>5. ASSUME NEW j \in Jobs, WriteDump(j) PROVE BoundedTypes'
  <2>1. PICK o, m : o = job[j] /\ m = [o EXCEPT !.t = @ + 1, !.vers[o.t] = data[o.t]]
    OBVIOUS
  <2>2. o \in BoundedJob /\ o.t <= NTables
    BY <1>0, <1>5, <2>1 DEF WriteDump
  <2>3. /\ m = [o EXCEPT !.t = o.t + 1, !.vers = [o.vers EXCEPT ![o.t] = data[o.t]]]
        /\ o.t + 1 \in 0..(NTables + 1)
    BY <2>1, <2>2, SizeFacts DEF BoundedJob
  <2>4. [o.vers EXCEPT ![o.t] = data[o.t]] \in [Tables -> Written]
    <3>1. CASE o.t \in Tables
      BY <1>0, <2>2, <3>1 DEF BoundedJob
    <3>2. CASE o.t \notin Tables
      BY <2>2, <3>2 DEF BoundedJob
    <3> QED BY <3>1, <3>2
  <2>5. m \in BoundedJob
    BY <2>2, <2>3, <2>4 DEF BoundedJob
  <2>6. job' = [job EXCEPT ![j] = m] /\ UNCHANGED <<data, copy, busy, faults, told, cut>>
    BY <1>5, <2>1 DEF WriteDump, Become
  <2> QED BY <1>0, <1>1, <2>5, <2>6, JobBounded
<1>6. ASSUME NEW j \in Jobs, Transfer(j) PROVE BoundedTypes'
  <2>1. PICK m : m = [job[j] EXCEPT !.pc = "import"]
    OBVIOUS
  <2>2. m \in BoundedJob
    BY <1>0, <2>1 DEF BoundedJob
  <2>3. job' = [job EXCEPT ![j] = m] /\ UNCHANGED <<data, copy, busy, faults, told, cut>>
    BY <1>6, <2>1 DEF Transfer, Become
  <2> QED BY <1>0, <1>1, <2>2, <2>3, JobBounded
<1>7. ASSUME NEW j \in Jobs, TransferCut(j) PROVE BoundedTypes'
  <2>1. PICK p \in Within, torn \in BOOLEAN :
           Become(j, [job[j] EXCEPT !.pc = "import", !.end = p, !.torn = torn])
    BY <1>7 DEF TransferCut
  <2>2. PICK m : m = [job[j] EXCEPT !.pc = "import", !.end = p, !.torn = torn]
    OBVIOUS
  <2>3. m \in BoundedJob
    BY <1>0, <2>2 DEF BoundedJob, Places
  <2>4. /\ job' = [job EXCEPT ![j] = m] /\ UNCHANGED <<data, copy, busy, told>>
        /\ faults' \in 0..MaxFaults
    BY <1>2, <1>7, <2>1, <2>2 DEF TransferCut, Become
  <2>5. cut' \in BOOLEAN
    BY <1>7, Zenon DEF TransferCut
  <2> QED BY <1>0, <1>1, <2>3, <2>4, <2>5, JobBounded
<1>8. ASSUME NEW j \in Jobs, ImportEnds(j) PROVE BoundedTypes'
  <2>1. /\ job' = [job EXCEPT ![j] = NoJob] /\ UNCHANGED <<data, copy, faults, cut>>
        /\ told' \in {told, job[j].from}
    BY <1>8 DEF ImportEnds, EndJob, Become
  <2>2. busy' \in BOOLEAN
    BY <1>8, Zenon DEF ImportEnds, EndJob
  <2>3. told' \in [Tables -> Written] \cup {Nobody}
    BY <1>0, <2>1 DEF BoundedJob
  <2> QED BY <1>0, <1>1, <2>1, <2>2, <2>3, NoJobBounded, JobBounded
<1>9. ASSUME NEW j \in Jobs, JobFails(j) PROVE BoundedTypes'
  <2>1. /\ job' = [job EXCEPT ![j] = NoJob] /\ UNCHANGED <<data, copy, told, cut>>
        /\ faults' \in 0..MaxFaults
    BY <1>2, <1>9 DEF JobFails, EndJob, Become
  <2>2. busy' \in BOOLEAN
    BY <1>9, Zenon DEF JobFails, EndJob
  <2> QED BY <1>0, <1>1, <2>1, <2>2, NoJobBounded, JobBounded
<1>10. ASSUME NEW t \in Tables, Write(t) PROVE BoundedTypes'
  <2>1. data' \in [Tables -> Written] /\ UNCHANGED <<copy, busy, job, faults, told, cut>>
    BY <1>0, <1>10, SizeFacts DEF Write, Written
  <2> QED BY <1>0, <1>1, <2>1 DEF BoundedTypes
<1>11. CASE Crash
  <2>1. /\ job' = [j \in Jobs |-> NoJob] /\ UNCHANGED <<data, copy, told, cut>>
        /\ faults' \in 0..MaxFaults
    BY <1>2, <1>11 DEF Crash
  <2>2. busy' \in BOOLEAN
    BY <1>11, Zenon DEF Crash
  <2>3. job' \in [Jobs -> BoundedJob]
    BY <2>1, NoJobBounded
  <2> QED BY <1>0, <1>1, <2>1, <2>2, <2>3 DEF BoundedTypes
<1> QED BY <1>3, <1>4, <1>5, <1>6, <1>7, <1>8, <1>9, <1>10, <1>11, ImportBounded
        DEF Next, vars, DatabaseNext, JobStep

(* The copy of the databases and the registry beside it keep their types:  *)
(* the import never leaves the dump, and executes whole statements of it.  *)
THEOREM TypeCorrect == Spec => []TypeOK
<1>1. Init => BoundedTypes
  <2> SUFFICES ASSUME Init PROVE BoundedTypes
    OBVIOUS
  <2>1. busy \in BOOLEAN /\ cut \in BOOLEAN
    BY Zenon DEF Init
  <2>2. NoTables \in [Tables -> Written]
    BY SizeFacts DEF NoTables, Written
  <2>3. job \in [Jobs -> BoundedJob]
    BY NoJobBounded DEF Init
  <2> QED BY <2>1, <2>2, <2>3, SizeAssumption DEF Init, BoundedTypes
<1>2. RepInv /\ BoundedTypes /\ [Next]_vars => BoundedTypes'
  BY BoundedStep
<1>3. RegistryTypeOK /\ BoundedTypes => TypeOK
  BY DEF TypeOK, DatabaseTypeOK, BoundedTypes, BoundedJob, BoundedTable, Written, Places
<1> QED BY <1>1, <1>2, <1>3, RepInit, RepStep, RegistryTypeCorrect, PTL DEF Spec
=============================================================================
