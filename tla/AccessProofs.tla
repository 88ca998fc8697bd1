---------------------------- MODULE AccessProofs -----------------------------
(***************************************************************************)
(* What others are allowed on a user's cloud. For temporary URLs, for any  *)
(* number of links, requests and limits: under every interleaving nothing  *)
(* is written that the owner did not allow, the counter stays within the   *)
(* limit, so do the requests served as long as no count was lost, and a    *)
(* deleted link stays deleted unless a request on it was under way. For    *)
(* the remote terminal and its feature flag: types, and that an            *)
(* acknowledged toggle stays (ToggleSticks).                               *)
(***************************************************************************)
EXTENDS TempUrl, RemoteTerminal, FiniteSetTheorems, TLAPS

LEMMA TypeInit == Init => TypeOK
  BY DEF Init, TypeOK, Targets, Idle

(* What a request that is resolved does: it gives up, or counts itself in  *)
(* the row it holds.                                                       *)
LEMMA ResolveFacts ==
  ASSUME TypeOK, NEW h \in Handlers, Resolve(h)
  PROVE  /\ handler[h] \in [pc : {"checked"}, op : Ops, link : Links, temp : Rows]
         /\ \/ handler' = [handler EXCEPT ![h] = Idle]
            \/ \E t \in Rows :
                 /\ t.requests = handler[h].temp.requests + 1
                 /\ SameTerms(t, handler[h].temp)
                 /\ handler' = [handler EXCEPT ![h] =
                        [pc |-> "resolved", op |-> handler[h].op,
                         link |-> handler[h].link, temp |-> t]]
<1> DEFINE m == handler[h]
           t == Counting(m.temp)
           r == [pc |-> "resolved", op |-> m.op, link |-> m.link, temp |-> t]
<1>1. m \in [pc : {"checked"}, op : Ops, link : Links, temp : Rows]
  BY DEF Resolve, At, TypeOK, Idle
<1>2. t \in Rows /\ SameTerms(t, m.temp) /\ t.requests = m.temp.requests + 1
  BY <1>1 DEF Counting, Rows, SameTerms
<1>4. handler' = [handler EXCEPT ![h] = r] \/ handler' = [handler EXCEPT ![h] = Idle]
  BY DEF Resolve, Become
<1>5. CASE handler' = [handler EXCEPT ![h] = Idle]
  BY <1>1, <1>5
<1>6. CASE handler' = [handler EXCEPT ![h] = r]
  <2> HIDE DEF t
  <2>1. \E u \in Rows :
          /\ u.requests = handler[h].temp.requests + 1
          /\ SameTerms(u, handler[h].temp)
          /\ handler' = [handler EXCEPT ![h] =
                 [pc |-> "resolved", op |-> handler[h].op,
                  link |-> handler[h].link, temp |-> u]]
    <3> t \in Rows
      BY <1>2
    <3> WITNESS t \in Rows
    <3> QED BY <1>2, <1>6
  <2> QED BY <1>1, <2>1
<1> QED BY <1>4, <1>5, <1>6

(* The types are kept, one step of a request after the other. *)
LEMMA TypeStep == TypeOK /\ [Next]_vars => TypeOK'
<1> SUFFICES ASSUME TypeOK, [Next]_vars PROVE TypeOK'
  OBVIOUS
<1> USE LimitsAssumption, NoneAssumption DEF TypeOK, history
<1>1. ASSUME NEW l \in Links, NEW max \in Limits, NEW ro \in BOOLEAN, NEW au \in BOOLEAN,
             Generate(l, max, ro, au)
      PROVE  TypeOK'
  BY <1>1 DEF Generate, Rows
<1>2. ASSUME NEW l \in Links, Delete(l) PROVE TypeOK'
  BY <1>2 DEF Delete
<1>3. ASSUME NEW l \in Links, NEW what \in Targets, Replace(l, what) PROVE TypeOK'
  BY <1>3 DEF Replace
<1>4. ASSUME NEW l \in Links, Expire(l) PROVE TypeOK'
  BY <1>4 DEF Expire
<1>5. ASSUME NEW h \in Handlers, NEW op \in Ops, NEW l \in Links, Find(h, op, l) PROVE TypeOK'
  BY <1>5 DEF Find, Become
<1>6. ASSUME NEW h \in Handlers, Check(h) PROVE TypeOK'
  BY <1>6 DEF Check, Become, At, Idle
<1>7. ASSUME NEW h \in Handlers, Resolve(h) PROVE TypeOK'
  <2>1. /\ handler[h] \in [pc : {"checked"}, op : Ops, link : Links, temp : Rows]
        /\ UNCHANGED <<row, target, expired, terms, served, written, revoked, crossed, pressed>>
    BY <1>7, ResolveFacts DEF Resolve
  <2>2. CASE handler' = [handler EXCEPT ![h] = Idle]
    BY <2>1, <2>2 DEF Idle
  <2>3. ASSUME NEW t \in Rows,
               t.requests = handler[h].temp.requests + 1,
               SameTerms(t, handler[h].temp),
               handler' = [handler EXCEPT ![h] =
                    [pc |-> "resolved", op |-> handler[h].op,
                     link |-> handler[h].link, temp |-> t]]
        PROVE  TypeOK'
    BY <2>1, <2>3
  <2> QED BY <1>7, <2>2, <2>3, ResolveFacts
<1>8. ASSUME NEW h \in Handlers, Count(h) PROVE TypeOK'
  BY <1>8 DEF Count, Become, At, Idle
<1>9. ASSUME NEW h \in Handlers, Serve(h) PROVE TypeOK'
  BY <1>9 DEF Serve, Become, At, Idle, Targets
<1>10. CASE UNCHANGED vars
  BY <1>10 DEF vars
<1> QED BY <1>1, <1>2, <1>3, <1>4, <1>5, <1>6, <1>7, <1>8, <1>9, <1>10
        DEF Next, Owner, Requests

(* Rows, requests and counters of TempUrlService are well-typed in every   *)
(* reachable state.                                                        *)
THEOREM TypeCorrect == Spec => []TypeOK
  BY TypeInit, TypeStep, PTL DEF Spec

-----------------------------------------------------------------------------
LEMMA GrantInit == Init => GrantInv
  BY DEF Init, GrantInv, TermsKept, LetThrough, WritesGranted, CounterBounded, Busy, Idle

(* What was generated, read, checked and counted keeps the owner's terms.  *)
LEMMA GrantStep == TypeOK /\ GrantInv /\ [Next]_vars => GrantInv'
<1> SUFFICES ASSUME TypeOK, GrantInv, [Next]_vars PROVE GrantInv'
  OBVIOUS
<1> USE LimitsAssumption, NoneAssumption
    DEF TypeOK, history, GrantInv, TermsKept, LetThrough, WritesGranted, CounterBounded, Busy
<1>1. ASSUME NEW l \in Links, NEW max \in Limits, NEW ro \in BOOLEAN, NEW au \in BOOLEAN,
             Generate(l, max, ro, au)
      PROVE  GrantInv'
  BY <1>1 DEF Generate, Rows, SameTerms
<1>2. ASSUME NEW l \in Links, Delete(l) PROVE GrantInv'
  BY <1>2 DEF Delete
<1>3. ASSUME NEW l \in Links, NEW what \in Targets, Replace(l, what) PROVE GrantInv'
  BY <1>3 DEF Replace
<1>4. ASSUME NEW l \in Links, Expire(l) PROVE GrantInv'
  BY <1>4 DEF Expire
<1>5. ASSUME NEW h \in Handlers, NEW op \in Ops, NEW l \in Links, Find(h, op, l) PROVE GrantInv'
  BY <1>5 DEF Find, Become
<1>6. ASSUME NEW h \in Handlers, Check(h) PROVE GrantInv'
  BY <1>6 DEF Check, Become, At, Idle, VerifyUrlConditions
<1>7. ASSUME NEW h \in Handlers, Resolve(h) PROVE GrantInv'
  <2>1. /\ handler[h] \in [pc : {"checked"}, op : Ops, link : Links, temp : Rows]
        /\ UNCHANGED <<row, terms, written>>
    BY <1>7, ResolveFacts DEF Resolve
  <2>2. CASE handler' = [handler EXCEPT ![h] = Idle]
    BY <2>1, <2>2 DEF Idle
  <2>3. ASSUME NEW t \in Rows,
               t.requests = handler[h].temp.requests + 1,
               SameTerms(t, handler[h].temp),
               handler' = [handler EXCEPT ![h] =
                    [pc |-> "resolved", op |-> handler[h].op,
                     link |-> handler[h].link, temp |-> t]]
        PROVE  GrantInv'
    <3>1. TermsKept'
      BY <2>1, <2>3 DEF SameTerms
    <3>2. LetThrough'
      <4>1. /\ handler'[h].pc = "resolved" /\ handler'[h].op = handler[h].op
            /\ handler'[h].temp = t
            /\ \A k \in Handlers \ {h} : handler'[k] = handler[k]
        BY <2>3
      <4>2. t.requests <= t.max_requests
        <5>1. handler[h].temp.requests < handler[h].temp.max_requests
          BY <2>1
        <5>2. t.max_requests = handler[h].temp.max_requests
          BY <2>3 DEF SameTerms
        <5>3. handler[h].temp.requests \in Nat /\ t.max_requests \in Nat
          BY <2>1 DEF Rows
        <5> QED BY <2>3, <5>1, <5>2, <5>3
      <4>3. handler[h].op = "save" => ~t.is_readonly /\ ~t.is_dir
        BY <2>1, <2>3 DEF SameTerms
      <4> QED BY <4>1, <4>2, <4>3
    <3> QED BY <2>1, <3>1, <3>2
  <2> QED BY <1>7, <2>2, <2>3, ResolveFacts
<1>8. ASSUME NEW h \in Handlers, Count(h) PROVE GrantInv'
  BY <1>8 DEF Count, Become, At, Idle
<1>9. ASSUME NEW h \in Handlers, Serve(h) PROVE GrantInv'
  BY <1>9 DEF Serve, Become, At, Idle, SameTerms
<1>10. CASE UNCHANGED vars
  BY <1>10 DEF vars
<1> QED BY <1>1, <1>2, <1>3, <1>4, <1>5, <1>6, <1>7, <1>8, <1>9, <1>10
        DEF Next, Owner, Requests

(* TempUrlService.save writes no file through a link that was generated    *)
(* read-only or for a directory, whatever requests overlap.                *)
THEOREM OnlyGrantedWrites == Spec => []WritesGranted
  <1>1. GrantInv => WritesGranted
    BY DEF GrantInv
  <1> QED BY TypeInit, TypeStep, GrantInit, GrantStep, <1>1, PTL DEF Spec

(* The counter of a link never exceeds its limit, whatever requests        *)
(* overlap.                                                                *)
THEOREM CounterWithinLimit == Spec => []CounterBounded
  <1>1. GrantInv => CounterBounded
    BY DEF GrantInv
  <1> QED BY TypeInit, TypeStep, GrantInit, GrantStep, <1>1, PTL DEF Spec

-----------------------------------------------------------------------------
LEMMA PendingFinite ==
  ASSUME NEW l PROVE IsFiniteSet(Pending(l)) /\ Cardinality(Pending(l)) \in Nat
<1>1. Pending(l) \in SUBSET Handlers
  BY DEF Pending
<1>2. IsFiniteSet(Pending(l))
  BY <1>1, HandlersAssumption, FS_Subset
<1> QED BY <1>2, FS_CardinalityType

(* A step of a request that neither counts nor serves it. *)
LEMMA PendingSame ==
  ASSUME NEW h \in Handlers, handler[h].pc # "counted", handler'[h].pc # "counted",
         \A k \in Handlers \ {h} : handler'[k] = handler[k]
  PROVE  \A l \in Links : Pending(l)' = Pending(l)
  BY DEF Pending

(* As long as the requests counted and served, and the counts lost, are    *)
(* the same and rows only go away, what is counted stays right.            *)
LEMMA CountedSame ==
  ASSUME Counted, UNCHANGED <<terms, served, crossed>>,
         \A l \in Links : Pending(l)' = Pending(l) /\ (row'[l] = row[l] \/ row'[l] = None)
  PROVE  Counted'
<1> SUFFICES ASSUME NEW l \in Links
             PROVE  /\ terms[l] = None => served[l] = 0 /\ Pending(l) = {}
                    /\ l \notin crossed /\ terms[l] # None =>
                         /\ served[l] + Cardinality(Pending(l)) <= terms[l].max_requests
                         /\ row'[l] # None =>
                              served[l] + Cardinality(Pending(l)) <= row'[l].requests
  BY DEF Counted
<1> QED BY DEF Counted

LEMMA UseInit == Init => UseInv
<1> SUFFICES ASSUME Init PROVE UseInv
  OBVIOUS
<1>1. \A l \in Links : Pending(l) = {}
  BY DEF Init, Pending, Idle
<1> QED BY <1>1 DEF Init, UseInv, Counted, Gone, RevokedStays

(* A request that counts itself, in a row that is what it had read, makes  *)
(* room for itself in the row.                                             *)
LEMMA CountStep ==
  ASSUME TypeOK, GrantInv, UseInv, NEW h \in Handlers, Count(h) PROVE Counted'
<1> USE NoneAssumption
<1> DEFINE m == handler[h]
<1>0. PICK l \in Links : l = m.link
  BY DEF Count, At, TypeOK, Idle
<1>1. /\ m \in [pc : {"resolved"}, op : Ops, link : Links, temp : Rows]
      /\ m.link = l /\ UNCHANGED <<terms, served>>
  BY <1>0 DEF Count, At, TypeOK, Idle
<1>2. CASE handler' = [handler EXCEPT ![h] = Idle] /\ UNCHANGED <<row, crossed>>
  <2>1. \A k \in Links : Pending(k)' = Pending(k)
    BY <1>1, <1>2, PendingSame DEF Idle, TypeOK
  <2> QED BY <1>1, <1>2, <2>1, CountedSame DEF UseInv
<1>3. CASE /\ row' = [row EXCEPT ![l] = m.temp]
           /\ crossed' = IF row[l] = None \/ row[l].requests + 1 # m.temp.requests
                         THEN crossed \cup {l} ELSE crossed
           /\ handler' = [handler EXCEPT ![h] = [m EXCEPT !.pc = "counted"]]
  <2>1. /\ Pending(l)' = Pending(l) \cup {h} /\ h \notin Pending(l)
        /\ \A k \in Links : k # l => Pending(k)' = Pending(k)
    BY <1>1, <1>3 DEF Pending, TypeOK
  <2>2. Cardinality(Pending(l)') = Cardinality(Pending(l)) + 1
    BY <2>1, PendingFinite, FS_AddElement
  <2>3. /\ terms[l] # None /\ terms[l] \in Rows
        /\ m.temp.requests <= terms[l].max_requests
    BY <1>1 DEF TypeOK, GrantInv, TermsKept, LetThrough, SameTerms, Busy
  <2>4. ASSUME NEW k \in Links, k # l
        PROVE  /\ terms[k] = None => served[k] = 0 /\ Pending(k)' = {}
               /\ k \notin crossed' /\ terms[k] # None =>
                    /\ served[k] + Cardinality(Pending(k)') <= terms[k].max_requests
                    /\ row'[k] # None =>
                         served[k] + Cardinality(Pending(k)') <= row'[k].requests
    <3>1. row'[k] = row[k] /\ (k \notin crossed' => k \notin crossed)
      BY <1>3, <2>4 DEF TypeOK
    <3> QED BY <2>1, <2>4, <3>1 DEF UseInv, Counted
  <2>5. ASSUME l \notin crossed'
        PROVE  /\ served[l] + Cardinality(Pending(l)') <= terms[l].max_requests
               /\ served[l] + Cardinality(Pending(l)') <= row'[l].requests
    <3>1. /\ l \notin crossed /\ row[l] # None /\ row[l].requests + 1 = m.temp.requests
          /\ row'[l] = m.temp
      BY <1>1, <1>3, <2>5 DEF TypeOK
    <3>2. served[l] + Cardinality(Pending(l)) <= row[l].requests
      BY <1>1, <2>3, <3>1 DEF UseInv, Counted
    <3>3. /\ served[l] \in Nat /\ Cardinality(Pending(l)) \in Nat
          /\ row[l].requests \in Nat /\ terms[l].max_requests \in Nat
          /\ m.temp.requests \in Nat
      BY <1>1, <2>3, <3>1, PendingFinite, LimitsAssumption DEF TypeOK, Rows
    <3> HIDE DEF m
    <3> QED BY <2>2, <2>3, <3>1, <3>2, <3>3
  <2> QED BY <1>1, <2>3, <2>4, <2>5 DEF Counted
<1> QED BY <1>1, <1>2, <1>3 DEF Count, Become

(* A request that is served is no longer pending; one that fails is not    *)
(* served.                                                                 *)
LEMMA ServeStep ==
  ASSUME TypeOK, GrantInv, UseInv, NEW h \in Handlers, Serve(h) PROVE Counted'
<1> USE NoneAssumption
<1>0. PICK l \in Links : l = handler[h].link
  BY DEF Serve, At, TypeOK, Idle
<1>1. /\ handler[h].link = l
      /\ handler[h] \in [pc : {"counted"}, op : Ops, link : Links, temp : Rows]
      /\ handler' = [handler EXCEPT ![h] = Idle]
      /\ UNCHANGED <<row, terms, crossed>>
      /\ served' = [served EXCEPT ![l] = @ + 1] \/ served' = served
  BY <1>0 DEF Serve, At, Become, TypeOK, Idle
<1>2. /\ Pending(l)' = Pending(l) \ {h} /\ h \in Pending(l)
      /\ \A k \in Links : k # l => Pending(k)' = Pending(k)
  BY <1>1 DEF Pending, TypeOK, Idle
<1>3. Cardinality(Pending(l)') = Cardinality(Pending(l)) - 1
  BY <1>2, PendingFinite, FS_RemoveElement
<1>4. /\ served[l] \in Nat /\ Cardinality(Pending(l)) \in Nat
      /\ served'[l] \in {served[l], served[l] + 1}
      /\ \A k \in Links : k # l => served'[k] = served[k]
  BY <1>1, PendingFinite DEF TypeOK
<1>5. served'[l] + Cardinality(Pending(l)') <= served[l] + Cardinality(Pending(l))
      /\ served'[l] + Cardinality(Pending(l)') \in Int
  BY <1>3, <1>4
<1>6. terms[l] # None
  BY <1>1 DEF GrantInv, TermsKept, Busy
<1>7. ASSUME l \notin crossed
      PROVE  /\ served'[l] + Cardinality(Pending(l)') <= terms[l].max_requests
             /\ row[l] # None => served'[l] + Cardinality(Pending(l)') <= row[l].requests
  <2>1. /\ served[l] + Cardinality(Pending(l)) <= terms[l].max_requests
        /\ row[l] # None => served[l] + Cardinality(Pending(l)) <= row[l].requests
    BY <1>1, <1>6, <1>7 DEF UseInv, Counted
  <2>2. /\ terms[l].max_requests \in Nat
        /\ row[l] # None => row[l].requests \in Nat
    BY <1>1, <1>6, LimitsAssumption DEF TypeOK, Rows
  <2> QED BY <1>4, <1>5, <2>1, <2>2
<1>8. ASSUME NEW k \in Links, k # l
      PROVE  /\ terms[k] = None => served'[k] = 0 /\ Pending(k)' = {}
             /\ k \notin crossed /\ terms[k] # None =>
                  /\ served'[k] + Cardinality(Pending(k)') <= terms[k].max_requests
                  /\ row[k] # None =>
                       served'[k] + Cardinality(Pending(k)') <= row[k].requests
  BY <1>2, <1>4, <1>8 DEF UseInv, Counted
<1> QED BY <1>1, <1>6, <1>7, <1>8 DEF Counted

(* Once a link is deleted with no request on it, none finds it again.      *)
LEMMA GoneStep ==
  ASSUME TypeOK, GrantInv, UseInv, [Next]_vars PROVE Gone'
<1> USE NoneAssumption DEF UseInv, Gone, RevokedStays, TypeOK, history
<1>1. ASSUME NEW l \in Links, NEW max \in Limits, NEW ro \in BOOLEAN, NEW au \in BOOLEAN,
             Generate(l, max, ro, au)
      PROVE  Gone'
  BY <1>1, LimitsAssumption DEF Generate, Rows
<1>2. ASSUME NEW l \in Links, Delete(l) PROVE Gone'
  <2>1. terms[l] # None
    BY <1>2 DEF Delete, GrantInv, TermsKept
  <2> QED BY <1>2, <2>1 DEF Delete
<1>3. ASSUME NEW l \in Links, NEW what \in Targets, Replace(l, what) PROVE Gone'
  BY <1>3 DEF Replace
<1>4. ASSUME NEW l \in Links, Expire(l) PROVE Gone'
  BY <1>4 DEF Expire
<1>5. ASSUME NEW h \in Handlers, NEW op \in Ops, NEW l \in Links, Find(h, op, l) PROVE Gone'
  BY <1>5 DEF Find, Become
<1>6. ASSUME NEW h \in Handlers, NEW m, handler' = [handler EXCEPT ![h] = m],
             m.link = handler[h].link \/ m.link = None,
             UNCHANGED <<terms, revoked, pressed>>,
             \A l \in Links : l = handler[h].link \/ row'[l] = row[l]
      PROVE  Gone'
  BY <1>6
<1>7. ASSUME NEW h \in Handlers, Check(h) PROVE Gone'
  BY <1>6, <1>7 DEF Check, Become, At, Idle
<1>8. ASSUME NEW h \in Handlers, Resolve(h) PROVE Gone'
  BY <1>6, <1>8 DEF Resolve, Become, At, Idle
<1>9. ASSUME NEW h \in Handlers, Count(h) PROVE Gone'
  BY <1>6, <1>9 DEF Count, Become, At, Idle
<1>10. ASSUME NEW h \in Handlers, Serve(h) PROVE Gone'
  BY <1>6, <1>10 DEF Serve, Become, At, Idle
<1>11. CASE UNCHANGED vars
  BY <1>11 DEF vars
<1> QED BY <1>1, <1>2, <1>3, <1>4, <1>5, <1>7, <1>8, <1>9, <1>10, <1>11
        DEF Next, Owner, Requests

LEMMA UseStep == TypeOK /\ GrantInv /\ UseInv /\ [Next]_vars => UseInv'
<1> SUFFICES ASSUME TypeOK, GrantInv, UseInv, [Next]_vars PROVE UseInv'
  OBVIOUS
<1> USE NoneAssumption DEF history
<1>1. ASSUME NEW l \in Links, NEW max \in Limits, NEW ro \in BOOLEAN, NEW au \in BOOLEAN,
             Generate(l, max, ro, au)
      PROVE  Counted'
  <2>1. /\ terms[l] = None /\ terms'[l] = row'[l] /\ row'[l] \in Rows
        /\ row'[l].requests = 0 /\ UNCHANGED <<served, crossed>>
        /\ \A k \in Links : k # l => terms'[k] = terms[k] /\ row'[k] = row[k]
    BY <1>1 DEF Generate, Rows, TypeOK
  <2>2. \A k \in Links : Pending(k)' = Pending(k)
    BY <1>1 DEF Generate, Pending
  <2>3. served[l] = 0 /\ Pending(l) = {}
    BY <2>1 DEF UseInv, Counted
  <2>4. row'[l].max_requests \in Nat
    BY <2>1, LimitsAssumption DEF Rows
  <2>5. served[l] + Cardinality(Pending(l)) = 0
    BY <2>3, FS_EmptySet
  <2> QED BY <2>1, <2>2, <2>4, <2>5 DEF UseInv, Counted
<1>2. ASSUME NEW l \in Links, Delete(l) PROVE Counted'
  <2>1. \A k \in Links : Pending(k)' = Pending(k)
    BY <1>2 DEF Delete, Pending
  <2> QED BY <1>2, <2>1, CountedSame DEF Delete, UseInv, TypeOK
<1>3. ASSUME UNCHANGED <<row, handler, terms, served, crossed>> PROVE Counted'
  <2>1. \A k \in Links : Pending(k)' = Pending(k)
    BY <1>3 DEF Pending
  <2> QED BY <1>3, <2>1, CountedSame DEF UseInv
<1>4. ASSUME NEW h \in Handlers, handler[h].pc # "counted", handler'[h].pc # "counted",
             \A k \in Handlers \ {h} : handler'[k] = handler[k],
             UNCHANGED <<row, terms, served, crossed>>
      PROVE  Counted'
  <2>1. \A k \in Links : Pending(k)' = Pending(k)
    BY <1>4, PendingSame
  <2> QED BY <1>4, <2>1, CountedSame DEF UseInv
<1>5. ASSUME NEW h \in Handlers, NEW op \in Ops, NEW l \in Links, Find(h, op, l) PROVE Counted'
  BY <1>4, <1>5 DEF Find, Become, At, TypeOK
<1>6. ASSUME NEW h \in Handlers, Check(h) PROVE Counted'
  BY <1>4, <1>6 DEF Check, Become, At, Idle, TypeOK
<1>7. ASSUME NEW h \in Handlers, Resolve(h) PROVE Counted'
  BY <1>4, <1>7 DEF Resolve, Become, At, Idle, TypeOK
<1>8. Gone'
  BY GoneStep
<1> QED BY <1>1, <1>2, <1>3, <1>5, <1>6, <1>7, <1>8, CountStep, ServeStep
        DEF Next, Owner, Requests, Replace, Expire, vars, UseInv

LEMMA LimitFollows == ASSUME TypeOK, GrantInv, UseInv PROVE GrantKept
<1>1. ASSUME NEW l \in Links \ crossed, served[l] > 0
      PROVE  served[l] <= terms[l].max_requests
  <2>1. served[l] \in Nat /\ Cardinality(Pending(l)) \in Nat
    BY PendingFinite DEF TypeOK
  <2>2. terms[l] # None
    BY <1>1 DEF UseInv, Counted
  <2>3. served[l] + Cardinality(Pending(l)) <= terms[l].max_requests
    BY <2>2 DEF UseInv, Counted
  <2>4. terms[l].max_requests \in Nat
    BY <2>2, LimitsAssumption DEF TypeOK, Rows
  <2> QED BY <2>1, <2>3, <2>4
<1> QED BY <1>1 DEF GrantKept, LimitKept, GrantInv

(* Whatever requests are interleaved with each other and with the owner,   *)
(* what is done through a link stays within what was granted: writes only  *)
(* where they were allowed, the counter within max_requests, and no more   *)
(* requests served than that unless two of them saved the same count.      *)
THEOREM GrantIsKept == Spec => []GrantKept
  BY TypeInit, TypeStep, GrantInit, GrantStep, UseInit, UseStep, LimitFollows, PTL DEF Spec

(* A link deleted while no request on it was under way never exists and    *)
(* serves nobody again, whatever happens around the deletion: findOrThrow  *)
(* reads the row each time, and only a request that has read it saves it.  *)
THEOREM RevocationStays == Spec => []RevokedStays
<1>1. UseInv => RevokedStays
  BY DEF UseInv, Gone
<1> QED BY TypeInit, TypeStep, GrantInit, GrantStep, UseInit, UseStep, <1>1, PTL DEF Spec

-----------------------------------------------------------------------------
(* The remote terminal and the flag its connections read: another process  *)
(* state, beside that of the links.                                        *)

(* As long as nothing is undone: one operation is under way; the one that  *)
(* is about to save the row it read holds what was acknowledged last; and  *)
(* one that is about to acknowledge a toggle finds it in the row.          *)
OneOperation == \A a, b \in Admins : admin[a] # NoOperation /\ admin[b] # NoOperation => a = b
Operating(m) ==
    /\ m.pc = "save" => m.op \in {"toggle", "update"}
    /\ m.op \in {"toggle", "delete"} /\ m.pc # "idle" => told = Absent
    /\ m.op = "update" /\ m.pc = "save" /\ told # Absent => m.on = told
    /\ m.op = "toggle" /\ m.pc = "del" => flag = m.on

FlagInv ==
    /\ FlagTypeOK
    /\ undone = {} => /\ OneOperation
                      /\ \A a \in Admins : Operating(admin[a])
                      /\ ToggleSticks

Operations == [pc : {"idle", "save", "del"}, op : {"none", "toggle", "update", "delete"},
               on : BOOLEAN]
Lookups == [pc : {"idle", "get", "find", "set", "create", "got"}, on : BOOLEAN]

LEMMA FlagTypes ==
    FlagTypeOK <=> /\ flag \in BOOLEAN \cup {Absent} /\ cache \in BOOLEAN \cup {Absent}
                   /\ admin \in [Admins -> Operations] /\ reader \in [Readers -> Lookups]
                   /\ ops \in 0..MaxOps /\ told \in BOOLEAN \cup {Absent}
                   /\ undone \subseteq Undoing
BY DEF FlagTypeOK, Operations, Lookups

LEMMA IdleOperation ==
    /\ NoOperation \in Operations /\ NoOperation.pc = "idle" /\ NoOperation.op = "none"
    /\ NotReading \in Lookups
BY DEF NoOperation, Operations, Lookups, NotReading, Reading

LEMMA FlagInvInit == FlagInit => FlagInv
<1> SUFFICES ASSUME FlagInit PROVE FlagInv
  OBVIOUS
<1>1. FlagTypeOK
  BY IdleOperation, OpsAssumption, AbsentAssumption, GrantsAssumption DEF FlagInit, FlagTypeOK, Operations, Lookups
<1>2. \A a \in Admins : admin[a] = NoOperation
  BY DEF FlagInit
<1> QED BY <1>1, <1>2, IdleOperation DEF FlagInv, OneOperation, Operating, ToggleSticks, FlagInit

(* Readers, and whatever leaves operations, row and acknowledgement alone. *)
LEMMA LookStep ==
    ASSUME FlagInv, reader' \in [Readers -> Lookups], cache' \in BOOLEAN \cup {Absent},
           UNCHANGED <<flag, admin, ops, told, undone>>
    PROVE  FlagInv'
<1>1. FlagTypeOK'
  BY DEF FlagInv, FlagTypeOK, Lookups
<1> QED BY <1>1 DEF FlagInv, OneOperation, Operating, ToggleSticks

(* A new operation: no other is under way, or it counts as parallel. *)
LEMMA BeginFacts ==
    ASSUME FlagInv, NEW a \in Admins, NEW op \in {"none", "toggle", "update", "delete"},
           NEW pc \in {"idle", "save", "del"}, NEW on \in BOOLEAN, Begin(a, op, pc, on)
    PROVE  /\ admin' \in [Admins -> Operations] /\ ops' \in 0..MaxOps
           /\ told' \in BOOLEAN \cup {Absent} /\ undone' \subseteq Undoing
           /\ admin'[a] = [pc |-> pc, op |-> op, on |-> on]
           /\ op # "update" => told' = Absent
           /\ op = "update" => told' = told
           /\ undone' = {} => /\ undone = {}
                              /\ \A b \in Admins : b # a => admin'[b] = NoOperation
<1>0. /\ admin \in [Admins -> Operations] /\ ops \in 0..MaxOps
      /\ told \in BOOLEAN \cup {Absent} /\ undone \subseteq Undoing
  BY FlagTypes DEF FlagInv
<1>1. admin' = [admin EXCEPT ![a] = [pc |-> pc, op |-> op, on |-> on]]
  BY DEF Begin
<1>2. [pc |-> pc, op |-> op, on |-> on] \in Operations
  BY DEF Operations
<1>3. admin' \in [Admins -> Operations] /\ admin'[a] = [pc |-> pc, op |-> op, on |-> on]
  BY <1>0, <1>1, <1>2
<1>4. ops' \in 0..MaxOps
  BY <1>0, OpsAssumption, AbsentAssumption, GrantsAssumption DEF Begin
<1>5. told' = IF op = "update" THEN told ELSE Absent
  BY DEF Begin
<1>6. CASE \E b \in Admins \ {a} : admin[b] # NoOperation
  <2>1. undone' = undone \cup {"parallel"}
    BY <1>6 DEF Begin
  <2> QED BY <1>0, <1>3, <1>4, <1>5, <2>1 DEF Undoing
<1>7. CASE \A b \in Admins \ {a} : admin[b] = NoOperation
  <2>1. undone' = undone
    BY <1>7 DEF Begin
  <2>2. \A b \in Admins : b # a => admin'[b] = NoOperation
    BY <1>0, <1>1, <1>7
  <2> QED BY <1>0, <1>3, <1>4, <1>5, <2>1, <2>2
<1> QED BY <1>6, <1>7

(* What is to be shown of an operation of a that leaves it at m. *)
LEMMA OperationStep ==
    ASSUME NEW a \in Admins, FlagInv, UNCHANGED reader, cache' \in BOOLEAN \cup {Absent},
           admin' \in [Admins -> Operations], ops' \in 0..MaxOps,
           told' \in BOOLEAN \cup {Absent}, undone' \subseteq Undoing,
           flag' \in BOOLEAN \cup {Absent},
           undone' = {} => /\ \A b \in Admins : b # a => admin'[b] = NoOperation
                           /\ Operating(admin[a])' /\ ToggleSticks'
    PROVE  FlagInv'
<1>1. FlagTypeOK'
  BY FlagTypes DEF FlagInv, FlagTypeOK, Operations
<1>2. ASSUME undone' = {} PROVE OneOperation' /\ \A b \in Admins : Operating(admin[b])'
  <2>1. \A b \in Admins : b # a => Operating(admin[b])'
    BY <1>2, IdleOperation DEF Operating
  <2>2. OneOperation'
    BY <1>2 DEF OneOperation, NoOperation
  <2> QED BY <1>2, <2>1, <2>2
<1> QED BY <1>1, <1>2 DEF FlagInv

LEMMA BeginStep ==
    ASSUME FlagInv, NEW a \in Admins,
           \/ \E on \in BOOLEAN : Toggle(a, on)
           \/ UpdateFeatureFlag(a) \/ DeleteFeatureFlag(a) \/ CreateFeatureFlag(a)
    PROVE  FlagInv'
<1>0. flag \in BOOLEAN \cup {Absent} /\ cache \in BOOLEAN \cup {Absent}
  BY FlagTypes DEF FlagInv
<1>1. ASSUME NEW on \in BOOLEAN, Toggle(a, on) PROVE FlagInv'
  <2>1. Begin(a, "toggle", "save", on) /\ UNCHANGED <<flag, cache, reader>>
    BY <1>1 DEF Toggle
  <2>2. told' = Absent /\ admin'[a].op = "toggle" /\ admin'[a].pc = "save"
    <3>1. told' = Absent /\ admin'[a] = [pc |-> "save", op |-> "toggle", on |-> on]
      BY <2>1, BeginFacts
    <3> QED BY <3>1
  <2>3. Operating(admin[a])' /\ ToggleSticks'
    BY <2>2 DEF Operating, ToggleSticks
  <2> QED BY <1>0, <2>1, <2>3, BeginFacts, OperationStep
<1>2. CASE UpdateFeatureFlag(a)
  <2>1. flag \in BOOLEAN /\ Begin(a, "update", "save", flag) /\ UNCHANGED <<flag, cache, reader>>
    BY <1>0, <1>2 DEF UpdateFeatureFlag
  <2>2. /\ told' = told /\ admin'[a].op = "update" /\ admin'[a].pc = "save"
        /\ admin'[a].on = flag
    <3>1. PICK on \in BOOLEAN : on = flag
      BY <2>1
    <3>2. Begin(a, "update", "save", on)
      BY <2>1, <3>1
    <3>3. told' = told /\ admin'[a] = [pc |-> "save", op |-> "update", on |-> on]
      BY <3>2, BeginFacts
    <3> QED BY <3>1, <3>3
  <2>3. ASSUME undone' = {} PROVE Operating(admin[a])' /\ ToggleSticks'
    <3>1. undone = {}
      BY <2>1, <2>3, BeginFacts
    <3>2. told # Absent => flag = told
      BY <3>1 DEF FlagInv, ToggleSticks
    <3> QED BY <2>1, <2>2, <3>2 DEF Operating, ToggleSticks
  <2> QED BY <1>0, <2>1, <2>3, BeginFacts, OperationStep
<1>3. CASE DeleteFeatureFlag(a)
  <2>1. Begin(a, "delete", "del", FALSE) /\ UNCHANGED <<cache, reader>> /\ flag' = Absent
    BY <1>3 DEF DeleteFeatureFlag
  <2>2. told' = Absent /\ admin'[a].op = "delete" /\ admin'[a].pc = "del"
    <3>1. told' = Absent /\ admin'[a] = [pc |-> "del", op |-> "delete", on |-> FALSE]
      BY <2>1, BeginFacts
    <3> QED BY <3>1
  <2>3. Operating(admin[a])' /\ ToggleSticks'
    BY <2>2 DEF Operating, ToggleSticks
  <2> QED BY <1>0, <2>1, <2>3, BeginFacts, OperationStep
<1>4. CASE CreateFeatureFlag(a)
  <2>1. Begin(a, "none", "idle", FALSE) /\ UNCHANGED <<cache, reader>> /\ flag' = FALSE
    BY <1>4 DEF CreateFeatureFlag
  <2>2. told' = Absent /\ admin'[a].op = "none" /\ admin'[a].pc = "idle"
    <3>1. told' = Absent /\ admin'[a] = [pc |-> "idle", op |-> "none", on |-> FALSE]
      BY <2>1, BeginFacts
    <3> QED BY <3>1
  <2>3. Operating(admin[a])' /\ ToggleSticks'
    BY <2>2 DEF Operating, ToggleSticks
  <2> QED BY <1>0, <2>1, <2>3, BeginFacts, OperationStep
<1> QED BY <1>1, <1>2, <1>3, <1>4

(* save, DEL and the end of an operation; what was acknowledged is what    *)
(* the row holds.                                                          *)
LEMMA GoOnStep ==
    ASSUME FlagInv, NEW a \in Admins,
           SaveFlag(a) \/ Invalidate(a) \/ OperationFails(a)
    PROVE  FlagInv'
<1>0. /\ flag \in BOOLEAN \cup {Absent} /\ cache \in BOOLEAN \cup {Absent}
      /\ admin \in [Admins -> Operations] /\ admin[a] \in Operations /\ ops \in 0..MaxOps
      /\ told \in BOOLEAN \cup {Absent} /\ undone \subseteq Undoing
  BY FlagTypes DEF FlagInv
<1>1. admin[a] # NoOperation
  BY IdleOperation DEF SaveFlag, Invalidate, OperationFails
<1>2. undone = {} => /\ \A b \in Admins : b # a => admin[b] = NoOperation
                     /\ Operating(admin[a]) /\ ToggleSticks
  BY <1>1 DEF FlagInv, OneOperation
<1>3. CASE SaveFlag(a)
  <2>1. /\ admin[a].pc = "save" /\ flag' = admin[a].on /\ admin' = [admin EXCEPT ![a].pc = "del"]
        /\ UNCHANGED <<cache, reader, ops, told, undone>>
    BY <1>3 DEF SaveFlag
  <2>2. /\ admin'[a].op = admin[a].op /\ admin'[a].on = admin[a].on /\ admin'[a].pc = "del"
        /\ admin' \in [Admins -> Operations] /\ flag' \in BOOLEAN
        /\ \A b \in Admins : b # a => admin'[b] = admin[b]
    BY <1>0, <2>1 DEF Operations
  <2>3. ASSUME undone' = {} PROVE Operating(admin[a])' /\ ToggleSticks'
    <3>1. Operating(admin[a])
      BY <1>2, <2>1, <2>3
    <3>2. admin[a].op \in {"toggle", "update"}
      BY <2>1, <3>1 DEF Operating
    <3>3. told # Absent => flag' = told
      BY <2>1, <3>1, <3>2 DEF Operating
    <3> QED BY <2>1, <2>2, <3>1, <3>2, <3>3 DEF Operating, ToggleSticks
  <2> QED BY <1>0, <1>2, <2>1, <2>2, <2>3, OperationStep
<1>4. CASE Invalidate(a)
  <2>1. /\ admin[a].pc = "del" /\ cache' = Absent /\ admin' = [admin EXCEPT ![a] = NoOperation]
        /\ told' = (IF admin[a].op = "toggle" THEN admin[a].on ELSE told)
        /\ UNCHANGED <<flag, reader, ops, undone>>
    BY <1>4 DEF Invalidate
  <2>2. /\ admin'[a] = NoOperation /\ admin' \in [Admins -> Operations] /\ told' \in BOOLEAN \cup {Absent}
        /\ \A b \in Admins : b # a => admin'[b] = admin[b]
    BY <1>0, <2>1, IdleOperation DEF Operations
  <2>3. ASSUME undone' = {} PROVE Operating(admin[a])' /\ ToggleSticks'
    <3>1. Operating(admin[a]) /\ ToggleSticks
      BY <1>2, <2>1, <2>3
    <3>2. told' # Absent => flag = told'
      BY <2>1, <2>3, <3>1 DEF Operating, ToggleSticks
    <3> QED BY <2>1, <2>2, <3>2, IdleOperation DEF Operating, ToggleSticks
  <2> QED BY <1>0, <1>2, <2>1, <2>2, <2>3, OperationStep
<1>5. CASE OperationFails(a)
  <2>1. /\ admin' = [admin EXCEPT ![a] = NoOperation]
        /\ UNCHANGED <<flag, cache, reader, ops, told, undone>>
    BY <1>5 DEF OperationFails
  <2>2. /\ admin'[a] = NoOperation /\ admin' \in [Admins -> Operations]
        /\ \A b \in Admins : b # a => admin'[b] = admin[b]
    BY <1>0, <2>1, IdleOperation
  <2>3. ASSUME undone' = {} PROVE Operating(admin[a])' /\ ToggleSticks'
    BY <1>2, <2>1, <2>2, <2>3, IdleOperation DEF Operating, ToggleSticks
  <2> QED BY <1>0, <1>2, <2>1, <2>2, <2>3, OperationStep
<1> QED BY <1>3, <1>4, <1>5

(* A reader that creates the flag finds no row in the way: there is none   *)
(* to be undone, or it counts as a seed.                                   *)
LEMMA CreateMissingStep ==
    ASSUME FlagInv, NEW r \in Readers, CreateMissing(r) PROVE FlagInv'
<1>0. /\ flag \in BOOLEAN \cup {Absent} /\ reader \in [Readers -> Lookups]
      /\ admin \in [Admins -> Operations] /\ told \in BOOLEAN \cup {Absent}
      /\ undone \subseteq Undoing
  BY FlagTypes DEF FlagInv
<1>1. /\ flag' = FALSE /\ reader' = [reader EXCEPT ![r].pc = "got"]
      /\ UNCHANGED <<cache, admin, ops, told>>
      /\ undone' = IF flag # Absent THEN undone \cup {"seed"} ELSE undone
  BY DEF CreateMissing
<1>2. reader' \in [Readers -> Lookups] /\ undone' \subseteq Undoing
  BY <1>0, <1>1 DEF Lookups, Undoing
<1>3. FlagTypeOK'
  BY <1>1, <1>2 DEF FlagInv, FlagTypeOK, Lookups
<1>4. ASSUME undone' = {}
      PROVE  OneOperation' /\ (\A a \in Admins : Operating(admin[a])') /\ ToggleSticks'
  <2>1. flag = Absent /\ undone = {}
    BY <1>1, <1>4
  <2>2. OneOperation /\ (\A a \in Admins : Operating(admin[a])) /\ ToggleSticks
    BY <2>1 DEF FlagInv
  <2>3. told = Absent
    BY <1>0, <2>1, <2>2, OpsAssumption, AbsentAssumption, GrantsAssumption DEF ToggleSticks
  <2>4. ASSUME NEW a \in Admins PROVE ~(admin[a].op = "toggle" /\ admin[a].pc = "del")
    <3>1. admin[a].on \in BOOLEAN
      BY <1>0 DEF Operations
    <3> QED BY <2>1, <2>2, <3>1, OpsAssumption, AbsentAssumption, GrantsAssumption DEF Operating
  <2> QED BY <1>1, <2>2, <2>3, <2>4 DEF OneOperation, Operating, ToggleSticks
<1> QED BY <1>3, <1>4 DEF FlagInv

LEMMA FlagNextStep == ASSUME FlagInv, FlagNext PROVE FlagInv'
<1>0. reader \in [Readers -> Lookups] /\ cache \in BOOLEAN \cup {Absent} /\ flag \in BOOLEAN \cup {Absent}
  BY FlagTypes DEF FlagInv
<1>1. ASSUME NEW a \in Admins, AdminStep(a) PROVE FlagInv'
  BY <1>1, BeginStep, GoOnStep DEF AdminStep
<1>2. ASSUME NEW r \in Readers, GetCached(r) PROVE FlagInv'
  <2>1. reader' \in [Readers -> Lookups]
    BY <1>0, <1>2 DEF GetCached, Reading, Lookups
  <2> QED BY <1>0, <1>2, <2>1, LookStep DEF GetCached
<1>3. ASSUME NEW r \in Readers, FindFlag(r) PROVE FlagInv'
  <2>1. reader' \in [Readers -> Lookups]
    BY <1>0, <1>3 DEF FindFlag, Reading, Lookups
  <2> QED BY <1>0, <1>3, <2>1, LookStep DEF FindFlag
<1>4. ASSUME NEW r \in Readers, SetCached(r) PROVE FlagInv'
  <2>1. reader' \in [Readers -> Lookups] /\ cache' \in BOOLEAN
    BY <1>0, <1>4 DEF SetCached, Lookups
  <2> QED BY <1>4, <2>1, LookStep DEF SetCached
<1>5. CASE ExpireCached
  BY <1>0, <1>5, LookStep DEF ExpireCached
<1> QED BY <1>1, <1>2, <1>3, <1>4, <1>5, CreateMissingStep DEF FlagNext, ReaderStep

(* A connection starts or ends its lookup; everything else the gateway     *)
(* does leaves the flag alone.                                             *)
LEMMA ReaderBecomesStep ==
    ASSUME FlagInv, NEW c \in Readers, NEW m \in Lookups, ReaderBecomes(c, m) PROVE FlagInv'
<1>1. reader' = [reader EXCEPT ![c] = m] /\ UNCHANGED <<flag, cache, admin, ops, told, undone>>
  BY DEF ReaderBecomes
<1>2. reader \in [Readers -> Lookups] /\ cache \in BOOLEAN \cup {Absent}
  BY FlagTypes DEF FlagInv
<1> QED BY <1>1, <1>2, LookStep

LEMMA FlagUntouched == ASSUME FlagInv, UNCHANGED flagVars PROVE FlagInv'
<1>1. UNCHANGED <<flag, cache, admin, reader, ops, told, undone>>
  BY DEF flagVars
<1>2. reader \in [Readers -> Lookups] /\ cache \in BOOLEAN \cup {Absent}
  BY FlagTypes DEF FlagInv
<1> QED BY <1>1, <1>2, LookStep

LEMMA FlagClientStep ==
    ASSUME FlagInv, NEW c \in Readers, Client(c) PROVE FlagInv'
<1>1. Reading("get", FALSE) \in Lookups /\ NotReading \in Lookups
  BY DEF Reading, NotReading, Lookups
<1>2. CASE Authenticate(c)
  BY <1>1, <1>2, ReaderBecomesStep DEF Authenticate
<1>3. CASE FlagAnswers(c) \/ ConnectionFails(c)
  BY <1>1, <1>3, ReaderBecomesStep DEF FlagAnswers, ConnectionFails
<1>4. CASE \/ Connect(c) \/ CheckStepUp(c) \/ Spawn(c)
           \/ Disconnect(c) \/ ShellExit(c)
  <2>1. UNCHANGED flagVars
    BY <1>4 DEF Connect, CheckStepUp, Spawn, Disconnect, ShellExit, flagVars
  <2> QED BY <2>1, FlagUntouched
<1> QED BY <1>2, <1>3, <1>4 DEF Client

LEMMA FlagInvStep == ASSUME FlagInv, [TermNext]_flagAndTermVars PROVE FlagInv'
<1>1. CASE FlagNext
  BY <1>1, FlagNextStep
<1>2. ASSUME NEW c \in Readers, Client(c) PROVE FlagInv'
  BY <1>2, FlagClientStep
<1>3. CASE GrantStepUp \/ GrantLapses \/ Sweep
  <2>1. UNCHANGED flagVars
    BY <1>3 DEF GrantStepUp, GrantLapses, Sweep, SweepStart, SweepEnd,
                SweepOne, SweepFails, flagVars
  <2> QED BY <2>1, FlagUntouched
<1>4. CASE UNCHANGED flagAndTermVars
  BY <1>4, FlagUntouched DEF flagAndTermVars
<1> QED BY <1>1, <1>2, <1>3, <1>4 DEF TermNext, Clients

(* A toggle that was acknowledged is what the row holds until the next     *)
(* one, for any number of administrators and of connections looking the    *)
(* flag up: FeatureFlagService saves before it drops the copy, and edits   *)
(* of the payload write the row back as they read it.                      *)
THEOREM TogglesStick == TermSpec => []ToggleSticks
<1>1. TermInit => FlagInv
  BY FlagInvInit DEF TermInit
<1>2. FlagInv /\ [TermNext]_flagAndTermVars => FlagInv'
  BY FlagInvStep
<1>3. FlagInv /\ undone # {} => ToggleSticks
  BY DEF ToggleSticks
<1>4. FlagInv => ToggleSticks
  BY <1>3 DEF FlagInv
<1> QED BY <1>1, <1>2, <1>4, PTL DEF TermSpec

-----------------------------------------------------------------------------
(* The gateway                                                             *)

TermTypes ==
    /\ socket \in [Readers -> {"new", "up", "down"}]
    /\ handling \in [Readers -> {"none", "auth", "flag", "stepup", "spawn"}]
    /\ sessions \in SUBSET Readers
    /\ granted \in BOOLEAN
    /\ grants \in 0..MaxGrants
    /\ sweep \in [on : BOOLEAN, seen : SUBSET Readers]

LEMMA ClientTypes ==
    ASSUME TermTypes, NEW c \in Readers, Client(c) PROVE TermTypes'
<1> USE DEF Handling, Down, Reject, Cleanup
<1>1. CASE Connect(c)
  BY <1>1 DEF Connect, TermTypes
<1>2. CASE Authenticate(c)
  BY <1>2 DEF Authenticate, TermTypes
<1>3. CASE FlagAnswers(c)
  BY <1>3 DEF FlagAnswers, TermTypes
<1>4. CASE CheckStepUp(c)
  BY <1>4 DEF CheckStepUp, TermTypes
<1>5. CASE Spawn(c)
  BY <1>5 DEF Spawn, TermTypes
<1>6. CASE ConnectionFails(c)
  BY <1>6 DEF ConnectionFails, TermTypes
<1>7. CASE Disconnect(c) \/ ShellExit(c)
  BY <1>7 DEF Disconnect, ShellExit, TermTypes
<1> QED BY <1>1, <1>2, <1>3, <1>4, <1>5, <1>6, <1>7 DEF Client

LEMMA SweepTypes ==
    ASSUME TermTypes, Sweep PROVE TermTypes'
<1> USE DEF Down, Cleanup
<1>1. CASE SweepStart
  BY <1>1 DEF SweepStart, TermTypes
<1>2. CASE SweepEnd
  BY <1>2 DEF SweepEnd, NoSweep, TermTypes
<1>3. ASSUME NEW c \in Readers, SweepOne(c) \/ SweepFails(c) PROVE TermTypes'
  <2>1. sweep' \in [on : BOOLEAN, seen : SUBSET Readers]
    BY <1>3 DEF SweepOne, SweepFails, TermTypes
  <2> QED BY <1>3, <2>1 DEF SweepOne, SweepFails, TermTypes
<1> QED BY <1>1, <1>2, <1>3 DEF Sweep, Clients

LEMMA TermStep == ASSUME TermTypes, [TermNext]_flagAndTermVars PROVE TermTypes'
<1>1. CASE UNCHANGED termVars
  BY <1>1 DEF termVars, TermTypes
<1>2. CASE GrantStepUp \/ GrantLapses
  <2>1. grants' \in 0..MaxGrants
    BY <1>2, OpsAssumption, AbsentAssumption, GrantsAssumption DEF GrantStepUp, GrantLapses, TermTypes
  <2>2. granted' \in BOOLEAN
    BY <1>2, Zenon DEF GrantStepUp, GrantLapses
  <2>3. UNCHANGED <<socket, handling, sessions, sweep>>
    BY <1>2 DEF GrantStepUp, GrantLapses
  <2> QED BY <2>1, <2>2, <2>3 DEF TermTypes
<1>3. CASE UNCHANGED flagAndTermVars
  BY <1>1, <1>3 DEF flagAndTermVars
<1> QED BY <1>1, <1>2, <1>3, ClientTypes, SweepTypes DEF TermNext, Clients

(* Type correctness of the flag and of the gateway that asks it: lookups,  *)
(* operations, sockets, sessions and the sweep stay within their types.    *)
THEOREM TerminalTypeCorrect == TermSpec => []TermTypeOK
<1>1. TermInit => FlagInv /\ TermTypes
  <2> SUFFICES ASSUME TermInit PROVE FlagInv /\ TermTypes
    OBVIOUS
  <2>1. FlagInv
    BY FlagInvInit DEF TermInit
  <2>2. grants \in 0..MaxGrants
    BY OpsAssumption, AbsentAssumption, GrantsAssumption DEF TermInit
  <2>3. granted \in BOOLEAN
    BY Zenon DEF TermInit
  <2>4. /\ socket = [c \in Readers |-> "new"] /\ handling = [c \in Readers |-> "none"]
        /\ sessions = {} /\ sweep = [on |-> FALSE, seen |-> {}]
    BY DEF TermInit, Clients, NoSweep
  <2> QED BY <2>1, <2>2, <2>3, <2>4 DEF TermTypes
<1>2. FlagInv /\ TermTypes /\ [TermNext]_flagAndTermVars => FlagInv' /\ TermTypes'
  BY FlagInvStep, TermStep
<1>3. FlagInv /\ TermTypes => TermTypeOK
  BY DEF FlagInv, TermTypes, TermTypeOK, Clients
<1> QED BY <1>1, <1>2, <1>3, PTL DEF TermSpec
=============================================================================
