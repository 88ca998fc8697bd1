-------------------------- MODULE DeploymentProofs --------------------------
(***************************************************************************)
(* What the deployment pipeline guarantees for every pipeline and any      *)
(* number of handlers, whatever is interleaved, cancelled, edited, refused *)
(* or killed: types, that steps are entered in order (InOrder) and that a  *)
(* success has run them all (SuccessMeansAll); that one run at a time owns *)
(* the state in Redis (SingleRun, RunOwned) and that a ticket of the queue *)
(* is started (TicketStarts), unless `history' says what went wrong.       *)
(***************************************************************************)
EXTENDS Deployment, SequenceTheorems, TLAPS

(* The type of a chain. *)
Chains == [pc : {"idle"} \cup Asking \cup InRun, by : {"admin", "webhook", "queue"},
           seen : BOOLEAN, dep : Deployments \cup {None}, next : 1..(N+1), last : 0..N,
           force : BOOLEAN, attempt : 1..MaxAttempts]

(* A deployment as it may be found in Redis or in a chain: the steps in    *)
(* front of the current one are done, the current one is if it is marked   *)
(* so, and a success has done them all. A retry of some other step than    *)
(* the one that failed breaks the order; a cancellation in the delay of    *)
(* the last step ends the loop as if it were over, and leaves that step    *)
(* "running".                                                              *)
Ordered(dep) ==
    dep.kind = "deploy" /\ ~RetryAny =>
        /\ 1..(dep.at - 1) \subseteq dep.done
        /\ dep.st = "success" => dep.at \in dep.done
        /\ dep.status = "success" =>
              dep.done = Steps \/ (dep.st = "running" /\ Steps \ {N} \subseteq dep.done)

(* Between two steps: what is behind `next' is done. *)
Ready(m) == m.dep.kind = "deploy" /\ ~RetryAny => 1..(m.next - 1) \subseteq m.dep.done

(* In the delay before another attempt: the step is neither done nor over. *)
Tried(m) == m.next = m.dep.at + 1 /\ m.dep.st = "running"

(* What a chain holds at each of its awaits. *)
ChainOK(m) ==
    /\ m.pc \in InRun \cup {"retry", "cancel"} => m.dep \in Deployments /\ Ordered(m.dep)
    /\ m.pc \in InRun => m.dep.status = "running"
    /\ m.pc \in InRun /\ m.dep.kind = "deploy" => m.last = N
    /\ m.pc \in {"flag", "retried", "resume", "loop"} => Ready(m)
    /\ m.pc \in {"command", "delay", "propagate", "restart"} => m.next = m.dep.at + 1
    /\ m.pc \in {"command", "delay"} => m.dep.st = "running"
    /\ m.pc = "retry" => ~m.seen

ChainsOK == \A h \in Handlers : ChainOK(handler[h])
CurrentOK == current # None => Ordered(current)

IInv == TypeOK /\ ChainsOK /\ CurrentOK

(* Neither an outdated check nor a cancellation has come between: whoever  *)
(* runs is alone, owns the deployment in Redis, and no restart is pending. *)
Kept == history \cap {"outdated", "cancelled"} = {}
OneRuns == \A h, k \in Handlers : Active(h) /\ Active(k) => h = k
Owned == Kept => /\ OneRuns
                 /\ \A h \in Handlers : Active(h) => current = handler[h].dep /\ ~restarting
                 /\ restarting => Running

(* Whatever is interleaved, a deployment that Redis calls running is the   *)
(* one some run holds, or a retry is about to save its own over it.        *)
Drives(h) == Active(h) /\ (current = handler[h].dep \/ handler[h].pc = "resume")
Driven == Running /\ ~cancelled /\ "abandoned" \notin history
            => restarting \/ \E h \in Handlers : Drives(h)

(* Nor has a start got in between the end of a run and the next in the     *)
(* queue: while a chain hands over nothing runs, and so it was told.       *)
Clear == history \cap {"outdated", "overtaken", "cancelled"} = {}
            => \A h \in Handlers : HandsOver(h) =>
                    /\ ~Running
                    /\ handler[h].pc = "start" => ~handler[h].seen

SInv == Owned /\ Driven /\ Clear

-----------------------------------------------------------------------------
(* Facts about the operators of the model.                                 *)

(* The bounds of the types. *)
LEMMA Numbers == N \in Nat /\ N >= 1 /\ 1 \in Steps /\ 0 \in 0..N /\ N \in 0..N
                 /\ 1 \in 1..(N+1) /\ 1 \in 1..MaxAttempts /\ MaxAttempts \in Nat
BY PipelineAssumption, ParameterAssumption DEF N, Steps

(* What a step of the pipeline is. *)
LEMMA StepKinds == \A i \in Steps : /\ Pipeline[i].kind \in {"command", "propagate", "restart"}
                                    /\ Pipeline[i].skip \in BOOLEAN
<1> TAKE i \in Steps
<1>1. Pipeline[i] \in [kind : {"command", "propagate", "restart"}, skip : BOOLEAN]
  BY PipelineAssumption, ElementOfSeq DEF N, Steps
<1> QED BY <1>1

(* A chain that is over is a chain. *)
LEMMA IdleType == Idle \in Chains /\ Idle.pc = "idle"
BY Numbers DEF Idle, Chains

(* A step that succeeded or was skipped changes nothing but itself. *)
LEMMA PassFacts ==
    ASSUME NEW m \in Chains, m.dep \in Deployments,
           NEW st \in {"pending", "running", "success", "skipped", "failed"}
    PROVE  /\ Pass(m, st) \in Chains /\ Pass(m, st).dep \in Deployments
           /\ Pass(m, st).dep.kind = m.dep.kind /\ Pass(m, st).dep.status = m.dep.status
           /\ Pass(m, st).dep.at = m.dep.at /\ Pass(m, st).dep.st = st
           /\ Pass(m, st).dep.done = m.dep.done \cup {m.dep.at}
           /\ Pass(m, st).next = m.next /\ Pass(m, st).last = m.last
BY DEF Pass, Chains, Deployments

(* Nor does one that failed. *)
LEMMA MissFacts ==
    ASSUME NEW m \in Chains, m.dep \in Deployments
    PROVE  /\ Miss(m) \in Chains /\ Miss(m).dep \in Deployments
           /\ Miss(m).dep.kind = m.dep.kind /\ Miss(m).dep.status = m.dep.status
           /\ Miss(m).dep.at = m.dep.at /\ Miss(m).dep.st = "failed"
           /\ Miss(m).dep.done = m.dep.done \ {m.dep.at}
           /\ Miss(m).next = m.next /\ Miss(m).last = m.last
BY DEF Miss, Chains, Deployments
(* The four outcomes of a turn of the loop: over, cancelled, skipped,      *)
(* entered.                                                                *)
LEMMA EnterCases ==
    ASSUME NEW m \in Chains, m.dep \in Deployments, NEW stop \in BOOLEAN
    PROVE  LET e == Enter(m, stop)
               i == m.next
           IN  \/ /\ i > m.last
                  /\ e = [Idle EXCEPT !.pc = "handoff", !.dep = [m.dep EXCEPT !.status = "success"]]
               \/ /\ i <= m.last /\ stop /\ e = Idle
               \/ /\ i <= m.last /\ ~stop /\ i \in Steps /\ e.pc = "loop" /\ e.dep.done = m.dep.done \cup {i}
                  /\ e.dep.at = i /\ e.dep.st = "skipped" /\ e.dep.kind = m.dep.kind
                  /\ e.dep.status = m.dep.status
                  /\ e.next = i + 1 /\ e.last = m.last /\ e \in Chains /\ e.dep \in Deployments
               \/ /\ i <= m.last /\ ~stop /\ i \in Steps /\ e.pc \in {"command", "propagate", "restart"}
                  /\ e.dep.done = m.dep.done
                  /\ e.dep.at = i /\ e.dep.st = "running" /\ e.dep.kind = m.dep.kind
                  /\ e.dep.status = m.dep.status
                  /\ e.next = i + 1 /\ e.last = m.last /\ e \in Chains /\ e.dep \in Deployments
<1> DEFINE i == m.next
           on == [m EXCEPT !.dep.at = i, !.dep.st = "running", !.next = i + 1, !.attempt = 1]
<1>0. i \in 1..(N+1) /\ m.last \in 0..N
  BY DEF Chains
<1>1. CASE i > m.last
  BY <1>0, <1>1 DEF Enter, HandOffOf, Chains, Deployments
<1>2. CASE i <= m.last /\ stop
  BY <1>0, <1>2 DEF Enter
<1>3. ASSUME i <= m.last
      PROVE  /\ on \in Chains /\ on.dep \in Deployments /\ i \in Steps /\ on.dep.done = m.dep.done
             /\ on.dep.at = i /\ on.dep.st = "running" /\ on.dep.kind = m.dep.kind
             /\ on.dep.status = m.dep.status /\ on.next = i + 1 /\ on.last = m.last
  <2>1. i \in Steps /\ i + 1 \in 1..(N+1)
    BY <1>0, <1>3, Numbers DEF Steps
  <2> QED BY <2>1, Numbers DEF Chains, Deployments
<1>4. CASE i <= m.last /\ ~stop /\ Pipeline[i].skip /\ ~m.force
  <2>1. Enter(m, stop) = [Pass(on, "skipped") EXCEPT !.pc = "loop"]
    BY <1>0, <1>4 DEF Enter
  <2> HIDE DEF on
  <2>2. [Pass(on, "skipped") EXCEPT !.pc = "loop"] \in Chains
    BY <1>3, <1>4, PassFacts DEF Chains, InRun
  <2> QED BY <1>3, <1>4, <2>1, <2>2, PassFacts DEF Chains
<1>5. CASE i <= m.last /\ ~stop /\ ~(Pipeline[i].skip /\ ~m.force)
  <2>1. Enter(m, stop) = [on EXCEPT !.pc = Pipeline[i].kind]
    BY <1>0, <1>5 DEF Enter
  <2> HIDE DEF on
  <2>2. [on EXCEPT !.pc = Pipeline[i].kind] \in Chains
    BY <1>3, <1>5, StepKinds DEF Chains, InRun
  <2> QED BY <1>3, <1>5, <2>1, <2>2, StepKinds DEF Chains
<1> QED BY <1>0, <1>1, <1>2, <1>4, <1>5, Numbers
(* The handoff that ends a run is a chain with nothing to check. *)
LEMMA HandOffFacts ==
    ASSUME NEW dep \in Deployments
    PROVE  LET e == [Idle EXCEPT !.pc = "handoff", !.dep = dep]
           IN  e \in Chains /\ ChainOK(e) /\ e.pc = "handoff" /\ e.dep = dep /\ e # Idle
BY Numbers DEF Idle, Chains, ChainOK, Asking, InRun

(* A turn of the loop leaves a chain as its next await expects it, and     *)
(* what it saves is in order.                                              *)
LEMMA EnterOK ==
    ASSUME NEW m \in Chains, m.dep \in Deployments, Ordered(m.dep), NEW stop \in BOOLEAN,
           m.dep.status = "running", m.dep.kind = "deploy" => m.last = N,
           Ready(m) \/ (stop /\ Tried(m))
    PROVE  LET e == Enter(m, stop)
           IN  /\ e \in Chains /\ ChainOK(e)
               /\ e # Idle => e.dep \in Deployments /\ Ordered(e.dep)
<1> DEFINE e == Enter(m, stop)
           i == m.next
           over == [m.dep EXCEPT !.status = "success"]
<1>0. i \in 1..(N+1) /\ m.last \in 0..N /\ m.dep.done \subseteq Steps /\ N \in Nat
  BY Numbers DEF Chains, Deployments
<1>1. CASE i > m.last /\ e = [Idle EXCEPT !.pc = "handoff", !.dep = over]
  <2>1. /\ over \in Deployments /\ over.kind = m.dep.kind /\ over.at = m.dep.at
        /\ over.st = m.dep.st /\ over.done = m.dep.done
    BY DEF Deployments
  <2>2. Ordered(over)
    <3>1. m.dep.kind = "deploy" /\ ~RetryAny =>
             m.dep.done = Steps \/ (m.dep.st = "running" /\ Steps \ {N} \subseteq m.dep.done)
      <4> SUFFICES ASSUME m.dep.kind = "deploy", ~RetryAny
                   PROVE  m.dep.done = Steps
                            \/ (m.dep.st = "running" /\ Steps \ {N} \subseteq m.dep.done)
        OBVIOUS
      <4>1. i - 1 = N
        BY <1>0, <1>1
      <4>2. CASE Ready(m)
        <5>1. 1..(i - 1) \subseteq m.dep.done
          BY <4>2 DEF Ready
        <5> QED BY <1>0, <4>1, <5>1 DEF Steps
      <4>3. CASE Tried(m)
        <5>1. m.dep.at = N /\ m.dep.st = "running"
          BY <1>0, <4>1, <4>3 DEF Tried, Deployments, Steps
        <5>2. 1..(N - 1) \subseteq m.dep.done
          BY <5>1 DEF Ordered
        <5> QED BY <1>0, <5>1, <5>2 DEF Steps
      <4> QED BY <4>2, <4>3
    <3> QED BY <2>1, <3>1 DEF Ordered
  <2> HIDE DEF over
  <2> QED BY <1>1, <2>1, <2>2, HandOffFacts
<1>2. CASE e = Idle
  BY <1>2, IdleType DEF Idle, ChainOK, InRun
<1>3. CASE /\ i <= m.last /\ ~stop /\ i \in Steps /\ e.pc = "loop" /\ e.dep.done = m.dep.done \cup {i}
           /\ e.dep.at = i /\ e.dep.st = "skipped" /\ e.dep.kind = m.dep.kind
           /\ e.dep.status = m.dep.status
           /\ e.next = i + 1 /\ e.last = m.last /\ e \in Chains /\ e.dep \in Deployments
  <2> HIDE DEF e
  <2>1. m.dep.kind = "deploy" /\ ~RetryAny => 1..(i - 1) \subseteq m.dep.done
    BY <1>3 DEF Ready
  <2>2. Ordered(e.dep) /\ Ready(e)
    BY <1>0, <1>3, <2>1 DEF Ordered, Ready
  <2>3. ChainOK(e)
    BY <1>3, <2>2 DEF ChainOK, InRun
  <2> QED BY <1>3, <2>2, <2>3 DEF e
<1>4. CASE /\ i <= m.last /\ ~stop /\ i \in Steps /\ e.pc \in {"command", "propagate", "restart"}
           /\ e.dep.done = m.dep.done
           /\ e.dep.at = i /\ e.dep.st = "running" /\ e.dep.kind = m.dep.kind
           /\ e.dep.status = m.dep.status
           /\ e.next = i + 1 /\ e.last = m.last /\ e \in Chains /\ e.dep \in Deployments
  <2> HIDE DEF e
  <2>1. m.dep.kind = "deploy" /\ ~RetryAny => 1..(i - 1) \subseteq m.dep.done
    BY <1>4 DEF Ready
  <2>2. Ordered(e.dep)
    BY <1>0, <1>4, <2>1 DEF Ordered
  <2>3. ChainOK(e)
    BY <1>4, <2>2 DEF ChainOK, InRun
  <2> QED BY <1>4, <2>2, <2>3 DEF e
<1> QED BY <1>1, <1>2, <1>3, <1>4, EnterCases

(* A chain that moves on to a state its next await expects leaves all      *)
(* chains so.                                                              *)
LEMMA BecomeOK ==
    ASSUME IInv, NEW h \in Handlers, NEW e \in Chains, ChainOK(e), Become(h, e)
    PROVE  handler' \in [Handlers -> Chains] /\ ChainsOK'
<1>1. handler \in [Handlers -> Chains]
  BY DEF IInv, TypeOK, Chains
<1>2. handler' = [handler EXCEPT ![h] = e]
  BY DEF Become
<1>3. handler' \in [Handlers -> Chains]
  BY <1>1, <1>2
<1>4. \A k \in Handlers : ChainOK(handler'[k])
  <2> TAKE k \in Handlers
  <2>1. handler'[k] = IF k = h THEN e ELSE handler[k]
    BY <1>1, <1>2
  <2>2. ChainOK(handler[k])
    BY DEF IInv, ChainsOK
  <2> QED BY <2>1, <2>2
<1> QED BY <1>3, <1>4 DEF ChainsOK

(* What a chain is known to hold. *)
LEMMA HolderFacts ==
    ASSUME IInv, NEW h \in Handlers
    PROVE  /\ handler[h] \in Chains /\ ChainOK(handler[h])
           /\ cancelled \in BOOLEAN /\ queued \in Nat
           /\ current \in Deployments \cup {None}
           /\ Running \in BOOLEAN
BY DEF IInv, TypeOK, ChainsOK, Chains, Running

(* The step of one chain: it is enough to look at that chain and at what   *)
(* it saves.                                                               *)
LEMMA OneChain ==
    ASSUME IInv, NEW h \in Handlers, NEW e \in Chains, ChainOK(e), Become(h, e),
           current' = current \/ (current' \in Deployments /\ Ordered(current')),
           queued' \in Nat, cancelled' \in BOOLEAN,
           restarting' \in BOOLEAN, history' \subseteq Causes
    PROVE  IInv'
<1>1. handler' \in [Handlers -> Chains] /\ ChainsOK'
  BY BecomeOK
<1>2. current' \in Deployments \cup {None} /\ (current' # None => Ordered(current'))
  BY DEF IInv, TypeOK, CurrentOK
<1>3. TypeOK'
  BY <1>1, <1>2 DEF TypeOK, Chains
<1>4. CurrentOK'
  BY <1>2 DEF IInv, CurrentOK
<1> QED BY <1>1, <1>3, <1>4 DEF IInv

(* A commit is a save; history remains a set of causes. *)
LEMMA CommitFacts ==
    ASSUME IInv, NEW h \in Handlers, NEW e, Commit(h, e)
    PROVE  Become(h, e) /\ current' = e.dep /\ history' \subseteq Causes
BY DEF Commit, Save, Causes, IInv, TypeOK

(* A request or an answer that starts no run holds nothing to check. *)
LEMMA AskFacts ==
    ASSUME IInv, NEW h \in Handlers, NEW by \in {"admin", "webhook", "queue"},
           NEW pc \in {"webhook", "start", "startPropagation"}
    PROVE  LET e == [Idle EXCEPT !.pc = pc, !.by = by, !.seen = Running]
           IN  e \in Chains /\ ChainOK(e) /\ e.pc = pc /\ e.seen = Running /\ e.by = by
BY Numbers DEF Idle, Chains, ChainOK, Asking, InRun, Running
-----------------------------------------------------------------------------
(* Every step keeps the types and the order.                               *)

(* A turn of the loop, saved. *)
LEMMA ProceedStep ==
    ASSUME IInv, NEW h \in Handlers, NEW stop \in BOOLEAN, Proceed(h, handler[h], stop),
           handler[h].pc \in InRun,
           Ready(handler[h]) \/ (stop /\ Tried(handler[h])),
           UNCHANGED <<queued, cancelled, restarting, history>>
    PROVE  IInv'
<1> DEFINE m == handler[h]
           e == Enter(m, stop)
<1>1. /\ m \in Chains /\ m.dep \in Deployments /\ Ordered(m.dep) /\ m.dep.status = "running"
      /\ m.dep.kind = "deploy" => m.last = N
  BY HolderFacts DEF ChainOK
<1>2. /\ e \in Chains /\ ChainOK(e)
      /\ e # Idle => e.dep \in Deployments /\ Ordered(e.dep)
  BY <1>1, EnterOK
<1>3. Become(h, e) /\ current' = IF e = Idle THEN current ELSE e.dep
  BY DEF Proceed
<1> HIDE DEF e
<1> QED BY <1>2, <1>3, OneChain DEF IInv, TypeOK

(* A restart: whoever resumes does so where the state in Redis says. *)
LEMMA BootStep == IInv /\ Boot => IInv'
<1> SUFFICES ASSUME IInv, Boot PROVE IInv'
  OBVIOUS
<1>1. /\ ~cancelled' /\ cancelled' \in BOOLEAN /\ queued' \in Nat
      /\ restarting' \in BOOLEAN /\ history' \subseteq Causes
  BY DEF Boot, IInv, TypeOK, Causes
<1>2. CASE /\ Running
           /\ \E h \in Handlers :
                LET m == Enter([Idle EXCEPT !.dep = current, !.last = N,
                                            !.next = Following(current)], FALSE)
                IN  /\ handler' = [k \in Handlers |-> IF k = h THEN m ELSE Idle]
                    /\ current' = m.dep
  <2> DEFINE b == [Idle EXCEPT !.dep = current, !.last = N, !.next = Following(current)]
             e == Enter(b, FALSE)
  <2>1. PICK h \in Handlers : /\ handler' = [k \in Handlers |-> IF k = h THEN e ELSE Idle]
                              /\ current' = e.dep
    BY <1>2
  <2>2. /\ current \in Deployments /\ Ordered(current) /\ current.status = "running"
        /\ current.at \in Steps
    BY <1>2 DEF Running, IInv, TypeOK, CurrentOK, Deployments
  <2>3. Following(current) \in 1..(N+1)
    BY <2>2, Numbers DEF Following, Steps
  <2>4. b \in Chains /\ b.dep = current /\ b.last = N /\ b.next = Following(current)
    BY <2>2, <2>3, Numbers DEF Idle, Chains
  <2>5. Ready(b)
    <3>1. current.kind = "deploy" /\ ~RetryAny => 1..(Following(current) - 1) \subseteq current.done
      BY <2>2 DEF Following, Ordered, Steps
    <3> HIDE DEF b
    <3> QED BY <2>4, <3>1 DEF Ready
  <2> HIDE DEF b
  <2>6. /\ e \in Chains /\ ChainOK(e)
        /\ e # Idle => e.dep \in Deployments /\ Ordered(e.dep)
    <3>1. /\ b \in Chains /\ b.dep \in Deployments /\ Ordered(b.dep) /\ b.dep.status = "running"
          /\ b.dep.kind = "deploy" => b.last = N
          /\ Ready(b) \/ (FALSE /\ Tried(b))
      BY <2>2, <2>4, <2>5
    <3> QED BY <3>1, EnterOK
  <2>7. e # Idle
    <3>1. e.pc # "idle"
      BY <2>2, <2>4, EnterCases DEF Idle
    <3> HIDE DEF e
    <3> QED BY <3>1, IdleType
  <2> HIDE DEF e
  <2>8. handler' \in [Handlers -> Chains] /\ ChainsOK'
    <3>1. ChainOK(Idle)
      BY DEF ChainOK, Idle, InRun
    <3> QED BY <2>1, <2>6, <3>1, IdleType DEF ChainsOK
  <2>9. TypeOK' /\ CurrentOK'
    BY <1>1, <2>1, <2>6, <2>7, <2>8 DEF TypeOK, CurrentOK, Chains
  <2> QED BY <2>8, <2>9 DEF IInv
<1>3. CASE handler' = [k \in Handlers |-> Idle] /\ UNCHANGED current
  <2>1. ChainOK(Idle)
    BY DEF ChainOK, Idle, InRun
  <2>2. handler' \in [Handlers -> Chains] /\ ChainsOK'
    BY <1>3, <2>1, IdleType DEF ChainsOK
  <2>3. TypeOK' /\ CurrentOK'
    BY <1>1, <1>3, <2>2 DEF TypeOK, CurrentOK, Chains, IInv
  <2> QED BY <2>2, <2>3 DEF IInv
<1> QED BY <1>2, <1>3 DEF Boot

(* The requests: they only read. *)
LEMMA RequestStep == ASSUME IInv, NEW h \in Handlers, Request(h) PROVE IInv'
<1> USE DEF IInv, TypeOK
<1>1. CASE RequestStart(h) \/ RequestPropagation(h) \/ RequestWebhook(h)
  <2>1. PICK pc \in {"webhook", "start", "startPropagation"}, by \in {"admin", "webhook", "queue"} :
           Become(h, [Idle EXCEPT !.pc = pc, !.by = by, !.seen = Running])
    BY <1>1 DEF RequestStart, RequestPropagation, RequestWebhook, Ask
  <2>2. UNCHANGED <<current, queued, cancelled, restarting, history>>
    BY <1>1 DEF RequestStart, RequestPropagation, RequestWebhook
  <2> QED BY <2>1, <2>2, AskFacts, OneChain
<1>2. CASE RequestRetry(h) \/ RequestCancel(h)
  <2>1. PICK pc \in {"retry", "cancel"} :
           Become(h, [Idle EXCEPT !.pc = pc, !.dep = current])
    BY <1>2 DEF RequestRetry, RequestCancel
  <2>2. current # None /\ UNCHANGED <<current, queued, cancelled, restarting, history>>
    BY <1>2 DEF RequestRetry, RequestCancel, Running
  <2>3. current \in Deployments /\ Ordered(current)
    BY <2>2 DEF CurrentOK
  <2> DEFINE e == [Idle EXCEPT !.pc = pc, !.dep = current]
  <2>4. e \in Chains /\ e.pc = pc /\ e.dep = current /\ ~e.seen
    BY <2>3, Numbers DEF Idle, Chains, Asking
  <2> HIDE DEF e
  <2>5. ChainOK(e)
    BY <2>1, <2>3, <2>4 DEF ChainOK, InRun
  <2> QED BY <2>1, <2>2, <2>4, <2>5, OneChain DEF e
<1> QED BY <1>1, <1>2 DEF Request
(* A deployment that starts: nothing is done, and nothing in front of it. *)
LEMMA FreshFacts ==
    ASSUME NEW d \in Deployments, d.status = "running", d.st = "pending", d.done = {},
           NEW e \in Chains, e.pc = "flag", e.dep = d, e.next = d.at,
           d.kind = "deploy" => d.at = 1 /\ e.last = N
    PROVE  ChainOK(e) /\ Ordered(d)
<1>1. d.kind = "deploy" => 1..(d.at - 1) = {}
  OBVIOUS
<1>2. Ordered(d) /\ Ready(e)
  BY <1>1 DEF Ordered, Ready
<1> QED BY <1>2 DEF ChainOK, InRun

(* The steps between a request and its run. *)
LEMMA StartStep ==
    ASSUME IInv, NEW h \in Handlers,
           Redeploy(h) \/ StartDeployment(h) \/ StartPropagation(h) \/ StartRefused(h)
           \/ ProcessQueue(h) \/ StartPopped(h)
    PROVE  IInv'
<1>0. ChainOK(Idle) /\ Idle \in Chains
  BY IdleType DEF ChainOK, Idle, InRun
<1>t. /\ queued \in Nat /\ cancelled \in BOOLEAN /\ restarting \in BOOLEAN /\ history \subseteq Causes
  BY DEF IInv, TypeOK
<1>1. CASE Redeploy(h)
  <2>1. /\ UNCHANGED <<current, cancelled, restarting>>
        /\ \/ queued' = queued + 1 /\ Become(h, Idle)
           \/ UNCHANGED queued /\ Become(h, [Idle EXCEPT !.pc = "start", !.by = "webhook", !.seen = Running])
        /\ history' \subseteq Causes
    BY <1>1, <1>t DEF Redeploy, Ask, Remember, Causes
  <2> QED BY <1>0, <1>t, <2>1, AskFacts, OneChain
<1>2. CASE StartDeployment(h)
  <2> DEFINE d == [kind |-> "deploy", status |-> "running", at |-> 1, st |-> "pending", done |-> {}]
             e == [Idle EXCEPT !.pc = "flag", !.last = N, !.dep = d]
  <2>1. /\ Become(h, e) /\ current' = e.dep /\ cancelled' = FALSE
        /\ UNCHANGED <<queued, restarting>> /\ history' \subseteq Causes
    BY <1>2, CommitFacts DEF StartDeployment
  <2>2. /\ d \in Deployments /\ d.kind = "deploy" /\ d.status = "running" /\ d.st = "pending"
        /\ d.done = {} /\ d.at = 1
    BY Numbers DEF Deployments
  <2> HIDE DEF d
  <2>3. e \in Chains /\ e.pc = "flag" /\ e.dep = d /\ e.next = 1 /\ e.last = N
    BY <2>2, Numbers DEF Idle, Chains, InRun
  <2> HIDE DEF e
  <2>4. ChainOK(e) /\ Ordered(d)
    BY <2>2, <2>3, FreshFacts
  <2> QED BY <1>t, <2>1, <2>2, <2>3, <2>4, OneChain
<1>3. CASE StartPropagation(h)
  <2>1. PICK i \in Steps :
          Commit(h, [Idle EXCEPT !.pc = "flag", !.next = i, !.last = i, !.force = TRUE,
                       !.dep = [kind |-> "propagate", status |-> "running", at |-> i,
                                st |-> "pending", done |-> {}]])
    BY <1>3 DEF StartPropagation
  <2> DEFINE d == [kind |-> "propagate", status |-> "running", at |-> i, st |-> "pending", done |-> {}]
             e == [Idle EXCEPT !.pc = "flag", !.next = i, !.last = i, !.force = TRUE, !.dep = d]
  <2>2. Become(h, e) /\ current' = e.dep /\ history' \subseteq Causes
    BY <2>1, CommitFacts
  <2>3. /\ d \in Deployments /\ d.kind = "propagate" /\ d.status = "running" /\ d.st = "pending"
        /\ d.done = {} /\ d.at = i
    BY DEF Deployments
  <2> HIDE DEF d
  <2>4. i \in 0..N /\ i \in 1..(N+1)
    BY Numbers DEF Steps
  <2>5. e \in Chains /\ e.pc = "flag" /\ e.dep = d /\ e.next = i
    BY <2>3, <2>4, Numbers DEF Idle, Chains, InRun
  <2> HIDE DEF e
  <2>6. ChainOK(e) /\ Ordered(d)
    BY <2>3, <2>5, FreshFacts
  <2>7. cancelled' = FALSE /\ UNCHANGED <<queued, restarting>>
    BY <1>3 DEF StartPropagation
  <2> QED BY <1>t, <2>2, <2>3, <2>5, <2>6, <2>7, OneChain
<1>4. CASE StartRefused(h)
  <2>1. CASE Boot
    BY <2>1, BootStep
  <2>2. CASE /\ Become(h, Idle) /\ UNCHANGED <<current, queued, cancelled, restarting>>
             /\ history' \subseteq Causes
    BY <1>0, <1>t, <2>2, OneChain
  <2> QED BY <1>4, <1>t, <2>1, <2>2 DEF StartRefused, Remember, Causes
<1>5. CASE ProcessQueue(h)
  <2> DEFINE e == [Idle EXCEPT !.pc = "popped", !.by = "queue"]
  <2>1. e \in Chains /\ ChainOK(e)
    BY Numbers DEF Idle, Chains, ChainOK, InRun, Asking
  <2>2. \/ Become(h, Idle) /\ UNCHANGED queued
        \/ Become(h, e) /\ queued' = queued - 1 /\ queued # 0
    BY <1>5 DEF ProcessQueue
  <2>3. UNCHANGED <<current, cancelled, restarting, history>>
    BY <1>5 DEF ProcessQueue
  <2> HIDE DEF e
  <2>4. queued' \in Nat
    BY <1>t, <2>2
  <2> QED BY <1>0, <1>t, <2>1, <2>2, <2>3, <2>4, OneChain
<1>6. CASE StartPopped(h)
  <2>1. /\ UNCHANGED <<current, queued, cancelled, restarting, history>>
        /\ Become(h, [Idle EXCEPT !.pc = "start", !.by = "queue", !.seen = Running])
    BY <1>6 DEF StartPopped, Ask
  <2> QED BY <1>t, <2>1, AskFacts, OneChain
<1> QED BY <1>1, <1>2, <1>3, <1>4, <1>5, <1>6

(* Retry and cancellation: both write the copy they read. *)
LEMMA CopyStep ==
    ASSUME IInv, NEW h \in Handlers,
           RetryStep(h) \/ RetryReset(h) \/ RetryRun(h) \/ CancelDeployment(h)
    PROVE  IInv'
<1> DEFINE m == handler[h]
<1>0. ChainOK(Idle) /\ Idle \in Chains
  BY IdleType DEF ChainOK, Idle, InRun
<1>t. /\ queued \in Nat /\ cancelled \in BOOLEAN /\ restarting \in BOOLEAN /\ history \subseteq Causes
      /\ m \in Chains /\ ChainOK(m)
  BY HolderFacts DEF IInv, TypeOK
<1>1. CASE RetryStep(h)
  <2>1. m.pc = "retry" /\ UNCHANGED <<queued, cancelled, restarting>>
    BY <1>1 DEF RetryStep, At
  <2>2. m.dep \in Deployments /\ Ordered(m.dep)
    BY <1>t, <2>1 DEF ChainOK
  <2>3. PICK s \in Steps :
          /\ ~RetryAny => s = m.dep.at
          /\ Commit(h, [m EXCEPT !.pc = "retried", !.next = s, !.last = N,
                          !.dep = [@ EXCEPT !.status = "running", !.at = s, !.st = "pending"]])
    BY <1>1, <2>2 DEF RetryStep, Deployments
  <2> DEFINE d == [m.dep EXCEPT !.status = "running", !.at = s, !.st = "pending"]
             e == [m EXCEPT !.pc = "retried", !.next = s, !.last = N, !.dep = d]
  <2>4. /\ d \in Deployments /\ d.kind = m.dep.kind /\ d.status = "running" /\ d.at = s
        /\ d.st = "pending" /\ d.done = m.dep.done
    BY <2>2 DEF Deployments
  <2>5. Become(h, e) /\ current' = e.dep /\ history' \subseteq Causes
    BY <2>3, CommitFacts
  <2> HIDE DEF d
  <2>6. e \in Chains /\ e.pc = "retried" /\ e.next = s /\ e.last = N /\ e.dep = d
    <3>1. s \in 1..(N+1)
      BY Numbers DEF Steps
    <3> QED BY <1>t, <2>4, <3>1, Numbers DEF Chains, InRun
  <2> HIDE DEF e
  <2>7. Ordered(d) /\ Ready(e)
    BY <2>2, <2>3, <2>4, <2>6 DEF Ordered, Ready
  <2>8. ChainOK(e)
    BY <2>4, <2>6, <2>7 DEF ChainOK, InRun
  <2> QED BY <1>t, <2>1, <2>4, <2>5, <2>6, <2>7, <2>8, OneChain
<1>2. CASE RetryReset(h)
  <2> DEFINE e == [m EXCEPT !.pc = "resume"]
  <2>1. /\ m.pc = "retried" /\ cancelled' = FALSE /\ Become(h, e)
        /\ UNCHANGED <<current, queued, restarting, history>>
    BY <1>2 DEF RetryReset, At
  <2>2. /\ e \in Chains /\ e.pc = "resume" /\ e.dep = m.dep /\ e.next = m.next /\ e.last = m.last
    BY <1>t DEF Chains, InRun
  <2> HIDE DEF e
  <2>3. ChainOK(e)
    BY <1>t, <2>1, <2>2 DEF ChainOK, InRun, Ready
  <2> QED BY <1>t, <2>1, <2>2, <2>3, OneChain
<1>3. CASE RetryRun(h)
  <2>1. m.pc = "resume" /\ UNCHANGED <<queued, cancelled, restarting>>
    BY <1>3 DEF RetryRun, At
  <2>2. Ready(m) /\ m.pc \in InRun
    BY <1>t, <2>1 DEF ChainOK, InRun
  <2>3. CASE Proceed(h, m, cancelled) /\ UNCHANGED history
    BY <1>t, <2>1, <2>2, <2>3, ProceedStep
  <2>4. CASE Become(h, Idle) /\ UNCHANGED current /\ Remember({"abandoned"})
    BY <1>0, <1>t, <2>1, <2>4, OneChain DEF Remember, Causes
  <2> QED BY <1>3, <2>3, <2>4 DEF RetryRun
<1>4. CASE CancelDeployment(h)
  <2> DEFINE d == [m.dep EXCEPT !.status = "failed", !.st = "failed"]
  <2>1. /\ m.pc = "cancel" /\ cancelled' = TRUE /\ current' = d /\ Become(h, Idle)
        /\ UNCHANGED <<queued, restarting>> /\ history' \subseteq Causes
    BY <1>4, <1>t DEF CancelDeployment, At, Remember, Causes
  <2>2. m.dep \in Deployments /\ Ordered(m.dep)
    BY <1>t, <2>1 DEF ChainOK
  <2>3. /\ d \in Deployments /\ d.kind = m.dep.kind /\ d.status = "failed" /\ d.at = m.dep.at
        /\ d.st = "failed" /\ d.done = m.dep.done
    BY <2>2 DEF Deployments
  <2> HIDE DEF d
  <2>4. Ordered(d)
    BY <2>2, <2>3 DEF Ordered
  <2> QED BY <1>0, <1>t, <2>1, <2>2, <2>3, <2>4, OneChain
<1> QED BY <1>1, <1>2, <1>3, <1>4
(* A step that succeeded, as the loop goes on from it. *)
LEMMA ResolvedFacts ==
    ASSUME NEW m \in Chains, ChainOK(m), NEW pc \in {"loop", "spawn"},
           m.pc \in {"command", "propagate", "restart"}
    PROVE  LET e == [Pass(m, "success") EXCEPT !.pc = pc]
           IN  /\ e \in Chains /\ ChainOK(e) /\ e.pc = pc
               /\ e.dep \in Deployments /\ Ordered(e.dep) /\ e.dep.status = "running"
<1> DEFINE p == Pass(m, "success")
           e == [p EXCEPT !.pc = pc]
<1>1. /\ m.dep \in Deployments /\ Ordered(m.dep) /\ m.dep.status = "running"
      /\ m.dep.kind = "deploy" => m.last = N
      /\ m.next = m.dep.at + 1 /\ m.dep.at \in Steps
  BY DEF ChainOK, InRun, Deployments
<1>2. /\ p \in Chains /\ p.dep \in Deployments
      /\ p.dep.kind = m.dep.kind /\ p.dep.status = m.dep.status
      /\ p.dep.at = m.dep.at /\ p.dep.st = "success"
      /\ p.dep.done = m.dep.done \cup {m.dep.at}
      /\ p.next = m.next /\ p.last = m.last
  BY <1>1, PassFacts
<1> HIDE DEF p
<1>3. e \in Chains /\ e.pc = pc /\ e.dep = p.dep /\ e.next = p.next /\ e.last = p.last
  BY <1>2 DEF Chains, InRun
<1> HIDE DEF e
<1>4. Ordered(e.dep) /\ Ready(e)
  <2>1. m.dep.kind = "deploy" /\ ~RetryAny => 1..(m.dep.at - 1) \subseteq m.dep.done
    BY <1>1 DEF Ordered
  <2>2. 1..(m.dep.at) = 1..(m.dep.at - 1) \cup {m.dep.at}
    BY <1>1 DEF Steps
  <2>3. e.next - 1 = m.dep.at
    BY <1>1, <1>2, <1>3 DEF Steps
  <2>4. Ordered(e.dep)
    BY <1>1, <1>2, <1>3, <2>1 DEF Ordered
  <2>5. Ready(e)
    BY <1>2, <1>3, <2>1, <2>2, <2>3 DEF Ready
  <2> QED BY <2>4, <2>5
<1>5. ChainOK(e)
  BY <1>1, <1>2, <1>3, <1>4 DEF ChainOK, InRun
<1> QED BY <1>1, <1>2, <1>3, <1>4, <1>5 DEF e, p

(* A deployment that fails is saved as such, and hands over to the queue. *)
LEMMA FailFacts ==
    ASSUME IInv, NEW h \in Handlers, NEW m \in Chains, m.dep \in Deployments, Ordered(m.dep),
           FailDeployment(h, m)
    PROVE  /\ current' \in Deployments /\ Ordered(current') /\ current'.status = "failed"
           /\ \E e \in Chains : Become(h, e) /\ ChainOK(e) /\ e.pc = "handoff"
<1> DEFINE d == [m.dep EXCEPT !.status = "failed"]
           e == HandOffOf([m EXCEPT !.dep = d])
           f == [Idle EXCEPT !.pc = "handoff", !.dep = d]
<1>1. current' = d /\ Become(h, e)
  BY DEF FailDeployment
<1>2. /\ d \in Deployments /\ d.kind = m.dep.kind /\ d.status = "failed" /\ d.at = m.dep.at
      /\ d.st = m.dep.st /\ d.done = m.dep.done
  BY DEF Deployments
<1> HIDE DEF d
<1>3. Ordered(d)
  BY <1>2 DEF Ordered
<1>4. [m EXCEPT !.dep = d].dep = d
  BY DEF Chains
<1>5. e = f
  BY <1>4 DEF HandOffOf
<1>6. f \in Chains /\ ChainOK(f) /\ f.pc = "handoff"
  BY <1>2, HandOffFacts
<1> HIDE DEF e, f
<1> QED BY <1>1, <1>2, <1>3, <1>5, <1>6

(* The steps of a run. *)
LEMMA RunStep ==
    ASSUME IInv, NEW h \in Handlers,
           RunDeployment(h) \/ NextStep(h) \/ CommandEnds(h) \/ AttemptAgain(h)
           \/ PropagateProgress(h) \/ PropagateEnds(h) \/ PropagateFails(h)
           \/ RestartSave(h) \/ RestartSpawn(h)
    PROVE  IInv'
<1> DEFINE m == handler[h]
<1>0. ChainOK(Idle) /\ Idle \in Chains
  BY IdleType DEF ChainOK, Idle, InRun
<1>t. /\ queued \in Nat /\ cancelled \in BOOLEAN /\ restarting \in BOOLEAN /\ history \subseteq Causes
      /\ m \in Chains /\ ChainOK(m)
  BY HolderFacts DEF IInv, TypeOK
<1>r. ASSUME m.pc \in InRun
      PROVE  m.dep \in Deployments /\ Ordered(m.dep) /\ m.dep.status = "running"
  BY <1>t, <1>r DEF ChainOK
<1>1. CASE RunDeployment(h)
  <2>1. m.pc = "flag" /\ UNCHANGED <<queued, cancelled, restarting>>
    BY <1>1 DEF RunDeployment, At
  <2>2. Ready(m) /\ m.pc \in InRun
    BY <1>t, <2>1 DEF ChainOK, InRun
  <2>3. CASE Proceed(h, m, cancelled) /\ UNCHANGED history
    BY <1>t, <2>1, <2>2, <2>3, ProceedStep
  <2>4. CASE /\ Become(h, Idle) /\ Remember({"refused"})
             /\ current' = [m.dep EXCEPT !.status = "failed", !.st = "failed"]
    <3> DEFINE d == [m.dep EXCEPT !.status = "failed", !.st = "failed"]
    <3>1. /\ d \in Deployments /\ d.kind = m.dep.kind /\ d.status = "failed" /\ d.at = m.dep.at
          /\ d.st = "failed" /\ d.done = m.dep.done
      BY <1>r, <2>2 DEF Deployments
    <3> HIDE DEF d
    <3>2. Ordered(d)
      BY <1>r, <2>2, <3>1 DEF Ordered
    <3>3. current' = d /\ history' \subseteq Causes
      BY <1>t, <2>4 DEF d, Remember, Causes
    <3> QED BY <1>0, <1>t, <2>1, <2>4, <3>1, <3>2, <3>3, OneChain
  <2> QED BY <1>1, <2>3, <2>4 DEF RunDeployment
<1>2. CASE NextStep(h)
  <2>1. /\ m.pc = "loop" /\ UNCHANGED <<queued, cancelled, restarting, history>>
        /\ Proceed(h, m, cancelled)
    BY <1>2 DEF NextStep, At
  <2>2. Ready(m) /\ m.pc \in InRun
    BY <1>t, <2>1 DEF ChainOK, InRun
  <2> QED BY <1>t, <2>1, <2>2, ProceedStep
<1>3. CASE CommandEnds(h)
  <2>1. m.pc = "command" /\ m.pc \in InRun /\ UNCHANGED <<queued, cancelled, restarting, history>>
    BY <1>3 DEF CommandEnds, At, InRun
  <2>2. CASE StepResolves(h)
    <3> DEFINE e == [Pass(m, "success") EXCEPT !.pc = "loop"]
    <3>1. Become(h, e) /\ current' = e.dep
      BY <2>2 DEF StepResolves, Save
    <3>2. e \in Chains /\ ChainOK(e) /\ e.dep \in Deployments /\ Ordered(e.dep)
      BY <1>t, <2>1, ResolvedFacts
    <3> HIDE DEF e
    <3> QED BY <1>t, <2>1, <3>1, <3>2, OneChain
  <2>3. CASE /\ m.attempt < MaxAttempts
             /\ Become(h, [m EXCEPT !.pc = "delay", !.attempt = @ + 1])
             /\ UNCHANGED current
    <3> DEFINE e == [m EXCEPT !.pc = "delay", !.attempt = @ + 1]
    <3>1. m.attempt + 1 \in 1..MaxAttempts
      BY <1>t, <2>3, Numbers DEF Chains
    <3>2. e \in Chains /\ e.pc = "delay" /\ e.dep = m.dep /\ e.next = m.next /\ e.last = m.last
      BY <1>t, <3>1 DEF Chains, InRun
    <3>3. Become(h, e)
      BY <2>3
    <3> HIDE DEF e
    <3>4. ChainOK(e)
      BY <1>t, <2>1, <3>2 DEF ChainOK, InRun
    <3> QED BY <1>t, <2>1, <2>3, <3>2, <3>3, <3>4, OneChain
  <2>4. CASE FailDeployment(h, Miss(m))
    <3> DEFINE e == Miss(m)
    <3>1. /\ e \in Chains /\ e.dep \in Deployments
          /\ e.dep.kind = m.dep.kind /\ e.dep.status = m.dep.status
          /\ e.dep.at = m.dep.at /\ e.dep.st = "failed"
          /\ e.dep.done = m.dep.done \ {m.dep.at}
      BY <1>t, <1>r, <2>1, MissFacts
    <3>2. Ordered(e.dep)
      <4> HIDE DEF e
      <4>1. m.dep.at \in Steps
        BY <1>r, <2>1 DEF Deployments
      <4> QED BY <1>r, <2>1, <3>1, <4>1 DEF Ordered, Steps
    <3>3. FailDeployment(h, e)
      BY <2>4
    <3> HIDE DEF e
    <3>4. /\ current' \in Deployments /\ Ordered(current')
          /\ \E f \in Chains : Become(h, f) /\ ChainOK(f)
      BY <3>1, <3>2, <3>3, FailFacts
    <3> QED BY <1>t, <2>1, <3>4, OneChain
  <2> QED BY <1>3, <2>2, <2>3, <2>4 DEF CommandEnds
<1>4. CASE AttemptAgain(h)
  <2>1. m.pc = "delay" /\ m.pc \in InRun /\ UNCHANGED <<queued, cancelled, restarting, history>>
    BY <1>4 DEF AttemptAgain, At, InRun
  <2>2. CASE cancelled
    <3>1. Proceed(h, m, TRUE) /\ Tried(m) /\ TRUE \in BOOLEAN
      BY <1>4, <1>t, <2>1, <2>2 DEF AttemptAgain, ChainOK, Tried, InRun
    <3> QED BY <2>1, <3>1, ProceedStep
  <2>3. CASE ~cancelled
    <3> DEFINE e == [m EXCEPT !.pc = "command"]
    <3>1. Become(h, e) /\ current' = e.dep
      BY <1>4, <2>3 DEF AttemptAgain, Save
    <3>2. e \in Chains /\ e.pc = "command" /\ e.dep = m.dep /\ e.next = m.next /\ e.last = m.last
      BY <1>t DEF Chains, InRun
    <3> HIDE DEF e
    <3>3. ChainOK(e)
      BY <1>t, <2>1, <3>2 DEF ChainOK, InRun
    <3> QED BY <1>t, <1>r, <2>1, <3>1, <3>2, <3>3, OneChain
  <2> QED BY <2>2, <2>3
<1>5. CASE PropagateProgress(h)
  <2>1. /\ m.pc \in InRun /\ UNCHANGED <<queued, cancelled, restarting, history>>
        /\ Become(h, m) /\ current' = m.dep
    BY <1>5 DEF PropagateProgress, At, Save, InRun
  <2> QED BY <1>t, <1>r, <2>1, OneChain
<1>6. CASE PropagateEnds(h)
  <2>1. m.pc = "propagate" /\ m.pc \in InRun /\ UNCHANGED <<queued, cancelled, restarting, history>>
    BY <1>6 DEF PropagateEnds, At, InRun
  <2>2. CASE Save(h, [Pass(m, "success") EXCEPT !.pc = "loop"])
    <3> DEFINE e == [Pass(m, "success") EXCEPT !.pc = "loop"]
    <3>1. Become(h, e) /\ current' = e.dep
      BY <2>2 DEF Save
    <3>2. e \in Chains /\ ChainOK(e) /\ e.dep \in Deployments /\ Ordered(e.dep)
      BY <1>t, <2>1, ResolvedFacts
    <3> HIDE DEF e
    <3> QED BY <1>t, <2>1, <3>1, <3>2, OneChain
  <2>3. CASE Save(h, [Miss(m) EXCEPT !.pc = "failing"])
    <3> DEFINE p == Miss(m)
               e == [p EXCEPT !.pc = "failing"]
    <3>1. Become(h, e) /\ current' = e.dep
      BY <2>3 DEF Save
    <3>2. /\ p \in Chains /\ p.dep \in Deployments
          /\ p.dep.kind = m.dep.kind /\ p.dep.status = m.dep.status
          /\ p.dep.at = m.dep.at /\ p.dep.st = "failed"
          /\ p.dep.done = m.dep.done \ {m.dep.at} /\ p.last = m.last
      BY <1>t, <1>r, <2>1, MissFacts
    <3> HIDE DEF p
    <3>3. e \in Chains /\ e.pc = "failing" /\ e.dep = p.dep /\ e.last = p.last
      BY <3>2 DEF Chains, InRun
    <3> HIDE DEF e
    <3>4. Ordered(e.dep)
      <4>1. m.dep.at \in Steps
        BY <1>r, <2>1 DEF Deployments
      <4> QED BY <1>r, <2>1, <3>2, <3>3, <4>1 DEF Ordered, Steps
    <3>5. ChainOK(e)
      BY <1>t, <1>r, <2>1, <3>2, <3>3, <3>4 DEF ChainOK, InRun
    <3> QED BY <1>t, <2>1, <3>1, <3>2, <3>3, <3>4, <3>5, OneChain
  <2> QED BY <1>6, <2>2, <2>3 DEF PropagateEnds
<1>7. CASE PropagateFails(h)
  <2>1. /\ m.pc \in InRun /\ UNCHANGED <<queued, cancelled, restarting, history>>
        /\ FailDeployment(h, m)
    BY <1>7 DEF PropagateFails, At, InRun
  <2>2. /\ current' \in Deployments /\ Ordered(current')
        /\ \E f \in Chains : Become(h, f) /\ ChainOK(f)
    BY <1>t, <1>r, <2>1, FailFacts
  <2> QED BY <1>t, <2>1, <2>2, OneChain
<1>8. CASE RestartSave(h)
  <2>1. /\ m.pc = "restart" /\ UNCHANGED <<queued, cancelled, restarting, history>>
        /\ Save(h, [Pass(m, "success") EXCEPT !.pc = "spawn"])
    BY <1>8 DEF RestartSave, At
  <2> DEFINE e == [Pass(m, "success") EXCEPT !.pc = "spawn"]
  <2>2. Become(h, e) /\ current' = e.dep
    BY <2>1 DEF Save
  <2>3. e \in Chains /\ ChainOK(e) /\ e.dep \in Deployments /\ Ordered(e.dep)
    BY <1>t, <2>1, ResolvedFacts
  <2> HIDE DEF e
  <2> QED BY <1>t, <2>1, <2>2, <2>3, OneChain
<1>9. CASE RestartSpawn(h)
  <2>1. /\ restarting' \in BOOLEAN /\ history' \subseteq Causes /\ Become(h, Idle)
        /\ UNCHANGED <<current, queued, cancelled>>
    BY <1>9, <1>t DEF RestartSpawn, Remember, Causes
  <2> QED BY <1>0, <1>t, <2>1, OneChain
<1> QED BY <1>1, <1>2, <1>3, <1>4, <1>5, <1>6, <1>7, <1>8, <1>9
LEMMA IInvInit == Init => IInv
<1> SUFFICES ASSUME Init PROVE IInv
  OBVIOUS
<1>1. ChainOK(Idle)
  BY DEF ChainOK, Idle, InRun
<1>2. handler \in [Handlers -> Chains] /\ ChainsOK
  BY <1>1, IdleType DEF Init, ChainsOK
<1>3. TypeOK /\ CurrentOK
  BY <1>2 DEF Init, TypeOK, CurrentOK, Chains
<1> QED BY <1>2, <1>3 DEF IInv

LEMMA IInvStep == IInv /\ [Next]_vars => IInv'
<1> SUFFICES ASSUME IInv, [Next]_vars PROVE IInv'
  OBVIOUS
<1>1. ASSUME NEW h \in Handlers, Request(h) PROVE IInv'
  BY <1>1, RequestStep
<1>2. ASSUME NEW h \in Handlers, Continue(h) \/ PropagateProgress(h) PROVE IInv'
  BY <1>2, StartStep, CopyStep, RunStep DEF Continue
<1>3. CASE Restart
  BY <1>3, BootStep DEF Restart
<1>4. CASE Expire
  BY <1>4 DEF Expire, IInv, TypeOK, ChainsOK, CurrentOK
<1>5. CASE UNCHANGED vars
  BY <1>5 DEF vars, IInv, TypeOK, ChainsOK, CurrentOK
<1> QED BY <1>1, <1>2, <1>3, <1>4, <1>5 DEF Next

LEMMA IInvAlways == Spec => []IInv
<1> QED BY IInvInit, IInvStep, PTL DEF Spec

(* Every variable keeps its type, and no command is tried more often than  *)
(* maxAttempts, for every pipeline and every way handlers interleave.      *)
THEOREM TypeCorrect == Spec => []TypeOK
<1>1. IInv => TypeOK
  BY DEF IInv
<1> QED BY <1>1, IInvAlways, PTL

(* Steps are entered in order, with cancellations, crashes, refusals and   *)
(* any interleaving of handlers, as long as a retry is for the step that   *)
(* failed (retryStep itself takes any).                                    *)
THEOREM StepsInOrder ==
    ASSUME ~RetryAny
    PROVE  Spec => []InOrder
<1>1. IInv => InOrder
  <2> SUFFICES ASSUME IInv PROVE InOrder
    OBVIOUS
  <2>1. ASSUME NEW h \in Handlers, Active(h), handler[h].dep.kind = "deploy"
        PROVE  1..(handler[h].dep.at - 1) \subseteq handler[h].dep.done
    BY <2>1 DEF IInv, ChainsOK, ChainOK, Active, Ordered
  <2>2. ASSUME current # None, current.kind = "deploy"
        PROVE  1..(current.at - 1) \subseteq current.done
    BY <2>2 DEF IInv, CurrentOK, Ordered
  <2> QED BY <2>1, <2>2 DEF InOrder
<1> QED BY <1>1, IInvAlways, PTL

(* A success has run every step of the pipeline, or was cancelled in the   *)
(* delay before another attempt at the last one, with the same proviso.    *)
THEOREM SuccessIsAll ==
    ASSUME ~RetryAny
    PROVE  Spec => []SuccessMeansAll
<1>1. IInv => SuccessMeansAll
  BY DEF IInv, CurrentOK, Ordered, SuccessMeansAll
<1> QED BY <1>1, IInvAlways, PTL

-----------------------------------------------------------------------------
(* Every step keeps one run the owner of the state in Redis, unless        *)
(* `history' says why not.                                                 *)

(* What a chain holds after another one moved. *)
LEMMA Moved ==
    ASSUME IInv, NEW h \in Handlers, NEW e, Become(h, e), NEW k \in Handlers
    PROVE  handler'[k] = IF k = h THEN e ELSE handler[k]
BY DEF IInv, TypeOK, Become

(* The places of a chain at which it runs are those of no other chain.     *)
LEMMA Places ==
    /\ {"webhook", "start", "startPropagation", "retry", "cancel", "handoff", "popped"} = Asking
    /\ "idle" \notin Asking /\ "idle" \notin InRun /\ Asking \cap InRun = {}
BY DEF Asking, InRun

(* Whoever runs with nothing wrong is the owner; while no start has got in *)
(* between, nobody hands over meanwhile.                                   *)
LEMMA OwnerRuns ==
    ASSUME IInv, SInv, NEW h \in Handlers, Active(h)
    PROVE  /\ Kept => /\ Running /\ ~restarting /\ current = handler[h].dep
                      /\ \A k \in Handlers : k # h => ~Active(k)
           /\ history \cap {"outdated", "overtaken", "cancelled"} = {}
                => \A k \in Handlers : ~HandsOver(k)
<1>1. handler[h].dep \in Deployments /\ handler[h].dep.status = "running"
  BY HolderFacts DEF Active, ChainOK
<1>2. Kept => /\ Running /\ ~restarting /\ current = handler[h].dep
              /\ \A k \in Handlers : k # h => ~Active(k)
  BY <1>1, NoneAssumption DEF SInv, Owned, OneRuns, Running
<1>3. history \cap {"outdated", "overtaken", "cancelled"} = {} => Kept
  BY DEF Kept
<1> QED BY <1>2, <1>3 DEF SInv, Clear

(* A chain that does not run moves to where it does not run either. *)
LEMMA Quiet ==
    ASSUME IInv, SInv, NEW h \in Handlers, NEW e, Become(h, e), ~Active(h), e.pc \notin InRun,
           UNCHANGED <<current, restarting, cancelled>>, history \subseteq history',
           e.pc \in {"handoff", "popped"} \/ (e.pc = "start" /\ e.by = "queue")
             => HandsOver(h) /\ (e.pc = "start" => e.seen = Running)
    PROVE  SInv'
<1>1. \A k \in Handlers : handler'[k] = IF k = h THEN e ELSE handler[k]
  BY Moved
<1>2. Running' = Running /\ restarting' = restarting /\ current' = current
  BY DEF Running
<1>3. \A k \in Handlers : Active(k)' <=> Active(k)
  BY <1>1 DEF Active
<1>4. Owned'
  <2>1. Kept' => Kept
    BY DEF Kept
  <2>2. \A k \in Handlers : Active(k) => handler'[k] = handler[k]
    BY <1>1
  <2> QED BY <1>2, <1>3, <2>1, <2>2 DEF SInv, Owned, OneRuns
<1>5. Driven'
  <2>1. \A k \in Handlers : Drives(k) => Drives(k)'
    BY <1>1, <1>2, <1>3 DEF Drives
  <2>2. "abandoned" \notin history' => "abandoned" \notin history
    OBVIOUS
  <2> QED BY <1>2, <2>1, <2>2 DEF SInv, Driven
<1>6. Clear'
  <2> SUFFICES ASSUME history' \cap {"outdated", "overtaken", "cancelled"} = {},
                      NEW k \in Handlers, HandsOver(k)'
               PROVE  ~Running' /\ (handler'[k].pc = "start" => ~handler'[k].seen)
    BY DEF Clear
  <2>1. history \cap {"outdated", "overtaken", "cancelled"} = {}
    OBVIOUS
  <2>2. CASE k # h
    <3>1. HandsOver(k) /\ handler'[k] = handler[k]
      BY <1>1, <2>2 DEF HandsOver
    <3> QED BY <1>2, <2>1, <3>1 DEF SInv, Clear
  <2>3. CASE k = h
    <3>1. HandsOver(h) /\ (e.pc = "start" => e.seen = Running)
      BY <1>1, <2>3 DEF HandsOver
    <3> QED BY <1>1, <1>2, <2>1, <2>3, <3>1 DEF SInv, Clear
  <2> QED BY <2>2, <2>3
<1> QED BY <1>4, <1>5, <1>6 DEF SInv

(* A run is committed by a chain that was told that nothing is running.    *)
(* When that was outdated, or a ticket was on its way, it is remembered.   *)
LEMMA Takes ==
    ASSUME IInv, SInv, NEW h \in Handlers, NEW e, Commit(h, e), ~Active(h), ~handler[h].seen,
           e.pc \in InRun, e.dep \in Deployments, e.dep.status = "running", UNCHANGED restarting
    PROVE  SInv'
<1>1. Become(h, e) /\ current' = e.dep
  BY DEF Commit, Save
<1>2. \A k \in Handlers : handler'[k] = IF k = h THEN e ELSE handler[k]
  BY <1>1, Moved
<1>3. handler'[h] = e /\ Active(h)' /\ ~HandsOver(h)'
  BY <1>2, Places DEF Active, HandsOver, InRun
<1>4. \A k \in Handlers : k # h => Active(k)' = Active(k) /\ HandsOver(k)' = HandsOver(k)
  BY <1>2 DEF Active, HandsOver
<1>5. Driven'
  BY <1>1, <1>3 DEF Driven, Drives
<1>6. Kept' => ~restarting /\ \A k \in Handlers : k # h => ~Active(k)
  <2>1. CASE Alone(h)
    BY <2>1 DEF Alone
  <2>2. CASE ~Alone(h)
    <3> SUFFICES ASSUME Kept' PROVE ~restarting /\ \A k \in Handlers : k # h => ~Active(k)
      OBVIOUS
    <3>1. history' = history \cup {c \in {"outdated"} : Running /\ ~handler[h].seen}
                             \cup {c \in {"overtaken"} : \E k \in Handlers \ {h} : HandsOver(k)}
      BY <2>2 DEF Commit
    <3>2. Kept /\ ~Running
      BY <3>1 DEF Kept
    <3>3. \A k \in Handlers : ~Active(k)
      BY <3>2, OwnerRuns
    <3>4. ~restarting
      BY <3>2 DEF SInv, Owned
    <3> QED BY <3>3, <3>4
  <2> QED BY <2>1, <2>2
<1>7. Owned'
  <2> SUFFICES ASSUME Kept'
               PROVE  /\ OneRuns'
                      /\ \A k \in Handlers : Active(k)' => current' = handler'[k].dep /\ ~restarting'
                      /\ restarting' => Running'
    BY DEF Owned
  <2>1. \A k \in Handlers : Active(k)' => k = h
    BY <1>4, <1>6
  <2> QED BY <1>1, <1>3, <1>6, <2>1 DEF OneRuns
<1>8. Clear'
  <2> SUFFICES ASSUME history' \cap {"outdated", "overtaken", "cancelled"} = {},
                      NEW k \in Handlers, k # h, HandsOver(k)
               PROVE  FALSE
    BY <1>3, <1>4 DEF Clear
  <2>1. CASE Alone(h)
    BY <2>1 DEF Alone
  <2>2. CASE ~Alone(h)
    BY <2>2 DEF Commit
  <2> QED BY <2>1, <2>2
<1> QED BY <1>5, <1>7, <1>8 DEF SInv

(* A run goes on: it saves what it holds, or keeps what it has saved. *)
LEMMA GoesOn ==
    ASSUME IInv, SInv, NEW h \in Handlers, NEW e, Become(h, e), Active(h), e.pc \in InRun,
           UNCHANGED <<restarting, history>>,
           \/ current' = e.dep
           \/ /\ current' = current /\ e.dep = handler[h].dep
              /\ e.pc = "resume" \/ (handler[h].pc # "resume" /\ cancelled' = cancelled)
    PROVE  SInv'
<1>1. \A k \in Handlers : handler'[k] = IF k = h THEN e ELSE handler[k]
  BY Moved
<1>2. handler'[h] = e /\ Active(h)' /\ ~HandsOver(h)'
  BY <1>1, Places DEF Active, HandsOver, InRun
<1>3. \A k \in Handlers : k # h => Active(k)' = Active(k) /\ HandsOver(k)' = HandsOver(k)
  BY <1>1 DEF Active, HandsOver
<1>4. Owned'
  <2> SUFFICES ASSUME Kept'
               PROVE  /\ OneRuns'
                      /\ \A k \in Handlers : Active(k)' => current' = handler'[k].dep /\ ~restarting'
                      /\ restarting' => Running'
    BY DEF Owned
  <2>1. Kept
    BY DEF Kept
  <2>2. /\ ~restarting /\ current = handler[h].dep
        /\ \A k \in Handlers : k # h => ~Active(k)
    BY <2>1, OwnerRuns
  <2>3. \A k \in Handlers : Active(k)' => k = h
    BY <1>3, <2>2
  <2> QED BY <1>2, <2>2, <2>3 DEF OneRuns
<1>5. Driven'
  <2>1. CASE current' = e.dep \/ e.pc = "resume"
    BY <1>2, <2>1 DEF Driven, Drives
  <2>2. CASE /\ current' = current /\ e.dep = handler[h].dep
             /\ handler[h].pc # "resume" /\ cancelled' = cancelled
    <3>1. Running' = Running
      BY <2>2 DEF Running
    <3>2. \A k \in Handlers : Drives(k) => Drives(k)'
      BY <1>1, <1>2, <2>2 DEF Drives, Active
    <3> QED BY <2>2, <3>1, <3>2 DEF SInv, Driven
  <2> QED BY <2>1, <2>2
<1>6. Clear'
  <2> SUFFICES ASSUME history' \cap {"outdated", "overtaken", "cancelled"} = {},
                      NEW k \in Handlers, HandsOver(k)'
               PROVE  FALSE
    BY DEF Clear
  <2>1. k # h /\ HandsOver(k)
    BY <1>2, <1>3
  <2> QED BY <2>1, OwnerRuns
<1> QED BY <1>4, <1>5, <1>6 DEF SInv

(* A run leaves: what it leaves in Redis does not run, or was cancelled or *)
(* abandoned, or will be resumed after the restart.                        *)
LEMMA Leaves ==
    ASSUME IInv, SInv, NEW h \in Handlers, NEW e, Become(h, e), Active(h),
           e.pc \in {"idle", "handoff"}, history \subseteq history',
           e.pc = "handoff" => ~Running',
           restarting' => restarting \/ current' = current,
           Running' /\ ~cancelled' /\ "abandoned" \notin history' => restarting'
    PROVE  SInv'
<1>1. \A k \in Handlers : handler'[k] = IF k = h THEN e ELSE handler[k]
  BY Moved
<1>2. handler'[h] = e /\ ~Active(h)'
  BY <1>1, Places DEF Active, InRun
<1>3. \A k \in Handlers : k # h => Active(k)' = Active(k) /\ HandsOver(k)' = HandsOver(k)
  BY <1>1 DEF Active, HandsOver
<1>4. Owned'
  <2> SUFFICES ASSUME Kept'
               PROVE  /\ \A k \in Handlers : ~Active(k)'
                      /\ restarting' => Running'
    BY DEF Owned, OneRuns
  <2>1. Kept
    BY DEF Kept
  <2>2. Running /\ ~restarting /\ \A k \in Handlers : k # h => ~Active(k)
    BY <2>1, OwnerRuns
  <2>3. current' = current => Running'
    BY <2>2 DEF Running
  <2> QED BY <1>2, <1>3, <2>2, <2>3
<1>5. Driven'
  BY DEF Driven
<1>6. Clear'
  <2> SUFFICES ASSUME history' \cap {"outdated", "overtaken", "cancelled"} = {},
                      NEW k \in Handlers, HandsOver(k)'
               PROVE  ~Running' /\ (handler'[k].pc = "start" => ~handler'[k].seen)
    BY DEF Clear
  <2>1. history \cap {"outdated", "overtaken", "cancelled"} = {}
    OBVIOUS
  <2>2. k = h
    BY <1>3, <2>1, OwnerRuns
  <2>3. e.pc = "handoff"
    BY <1>2, <2>2 DEF HandsOver
  <2> QED BY <1>2, <2>2, <2>3
<1> QED BY <1>4, <1>5, <1>6 DEF SInv

(* A turn of the loop: the run goes on, is over, or was cancelled.         *)
LEMMA Turns ==
    ASSUME IInv, SInv, NEW h \in Handlers, NEW stop \in BOOLEAN, Active(h),
           stop => cancelled, Proceed(h, handler[h], stop),
           UNCHANGED <<restarting, cancelled, history>>
    PROVE  SInv'
<1> DEFINE m == handler[h]
           e == Enter(m, stop)
           over == [m.dep EXCEPT !.status = "success"]
<1>1. m \in Chains /\ m.dep \in Deployments /\ m.dep.status = "running"
  BY HolderFacts DEF Active, ChainOK
<1>2. Become(h, e) /\ current' = IF e = Idle THEN current ELSE e.dep
  BY DEF Proceed
<1>3. CASE e = [Idle EXCEPT !.pc = "handoff", !.dep = over]
  <2>1. over \in Deployments /\ over.status = "success"
    BY <1>1 DEF Deployments
  <2> HIDE DEF over
  <2>2. e.pc = "handoff" /\ e.dep = over /\ e # Idle
    BY <1>3, <2>1, HandOffFacts
  <2> HIDE DEF e
  <2>3. ~Running'
    BY <1>2, <2>1, <2>2 DEF Running
  <2> QED BY <1>2, <2>2, <2>3, Leaves
<1>4. CASE stop /\ e = Idle
  <2> HIDE DEF e
  <2>1. Become(h, e) /\ e.pc = "idle" /\ current' = current /\ cancelled'
    BY <1>2, <1>4, IdleType
  <2> QED BY <2>1, Leaves
<1>5. CASE e.pc \in {"loop", "command", "propagate", "restart"}
  <2> HIDE DEF e
  <2>1. e # Idle /\ e.pc \in InRun
    BY <1>5, IdleType DEF InRun
  <2> QED BY <1>2, <2>1, GoesOn
<1> QED BY <1>1, <1>3, <1>4, <1>5, EnterCases

(* After a restart one chain runs what was running, or nobody does. *)
LEMMA BootOwned == IInv /\ SInv /\ Boot => SInv'
<1> SUFFICES ASSUME IInv, SInv, Boot PROVE SInv'
  OBVIOUS
<1>1. ~restarting' /\ restarting' = FALSE
  BY DEF Boot
<1>2. CASE /\ Running
           /\ \E h \in Handlers :
                LET m == Enter([Idle EXCEPT !.dep = current, !.last = N,
                                            !.next = Following(current)], FALSE)
                IN  /\ handler' = [k \in Handlers |-> IF k = h THEN m ELSE Idle]
                    /\ current' = m.dep
  <2> DEFINE b == [Idle EXCEPT !.dep = current, !.last = N, !.next = Following(current)]
             e == Enter(b, FALSE)
             over == [b.dep EXCEPT !.status = "success"]
  <2>1. PICK h \in Handlers : /\ handler' = [k \in Handlers |-> IF k = h THEN e ELSE Idle]
                              /\ current' = e.dep
    BY <1>2
  <2>2. current \in Deployments /\ current.status = "running" /\ current.at \in Steps
    BY <1>2 DEF Running, IInv, TypeOK, Deployments
  <2>3. Following(current) \in 1..(N+1)
    BY <2>2, Numbers DEF Following, Steps
  <2>4. b \in Chains /\ b.dep = current
    BY <2>2, <2>3, Numbers DEF Idle, Chains
  <2> HIDE DEF b
  <2>5. \/ e = [Idle EXCEPT !.pc = "handoff", !.dep = over]
        \/ e.pc \in {"loop", "command", "propagate", "restart"}
    <3>1. FALSE \in BOOLEAN /\ b.dep \in Deployments
      BY <2>2, <2>4
    <3> QED BY <2>2, <2>4, <3>1, EnterCases
  <2>6. over \in Deployments /\ over.status = "success"
    BY <2>2, <2>4 DEF Deployments
  <2>7. \/ e.pc = "handoff" /\ e.dep.status = "success"
        \/ e.pc \in InRun
    <3> HIDE DEF e, over
    <3>1. CASE e = [Idle EXCEPT !.pc = "handoff", !.dep = over]
      BY <2>6, <3>1, HandOffFacts
    <3>2. CASE e.pc \in {"loop", "command", "propagate", "restart"}
      BY <3>2 DEF InRun
    <3> QED BY <2>5, <3>1, <3>2
  <2> HIDE DEF e
  <2>8. /\ handler'[h] = e
        /\ \A k \in Handlers : k # h => ~Active(k)' /\ ~HandsOver(k)'
    BY <2>1, IdleType, Places DEF Active, HandsOver
  <2>9. e.pc = "handoff" => ~Running' /\ ~Active(h)'
    BY <2>1, <2>7, <2>8 DEF Running, Active, InRun
  <2>10. e.pc \in InRun => Active(h)' /\ Drives(h)' /\ ~HandsOver(h)'
    BY <2>1, <2>8, Places DEF Active, Drives, HandsOver, InRun
  <2>11. Owned'
    BY <1>1, <2>1, <2>8 DEF Owned, OneRuns
  <2>12. Driven'
    BY <2>7, <2>9, <2>10 DEF Driven
  <2>13. Clear'
    BY <2>7, <2>8, <2>9, <2>10 DEF Clear
  <2> QED BY <2>11, <2>12, <2>13 DEF SInv
<1>3. CASE /\ handler' = [k \in Handlers |-> Idle] /\ UNCHANGED current
           /\ history' = {IF Running THEN "abandoned" ELSE "stopped"}
  <2>1. Running' => "abandoned" \in history'
    BY <1>3 DEF Running
  <2>2. \A k \in Handlers : ~Active(k)' /\ ~HandsOver(k)'
    BY <1>3, IdleType, Places DEF Active, HandsOver
  <2> QED BY <1>1, <2>1, <2>2 DEF SInv, Owned, OneRuns, Driven, Clear
<1> QED BY <1>2, <1>3 DEF Boot

(* The requests only read. *)
LEMMA RequestOwned == ASSUME IInv, SInv, NEW h \in Handlers, Request(h) PROVE SInv'
<1>1. ~Active(h)
  BY Places DEF Request, RequestStart, RequestPropagation, RequestWebhook, RequestRetry,
                RequestCancel, At, Active
<1>2. UNCHANGED <<current, queued, cancelled, restarting, history>>
  BY DEF Request, RequestStart, RequestPropagation, RequestWebhook, RequestRetry, RequestCancel
<1>3. CASE RequestStart(h) \/ RequestPropagation(h) \/ RequestWebhook(h)
  <2>1. PICK pc \in {"webhook", "start", "startPropagation"}, by \in {"admin", "webhook"} :
           Become(h, [Idle EXCEPT !.pc = pc, !.by = by, !.seen = Running])
    BY <1>3 DEF RequestStart, RequestPropagation, RequestWebhook, Ask
  <2> DEFINE e == [Idle EXCEPT !.pc = pc, !.by = by, !.seen = Running]
  <2>2. e.pc = pc /\ e.seen = Running /\ e.by = by
    BY AskFacts
  <2>3. pc \notin InRun
    BY Places
  <2> HIDE DEF e
  <2> QED BY <1>1, <1>2, <2>1, <2>2, <2>3, Quiet DEF e
<1>4. CASE RequestRetry(h) \/ RequestCancel(h)
  <2>1. PICK pc \in {"retry", "cancel"} :
           Become(h, [Idle EXCEPT !.pc = pc, !.dep = current])
    BY <1>4 DEF RequestRetry, RequestCancel
  <2> DEFINE e == [Idle EXCEPT !.pc = pc, !.dep = current]
  <2>2. e.pc = pc /\ e.pc \notin InRun
    BY <2>1 DEF Idle, InRun
  <2> HIDE DEF e
  <2> QED BY <1>1, <1>2, <2>1, <2>2, Quiet DEF e
<1> QED BY <1>3, <1>4 DEF Request

(* From the check to the start of a run, and from its end to the queue. *)
LEMMA StartOwned ==
    ASSUME IInv, SInv, NEW h \in Handlers,
           Redeploy(h) \/ StartDeployment(h) \/ StartPropagation(h) \/ StartRefused(h)
           \/ ProcessQueue(h) \/ StartPopped(h) \/ RetryStep(h)
    PROVE  SInv'
<1> DEFINE m == handler[h]
<1>0. ~Active(h)
  BY Places DEF Redeploy, StartDeployment, StartPropagation, StartRefused, ProcessQueue,
                StartPopped, RetryStep, At, Active
<1>i. Idle.pc = "idle" /\ Idle.pc \notin InRun
  BY IdleType, Places
<1>a. ASSUME NEW by \in {"webhook", "queue"}, UNCHANGED <<current, restarting, cancelled>>,
             history \subseteq history', by = "queue" => HandsOver(h),
             Become(h, [Idle EXCEPT !.pc = "start", !.by = by, !.seen = Running])
      PROVE  SInv'
  <2> DEFINE e == [Idle EXCEPT !.pc = "start", !.by = by, !.seen = Running]
  <2>1. e.pc = "start" /\ e.seen = Running /\ e.by = by
    BY AskFacts
  <2>2. e.pc \notin InRun
    BY <2>1, Places
  <2>3. Become(h, e)
    BY <1>a
  <2> HIDE DEF e
  <2> QED BY <1>0, <1>a, <2>1, <2>2, <2>3, Quiet
<1>b. ASSUME Become(h, Idle), UNCHANGED <<current, restarting, cancelled>>,
             history \subseteq history'
      PROVE  SInv'
  BY <1>0, <1>b, <1>i, Quiet
<1>1. CASE Redeploy(h)
  <2>1. /\ UNCHANGED <<current, restarting, cancelled>> /\ history \subseteq history'
        /\ \/ Become(h, Idle)
           \/ Become(h, [Idle EXCEPT !.pc = "start", !.by = "webhook", !.seen = Running])
    BY <1>1 DEF Redeploy, Ask, Remember
  <2> QED BY <1>a, <1>b, <2>1
<1>2. CASE StartDeployment(h)
  <2> DEFINE d == [kind |-> "deploy", status |-> "running", at |-> 1, st |-> "pending", done |-> {}]
             e == [Idle EXCEPT !.pc = "flag", !.last = N, !.dep = d]
  <2>1. Commit(h, e) /\ UNCHANGED restarting /\ ~m.seen
    BY <1>2 DEF StartDeployment
  <2>2. d \in Deployments /\ d.status = "running"
    BY Numbers DEF Deployments
  <2> HIDE DEF d
  <2>3. e.pc \in InRun /\ e.dep = d
    BY DEF Idle, InRun
  <2> HIDE DEF e
  <2> QED BY <1>0, <2>1, <2>2, <2>3, Takes
<1>3. CASE StartPropagation(h)
  <2>1. PICK i \in Steps :
          Commit(h, [Idle EXCEPT !.pc = "flag", !.next = i, !.last = i, !.force = TRUE,
                       !.dep = [kind |-> "propagate", status |-> "running", at |-> i,
                                st |-> "pending", done |-> {}]])
    BY <1>3 DEF StartPropagation
  <2> DEFINE d == [kind |-> "propagate", status |-> "running", at |-> i, st |-> "pending", done |-> {}]
             e == [Idle EXCEPT !.pc = "flag", !.next = i, !.last = i, !.force = TRUE, !.dep = d]
  <2>2. Commit(h, e)
    BY <2>1
  <2>3. d \in Deployments /\ d.status = "running"
    BY DEF Deployments
  <2> HIDE DEF d
  <2>4. e.pc \in InRun /\ e.dep = d
    BY DEF Idle, InRun
  <2>5. ~m.seen /\ UNCHANGED restarting
    BY <1>3 DEF StartPropagation
  <2> HIDE DEF e
  <2> QED BY <1>0, <2>2, <2>3, <2>4, <2>5, Takes
<1>4. CASE StartRefused(h)
  <2>1. CASE Boot
    BY <2>1, BootOwned
  <2>2. CASE /\ Become(h, Idle) /\ UNCHANGED <<current, queued, cancelled, restarting>>
             /\ history \subseteq history'
    BY <1>b, <2>2
  <2> QED BY <1>4, <2>1, <2>2 DEF StartRefused, Remember
<1>5. CASE ProcessQueue(h)
  <2> DEFINE e == [Idle EXCEPT !.pc = "popped", !.by = "queue"]
  <2>1. /\ Become(h, Idle) \/ Become(h, e)
        /\ UNCHANGED <<current, restarting, cancelled, history>> /\ HandsOver(h)
    BY <1>5 DEF ProcessQueue, At, HandsOver
  <2>2. e.pc = "popped" /\ e.pc \notin InRun
    BY DEF Idle, InRun
  <2> HIDE DEF e
  <2>3. CASE Become(h, e)
    BY <1>0, <2>1, <2>2, <2>3, Quiet
  <2> QED BY <1>b, <2>1, <2>3
<1>6. CASE StartPopped(h)
  <2>1. /\ UNCHANGED <<current, restarting, cancelled, history>> /\ HandsOver(h)
        /\ Become(h, [Idle EXCEPT !.pc = "start", !.by = "queue", !.seen = Running])
    BY <1>6 DEF StartPopped, Ask, At, HandsOver
  <2> QED BY <1>a, <2>1
<1>7. CASE RetryStep(h)
  <2>1. m.pc = "retry" /\ UNCHANGED restarting
    BY <1>7 DEF RetryStep, At
  <2>2. m \in Chains /\ m.dep \in Deployments /\ ~m.seen
    BY <2>1, HolderFacts DEF ChainOK
  <2>3. PICK s \in Steps :
          Commit(h, [m EXCEPT !.pc = "retried", !.next = s, !.last = N,
                       !.dep = [@ EXCEPT !.status = "running", !.at = s, !.st = "pending"]])
    BY <1>7, <2>2 DEF RetryStep, Deployments
  <2> DEFINE d == [m.dep EXCEPT !.status = "running", !.at = s, !.st = "pending"]
             e == [m EXCEPT !.pc = "retried", !.next = s, !.last = N, !.dep = d]
  <2>4. Commit(h, e)
    BY <2>3
  <2>5. d \in Deployments /\ d.status = "running"
    BY <2>2 DEF Deployments
  <2> HIDE DEF d
  <2>6. e.pc \in InRun /\ e.dep = d
    BY <2>2 DEF Chains, InRun
  <2> HIDE DEF e
  <2> QED BY <1>0, <2>1, <2>2, <2>4, <2>5, <2>6, Takes
<1> QED BY <1>1, <1>2, <1>3, <1>4, <1>5, <1>6, <1>7

(* The steps of a run. *)
LEMMA RunOwns ==
    ASSUME IInv, SInv, NEW h \in Handlers,
           RetryReset(h) \/ RetryRun(h) \/ RunDeployment(h) \/ NextStep(h) \/ CommandEnds(h)
           \/ AttemptAgain(h) \/ PropagateProgress(h) \/ PropagateEnds(h) \/ PropagateFails(h)
           \/ RestartSave(h) \/ RestartSpawn(h)
    PROVE  SInv'
<1> DEFINE m == handler[h]
<1>0. Active(h)
  BY DEF RetryReset, RetryRun, RunDeployment, NextStep, CommandEnds, AttemptAgain,
         PropagateProgress, PropagateEnds, PropagateFails, RestartSave, RestartSpawn,
         At, Active, InRun
<1>t. /\ m \in Chains /\ ChainOK(m) /\ m.dep \in Deployments /\ Ordered(m.dep)
      /\ cancelled \in BOOLEAN
  BY <1>0, HolderFacts DEF Active, ChainOK
<1>p. ASSUME NEW pc \in {"loop", "spawn"}, Save(h, [Pass(m, "success") EXCEPT !.pc = pc]),
             m.pc \in {"command", "propagate", "restart"}, UNCHANGED <<restarting, history>>
      PROVE  SInv'
  <2> DEFINE e == [Pass(m, "success") EXCEPT !.pc = pc]
  <2>1. Become(h, e) /\ current' = e.dep
    BY <1>p DEF Save
  <2>2. e.pc = pc
    BY <1>p, <1>t, ResolvedFacts
  <2> HIDE DEF e
  <2>3. e.pc \in InRun
    BY <2>2 DEF InRun
  <2> QED BY <1>0, <1>p, <2>1, <2>3, GoesOn
<1>f. ASSUME NEW x \in Chains, x.dep \in Deployments, Ordered(x.dep), FailDeployment(h, x),
             UNCHANGED <<restarting, history>>
      PROVE  SInv'
  <2>1. PICK e \in Chains : Become(h, e) /\ e.pc = "handoff"
    BY <1>f, FailFacts
  <2>2. ~Running'
    <3>1. current'.status = "failed"
      BY <1>f, FailFacts
    <3> QED BY <3>1 DEF Running
  <2> QED BY <1>0, <1>f, <2>1, <2>2, Leaves
<1>m. ASSUME m.pc \in {"command", "propagate"}
      PROVE  LET e == Miss(m)
             IN  e \in Chains /\ e.dep \in Deployments /\ Ordered(e.dep)
  <2> DEFINE e == Miss(m)
  <2>1. /\ e \in Chains /\ e.dep \in Deployments
        /\ e.dep.kind = m.dep.kind /\ e.dep.status = m.dep.status
        /\ e.dep.at = m.dep.at /\ e.dep.st = "failed"
        /\ e.dep.done = m.dep.done \ {m.dep.at}
    BY <1>t, MissFacts
  <2> HIDE DEF e
  <2>2. m.dep.at \in Steps /\ m.dep.status = "running"
    BY <1>0, <1>t DEF Deployments, ChainOK, Active
  <2>3. Ordered(e.dep)
    BY <1>t, <2>1, <2>2 DEF Ordered, Steps
  <2> QED BY <2>1, <2>3 DEF e
<1>1. CASE RetryReset(h)
  <2> DEFINE e == [m EXCEPT !.pc = "resume"]
  <2>1. Become(h, e) /\ UNCHANGED <<current, restarting, history>>
    BY <1>1 DEF RetryReset
  <2>2. e.pc = "resume" /\ e.pc \in InRun /\ e.dep = m.dep
    BY <1>t DEF Chains, InRun
  <2> HIDE DEF e
  <2> QED BY <1>0, <2>1, <2>2, GoesOn
<1>2. CASE RetryRun(h)
  <2>1. UNCHANGED <<restarting, cancelled>>
    BY <1>2 DEF RetryRun
  <2>2. CASE Proceed(h, m, cancelled) /\ UNCHANGED history
    BY <1>0, <1>t, <2>1, <2>2, Turns
  <2>3. CASE Become(h, Idle) /\ Remember({"abandoned"}) /\ UNCHANGED current
    BY <1>0, <2>1, <2>3, IdleType, Leaves DEF Remember
  <2> QED BY <1>2, <2>2, <2>3 DEF RetryRun
<1>3. CASE NextStep(h)
  BY <1>0, <1>3, <1>t, Turns DEF NextStep
<1>4. CASE RunDeployment(h)
  <2>1. UNCHANGED <<restarting, cancelled>>
    BY <1>4 DEF RunDeployment
  <2>2. CASE Proceed(h, m, cancelled) /\ UNCHANGED history
    BY <1>0, <1>t, <2>1, <2>2, Turns
  <2>3. CASE /\ Become(h, Idle) /\ Remember({"refused"})
             /\ current' = [m.dep EXCEPT !.status = "failed", !.st = "failed"]
    <3>1. current'.status = "failed"
      BY <1>t, <2>3 DEF Deployments
    <3>2. ~Running'
      BY <3>1 DEF Running
    <3> QED BY <1>0, <2>1, <2>3, <3>2, IdleType, Leaves DEF Remember
  <2> QED BY <1>4, <2>2, <2>3 DEF RunDeployment
<1>5. CASE CommandEnds(h)
  <2>1. m.pc = "command" /\ UNCHANGED <<cancelled, restarting, history>>
    BY <1>5 DEF CommandEnds, At
  <2>2. CASE StepResolves(h)
    BY <1>p, <2>1, <2>2 DEF StepResolves
  <2>3. CASE Become(h, [m EXCEPT !.pc = "delay", !.attempt = @ + 1]) /\ UNCHANGED current
    <3> DEFINE e == [m EXCEPT !.pc = "delay", !.attempt = @ + 1]
    <3>1. e.pc \in InRun /\ e.dep = m.dep
      BY <1>t DEF Chains, InRun
    <3> HIDE DEF e
    <3>2. Become(h, e)
      BY <2>3 DEF e
    <3> QED BY <1>0, <2>1, <2>3, <3>1, <3>2, GoesOn
  <2>4. CASE FailDeployment(h, Miss(m))
    BY <1>f, <1>m, <2>1, <2>4
  <2> QED BY <1>5, <2>2, <2>3, <2>4 DEF CommandEnds
<1>6. CASE AttemptAgain(h)
  <2>1. UNCHANGED <<cancelled, restarting, history>>
    BY <1>6 DEF AttemptAgain
  <2>2. CASE cancelled
    <3>1. Proceed(h, m, TRUE) /\ TRUE \in BOOLEAN
      BY <1>6, <2>2 DEF AttemptAgain
    <3> QED BY <1>0, <2>1, <2>2, <3>1, Turns
  <2>3. CASE ~cancelled
    <3> DEFINE e == [m EXCEPT !.pc = "command"]
    <3>1. Become(h, e) /\ current' = e.dep
      BY <1>6, <2>3 DEF AttemptAgain, Save
    <3>2. e.pc \in InRun
      BY <1>t DEF Chains, InRun
    <3> HIDE DEF e
    <3> QED BY <1>0, <2>1, <3>1, <3>2, GoesOn
  <2> QED BY <2>2, <2>3
<1>7. CASE PropagateProgress(h)
  BY <1>0, <1>7, GoesOn DEF PropagateProgress, Save, Active
<1>8. CASE PropagateEnds(h)
  <2>1. m.pc = "propagate" /\ UNCHANGED <<restarting, history>>
    BY <1>8 DEF PropagateEnds, At
  <2>2. CASE Save(h, [Pass(m, "success") EXCEPT !.pc = "loop"])
    BY <1>p, <2>1, <2>2
  <2>3. CASE Save(h, [Miss(m) EXCEPT !.pc = "failing"])
    <3> DEFINE p == Miss(m)
               e == [p EXCEPT !.pc = "failing"]
    <3>1. Become(h, e) /\ current' = e.dep
      BY <2>3 DEF Save
    <3>2. p \in Chains
      BY <1>m, <2>1
    <3> HIDE DEF p
    <3>3. e.pc \in InRun
      BY <3>2 DEF Chains, InRun
    <3> HIDE DEF e
    <3> QED BY <1>0, <2>1, <3>1, <3>3, GoesOn
  <2> QED BY <1>8, <2>2, <2>3 DEF PropagateEnds
<1>9. CASE PropagateFails(h)
  BY <1>9, <1>f, <1>t DEF PropagateFails
<1>10. CASE RestartSave(h)
  BY <1>10, <1>p DEF RestartSave, At
<1>11. CASE RestartSpawn(h)
  <2>1. /\ Become(h, Idle) /\ UNCHANGED <<current, cancelled>> /\ history \subseteq history'
        /\ restarting' \/ "abandoned" \in history'
    BY <1>11 DEF RestartSpawn, Remember
  <2> QED BY <1>0, <2>1, IdleType, Leaves
<1> QED BY <1>1, <1>2, <1>3, <1>4, <1>5, <1>6, <1>7, <1>8, <1>9, <1>10, <1>11

LEMMA SInvInit == Init => SInv
<1> SUFFICES ASSUME Init PROVE SInv
  OBVIOUS
<1>1. \A h \in Handlers : ~Active(h) /\ ~HandsOver(h)
  BY IdleType, Places DEF Init, Active, HandsOver
<1>2. ~Running /\ ~restarting
  BY DEF Init, Running
<1> QED BY <1>1, <1>2 DEF SInv, OneRuns, Owned, Driven, Clear

LEMMA SInvStep == IInv /\ SInv /\ [Next]_vars => SInv'
<1> SUFFICES ASSUME IInv, SInv, [Next]_vars PROVE SInv'
  OBVIOUS
<1>1. ASSUME NEW h \in Handlers, Request(h) PROVE SInv'
  BY <1>1, RequestOwned
<1>2. ASSUME NEW h \in Handlers, Continue(h) \/ PropagateProgress(h) PROVE SInv'
  <2>1. CASE CancelDeployment(h)
    <3>1. cancelled' /\ "cancelled" \in history'
      BY <2>1 DEF CancelDeployment, Remember
    <3> QED BY <3>1 DEF SInv, Owned, Kept, Driven, Clear
  <2> QED BY <1>2, <2>1, StartOwned, RunOwns DEF Continue
<1>3. CASE Restart
  BY <1>3, BootOwned DEF Restart
<1>4. CASE Expire
  <2>1. \A h \in Handlers : ~Active(h)' /\ ~HandsOver(h)'
    BY <1>4, IdleType, Places DEF Expire, Active, HandsOver
  <2>2. ~Running' /\ ~restarting'
    BY <1>4 DEF Expire, Running
  <2> QED BY <2>1, <2>2 DEF SInv, OneRuns, Owned, Driven, Clear
<1>5. CASE UNCHANGED vars
  <2>1. /\ Running' = Running
        /\ \A h \in Handlers : Active(h)' = Active(h) /\ HandsOver(h)' = HandsOver(h)
                               /\ Drives(h)' = Drives(h)
    BY <1>5 DEF vars, Running, Active, HandsOver, Drives
  <2> QED BY <1>5, <2>1 DEF vars, SInv, OneRuns, Owned, Kept, Driven, Clear
<1> QED BY <1>1, <1>2, <1>3, <1>4, <1>5 DEF Next

LEMMA SInvAlways == Spec => [](IInv /\ SInv)
<1> QED BY IInvInit, IInvStep, SInvInit, SInvStep, PTL DEF Spec

(* One deployment at a time: however handlers are interleaved between      *)
(* isRunning() and the commit, cancelled, killed or resumed, two runs, or  *)
(* a run next to a pending restart, are traced to a commit on an outdated  *)
(* check or to a cancellation since a run last started from rest.          *)
THEOREM OneRunAtATime == Spec => []SingleRun
<1>1. SInv => SingleRun
  BY DEF SInv, OneRuns, Owned, Kept, SingleRun, OneRun
<1> QED BY <1>1, SInvAlways, PTL

(* Redis holds what the run holds, under the same excuses; and whatever it *)
(* calls running has an owner, two runs or not, unless it was cancelled or *)
(* abandoned.                                                              *)
THEOREM RunIsOwned == Spec => []RunOwned
<1>1. SInv => RunOwned
  BY DEF SInv, Owned, Kept, Driven, Drives, RunOwned
<1> QED BY <1>1, SInvAlways, PTL

(* A ticket taken from the queue is refused only when another start got in *)
(* between, two runs overlap, or one was cancelled.                        *)
THEOREM TicketIsStarted == Spec => TicketStarts
<1>1. SInv => \A h \in Handlers :
                HandsOver(h) /\ StartRefused(h) /\ handler[h].seen
                  => history \cap {"outdated", "overtaken", "cancelled"} # {}
  <2> SUFFICES ASSUME SInv, NEW h \in Handlers, HandsOver(h), StartRefused(h), handler[h].seen,
                      history \cap {"outdated", "overtaken", "cancelled"} = {}
               PROVE  FALSE
    OBVIOUS
  <2>1. handler[h].pc = "start"
    BY DEF StartRefused, At, HandsOver
  <2> QED BY <2>1 DEF SInv, Clear
<1> QED BY <1>1, SInvAlways, PTL DEF TicketStarts
=============================================================================
