----------------------------- MODULE Deployment -----------------------------
(***************************************************************************)
(* The deployment pipeline (DeploymentService and its controller): one     *)
(* deployment at a time, its state kept in Redis so that it survives the   *)
(* restart it orders itself, a queue for webhooks that come meanwhile.     *)
(*                                                                         *)
(* A handler is a chain of continuations: a request, the run it starts     *)
(* with `void', and the queued deployment that run hands over to. One      *)
(* action is what happens between two awaits. Redis commands of the one    *)
(* client take effect in the order they are issued, so a command belongs   *)
(* to the action that issues it and its reply is read in the next one.     *)
(***************************************************************************)
EXTENDS Integers, Sequences

CONSTANTS
    Pipeline,       \* the steps of the project: kind, and whether it is switched off
    Handlers,       \* continuation chains that may be in flight
    MaxAttempts,    \* maxAttempts of a command step (3 in the code)
    MaxQueue,       \* bound: webhooks that find more queued are left out
    None,           \* no deployment
    Cancels,        \* does an administrator cancel?
    FlagOff,        \* may enable_pipeline_deployment be off?
    Edits,          \* may a project be deleted or disabled meanwhile?
    RetryAny,       \* is a retry sent for other steps than the failed one?
    Crashes         \* may the process die at any moment?

N == Len(Pipeline)
Steps == 1..N

ASSUME PipelineAssumption ==
    /\ Pipeline \in Seq([kind : {"command", "propagate", "restart"}, skip : BOOLEAN])
    /\ N > 0

ASSUME ParameterAssumption ==
    /\ MaxAttempts \in Nat \ {0}
    /\ MaxQueue \in Nat
    /\ {Cancels, FlagOff, Edits, RetryAny, Crashes} \subseteq BOOLEAN

VARIABLES
    current,    \* deployment:current
    queued,     \* length of deployment:queue
    cancelled,  \* DeploymentService.cancelled
    handler,    \* handler[h]: where the chain h stands
    restarting, \* the restart command was sent, this process is about to go
    history     \* what has gone wrong since a run last started from rest

vars == <<current, queued, cancelled, handler, restarting, history>>

(* A DeploymentState: `kind' is the prefix of its id, `at' and `st' are the *)
(* name and the status of currentStep, `done' the steps that completedSteps *)
(* holds as successful or skipped.                                          *)
Deployments == [kind : {"deploy", "propagate"}, status : {"running", "success", "failed"},
                at : Steps, done : SUBSET Steps,
                st : {"pending", "running", "success", "skipped", "failed"}]
ASSUME NoneAssumption == None \notin Deployments

Asking == {"webhook", "start", "startPropagation", "retry", "cancel", "handoff", "popped"}
InRun == {"flag", "retried", "resume", "loop", "command", "delay",
          "propagate", "failing", "restart", "spawn"}

(* A chain: who asked, what isRunning() answered, the deployment it holds  *)
(* in memory, the steps `next'..`last' it still has to run (`force': their *)
(* skip flag is cleared), and the attempt of the command at hand.          *)
Idle == [pc |-> "idle", by |-> "admin", seen |-> FALSE, dep |-> None,
         next |-> 1, last |-> 0, force |-> FALSE, attempt |-> 1]

Running == current # None /\ current.status = "running"
Active(h) == handler[h].pc \in InRun

(* h is between the end of a run and the start of the next in the queue. *)
HandsOver(h) == \/ handler[h].pc \in {"handoff", "popped"}
                \/ handler[h].pc = "start" /\ handler[h].by = "queue"

(* What may go wrong, as `history' records it: a start is committed after  *)
(* another one was ("outdated"), or before the next in the queue could be  *)
(* ("overtaken"); a run is cancelled, or refused by the feature flag; a    *)
(* webhook queues behind a run that is over ("late"); the project is gone  *)
(* when its turn comes ("edited"), or when a run is to go on ("abandoned", *)
(* as is one whose restart command fails); the process ends while no run   *)
(* is saved as running ("stopped").                                        *)
Causes == {"outdated", "overtaken", "cancelled", "refused", "late", "edited",
           "abandoned", "stopped"}

Init ==
    /\ current = None
    /\ queued = 0
    /\ cancelled = FALSE
    /\ handler = [h \in Handlers |-> Idle]
    /\ restarting = FALSE
    /\ history = {}

-----------------------------------------------------------------------------
Become(h, m) == handler' = [handler EXCEPT ![h] = m]

(* saveState(deployment, REDIS_KEY_CURRENT) of what the chain holds. *)
Save(h, m) == Become(h, m) /\ current' = m.dep

At(h, pc) == handler[h].pc = pc

Remember(causes) == history' = history \cup causes

(* Nothing is under way but h. *)
Alone(h) == /\ ~Running
            /\ ~restarting
            /\ \A k \in Handlers \ {h} : ~Active(k) /\ ~HandsOver(k)

(* A start or a retry that was told that nothing is running is committed.  *)
Commit(h, m) ==
    /\ Save(h, m)
    /\ history' = IF Alone(h) THEN {}
                  ELSE history
                    \cup {c \in {"outdated"} : Running /\ ~handler[h].seen}
                    \cup {c \in {"overtaken"} : \E k \in Handlers \ {h} : HandsOver(k)}

(* The step that succeeded, was skipped or failed. *)
Pass(m, st) == [m EXCEPT !.dep.st = st, !.dep.done = @ \cup {m.dep.at}]
Miss(m) == [m EXCEPT !.dep.st = "failed", !.dep.done = @ \ {m.dep.at}]

(* The end of a run: what it holds is forgotten. *)
HandOffOf(m) == [Idle EXCEPT !.pc = "handoff", !.dep = m.dep]

(* One turn of the loop of runSteps for the chain m: the deployment is     *)
(* over, was cancelled, or the next step starts (or is skipped).           *)
Enter(m, stop) ==
    LET i == m.next
        on == [m EXCEPT !.dep.at = i, !.dep.st = "running", !.next = i + 1, !.attempt = 1]
    IN  CASE i > m.last -> HandOffOf([m EXCEPT !.dep.status = "success"])
          [] i <= m.last /\ stop -> Idle
          [] i <= m.last /\ ~stop /\ Pipeline[i].skip /\ ~m.force ->
                [Pass(on, "skipped") EXCEPT !.pc = "loop"]
          [] OTHER -> [on EXCEPT !.pc = Pipeline[i].kind]

Proceed(h, m, stop) ==
    /\ Become(h, Enter(m, stop))
    /\ current' = IF Enter(m, stop) = Idle THEN current ELSE Enter(m, stop).dep

(* Mutant: the step that was interrupted counts as done. *)
Following_Skips(dep) == dep.at + 1

(* getFollowingSteps: the index of the first of the steps still to run. *)
Following(dep) == IF dep.st = "success" THEN dep.at + 1 ELSE dep.at

(* The process is gone and pm2 starts it again; onModuleInit resumes a     *)
(* deployment that was running, before the first request is accepted.      *)
(* A project that is gone leaves the deployment as it is.                  *)
Boot ==
    /\ cancelled' = FALSE
    /\ restarting' = FALSE
    /\ UNCHANGED queued
    /\ \/ /\ Running
          /\ \E h \in Handlers :
               LET m == Enter([Idle EXCEPT !.dep = current, !.last = N,
                                           !.next = Following(current)], FALSE)
               IN  /\ handler' = [k \in Handlers |-> IF k = h THEN m ELSE Idle]
                   /\ current' = m.dep
          /\ history' = {}
       \/ /\ ~Running \/ Edits
          /\ handler' = [k \in Handlers |-> Idle]
          /\ history' = {IF Running THEN "abandoned" ELSE "stopped"}
          /\ UNCHANGED current

-----------------------------------------------------------------------------
(* Requests. Every one of them asks isRunning() or getState() first.       *)

Ask(h, pc, by) ==
    Become(h, [Idle EXCEPT !.pc = pc, !.by = by, !.seen = Running])

RequestStart(h) ==
    /\ At(h, "idle")
    /\ Ask(h, "start", "admin")
    /\ UNCHANGED <<current, queued, cancelled, restarting, history>>

RequestPropagation(h) ==
    /\ At(h, "idle")
    /\ \E i \in Steps : Pipeline[i].kind = "propagate"
    /\ Ask(h, "startPropagation", "admin")
    /\ UNCHANGED <<current, queued, cancelled, restarting, history>>

RequestWebhook(h) ==
    /\ At(h, "idle")
    /\ queued < MaxQueue
    /\ Ask(h, "webhook", "webhook")
    /\ UNCHANGED <<current, queued, cancelled, restarting, history>>

(* redeploy(): queue behind the deployment it saw, or start one. *)
Redeploy(h) ==
    /\ At(h, "webhook")
    /\ IF handler[h].seen
       THEN /\ queued' = queued + 1
            /\ Become(h, Idle)
            /\ Remember({c \in {"late"} : ~Running})
       ELSE Ask(h, "start", "webhook") /\ UNCHANGED <<queued, history>>
    /\ UNCHANGED <<current, cancelled, restarting>>

(* Mutant: isRunning() is asked, its answer is not looked at. *)
StartDeployment_Unchecked(h) ==
    /\ At(h, "start")
    /\ cancelled' = FALSE
    /\ Commit(h, [Idle EXCEPT !.pc = "flag", !.last = N,
                    !.dep = [kind |-> "deploy", status |-> "running", at |-> 1,
                             st |-> "pending", done |-> {}]])
    /\ UNCHANGED <<queued, restarting>>

StartDeployment(h) ==
    /\ At(h, "start")
    /\ ~handler[h].seen
    /\ cancelled' = FALSE
    /\ Commit(h, [Idle EXCEPT !.pc = "flag", !.last = N,
                    !.dep = [kind |-> "deploy", status |-> "running", at |-> 1,
                             st |-> "pending", done |-> {}]])
    /\ UNCHANGED <<queued, restarting>>

(* The first propagation step on its own, switched off or not. *)
StartPropagation(h) ==
    /\ At(h, "startPropagation")
    /\ ~handler[h].seen
    /\ cancelled' = FALSE
    /\ \E i \in Steps :
         /\ Pipeline[i].kind = "propagate"
         /\ \A j \in 1..(i-1) : Pipeline[j].kind # "propagate"
         /\ Commit(h, [Idle EXCEPT !.pc = "flag", !.next = i, !.last = i, !.force = TRUE,
                         !.dep = [kind |-> "propagate", status |-> "running", at |-> i,
                                  st |-> "pending", done |-> {}]])
    /\ UNCHANGED <<queued, restarting>>

(* startDeployment and startPropagation throw. The webhook is not waiting  *)
(* for the promise, and a rejection nobody handles ends the process; the   *)
(* queue logs it and the ticket is gone.                                   *)
StartRefused(h) ==
    /\ At(h, "start") \/ At(h, "startPropagation")
    /\ handler[h].seen \/ Edits
    /\ IF handler[h].by = "webhook"
       THEN Boot
       ELSE /\ Become(h, Idle)
            /\ Remember({c \in {"edited"} : HandsOver(h) /\ ~handler[h].seen})
            /\ UNCHANGED <<current, queued, cancelled, restarting>>

(* runDeployment once the feature flag is answered: refused without a      *)
(* hand-off to the queue, or the first step.                               *)
RunDeployment(h) ==
    /\ At(h, "flag")
    /\ \/ Proceed(h, handler[h], cancelled) /\ UNCHANGED history
       \/ /\ FlagOff
          /\ Become(h, Idle)
          /\ current' = [handler[h].dep EXCEPT !.status = "failed", !.st = "failed"]
          /\ Remember({"refused"})
    /\ UNCHANGED <<queued, cancelled, restarting>>

RequestRetry(h) ==
    /\ At(h, "idle")
    /\ current # None
    /\ current.status = "failed" /\ current.st = "failed"
    /\ Become(h, [Idle EXCEPT !.pc = "retry", !.dep = current])
    /\ UNCHANGED <<current, queued, cancelled, restarting, history>>

(* retryStep(step) with the copy it read: the step is not compared with    *)
(* the one that failed, and a name nobody knows stands for the last step.  *)
RetryStep(h) ==
    /\ At(h, "retry")
    /\ \E s \in IF RetryAny THEN Steps ELSE {handler[h].dep.at} :
         Commit(h, [handler[h] EXCEPT !.pc = "retried", !.next = s, !.last = N,
                      !.dep = [@ EXCEPT !.status = "running", !.at = s, !.st = "pending"]])
    /\ UNCHANGED <<queued, cancelled, restarting>>

RetryReset(h) ==
    /\ At(h, "retried")
    /\ cancelled' = FALSE
    /\ Become(h, [handler[h] EXCEPT !.pc = "resume"])
    /\ UNCHANGED <<current, queued, restarting, history>>

RetryRun(h) ==
    /\ At(h, "resume")
    /\ \/ Proceed(h, handler[h], cancelled) /\ UNCHANGED history
       \/ Edits /\ Become(h, Idle) /\ Remember({"abandoned"}) /\ UNCHANGED current
    /\ UNCHANGED <<queued, cancelled, restarting>>

RequestCancel(h) ==
    /\ At(h, "idle")
    /\ Cancels
    /\ Running
    /\ Become(h, [Idle EXCEPT !.pc = "cancel", !.dep = current])
    /\ UNCHANGED <<current, queued, cancelled, restarting, history>>

(* cancelDeployment writes the copy it read; the command of the run, if    *)
(* there is one, is killed and ends whenever it ends.                      *)
CancelDeployment(h) ==
    /\ At(h, "cancel")
    /\ cancelled' = TRUE
    /\ current' = [handler[h].dep EXCEPT !.status = "failed", !.st = "failed"]
    /\ Become(h, Idle)
    /\ Remember({"cancelled"})
    /\ UNCHANGED <<queued, restarting>>

-----------------------------------------------------------------------------
(* A run.                                                                  *)

NextStep(h) ==
    /\ At(h, "loop")
    /\ Proceed(h, handler[h], cancelled)
    /\ UNCHANGED <<queued, cancelled, restarting, history>>

(* Mutant: the queue is served before the failure is saved. *)
FailDeployment_Unsaved(h, m) == current' = m.dep /\ Become(h, HandOffOf(m))

(* failDeployment *)
FailDeployment(h, m) ==
    LET dep == [m.dep EXCEPT !.status = "failed"]
    IN  current' = dep /\ Become(h, HandOffOf([m EXCEPT !.dep = dep]))

(* runStep resolves: the command exited with code 0, or it was killed and  *)
(* there is no exit code. Either way the step has succeeded.               *)
StepResolves(h) == Save(h, [Pass(handler[h], "success") EXCEPT !.pc = "loop"])

(* Mutant: one attempt too many. *)
CommandEnds_OneMore(h) ==
    /\ At(h, "command")
    /\ \/ StepResolves(h)
       \/ /\ handler[h].attempt <= MaxAttempts
          /\ Become(h, [handler[h] EXCEPT !.pc = "delay", !.attempt = @ + 1])
          /\ UNCHANGED current
    /\ UNCHANGED <<queued, cancelled, restarting, history>>

(* Mutant: a step that succeeded is not saved. *)
CommandEnds_Unsaved(h) ==
    /\ At(h, "command")
    /\ Become(h, [Pass(handler[h], "success") EXCEPT !.pc = "loop"])
    /\ UNCHANGED <<current, queued, cancelled, restarting, history>>

(* Mutant: a command that exits with an error ends the step as well. *)
CommandEnds_AnyExit(h) ==
    /\ At(h, "command")
    /\ \/ StepResolves(h)
       \/ Save(h, [handler[h] EXCEPT !.pc = "loop"])
    /\ UNCHANGED <<queued, cancelled, restarting, history>>

(* One attempt ends: the step has succeeded, or it is tried again two      *)
(* seconds later, or the deployment fails.                                 *)
CommandEnds(h) ==
    /\ At(h, "command")
    /\ \/ StepResolves(h)
       \/ /\ handler[h].attempt < MaxAttempts
          /\ Become(h, [handler[h] EXCEPT !.pc = "delay", !.attempt = @ + 1])
          /\ UNCHANGED current
       \/ /\ handler[h].attempt = MaxAttempts
          /\ FailDeployment(h, Miss(handler[h]))
    /\ UNCHANGED <<queued, cancelled, restarting, history>>

(* Mutant: an attempt that was tried again does not count. *)
AttemptAgain_Reset(h) ==
    /\ At(h, "delay")
    /\ Save(h, [handler[h] EXCEPT !.pc = "command", !.attempt = 1])
    /\ UNCHANGED <<queued, cancelled, restarting, history>>

(* The two seconds are over. When cancelled, the loop over the attempts    *)
(* ends with the step still "running", and so does the one over the steps. *)
AttemptAgain(h) ==
    /\ At(h, "delay")
    /\ IF cancelled
       THEN Proceed(h, handler[h], TRUE)
       ELSE Save(h, [handler[h] EXCEPT !.pc = "command"])
    /\ UNCHANGED <<queued, cancelled, restarting, history>>

(* A replica reports: the state is saved again. *)
PropagateProgress(h) ==
    /\ At(h, "propagate")
    /\ Save(h, handler[h])
    /\ UNCHANGED <<queued, cancelled, restarting, history>>

PropagateEnds(h) ==
    /\ At(h, "propagate")
    /\ \/ Save(h, [Pass(handler[h], "success") EXCEPT !.pc = "loop"])
       \/ Save(h, [Miss(handler[h]) EXCEPT !.pc = "failing"])
    /\ UNCHANGED <<queued, cancelled, restarting, history>>

PropagateFails(h) ==
    /\ At(h, "failing")
    /\ FailDeployment(h, handler[h])
    /\ UNCHANGED <<queued, cancelled, restarting, history>>

(* A restart step counts as done before the command is spawned. *)
RestartSave(h) ==
    /\ At(h, "restart")
    /\ Save(h, [Pass(handler[h], "success") EXCEPT !.pc = "spawn"])
    /\ UNCHANGED <<queued, cancelled, restarting, history>>

(* The command is spawned detached and its outcome ignored: the restart    *)
(* comes, or it never does.                                                *)
RestartSpawn(h) ==
    /\ At(h, "spawn")
    /\ \/ restarting' = TRUE /\ UNCHANGED history
       \/ UNCHANGED restarting /\ Remember({"abandoned"})
    /\ Become(h, Idle)
    /\ UNCHANGED <<current, queued, cancelled>>

(* Mutant: a run that ended does not look at the queue. *)
ProcessQueue_Never(h) ==
    /\ At(h, "handoff")
    /\ Become(h, Idle)
    /\ UNCHANGED <<current, queued, cancelled, restarting, history>>

(* processQueue: lpop, then startDeployment for what it returned. *)
ProcessQueue(h) ==
    /\ At(h, "handoff")
    /\ IF queued = 0
       THEN Become(h, Idle) /\ UNCHANGED queued
       ELSE Become(h, [Idle EXCEPT !.pc = "popped", !.by = "queue"]) /\ queued' = queued - 1
    /\ UNCHANGED <<current, cancelled, restarting, history>>

StartPopped(h) ==
    /\ At(h, "popped")
    /\ Ask(h, "start", "queue")
    /\ UNCHANGED <<current, queued, cancelled, restarting, history>>

-----------------------------------------------------------------------------
(* The restart that was ordered, or a crash. *)
Restart == (restarting \/ Crashes) /\ Boot

(* deployment:current is kept for a day after it was last saved; nothing   *)
(* is in flight that long.                                                 *)
Expire ==
    /\ current # None
    /\ ~restarting
    /\ \A h \in Handlers : handler[h] = Idle
    /\ current' = None
    /\ UNCHANGED <<queued, cancelled, handler, restarting, history>>

Request(h) == \/ RequestStart(h) \/ RequestPropagation(h) \/ RequestWebhook(h)
              \/ RequestRetry(h) \/ RequestCancel(h)

Continue(h) ==
    \/ Redeploy(h) \/ StartDeployment(h) \/ StartPropagation(h) \/ StartRefused(h)
    \/ RetryStep(h) \/ RetryReset(h) \/ RetryRun(h) \/ CancelDeployment(h)
    \/ RunDeployment(h) \/ NextStep(h) \/ CommandEnds(h) \/ AttemptAgain(h)
    \/ PropagateEnds(h) \/ PropagateFails(h) \/ RestartSave(h) \/ RestartSpawn(h)
    \/ ProcessQueue(h) \/ StartPopped(h)

Next == \/ \E h \in Handlers : Request(h) \/ Continue(h) \/ PropagateProgress(h)
        \/ Restart
        \/ Expire

Spec == Init /\ [][Next]_vars

(* The event loop runs every continuation; the commands a pipeline runs    *)
(* exit (nothing in the code times them out), the restart that was ordered *)
(* happens. Requests, crashes and expiry owe nothing.                      *)
FairSpec == /\ Spec
            /\ \A h \in Handlers : SF_vars(Continue(h))
            /\ WF_vars(restarting /\ Restart)

-----------------------------------------------------------------------------
(* The state in Redis and the chains stay in their types; in particular no *)
(* command is tried more often than maxAttempts.                           *)
TypeOK ==
    /\ current \in Deployments \cup {None}
    /\ queued \in Nat
    /\ cancelled \in BOOLEAN
    /\ restarting \in BOOLEAN
    /\ history \subseteq Causes
    /\ handler \in [Handlers ->
            [pc : {"idle"} \cup Asking \cup InRun, by : {"admin", "webhook", "queue"},
             seen : BOOLEAN, dep : Deployments \cup {None}, next : 1..(N+1), last : 0..N,
             force : BOOLEAN, attempt : 1..MaxAttempts]]

(* Whatever is interleaved, cancelled, retried or killed: a deployment     *)
(* never enters a step before each step in front of it succeeded or is     *)
(* switched off, neither in the run nor in what a resume or a retry will   *)
(* read from Redis.                                                        *)
InOrder ==
    LET ordered(dep) == dep.kind = "deploy" => 1..(dep.at - 1) \subseteq dep.done
    IN  /\ \A h \in Handlers : Active(h) => ordered(handler[h].dep)
        /\ current # None => ordered(current)

OneRun ==
    \A h \in Handlers : Active(h) =>
        /\ ~restarting
        /\ \A k \in Handlers \ {h} : ~Active(k)

(* "Deployment already in progress": at most one run is active, and none   *)
(* while the process waits to be restarted, whatever requests, crashes,    *)
(* resumes, refusals and hand-offs are interleaved. What gives two runs is *)
(* a commit on a check that was outdated by then, or a cancellation, which *)
(* frees the state before the run has left.                                *)
SingleRun == history \cap {"outdated", "cancelled"} = {} => OneRun

(* The same without one of the two excuses: both do happen. *)
SingleRunThoughOutdated == "cancelled" \notin history => OneRun
SingleRunThoughCancelled == "outdated" \notin history => OneRun

(* What Redis holds is what the run holds, so that a crash resumes it at   *)
(* the step it was in, under the same excuses. And what Redis calls        *)
(* running is being run, or will be after the restart that was ordered:    *)
(* the lock does not outlive its owner, not even when runs overlap, unless *)
(* the deployment was cancelled (the run saves its own copy once more and  *)
(* leaves) or abandoned.                                                   *)
RunOwned ==
    /\ \A h \in Handlers : Active(h) /\ history \cap {"outdated", "cancelled"} = {}
         => current = handler[h].dep
    /\ Running /\ ~cancelled /\ "abandoned" \notin history
         => restarting \/ \E h \in Handlers : Active(h)

(* The lock of a deployment nobody runs, nor will, is not taken as held.   *)
RunOwnedThoughAbandoned ==
    Running /\ ~cancelled => restarting \/ \E h \in Handlers : Active(h)

(* A deployment that reports success has run every step of its pipeline    *)
(* that is not switched off; when it was cancelled in the delay before     *)
(* another attempt at the last step, all but that one, left as "running".  *)
SuccessMeansAll ==
    current # None /\ current.kind = "deploy" /\ current.status = "success"
        => current.done = Steps \/ (current.st = "running" /\ Steps \ {N} \subseteq current.done)

(* The same without the cancellation in that delay. *)
SuccessThoughCancelled ==
    current # None /\ current.kind = "deploy" /\ current.status = "success"
        => current.done = Steps

(* A ticket taken from the queue becomes the running deployment, it is not *)
(* dropped because another run is there: the run that hands over has left  *)
(* the state before it takes the ticket. What loses tickets is a start     *)
(* that gets in between, two runs, or a cancellation. (A crash and a       *)
(* project that is gone are another matter.)                               *)
TicketStarts ==
    [][\A h \in Handlers :
        HandsOver(h) /\ StartRefused(h) /\ handler[h].seen
            => history \cap {"outdated", "overtaken", "cancelled"} # {}]_vars

(* The same without the start that gets in between. *)
TicketStartsThoughOvertaken ==
    [][\A h \in Handlers :
        HandsOver(h) /\ StartRefused(h) /\ handler[h].seen
            => history \cap {"outdated", "cancelled"} # {}]_vars

Dies == ~restarting /\ Boot

(* Every deployment comes to an end, success or failure, whatever other    *)
(* requests and runs come and however often it is resumed, unless the      *)
(* process dies again and again, the deployment is cancelled (and saved    *)
(* once more as running by the run that leaves) or abandoned.              *)
RunEnds == \/ Running ~> ~Running \/ cancelled \/ "abandoned" \in history
           \/ []<><<Dies>>_vars

ServedUnless(causes) ==
    queued > 0 ~> queued = 0 \/ Running \/ history \cap causes # {}

(* While something is queued, a deployment is running or will be: the      *)
(* queue never waits for nobody. There are six ways to leave a ticket      *)
(* behind, until some later run ends: the webhook asked before the end of  *)
(* a run and queues after its hand-off; the run was cancelled, refused by  *)
(* the flag, or abandoned (until its state expires); the project of the    *)
(* ticket in front is gone; the process ends while no run is saved as      *)
(* running, between the end of one and its hand-off for instance.          *)
QueueServed ==
    ServedUnless({"late", "cancelled", "refused", "abandoned", "edited", "stopped"})

(* "Deployment queued", without the webhook that comes too late, and       *)
(* without the cancellation: both leave the ticket waiting.                *)
QueueServedThoughLate ==
    ServedUnless({"cancelled", "refused", "abandoned", "edited", "stopped"})
QueueServedThoughCancelled ==
    ServedUnless({"late", "refused", "abandoned", "edited", "stopped"})

(* cancelDeployment reports success with the deployment "failed": it stays *)
(* so until an administrator starts or retries one.                        *)
CancelSticks ==
    [][cancelled /\ current # None /\ current.status = "failed"
         /\ current' # None /\ current'.status # "failed"
       => ~cancelled' \/ \E h \in Handlers : RetryStep(h)]_vars

(* "Run the propagation step ON ITS OWN". *)
PropagationAlone ==
    \A h \in Handlers : Active(h) /\ handler[h].dep.kind = "propagate"
        => Pipeline[handler[h].dep.at].kind = "propagate"
=============================================================================
