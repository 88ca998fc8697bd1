------------------------- MODULE ReplicaPropagation -------------------------
(***************************************************************************)
(* "Propagate to Replicas": the master orders every connected replica to   *)
(* deploy itself and collects the outcome (ReplicaPropagationService and   *)
(* ReplicaLinkRegistry on the master; ReplicaLinkClient and                *)
(* ReplicaDeployRunner on a replica), over sockets that break, and with    *)
(* replicas whose last step restarts the process the socket belongs to.    *)
(*                                                                         *)
(* Orders that carry images go to the updater of a replica, a program of   *)
(* its own; this is the order a replica carries out itself. Frames about   *)
(* the single steps of a replica only change its log and its step list and *)
(* are left out: the frames here are acks and the last frame of a run.     *)
(***************************************************************************)
EXTENDS Integers, Sequences

CONSTANTS
    Replicas,
    Restarts,   \* replicas whose pipeline ends in a restart (not in a container)
    MaxConn,    \* bound: connections of one replica
    MaxRuns     \* bound: propagations

ASSUME ReplicaAssumption == Restarts \subseteq Replicas
ASSUME BoundAssumption == MaxConn \in Nat \ {0} /\ MaxRuns \in Nat \ {0}

Sockets == Replicas \X (1..MaxConn)     \* <<r, c>>: the c-th connection of r
Runs == 1..MaxRuns

VARIABLES
    pc,         \* where propagate() stands
    run,        \* the number of the propagation, for its run id
    order,      \* order[s]: the deployment order on the socket s
    early,      \* earlyFrames: frames that came before every ack was in
    rep,        \* rep[s]: status of the replica dispatched to on s
    waiting,    \* sockets whose promise in Promise.all is pending
    registry,   \* sockets in ReplicaLinkRegistry.replicas
    conn,       \* conn[r]: connections r has made so far
    link,       \* link[r]: is the last of them up?
    wire,       \* wire[r]: what r has sent, or buffers until it is connected
    inbox,      \* inbox[r]: orders on their way to r
    active,     \* active[r]: ReplicaDeployRunner.activeRunId (0: null)
    pending,    \* pending[r]: run whose restart was ordered and has not happened
    passed,     \* history: <<r, n>>: r went through its whole pipeline in run n
    reborn,     \* history: the process of r started anew since
    back        \* history: r reconnected after that restart

master == <<pc, run, order, early, rep, waiting>>
network == <<registry, conn, link, wire, inbox>>
runner == <<active, pending>>
history == <<passed, reborn, back>>
vars == <<master, network, runner, history>>

Terminal == {"success", "failed", "rejected", "unreachable", "timeout"}
Phases == {"ok", "failed", "restarting"}
Message == [kind : {"ack"}, run : Runs, what : {"accepted", "rejected"}]
             \cup [kind : {"finished"}, run : Runs, what : Phases]

Init ==
    /\ pc = "idle" /\ run = 0
    /\ order = [s \in Sockets |-> "none"]
    /\ early = {}
    /\ rep = [s \in Sockets |-> "none"]
    /\ waiting = {}
    /\ registry = {}
    /\ conn = [r \in Replicas |-> 0]
    /\ link = [r \in Replicas |-> FALSE]
    /\ wire = [r \in Replicas |-> <<>>]
    /\ inbox = [r \in Replicas |-> <<>>]
    /\ active = [r \in Replicas |-> 0]
    /\ pending = [r \in Replicas |-> 0]
    /\ passed = {} /\ reborn = {} /\ back = {}

Socket(r) == <<r, conn[r]>>

(* The last ack or the last outcome has come in: the continuation that     *)
(* waited for it runs before the next event is looked at.                  *)
Microtask == \/ pc = "dispatch" /\ \A s \in Sockets : order[s] # "sent"
             \/ pc = "watch" /\ waiting = {}

-----------------------------------------------------------------------------
(* The master.                                                             *)

(* Mutant: the phase of the frame is taken for the status. *)
Applied_Raw(status, phase) == IF status \in Terminal THEN status ELSE phase

(* What a finished frame makes of a status: settle and markRestarting      *)
(* leave a terminal one alone.                                             *)
Applied(status, phase) ==
    CASE status \in Terminal -> status
      [] status \notin Terminal /\ phase = "ok" -> "success"
      [] OTHER -> phase

(* settle(): ss reach the status f[s]; the promises of those that are      *)
(* settled now are resolved.                                               *)
Settle(ss, f) ==
    /\ rep' = [s \in Sockets |-> IF s \in ss THEN f[s] ELSE rep[s]]
    /\ waiting' = {s \in waiting :
                     s \in ss /\ rep[s] \notin Terminal => f[s] \notin Terminal}

Propagate ==
    /\ pc \in {"idle", "done"}
    /\ run < MaxRuns
    /\ pc' = "await"
    /\ run' = run + 1
    /\ order' = [s \in Sockets |-> "none"]
    /\ rep' = [s \in Sockets |-> "none"]
    /\ UNCHANGED <<early, waiting, network, runner, history>>

(* awaitReplicas resolves, by the settle timer or the hard one: nobody is  *)
(* there, or every connected replica is sent the order.                    *)
Dispatch ==
    /\ pc = "await"
    /\ pc' = IF registry = {} THEN "done" ELSE "dispatch"
    /\ order' = [s \in Sockets |-> IF s \in registry THEN "sent" ELSE "none"]
    /\ inbox' = [r \in Replicas |-> IF link[r] THEN Append(inbox[r], run) ELSE inbox[r]]
    /\ UNCHANGED <<run, early, rep, waiting, registry, conn, link, wire, runner, history>>

(* No answer to the order within dispatchTimeoutMs. *)
AckTimeout(s) ==
    /\ pc = "dispatch"
    /\ order[s] = "sent"
    /\ order' = [order EXCEPT ![s] = "unreachable"]
    /\ UNCHANGED <<pc, run, early, rep, waiting, network, runner, history>>

(* Mutant: no look at the status once the watcher is registered. *)
Dispatched_NoRecheck ==
    /\ pc = "dispatch"
    /\ \A s \in Sockets : order[s] # "sent"
    /\ LET status(s) == IF order[s] = "accepted" THEN "running" ELSE order[s]
           replay(s) == {f \in early : f[1] = s}
       IN  /\ rep' = [s \in Sockets |->
                        IF order[s] = "none" \/ replay(s) = {} THEN status(s)
                        ELSE Applied(status(s), (CHOOSE f \in replay(s) : TRUE)[2])]
           /\ pc' = IF \E s \in Sockets : order[s] = "accepted" THEN "watch" ELSE "done"
           /\ waiting' = {s \in Sockets : order[s] = "accepted"}
    /\ early' = {}
    /\ UNCHANGED <<run, order, network, runner, history>>

(* Every order is answered: the replicas are listed, the frames that came  *)
(* early are applied, and those that accepted and have not finished yet    *)
(* are waited for.                                                         *)
Dispatched ==
    /\ pc = "dispatch"
    /\ \A s \in Sockets : order[s] # "sent"
    /\ LET status(s) == IF order[s] = "accepted" THEN "running" ELSE order[s]
           replay(s) == {f \in early : f[1] = s}
       IN  /\ rep' = [s \in Sockets |->
                        IF order[s] = "none" \/ replay(s) = {} THEN status(s)
                        ELSE Applied(status(s), (CHOOSE f \in replay(s) : TRUE)[2])]
           /\ pc' = IF \E s \in Sockets : order[s] = "accepted" THEN "watch" ELSE "done"
           /\ waiting' = {s \in Sockets : order[s] = "accepted" /\ rep'[s] \notin Terminal}
    /\ early' = {}
    /\ UNCHANGED <<run, order, network, runner, history>>

(* Mutant: a replica that is settled already is settled again. *)
TakeFrame_Again(s, f) ==
    CASE f.run = run /\ pc = "dispatch" ->
            early' = early \cup {<<s, f.what>>} /\ UNCHANGED <<rep, waiting>>
      [] f.run = run /\ pc = "watch" /\ rep[s] # "none" ->
            Settle({s}, [x \in {s} |-> Applied("running", f.what)]) /\ UNCHANGED early
      [] OTHER -> UNCHANGED <<early, rep, waiting>>

(* deployProgress$: only frames of this run, from a socket the order went  *)
(* to; buffered while acks are missing.                                    *)
TakeFrame(s, f) ==
    CASE f.run = run /\ pc = "dispatch" ->
            early' = early \cup {<<s, f.what>>} /\ UNCHANGED <<rep, waiting>>
      [] f.run = run /\ pc = "watch" /\ rep[s] # "none" ->
            Settle({s}, [x \in {s} |-> Applied(rep[s], f.what)]) /\ UNCHANGED early
      [] OTHER -> UNCHANGED <<early, rep, waiting>>

(* The next message of r arrives on its socket; one from a socket that is  *)
(* not registered any more is dropped, an ack that comes late too.         *)
Deliver(r) ==
    LET s == Socket(r)
        m == Head(wire[r])
    IN  /\ ~Microtask
        /\ link[r]
        /\ wire[r] # <<>>
        /\ wire' = [wire EXCEPT ![r] = Tail(@)]
        /\ IF m.kind = "ack"
           THEN /\ order' = IF m.run = run /\ order[s] = "sent"
                            THEN [order EXCEPT ![s] = m.what] ELSE order
                /\ UNCHANGED <<early, rep, waiting>>
           ELSE TakeFrame(s, m) /\ UNCHANGED order
        /\ UNCHANGED <<pc, run, registry, conn, link, inbox, runner, history>>

(* The pipeline timeout, or the grace period after a restart. *)
Timeout(s) ==
    /\ pc = "watch"
    /\ s \in waiting
    /\ Settle({s}, [x \in {s} |->
            CASE rep[s] \in Terminal -> rep[s]
              [] rep[s] = "restarting" -> "failed"
              [] OTHER -> "timeout"])
    /\ UNCHANGED <<pc, run, order, early, network, runner, history>>

(* Mutant: the first replica to finish ends the wait. *)
Finish_First ==
    /\ pc = "watch"
    /\ \E s \in Sockets : order[s] = "accepted" /\ s \notin waiting
    /\ pc' = "done"
    /\ UNCHANGED <<run, order, early, rep, waiting, network, runner, history>>

Finish ==
    /\ pc = "watch"
    /\ waiting = {}
    /\ pc' = "done"
    /\ UNCHANGED <<run, order, early, rep, waiting, network, runner, history>>

-----------------------------------------------------------------------------
(* The link.                                                               *)

(* Mutant: a reconnection confirms every replica that is not settled. *)
Waited_Running(r) == {x \in Sockets : x[1] = r /\ rep[x] \in {"running", "restarting"}}

(* replicaOnline$: who is confirmed by a connection of the host r. *)
Waited(r) == {x \in Sockets : x[1] = r /\ rep[x] = "restarting"}

(* handleConnection: the socket is registered and replicaOnline$ confirms  *)
(* the replicas of this host that were restarting. What the client         *)
(* buffered is sent on the new socket.                                     *)
Connect(r) ==
    LET s == <<r, conn[r] + 1>>
    IN  /\ ~Microtask
        /\ ~link[r]
        /\ conn[r] < MaxConn
        /\ conn' = [conn EXCEPT ![r] = @ + 1]
        /\ link' = [link EXCEPT ![r] = TRUE]
        /\ registry' = registry \cup {s}
        /\ IF pc = "watch"
           THEN Settle(Waited(r), [x \in Waited(r) |-> "success"])
           ELSE UNCHANGED <<rep, waiting>>
        /\ back' = back \cup {b \in reborn : b[1] = r}
        /\ UNCHANGED <<pc, run, order, early, wire, inbox, runner, passed, reborn>>

(* The connection breaks: what is on the wire is lost, and the master does *)
(* not know yet.                                                           *)
LinkLost(r) ==
    /\ link[r]
    /\ link' = [link EXCEPT ![r] = FALSE]
    /\ wire' = [wire EXCEPT ![r] = <<>>]
    /\ inbox' = [inbox EXCEPT ![r] = <<>>]
    /\ UNCHANGED <<master, registry, conn, runner, history>>

(* handleDisconnect *)
Unregister(s) ==
    /\ ~Microtask
    /\ s \in registry
    /\ ~(link[s[1]] /\ s = Socket(s[1]))
    /\ registry' = registry \ {s}
    /\ UNCHANGED <<master, conn, link, wire, inbox, runner, history>>

-----------------------------------------------------------------------------
(* A replica.                                                              *)

Send(r, kind, what, n) ==
    wire' = [wire EXCEPT ![r] = Append(@, [kind |-> kind, run |-> n, what |-> what])]

(* accept(): refused while a run is active or when the preflight fails. *)
Accept(r) ==
    /\ inbox[r] # <<>>
    /\ inbox' = [inbox EXCEPT ![r] = Tail(@)]
    /\ \/ /\ active[r] = 0
          /\ active' = [active EXCEPT ![r] = Head(inbox[r])]
          /\ Send(r, "ack", "accepted", Head(inbox[r]))
       \/ /\ Send(r, "ack", "rejected", Head(inbox[r]))
          /\ UNCHANGED active
    /\ UNCHANGED <<master, registry, conn, link, pending, history>>

(* A command of the pipeline fails. *)
RunFails(r) ==
    /\ active[r] # 0
    /\ Send(r, "finished", "failed", active[r])
    /\ active' = [active EXCEPT ![r] = 0]
    /\ UNCHANGED <<master, registry, conn, link, inbox, pending, history>>

(* The last step is reached. A restart is reported before it is ordered,   *)
(* 750 ms later; activeRunId is cleared at once.                           *)
RunPasses(r) ==
    /\ active[r] # 0
    /\ IF r \in Restarts
       THEN /\ Send(r, "finished", "restarting", active[r])
            /\ pending' = [pending EXCEPT ![r] = active[r]]
       ELSE /\ Send(r, "finished", "ok", active[r])
            /\ UNCHANGED pending
    /\ active' = [active EXCEPT ![r] = 0]
    /\ passed' = passed \cup {<<r, active[r]>>}
    /\ UNCHANGED <<master, registry, conn, link, inbox, reborn, back>>

(* The restart that was ordered happens, or the process crashes: it is     *)
(* gone with its socket and all it had in memory.                          *)
Restart(r) ==
    /\ link' = [link EXCEPT ![r] = FALSE]
    /\ wire' = [wire EXCEPT ![r] = <<>>]
    /\ inbox' = [inbox EXCEPT ![r] = <<>>]
    /\ active' = [active EXCEPT ![r] = 0]
    /\ pending' = [pending EXCEPT ![r] = 0]
    /\ reborn' = reborn \cup {b \in passed : b[1] = r}
    /\ UNCHANGED <<master, registry, conn, passed, back>>

(* The restart command fails; its exit code is not looked at. *)
RestartFails(r) ==
    /\ pending[r] # 0
    /\ pending' = [pending EXCEPT ![r] = 0]
    /\ UNCHANGED <<master, network, active, history>>

-----------------------------------------------------------------------------
Master == \/ Propagate \/ Dispatch \/ Dispatched \/ Finish
          \/ \E s \in Sockets : AckTimeout(s) \/ Timeout(s)

Network == \/ \E r \in Replicas : Deliver(r) \/ Connect(r) \/ LinkLost(r)
           \/ \E s \in Sockets : Unregister(s)

Runner == \E r \in Replicas : \/ Accept(r) \/ RunFails(r) \/ RunPasses(r)
                              \/ Restart(r) \/ RestartFails(r)

Next == Master \/ Network \/ Runner

Spec == Init /\ [][Next]_vars

(* Every wait of the master has a timer, and its continuations run. The    *)
(* network and the replicas owe nothing.                                   *)
FairSpec ==
    /\ Spec
    /\ WF_vars(Dispatch) /\ WF_vars(Dispatched) /\ WF_vars(Finish)
    /\ \A s \in Sockets : WF_vars(AckTimeout(s)) /\ WF_vars(Timeout(s))

-----------------------------------------------------------------------------
(* Statuses, orders, frames and the registry stay in their types; a replica *)
(* is never given a status that propagate() does not know.                  *)
TypeOK ==
    /\ pc \in {"idle", "await", "dispatch", "watch", "done"}
    /\ run \in 0..MaxRuns
    /\ order \in [Sockets -> {"none", "sent", "accepted", "rejected", "unreachable"}]
    /\ early \subseteq Sockets \X Phases
    /\ rep \in [Sockets -> {"none", "running", "restarting"} \cup Terminal]
    /\ waiting \subseteq Sockets
    /\ registry \subseteq Sockets
    /\ conn \in [Replicas -> 0..MaxConn]
    /\ link \in [Replicas -> BOOLEAN]
    /\ wire \in [Replicas -> Seq(Message)]
    /\ inbox \in [Replicas -> Seq(Runs)]
    /\ active \in [Replicas -> 0..MaxRuns]
    /\ pending \in [Replicas -> 0..MaxRuns]
    /\ passed \cup reborn \cup back \subseteq Replicas \X Runs

(* A replica is only reported as deployed when it went through its whole   *)
(* pipeline for this very order: no frame of an earlier propagation, late  *)
(* answer or reconnection makes a success of anything else.                *)
SuccessEarned ==
    \A s \in Sockets : rep[s] = "success" => <<s[1], run>> \in passed

(* propagate() "resolves once every replica has reached a terminal status  *)
(* (or timed out)": a replica it still waits for is not terminal, and when *)
(* it is done nobody is left out.                                          *)
DoneMeansSettled ==
    /\ pc = "watch" => waiting = {s \in Sockets : rep[s] \in {"running", "restarting"}}
    /\ pc = "done" => \A s \in Sockets : rep[s] \in Terminal \cup {"none"}

(* A status that is terminal stays for the rest of the propagation, though *)
(* frames, timers and reconnections go on coming.                          *)
SettledOnce ==
    [][\A s \in Sockets : rep[s] \in Terminal /\ run' = run => rep'[s] = rep[s]]_vars

(* propagate() always comes to its end, whatever the replicas do.          *)
PropagationEnds == pc \in {"await", "dispatch", "watch"} ~> pc = "done"

(* "a replica that reports `restarting' is only marked successful once it  *)
(* reconnects, which doubles as a health check": it was restarted, or is   *)
(* about to be.                                                            *)
RestartConfirmed ==
    \A s \in Sockets : rep[s] = "success" /\ s[1] \in Restarts
        => <<s[1], run>> \in reborn \/ pending[s[1]] = run

(* "Subscribed up front so a fast restart can't slip through": nobody who  *)
(* restarted and reconnected fails for not having reconnected.             *)
FastRestartSeen ==
    [][\A s \in Sockets : rep[s] = "restarting" /\ rep'[s] = "failed"
            => <<s[1], run>> \notin back]_vars

(* "Non-null while a deployment is in flight - one at a time": no run is   *)
(* accepted while the restart that ends the last one is still to come.     *)
OneAtATime == \A r \in Replicas : ~(active[r] # 0 /\ pending[r] # 0)
=============================================================================
