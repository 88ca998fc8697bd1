---------------------- MODULE ReplicaPropagationProofs ----------------------
(***************************************************************************)
(* What "Propagate to Replicas" guarantees for any number of replicas,     *)
(* connections and propagations: types, that nobody is reported deployed   *)
(* who did not go through the pipeline of this order (SuccessEarned), that *)
(* the end of the propagation leaves nobody open (DoneMeansSettled), and   *)
(* that no status is changed once it is terminal (SettledOnce).            *)
(***************************************************************************)
EXTENDS ReplicaPropagation, SequenceTheorems, TLAPS

(* What the variables of propagate() hold at each of its awaits, and that  *)
(* a link that is up is some connection.                                   *)
Stages ==
    /\ pc # "idle" => run \in Runs
    /\ pc # "dispatch" => early = {}
    /\ pc # "watch" => waiting = {}
    /\ pc \notin {"watch", "done"} => \A s \in Sockets : rep[s] = "none"
    /\ \A r \in Replicas : link[r] => conn[r] # 0

(* A frame that says the pipeline went through is only ever on the wire of *)
(* a replica that has been through it.                                     *)
WireEarned ==
    \A r \in Replicas : \A i \in 1..Len(wire[r]) :
        wire[r][i].kind = "finished" /\ wire[r][i].what # "failed"
            => <<r, wire[r][i].run>> \in passed

(* The frames kept back until the last ack are such frames, of this run.   *)
EarlyEarned == \A f \in early : f[2] # "failed" => <<f[1][1], run>> \in passed

(* A replica that is restarting went through its pipeline too: the         *)
(* reconnection makes it a success.                                        *)
StatusEarned ==
    \A s \in Sockets : rep[s] \in {"success", "restarting"} => <<s[1], run>> \in passed

IInv == TypeOK /\ Stages /\ WireEarned /\ EarlyEarned /\ StatusEarned /\ DoneMeansSettled

-----------------------------------------------------------------------------
(* Facts about the operators of the model.                                 *)

(* A socket is a replica and a number, and a link that is up is a socket.  *)
LEMMA SocketFacts ==
    /\ \A s \in Sockets : s[1] \in Replicas
    /\ \A r \in Replicas, c \in 1..MaxConn : <<r, c>> \in Sockets /\ <<r, c>>[1] = r
BY DEF Sockets

(* The socket of a replica whose link is up is a socket of that replica.   *)
LEMMA LinkSocket ==
    ASSUME TypeOK, Stages, NEW r \in Replicas, link[r]
    PROVE  Socket(r) \in Sockets /\ Socket(r)[1] = r
<1>1. conn[r] \in 0..MaxConn /\ conn[r] # 0
  BY DEF TypeOK, Stages
<1>2. conn[r] \in 1..MaxConn
  BY <1>1, BoundAssumption
<1> QED BY <1>2, SocketFacts DEF Socket

(* A frame turns a status that is not terminal into one that propagate()   *)
(* knows, and leaves a terminal one alone.                                 *)
LEMMA AppliedFacts ==
    ASSUME NEW status, NEW phase \in Phases
    PROVE  /\ status \in Terminal => Applied(status, phase) = status
           /\ status \notin Terminal =>
                /\ Applied(status, phase) \in {"success", "failed", "restarting"}
                /\ phase = "failed" => Applied(status, phase) = "failed"
BY DEF Applied, Phases, Terminal

(* The head of a wire is a message, and what remains is part of the wire.  *)
LEMMA WireFacts ==
    ASSUME NEW S, NEW q \in Seq(S), q # <<>>
    PROVE  /\ Head(q) \in S /\ Head(q) = q[1] /\ 1 \in 1..Len(q)
           /\ Tail(q) \in Seq(S)
           /\ \A i \in 1..Len(Tail(q)) : i + 1 \in 1..Len(q) /\ Tail(q)[i] = q[i + 1]
BY HeadTailProperties, EmptySeq, LenProperties

(* Every kind of message is a Message. *)
LEMMA MessageType ==
    ASSUME NEW n \in Runs
    PROVE  /\ \A w \in {"accepted", "rejected"} : [kind |-> "ack", run |-> n, what |-> w] \in Message
           /\ \A w \in Phases : [kind |-> "finished", run |-> n, what |-> w] \in Message
BY DEF Message

(* What a message carries. *)
LEMMA MessageFacts ==
    ASSUME NEW m \in Message
    PROVE  /\ m.run \in Runs
           /\ m.kind = "ack" => m.what \in {"accepted", "rejected"}
           /\ m.kind # "ack" => m.kind = "finished" /\ m.what \in Phases
BY DEF Message

(* A run number that is not null is a run. *)
LEMMA RunFacts == Runs \subseteq 0..MaxRuns /\ \A n \in 0..MaxRuns : n # 0 => n \in Runs
BY BoundAssumption DEF Runs

(* settle(), for whatever reason it is called: given statuses that the     *)
(* replicas may have now, it leaves exactly the open ones waited for and   *)
(* no terminal one changed.                                                *)
LEMMA SettleFacts ==
    ASSUME NEW ss \in SUBSET Sockets, NEW f, Settle(ss, f),
           TypeOK, StatusEarned, DoneMeansSettled, pc = "watch",
           \A s \in ss : /\ f[s] \in {"running", "restarting"} \cup Terminal
                         /\ rep[s] # "none"
                         /\ rep[s] \in Terminal => f[s] = rep[s]
                         /\ f[s] \in {"success", "restarting"} => <<s[1], run>> \in passed
    PROVE  /\ rep' \in [Sockets -> {"none", "running", "restarting"} \cup Terminal]
           /\ waiting' = {s \in Sockets : rep'[s] \in {"running", "restarting"}}
           /\ \A s \in Sockets : rep[s] \in Terminal => rep'[s] = rep[s]
           /\ \A s \in Sockets : rep'[s] \in {"success", "restarting"} => <<s[1], run>> \in passed
<1>1. /\ rep' = [s \in Sockets |-> IF s \in ss THEN f[s] ELSE rep[s]]
      /\ waiting' = {s \in waiting : s \in ss /\ rep[s] \notin Terminal => f[s] \notin Terminal}
  BY DEF Settle
<1>2. waiting = {s \in Sockets : rep[s] \in {"running", "restarting"}}
  BY DEF DoneMeansSettled
<1>3. rep \in [Sockets -> {"none", "running", "restarting"} \cup Terminal]
  BY DEF TypeOK
<1>4. rep' \in [Sockets -> {"none", "running", "restarting"} \cup Terminal]
  BY <1>1, <1>3
<1>5. \A s \in Sockets : rep[s] \in Terminal => rep'[s] = rep[s]
  BY <1>1
<1>6. \A s \in Sockets : rep'[s] \in {"success", "restarting"} => <<s[1], run>> \in passed
  BY <1>1 DEF StatusEarned
<1>7. \A s \in Sockets : s \in waiting' <=> rep'[s] \in {"running", "restarting"}
  <2> TAKE s \in Sockets
  <2>1. CASE s \in ss
    BY <1>1, <1>2, <1>3, <2>1 DEF Terminal
  <2>2. CASE s \notin ss
    BY <1>1, <1>2, <2>2
  <2> QED BY <2>1, <2>2
<1>8. waiting' \subseteq Sockets
  BY <1>1, <1>2
<1> QED BY <1>4, <1>5, <1>6, <1>7, <1>8

(* A message appended to the wire of r keeps it a wire, and what it claims *)
(* is earned if the new message is.                                        *)
LEMMA SendFacts ==
    ASSUME TypeOK, WireEarned, NEW r \in Replicas, NEW m \in Message,
           wire' = [wire EXCEPT ![r] = Append(@, m)], passed \subseteq passed',
           m.kind = "finished" /\ m.what # "failed" => <<r, m.run>> \in passed'
    PROVE  wire' \in [Replicas -> Seq(Message)] /\ WireEarned'
<1>1. wire[r] \in Seq(Message)
  BY DEF TypeOK
<1>2. /\ Append(wire[r], m) \in Seq(Message)
      /\ Len(Append(wire[r], m)) = Len(wire[r]) + 1
      /\ \A i \in 1..Len(wire[r]) : Append(wire[r], m)[i] = wire[r][i]
      /\ Append(wire[r], m)[Len(wire[r]) + 1] = m
  BY <1>1, AppendProperties
<1>3. wire' \in [Replicas -> Seq(Message)]
  BY <1>2 DEF TypeOK
<1>4. ASSUME NEW q \in Replicas, NEW i \in 1..Len(wire'[q]),
             wire'[q][i].kind = "finished", wire'[q][i].what # "failed"
      PROVE  <<q, wire'[q][i].run>> \in passed'
  <2>1. CASE q = r
    <3>1. wire'[r] = Append(wire[r], m)
      BY DEF TypeOK
    <3>2. Len(wire[r]) \in Nat
      BY <1>1, LenProperties
    <3>3. CASE i \in 1..Len(wire[r])
      BY <1>2, <1>4, <2>1, <3>1, <3>3 DEF WireEarned
    <3>4. CASE i = Len(wire[r]) + 1
      BY <1>2, <1>4, <2>1, <3>1, <3>4
    <3>5. i \in 1..(Len(wire[r]) + 1)
      BY <1>2, <2>1, <3>1
    <3> QED BY <3>2, <3>3, <3>4, <3>5
  <2>2. CASE q # r
    BY <1>4, <2>2 DEF TypeOK, WireEarned
  <2> QED BY <2>1, <2>2
<1> QED BY <1>3, <1>4 DEF WireEarned

(* A wire that is cut, or whose head is taken off, claims nothing new.     *)
LEMMA TakeFacts ==
    ASSUME TypeOK, WireEarned, NEW r \in Replicas, passed' = passed,
           \/ wire' = [wire EXCEPT ![r] = <<>>]
           \/ wire[r] # <<>> /\ wire' = [wire EXCEPT ![r] = Tail(@)]
    PROVE  wire' \in [Replicas -> Seq(Message)] /\ WireEarned'
<1>1. wire \in [Replicas -> Seq(Message)] /\ wire[r] \in Seq(Message)
  BY DEF TypeOK
<1>2. CASE wire' = [wire EXCEPT ![r] = <<>>]
  BY <1>1, <1>2, EmptySeq DEF WireEarned
<1>3. CASE wire[r] # <<>> /\ wire' = [wire EXCEPT ![r] = Tail(@)]
  <2>1. /\ Tail(wire[r]) \in Seq(Message)
        /\ \A i \in 1..Len(Tail(wire[r])) :
             i + 1 \in 1..Len(wire[r]) /\ Tail(wire[r])[i] = wire[r][i + 1]
    BY <1>1, <1>3, WireFacts
  <2>2. wire' \in [Replicas -> Seq(Message)]
    BY <1>1, <1>3, <2>1
  <2>3. ASSUME NEW q \in Replicas, NEW i \in 1..Len(wire'[q]),
               wire'[q][i].kind = "finished", wire'[q][i].what # "failed"
        PROVE  <<q, wire'[q][i].run>> \in passed'
    BY <1>1, <1>3, <2>1, <2>3 DEF WireEarned
  <2> QED BY <2>2, <2>3 DEF WireEarned
<1> QED BY <1>2, <1>3
-----------------------------------------------------------------------------
(* The steps of the master.                                                *)

(* A new propagation starts from clean statuses and nothing kept back.     *)
LEMMA PropagateStep == IInv /\ Propagate => IInv'
<1> SUFFICES ASSUME IInv, Propagate PROVE IInv'
  OBVIOUS
<1>1. /\ pc \in {"idle", "done"} /\ pc' = "await" /\ run < MaxRuns /\ run' = run + 1
      /\ order' = [s \in Sockets |-> "none"] /\ rep' = [s \in Sockets |-> "none"]
      /\ UNCHANGED <<early, waiting, registry, conn, link, wire, inbox, active, pending,
                     passed, reborn, back>>
  BY DEF Propagate, network, runner, history
<1>2. run' \in 0..MaxRuns /\ run' \in Runs
  BY <1>1, BoundAssumption DEF IInv, TypeOK, Runs
<1>3. early = {} /\ waiting = {}
  BY <1>1 DEF IInv, Stages
<1>4. TypeOK'
  BY <1>1, <1>2, <1>3 DEF IInv, TypeOK
<1>5. Stages'
  BY <1>1, <1>2, <1>3 DEF IInv, Stages
<1>6. WireEarned'
  BY <1>1 DEF IInv, WireEarned
<1>7. EarlyEarned' /\ StatusEarned' /\ DoneMeansSettled'
  BY <1>1, <1>3 DEF EarlyEarned, StatusEarned, DoneMeansSettled
<1> QED BY <1>4, <1>5, <1>6, <1>7 DEF IInv

(* The order goes to every link that is up; an empty registry ends it.     *)
LEMMA DispatchStep == IInv /\ Dispatch => IInv'
<1> SUFFICES ASSUME IInv, Dispatch PROVE IInv'
  OBVIOUS
<1>1. /\ pc = "await" /\ pc' \in {"done", "dispatch"}
      /\ order' = [s \in Sockets |-> IF s \in registry THEN "sent" ELSE "none"]
      /\ inbox' = [r \in Replicas |-> IF link[r] THEN Append(inbox[r], run) ELSE inbox[r]]
      /\ UNCHANGED <<run, early, rep, waiting, registry, conn, link, wire, active, pending,
                     passed, reborn, back>>
  BY DEF Dispatch, runner, history
<1>2. run \in Runs /\ early = {} /\ waiting = {} /\ \A s \in Sockets : rep[s] = "none"
  BY <1>1 DEF IInv, Stages
<1>3. inbox' \in [Replicas -> Seq(Runs)]
  <2>1. \A r \in Replicas : inbox[r] \in Seq(Runs) /\ Append(inbox[r], run) \in Seq(Runs)
    BY <1>2, AppendProperties DEF IInv, TypeOK
  <2> QED BY <1>1, <2>1
<1>4. TypeOK'
  BY <1>1, <1>3 DEF IInv, TypeOK
<1>5. Stages'
  BY <1>1, <1>2 DEF IInv, Stages
<1>6. WireEarned' /\ EarlyEarned' /\ StatusEarned'
  BY <1>1 DEF IInv, WireEarned, EarlyEarned, StatusEarned
<1>7. DoneMeansSettled'
  BY <1>1, <1>2 DEF DoneMeansSettled
<1> QED BY <1>4, <1>5, <1>6, <1>7 DEF IInv

(* What the end of the dispatch makes of each replica: the answer to its   *)
(* order, and the frame that came before it.                               *)
LEMMA DispatchedStatus ==
    ASSUME IInv, Dispatched, NEW s \in Sockets
    PROVE  /\ order[s] = "none" => rep'[s] = "none"
           /\ order[s] \in {"rejected", "unreachable"} => rep'[s] = order[s]
           /\ order[s] = "accepted" =>
                /\ rep'[s] \in {"running", "restarting", "success", "failed"}
                /\ rep'[s] \in {"success", "restarting"} => <<s[1], run>> \in passed
<1> DEFINE status == IF order[s] = "accepted" THEN "running" ELSE order[s]
           replay == {f \in early : f[1] = s}
           frame == CHOOSE f \in replay : TRUE
<1>1. rep'[s] = IF order[s] = "none" \/ replay = {} THEN status ELSE Applied(status, frame[2])
  BY DEF Dispatched
<1>2. CASE order[s] = "none" \/ replay = {}
  BY <1>1, <1>2
<1>3. CASE order[s] # "none" /\ replay # {}
  <2>1. frame \in replay
    BY <1>3
  <2>2. frame[2] \in Phases /\ (frame[2] # "failed" => <<s[1], run>> \in passed)
    BY <2>1 DEF IInv, TypeOK, EarlyEarned
  <2>3. rep'[s] = Applied(status, frame[2])
    BY <1>1, <1>3
  <2> HIDE DEF frame, replay
  <2>4. CASE order[s] = "accepted"
    <3>1. status = "running" /\ status \notin Terminal
      BY <2>4 DEF Terminal
    <3>2. rep'[s] \in {"success", "failed", "restarting"}
      BY <2>2, <2>3, <3>1, AppliedFacts
    <3>3. frame[2] = "failed" => rep'[s] = "failed"
      BY <2>2, <2>3, <3>1, AppliedFacts
    <3> QED BY <2>2, <2>4, <3>2, <3>3
  <2>5. CASE order[s] \in {"rejected", "unreachable"}
    <3>1. status = order[s] /\ status \in Terminal
      BY <2>5 DEF Terminal
    <3>2. rep'[s] = order[s]
      BY <2>2, <2>3, <3>1, AppliedFacts
    <3> QED BY <2>5, <3>2
  <2>6. order[s] \in {"none", "sent", "accepted", "rejected", "unreachable"} /\ order[s] # "sent"
    BY DEF IInv, TypeOK, Dispatched
  <2> QED BY <1>3, <2>4, <2>5, <2>6
<1> QED BY <1>2, <1>3

(* Whoever accepted and has not finished is waited for; if nobody did, the *)
(* propagation is over with everybody settled.                             *)
LEMMA DispatchedStep == IInv /\ Dispatched => IInv'
<1> SUFFICES ASSUME IInv, Dispatched PROVE IInv'
  OBVIOUS
<1>1. /\ pc = "dispatch"
      /\ pc' = IF \E s \in Sockets : order[s] = "accepted" THEN "watch" ELSE "done"
      /\ waiting' = {s \in Sockets : order[s] = "accepted" /\ rep'[s] \notin Terminal}
      /\ early' = {}
      /\ UNCHANGED <<run, order, registry, conn, link, wire, inbox, active, pending,
                     passed, reborn, back>>
  BY DEF Dispatched, network, runner, history
<1>2. \A s \in Sockets : order[s] \in {"none", "accepted", "rejected", "unreachable"}
  BY DEF IInv, TypeOK, Dispatched
<1>3. \A s \in Sockets : rep'[s] \in {"none", "running", "restarting"} \cup Terminal
  BY <1>2, DispatchedStatus DEF Terminal
<1>4. rep' \in [Sockets -> {"none", "running", "restarting"} \cup Terminal]
  <2>1. rep' = [s \in Sockets |-> rep'[s]]
    BY DEF Dispatched
  <2> QED BY <1>3, <2>1
<1>5. run \in Runs
  BY <1>1 DEF IInv, Stages
<1>6. TypeOK'
  BY <1>1, <1>4 DEF IInv, TypeOK
<1>7. Stages'
  BY <1>1, <1>5 DEF IInv, Stages
<1>8. WireEarned' /\ EarlyEarned'
  BY <1>1 DEF IInv, WireEarned, EarlyEarned
<1>9. StatusEarned'
  BY <1>1, <1>2, DispatchedStatus DEF StatusEarned
<1>10. DoneMeansSettled'
  <2>1. \A s \in Sockets : order[s] # "accepted" => rep'[s] \in Terminal \cup {"none"}
    BY <1>2, DispatchedStatus DEF Terminal
  <2>2. \A s \in Sockets : order[s] = "accepted" =>
            rep'[s] \in {"running", "restarting", "success", "failed"}
    BY DispatchedStatus
  <2>3. \A s \in Sockets : s \in waiting' <=> rep'[s] \in {"running", "restarting"}
    BY <1>1, <2>1, <2>2 DEF Terminal
  <2>4. waiting' = {s \in Sockets : rep'[s] \in {"running", "restarting"}}
    BY <1>1, <2>3
  <2> QED BY <1>1, <2>1, <2>4 DEF DoneMeansSettled
<1> QED BY <1>6, <1>7, <1>8, <1>9, <1>10 DEF IInv

(* The timers: an order nobody answered, a pipeline that takes too long, a *)
(* replica that does not come back.                                        *)
LEMMA TimerStep == IInv /\ (\E s \in Sockets : AckTimeout(s) \/ Timeout(s)) => IInv'
<1> SUFFICES ASSUME IInv, NEW s \in Sockets, AckTimeout(s) \/ Timeout(s) PROVE IInv'
  OBVIOUS
<1>1. CASE AckTimeout(s)
  BY <1>1 DEF AckTimeout, network, runner, history, IInv, TypeOK, Stages, WireEarned,
              EarlyEarned, StatusEarned, DoneMeansSettled
<1>2. CASE Timeout(s)
  <2> DEFINE f == [x \in {s} |-> CASE rep[s] \in Terminal -> rep[s]
                                   [] rep[s] = "restarting" -> "failed"
                                   [] OTHER -> "timeout"]
  <2>1. /\ pc = "watch" /\ s \in waiting /\ Settle({s}, f)
        /\ UNCHANGED <<pc, run, order, early, registry, conn, link, wire, inbox, active,
                       pending, passed, reborn, back>>
    BY <1>2 DEF Timeout, network, runner, history
  <2>2. rep[s] \in {"running", "restarting"}
    BY <2>1 DEF IInv, DoneMeansSettled
  <2>3. f[s] \in {"failed", "timeout"}
    <3>1. CASE rep[s] = "restarting"
      BY <3>1 DEF Terminal
    <3>2. CASE rep[s] = "running"
      BY <3>2 DEF Terminal
    <3> QED BY <2>2, <3>1, <3>2
  <2> HIDE DEF f
  <2>4. /\ rep' \in [Sockets -> {"none", "running", "restarting"} \cup Terminal]
        /\ waiting' = {x \in Sockets : rep'[x] \in {"running", "restarting"}}
        /\ \A x \in Sockets : rep'[x] \in {"success", "restarting"} => <<x[1], run>> \in passed
    <3>1. \A x \in {s} : /\ f[x] \in {"running", "restarting"} \cup Terminal
                         /\ rep[x] # "none"
                         /\ rep[x] \in Terminal => f[x] = rep[x]
                         /\ f[x] \in {"success", "restarting"} => <<x[1], run>> \in passed
      BY <2>2, <2>3 DEF Terminal
    <3> QED BY <2>1, <3>1, SettleFacts DEF IInv
  <2>5. TypeOK'
    BY <2>1, <2>4 DEF IInv, TypeOK
  <2>6. Stages' /\ WireEarned' /\ EarlyEarned'
    BY <2>1 DEF IInv, Stages, WireEarned, EarlyEarned
  <2>7. StatusEarned' /\ DoneMeansSettled'
    BY <2>1, <2>4 DEF StatusEarned, DoneMeansSettled
  <2> QED BY <2>5, <2>6, <2>7 DEF IInv
<1> QED BY <1>1, <1>2

(* The last promise is resolved: nobody is left open. *)
LEMMA FinishStep == IInv /\ Finish => IInv'
<1> SUFFICES ASSUME IInv, Finish PROVE IInv'
  OBVIOUS
<1>1. /\ pc = "watch" /\ waiting = {} /\ pc' = "done"
      /\ UNCHANGED <<run, order, early, rep, waiting, registry, conn, link, wire, inbox,
                     active, pending, passed, reborn, back>>
  BY DEF Finish, network, runner, history
<1>2. TypeOK' /\ Stages'
  BY <1>1 DEF IInv, TypeOK, Stages
<1>3. WireEarned' /\ EarlyEarned' /\ StatusEarned'
  BY <1>1 DEF IInv, WireEarned, EarlyEarned, StatusEarned
<1>4. \A s \in Sockets : rep[s] \notin {"running", "restarting"}
  BY <1>1 DEF IInv, DoneMeansSettled
<1>5. DoneMeansSettled'
  BY <1>1, <1>4 DEF IInv, TypeOK, DoneMeansSettled
<1> QED BY <1>2, <1>3, <1>5 DEF IInv
-----------------------------------------------------------------------------
(* The steps of the link.                                                  *)

(* A frame is kept back, applied or ignored; whichever it is, only what    *)
(* its sender has earned is recorded.                                      *)
LEMMA FrameStep ==
    ASSUME IInv, NEW s \in Sockets, NEW m \in Message, m.kind # "ack", TakeFrame(s, m),
           m.what # "failed" => <<s[1], m.run>> \in passed
    PROVE  /\ early' \subseteq Sockets \X Phases
           /\ rep' \in [Sockets -> {"none", "running", "restarting"} \cup Terminal]
           /\ waiting' \subseteq Sockets
           /\ pc # "dispatch" => early' = early
           /\ pc # "watch" => UNCHANGED <<rep, waiting>>
           /\ pc = "watch" => waiting' = {x \in Sockets : rep'[x] \in {"running", "restarting"}}
           /\ \A f \in early' : f[2] # "failed" => <<f[1][1], run>> \in passed
           /\ \A x \in Sockets : rep'[x] \in {"success", "restarting"} => <<x[1], run>> \in passed
           /\ \A x \in Sockets : rep[x] \in Terminal => rep'[x] = rep[x]
<1>1. m.what \in Phases
  BY MessageFacts
<1>2. /\ early \subseteq Sockets \X Phases /\ waiting \subseteq Sockets
      /\ rep \in [Sockets -> {"none", "running", "restarting"} \cup Terminal]
      /\ \A f \in early : f[2] # "failed" => <<f[1][1], run>> \in passed
      /\ \A x \in Sockets : rep[x] \in {"success", "restarting"} => <<x[1], run>> \in passed
      /\ pc = "watch" => waiting = {x \in Sockets : rep[x] \in {"running", "restarting"}}
  BY DEF IInv, TypeOK, EarlyEarned, StatusEarned, DoneMeansSettled
<1>3. CASE m.run = run /\ pc = "dispatch"
  <2>1. early' = early \cup {<<s, m.what>>} /\ UNCHANGED <<rep, waiting>>
    BY <1>3 DEF TakeFrame
  <2>2. early' \subseteq Sockets \X Phases
    BY <1>1, <1>2, <2>1
  <2>3. \A f \in early' : f[2] # "failed" => <<f[1][1], run>> \in passed
    <3> TAKE f \in early'
    <3>1. CASE f \in early
      BY <1>2, <3>1
    <3>2. CASE f = <<s, m.what>>
      BY <1>3, <3>2
    <3> QED BY <2>1, <3>1, <3>2
  <2> QED BY <1>2, <1>3, <2>1, <2>2, <2>3
<1>4. CASE m.run = run /\ pc = "watch" /\ rep[s] # "none"
  <2> DEFINE g == [x \in {s} |-> Applied(rep[s], m.what)]
  <2>1. Settle({s}, g) /\ UNCHANGED early
    BY <1>4 DEF TakeFrame
  <2>2. g[s] = Applied(rep[s], m.what)
    OBVIOUS
  <2> HIDE DEF g
  <2>3. rep[s] \in Terminal => g[s] = rep[s]
    BY <1>1, <2>2, AppliedFacts
  <2>4. rep[s] \notin Terminal => /\ g[s] \in {"success", "failed", "restarting"}
                                  /\ m.what = "failed" => g[s] = "failed"
    BY <1>1, <2>2, AppliedFacts
  <2>5. \A x \in {s} : /\ g[x] \in {"running", "restarting"} \cup Terminal
                       /\ rep[x] # "none"
                       /\ rep[x] \in Terminal => g[x] = rep[x]
                       /\ g[x] \in {"success", "restarting"} => <<x[1], run>> \in passed
    BY <1>2, <1>4, <2>3, <2>4 DEF Terminal
  <2>6. /\ rep' \in [Sockets -> {"none", "running", "restarting"} \cup Terminal]
        /\ waiting' = {x \in Sockets : rep'[x] \in {"running", "restarting"}}
        /\ \A x \in Sockets : rep[x] \in Terminal => rep'[x] = rep[x]
        /\ \A x \in Sockets : rep'[x] \in {"success", "restarting"} => <<x[1], run>> \in passed
    <3>1. TypeOK /\ StatusEarned /\ DoneMeansSettled /\ pc = "watch" /\ {s} \in SUBSET Sockets
      BY <1>4 DEF IInv
    <3>2. Settle({s}, g)
      BY <2>1
    <3> QED BY <2>5, <3>1, <3>2, SettleFacts, Zenon
  <2>7. waiting' \subseteq Sockets /\ pc = "watch" /\ early' = early
    BY <1>4, <2>1, <2>6
  <2> QED BY <1>2, <2>6, <2>7
<1>5. CASE ~(m.run = run /\ pc = "dispatch") /\ ~(m.run = run /\ pc = "watch" /\ rep[s] # "none")
  <2>1. UNCHANGED <<early, rep, waiting>>
    BY <1>5 DEF TakeFrame
  <2> QED BY <1>2, <2>1
<1> QED BY <1>3, <1>4, <1>5

(* An ack answers the order it belongs to, and a frame goes to deployProgress$. *)
LEMMA DeliverStep == ASSUME IInv, NEW r \in Replicas, Deliver(r)
                     PROVE  IInv' /\ \A x \in Sockets : rep[x] \in Terminal => rep'[x] = rep[x]
<1> DEFINE s == Socket(r)
           m == Head(wire[r])
<1>1. /\ link[r] /\ wire[r] # <<>>
      /\ wire' = [wire EXCEPT ![r] = Tail(@)]
      /\ UNCHANGED <<pc, run, registry, conn, link, inbox, active, pending, passed, reborn, back>>
  BY DEF Deliver, runner, history
<1>2. s \in Sockets /\ s[1] = r
  BY <1>1, LinkSocket DEF IInv
<1>3. /\ m \in Message
      /\ m.kind # "ack" /\ m.what # "failed" => <<s[1], m.run>> \in passed
  <2>1. wire[r] \in Seq(Message)
    BY DEF IInv, TypeOK
  <2>2. m \in Message /\ m = wire[r][1] /\ 1 \in 1..Len(wire[r])
    BY <1>1, <2>1, WireFacts
  <2>3. m.kind # "ack" => m.kind = "finished"
    BY <2>2, MessageFacts
  <2> QED BY <1>2, <2>2, <2>3 DEF IInv, WireEarned
<1>4. wire' \in [Replicas -> Seq(Message)] /\ WireEarned'
  BY <1>1, TakeFacts DEF IInv
<1>5. CASE m.kind = "ack"
  <2>1. /\ UNCHANGED <<early, rep, waiting>>
        /\ order' = IF m.run = run /\ order[s] = "sent" THEN [order EXCEPT ![s] = m.what] ELSE order
    BY <1>5 DEF Deliver
  <2>2. m.what \in {"accepted", "rejected"}
    BY <1>3, <1>5, MessageFacts
  <2>3. order' \in [Sockets -> {"none", "sent", "accepted", "rejected", "unreachable"}]
    BY <2>1, <2>2 DEF IInv, TypeOK
  <2> HIDE DEF s, m
  <2>4. TypeOK'
    BY <1>1, <1>4, <2>1, <2>3 DEF IInv, TypeOK
  <2>5. Stages' /\ EarlyEarned' /\ StatusEarned' /\ DoneMeansSettled'
    BY <1>1, <2>1 DEF IInv, Stages, EarlyEarned, StatusEarned, DoneMeansSettled
  <2> QED BY <1>4, <2>1, <2>4, <2>5 DEF IInv
<1>6. CASE m.kind # "ack"
  <2>1. TakeFrame(s, m) /\ UNCHANGED order
    BY <1>6 DEF Deliver
  <2> HIDE DEF s, m
  <2>2. /\ early' \subseteq Sockets \X Phases
        /\ rep' \in [Sockets -> {"none", "running", "restarting"} \cup Terminal]
        /\ waiting' \subseteq Sockets
        /\ pc # "dispatch" => early' = early
        /\ pc # "watch" => UNCHANGED <<rep, waiting>>
        /\ pc = "watch" => waiting' = {x \in Sockets : rep'[x] \in {"running", "restarting"}}
        /\ \A f \in early' : f[2] # "failed" => <<f[1][1], run>> \in passed
        /\ \A x \in Sockets : rep'[x] \in {"success", "restarting"} => <<x[1], run>> \in passed
        /\ \A x \in Sockets : rep[x] \in Terminal => rep'[x] = rep[x]
    BY <1>2, <1>3, <1>6, <2>1, FrameStep
  <2>3. TypeOK'
    BY <1>1, <1>4, <2>1, <2>2 DEF IInv, TypeOK
  <2>4. Stages'
    BY <1>1, <2>2 DEF IInv, Stages
  <2>5. EarlyEarned' /\ StatusEarned'
    BY <1>1, <2>2 DEF EarlyEarned, StatusEarned
  <2>6. DoneMeansSettled'
    BY <1>1, <2>2 DEF IInv, DoneMeansSettled
  <2> QED BY <1>4, <2>2, <2>3, <2>4, <2>5, <2>6 DEF IInv
<1> QED BY <1>5, <1>6

(* A connection confirms those of its host that were restarting, and they  *)
(* all went through their pipeline.                                        *)
LEMMA ConnectStep == ASSUME IInv, NEW r \in Replicas, Connect(r)
                     PROVE  IInv' /\ \A x \in Sockets : rep[x] \in Terminal => rep'[x] = rep[x]
<1> DEFINE s == <<r, conn[r] + 1>>
           f == [x \in Waited(r) |-> "success"]
<1>1. /\ conn[r] < MaxConn
      /\ conn' = [conn EXCEPT ![r] = @ + 1]
      /\ link' = [link EXCEPT ![r] = TRUE]
      /\ registry' = registry \cup {s}
      /\ back' = back \cup {b \in reborn : b[1] = r}
      /\ UNCHANGED <<pc, run, order, early, wire, inbox, active, pending, passed, reborn>>
  BY DEF Connect, runner
<1>2. conn[r] \in 0..MaxConn /\ conn[r] + 1 \in 1..MaxConn
  BY <1>1, BoundAssumption DEF IInv, TypeOK
<1>3. /\ conn' \in [Replicas -> 0..MaxConn] /\ link' \in [Replicas -> BOOLEAN]
      /\ registry' \subseteq Sockets
      /\ \A q \in Replicas : link'[q] => conn'[q] # 0
  BY <1>1, <1>2, SocketFacts DEF IInv, TypeOK, Stages
<1> HIDE DEF s
<1>4. /\ rep' \in [Sockets -> {"none", "running", "restarting"} \cup Terminal]
      /\ waiting' \subseteq Sockets
      /\ pc # "watch" => UNCHANGED <<rep, waiting>>
      /\ pc = "watch" => waiting' = {x \in Sockets : rep'[x] \in {"running", "restarting"}}
      /\ \A x \in Sockets : rep'[x] \in {"success", "restarting"} => <<x[1], run>> \in passed
      /\ \A x \in Sockets : rep[x] \in Terminal => rep'[x] = rep[x]
  <2>1. CASE pc = "watch"
    <3>1. Settle(Waited(r), f)
      BY <2>1 DEF Connect
    <3>2. /\ Waited(r) \subseteq Sockets
          /\ \A x \in Waited(r) : f[x] = "success" /\ rep[x] = "restarting"
      BY DEF Waited
    <3> HIDE DEF f
    <3>3. \A x \in Waited(r) : /\ f[x] \in {"running", "restarting"} \cup Terminal
                               /\ rep[x] # "none"
                               /\ rep[x] \in Terminal => f[x] = rep[x]
                               /\ f[x] \in {"success", "restarting"} => <<x[1], run>> \in passed
      BY <3>2 DEF IInv, StatusEarned, Terminal
    <3>4. /\ rep' \in [Sockets -> {"none", "running", "restarting"} \cup Terminal]
          /\ waiting' = {x \in Sockets : rep'[x] \in {"running", "restarting"}}
          /\ \A x \in Sockets : rep[x] \in Terminal => rep'[x] = rep[x]
          /\ \A x \in Sockets : rep'[x] \in {"success", "restarting"} => <<x[1], run>> \in passed
      BY <2>1, <3>1, <3>2, <3>3, SettleFacts DEF IInv
    <3> QED BY <2>1, <3>4
  <2>2. CASE pc # "watch"
    <3>1. UNCHANGED <<rep, waiting>>
      BY <2>2 DEF Connect
    <3> QED BY <2>2, <3>1 DEF IInv, TypeOK, StatusEarned
  <2> QED BY <2>1, <2>2
<1>5. TypeOK'
  BY <1>1, <1>3, <1>4 DEF IInv, TypeOK
<1>6. Stages'
  BY <1>1, <1>3, <1>4 DEF IInv, Stages
<1>7. WireEarned' /\ EarlyEarned' /\ StatusEarned'
  BY <1>1, <1>4 DEF IInv, WireEarned, EarlyEarned, StatusEarned
<1>8. DoneMeansSettled'
  BY <1>1, <1>4 DEF IInv, DoneMeansSettled
<1> QED BY <1>4, <1>5, <1>6, <1>7, <1>8 DEF IInv

(* A link that breaks, and the registry noticing it, change no status.     *)
LEMMA BreakStep ==
    IInv /\ (\/ \E r \in Replicas : LinkLost(r)
             \/ \E s \in Sockets : Unregister(s)) => IInv' /\ UNCHANGED <<rep, run>>
<1> SUFFICES ASSUME IInv, \/ \E r \in Replicas : LinkLost(r)
                          \/ \E s \in Sockets : Unregister(s)
             PROVE  IInv' /\ UNCHANGED <<rep, run>>
  OBVIOUS
<1>1. ASSUME NEW r \in Replicas, LinkLost(r) PROVE IInv' /\ UNCHANGED <<rep, run>>
  <2>1. /\ link' = [link EXCEPT ![r] = FALSE]
        /\ wire' = [wire EXCEPT ![r] = <<>>]
        /\ inbox' = [inbox EXCEPT ![r] = <<>>]
        /\ UNCHANGED <<pc, run, order, early, rep, waiting, registry, conn, active, pending,
                       passed, reborn, back>>
    BY <1>1 DEF LinkLost, master, runner, history
  <2>2. wire' \in [Replicas -> Seq(Message)] /\ WireEarned'
    BY <2>1, TakeFacts DEF IInv
  <2>3. TypeOK' /\ Stages'
    BY <2>1, <2>2, EmptySeq DEF IInv, TypeOK, Stages
  <2>4. EarlyEarned' /\ StatusEarned' /\ DoneMeansSettled'
    BY <2>1 DEF IInv, EarlyEarned, StatusEarned, DoneMeansSettled
  <2> QED BY <2>1, <2>2, <2>3, <2>4 DEF IInv
<1>2. ASSUME NEW s \in Sockets, Unregister(s) PROVE IInv' /\ UNCHANGED <<rep, run>>
  BY <1>2 DEF Unregister, master, runner, history, IInv, TypeOK, Stages, WireEarned,
              EarlyEarned, StatusEarned, DoneMeansSettled
<1> QED BY <1>1, <1>2

-----------------------------------------------------------------------------
(* The steps of a replica: whatever it does, it changes nothing the master *)
(* keeps, and it only claims what it has done.                             *)
LEMMA RunnerStep == IInv /\ Runner => IInv' /\ UNCHANGED <<rep, run>>
<1> SUFFICES ASSUME IInv, NEW r \in Replicas,
                    \/ Accept(r) \/ RunFails(r) \/ RunPasses(r) \/ Restart(r) \/ RestartFails(r)
             PROVE  IInv' /\ UNCHANGED <<rep, run>>
  BY DEF Runner
<1>a. ASSUME TypeOK', WireEarned', UNCHANGED <<pc, run, order, early, rep, waiting, conn>>,
             passed \subseteq passed', \A q \in Replicas : link'[q] => link[q]
      PROVE  IInv' /\ UNCHANGED <<rep, run>>
  BY <1>a DEF IInv, Stages, EarlyEarned, StatusEarned, DoneMeansSettled
<1>b. /\ inbox \in [Replicas -> Seq(Runs)] /\ inbox[r] \in Seq(Runs)
      /\ active \in [Replicas -> 0..MaxRuns] /\ active[r] \in 0..MaxRuns
      /\ pending \in [Replicas -> 0..MaxRuns]
      /\ passed \subseteq Replicas \X Runs /\ reborn \subseteq Replicas \X Runs
      /\ back \subseteq Replicas \X Runs
  BY DEF IInv, TypeOK
<1>c. 0 \in 0..MaxRuns
  BY BoundAssumption
<1>1. CASE Accept(r)
  <2>1. /\ inbox[r] # <<>> /\ inbox' = [inbox EXCEPT ![r] = Tail(@)]
        /\ UNCHANGED <<pc, run, order, early, rep, waiting, registry, conn, link, pending,
                       passed, reborn, back>>
    BY <1>1 DEF Accept, master, history
  <2>2. Head(inbox[r]) \in Runs /\ Tail(inbox[r]) \in Seq(Runs)
    BY <1>b, <2>1, WireFacts
  <2>3. inbox' \in [Replicas -> Seq(Runs)]
    BY <1>b, <2>1, <2>2
  <2>4. active' \in [Replicas -> 0..MaxRuns]
    BY <1>1, <1>b, <2>2, RunFacts DEF Accept
  <2>5. PICK w \in {"accepted", "rejected"} :
          wire' = [wire EXCEPT ![r] = Append(@, [kind |-> "ack", run |-> Head(inbox[r]), what |-> w])]
    BY <1>1 DEF Accept, Send
  <2>6. [kind |-> "ack", run |-> Head(inbox[r]), what |-> w] \in Message
    BY <2>2, MessageType
  <2>7. wire' \in [Replicas -> Seq(Message)] /\ WireEarned'
    BY <2>1, <2>5, <2>6, SendFacts DEF IInv
  <2>8. TypeOK'
    BY <2>1, <2>3, <2>4, <2>7 DEF IInv, TypeOK
  <2> QED BY <1>a, <2>1, <2>7, <2>8
<1>2. CASE RunFails(r)
  <2>1. /\ active[r] # 0 /\ active' = [active EXCEPT ![r] = 0]
        /\ wire' = [wire EXCEPT ![r] =
                      Append(@, [kind |-> "finished", run |-> active[r], what |-> "failed"])]
        /\ UNCHANGED <<pc, run, order, early, rep, waiting, registry, conn, link, inbox, pending,
                       passed, reborn, back>>
    BY <1>2 DEF RunFails, Send, master, history
  <2>2. [kind |-> "finished", run |-> active[r], what |-> "failed"] \in Message
    BY <1>b, <2>1, RunFacts, MessageType DEF Phases
  <2>3. wire' \in [Replicas -> Seq(Message)] /\ WireEarned'
    BY <2>1, <2>2, SendFacts DEF IInv
  <2>4. TypeOK'
    BY <1>b, <1>c, <2>1, <2>3 DEF IInv, TypeOK
  <2> QED BY <1>a, <2>1, <2>3, <2>4
<1>3. CASE RunPasses(r)
  <2> DEFINE w == IF r \in Restarts THEN "restarting" ELSE "ok"
             m == [kind |-> "finished", run |-> active[r], what |-> w]
  <2>1. /\ active[r] # 0 /\ active' = [active EXCEPT ![r] = 0]
        /\ wire' = [wire EXCEPT ![r] = Append(@, m)]
        /\ passed' = passed \cup {<<r, active[r]>>}
        /\ UNCHANGED <<pc, run, order, early, rep, waiting, registry, conn, link, inbox, reborn, back>>
    BY <1>3 DEF RunPasses, Send, master
  <2>2. active[r] \in Runs
    BY <1>b, <2>1, RunFacts
  <2>3. pending' \in [Replicas -> 0..MaxRuns]
    BY <1>3, <1>b DEF RunPasses
  <2>4. m \in Message /\ m.run = active[r]
    BY <2>2, MessageType DEF Phases
  <2> HIDE DEF m
  <2>5. wire' \in [Replicas -> Seq(Message)] /\ WireEarned'
    BY <2>1, <2>4, SendFacts DEF IInv
  <2>6. passed' \subseteq Replicas \X Runs
    BY <1>b, <2>1, <2>2
  <2>7. TypeOK'
    BY <1>b, <1>c, <2>1, <2>3, <2>5, <2>6 DEF IInv, TypeOK
  <2> QED BY <1>a, <2>1, <2>5, <2>7
<1>4. CASE Restart(r)
  <2>1. /\ link' = [link EXCEPT ![r] = FALSE] /\ wire' = [wire EXCEPT ![r] = <<>>]
        /\ inbox' = [inbox EXCEPT ![r] = <<>>]
        /\ active' = [active EXCEPT ![r] = 0] /\ pending' = [pending EXCEPT ![r] = 0]
        /\ reborn' = reborn \cup {b \in passed : b[1] = r}
        /\ UNCHANGED <<pc, run, order, early, rep, waiting, registry, conn, passed, back>>
    BY <1>4 DEF Restart, master
  <2>2. wire' \in [Replicas -> Seq(Message)] /\ WireEarned'
    BY <2>1, TakeFacts DEF IInv
  <2>3. TypeOK'
    BY <1>b, <1>c, <2>1, <2>2, EmptySeq DEF IInv, TypeOK
  <2>4. \A q \in Replicas : link'[q] => link[q]
    BY <2>1 DEF IInv, TypeOK
  <2> QED BY <1>a, <2>1, <2>2, <2>3, <2>4
<1>5. CASE RestartFails(r)
  <2>1. /\ pending' = [pending EXCEPT ![r] = 0]
        /\ UNCHANGED <<pc, run, order, early, rep, waiting, registry, conn, link, wire, inbox, active,
                       passed, reborn, back>>
    BY <1>5 DEF RestartFails, master, network, history
  <2>2. WireEarned'
    BY <2>1 DEF IInv, WireEarned
  <2>3. TypeOK'
    BY <1>b, <1>c, <2>1 DEF IInv, TypeOK
  <2> QED BY <1>a, <2>1, <2>2, <2>3
<1> QED BY <1>1, <1>2, <1>3, <1>4, <1>5
-----------------------------------------------------------------------------
LEMMA IInvInit == Init => IInv
<1> SUFFICES ASSUME Init PROVE IInv
  OBVIOUS
<1>1. TypeOK
  BY BoundAssumption, EmptySeq DEF Init, TypeOK
<1>2. Stages /\ WireEarned /\ EarlyEarned /\ StatusEarned /\ DoneMeansSettled
  BY EmptySeq DEF Init, Stages, WireEarned, EarlyEarned, StatusEarned, DoneMeansSettled
<1> QED BY <1>1, <1>2 DEF IInv

LEMMA IInvStep == IInv /\ [Next]_vars => IInv'
<1> SUFFICES ASSUME IInv, [Next]_vars PROVE IInv'
  OBVIOUS
<1>1. CASE Master
  BY <1>1, PropagateStep, DispatchStep, DispatchedStep, FinishStep, TimerStep DEF Master
<1>2. CASE Network
  BY <1>2, DeliverStep, ConnectStep, BreakStep DEF Network
<1>3. CASE Runner
  BY <1>3, RunnerStep
<1>4. CASE UNCHANGED vars
  BY <1>4 DEF vars, master, network, runner, history, IInv, TypeOK, Stages, WireEarned,
              EarlyEarned, StatusEarned, DoneMeansSettled
<1> QED BY <1>1, <1>2, <1>3, <1>4 DEF Next

LEMMA IInvAlways == Spec => []IInv
<1> QED BY IInvInit, IInvStep, PTL DEF Spec

(* Every variable keeps its type, whatever the replicas and the links do.  *)
THEOREM TypeCorrect == Spec => []TypeOK
<1>1. IInv => TypeOK
  BY DEF IInv
<1> QED BY <1>1, IInvAlways, PTL

(* A success is earned: the replica went through its whole pipeline for    *)
(* this order, whichever of frame, replay and reconnection reported it.    *)
THEOREM SuccessIsEarned == Spec => []SuccessEarned
<1>1. IInv => SuccessEarned
  BY DEF IInv, StatusEarned, SuccessEarned
<1> QED BY <1>1, IInvAlways, PTL

(* propagate() resolves when every replica is settled: the promises it     *)
(* waits for are those of the open replicas, all through the watch.        *)
THEOREM DoneIsSettled == Spec => []DoneMeansSettled
<1>1. IInv => DoneMeansSettled
  BY DEF IInv
<1> QED BY <1>1, IInvAlways, PTL

(* Within one propagation a terminal status is final: frames, timers and   *)
(* reconnections that come late leave it alone.                            *)
THEOREM SettledForGood == Spec => SettledOnce
<1> DEFINE A == \A s \in Sockets : rep[s] \in Terminal /\ run' = run => rep'[s] = rep[s]
<1>1. IInv /\ [Next]_vars => [A]_vars
  <2> SUFFICES ASSUME IInv, Next PROVE A
    OBVIOUS
  <2>1. CASE Propagate
    <3>1. run' = run + 1 /\ run \in Int
      BY <2>1 DEF Propagate, IInv, TypeOK
    <3> QED BY <3>1
  <2>2. CASE Dispatched
    BY <2>2 DEF Dispatched, IInv, Stages, Terminal
  <2>3. CASE Dispatch \/ Finish
    BY <2>3 DEF Dispatch, Finish
  <2>4. ASSUME NEW s \in Sockets, AckTimeout(s) PROVE A
    BY <2>4 DEF AckTimeout
  <2>5. ASSUME NEW s \in Sockets, Timeout(s) PROVE A
    <3>1. rep[s] \notin Terminal
      BY <2>5 DEF Timeout, IInv, DoneMeansSettled, Terminal
    <3>2. \A x \in Sockets : x # s => rep'[x] = rep[x]
      BY <2>5 DEF Timeout, Settle
    <3> QED BY <3>1, <3>2
  <2>6. CASE Network
    BY <2>6, DeliverStep, ConnectStep, BreakStep DEF Network
  <2>7. CASE Runner
    BY <2>7, RunnerStep
  <2> QED BY <2>1, <2>2, <2>3, <2>4, <2>5, <2>6, <2>7 DEF Next, Master
<1> QED BY <1>1, IInvAlways, PTL DEF Spec, SettledOnce
=============================================================================
