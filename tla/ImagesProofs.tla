---------------------------- MODULE ImagesProofs -----------------------------
(***************************************************************************)
(* What building and handing out images guarantees for any number of       *)
(* services, runs and commits: types, that what replicas can download is   *)
(* a whole export of an image that was tried out (OfferedIsProven), that a *)
(* set which is ordered is complete, current and there (Deliverable), and  *)
(* that nothing is left behind on the host (CleanedUp).                    *)
(***************************************************************************)
EXTENDS Images, TLAPS

Places == Runs \cup {Tree}
RunType ==
    [pc : Over \cup {"clone", "spec", "build", "inspect", "start", "probe", "remove",
                     "export", "dispatch"},
     i : 0..NServices, dir : Runs \cup {Tree, None}, src : [Services -> 0..MaxCommit],
     prev : BOOLEAN, img : Images \cup {None}, ok : BOOLEAN,
     images : SUBSET Artifacts, made : SUBSET Artifacts, from : [Services -> 0..MaxCommit]]

(* Where a run builds, has an env file staged, and tries an image out.     *)
Working == {"clone", "spec", "build", "inspect", "start", "probe", "remove", "export"}
Staging == {"build", "inspect", "start", "probe", "remove", "export"}
Trying == {"start", "probe", "remove"}

(* What a run knows at each of its steps, given the tags, the images that  *)
(* have answered and the tips of the branches: the image it looked up is   *)
(* of the service it is at, an image to export has been proven, and what   *)
(* it checked out is not older than what the branches held when it began.  *)
Placed(r, m, tags, good, tips) ==
    /\ m.pc \in Working => m.i \in Services /\ m.dir \in {r, Tree}
    /\ m.pc = "clone" => m.dir = r
    /\ m.pc = "inspect" => tags[m.i] \in Images
    /\ m.pc \in Trying \cup {"export"} => m.img \in Images /\ m.img.svc = m.i
    /\ m.pc = "export" /\ m.i \in Tested => m.img \in good
    /\ m.pc = "remove" /\ m.ok => m.img \in good
    /\ \A j \in Services :
          /\ m.from[j] <= tips[j]
          /\ m.dir # r => m.from[j] = 0
          /\ m.dir = r /\ m.pc \in Working /\ (m.pc = "clone" => j < m.i) => m.from[j] <= m.src[j]

Proven(a, good) == ~a.cut /\ (a.img.svc \in Tested => a.img \in good)

(* The host: what is on it besides the runs. *)
Host ==
    /\ clones \subseteq Runs
    /\ env \subseteq Places \X Services
    /\ config \in [Places -> [Services -> {"none", "file", "dir"}]]
    /\ containers \subseteq Runs \X Services
Store ==
    /\ tmp \subseteq Runs
    /\ staged \subseteq Artifacts
    /\ old \subseteq tmp \cup staged
    /\ last \subseteq Artifacts
    /\ rough \subseteq Roughness
Known ==
    /\ tip \in [Services -> 0..MaxCommit]
    /\ tag \in [Services -> Images \cup {None}]
    /\ \A i \in Services : tag[i] \in Images => tag[i].svc = i
    /\ proven \subseteq Images

IInv ==
    /\ Host /\ Store /\ Known
    /\ run \in [Runs -> RunType]
    /\ \A r \in Runs : Placed(r, run[r], tag, proven, tip)
    /\ \A a \in staged : Proven(a, proven)

-----------------------------------------------------------------------------
(* Facts about the records and operators of the model.                     *)

LEMMA FreshFacts ==
    /\ Fresh \in RunType /\ Fresh.pc = "new" /\ Fresh.dir = None /\ Fresh.images = {}
    /\ Fresh.made = {} /\ ~Fresh.prev /\ \A j \in Services : Fresh.from[j] = 0
BY CountAssumption DEF Fresh, RunType, Over

(* What a record of a run keeps when only its place changes. *)
Keeps(n, m) ==
    /\ n.i = m.i /\ n.dir = m.dir /\ n.src = m.src /\ n.prev = m.prev /\ n.img = m.img
    /\ n.ok = m.ok /\ n.images = m.images /\ n.made = m.made /\ n.from = m.from

LEMMA MoveFacts ==
    ASSUME NEW m \in RunType,
           NEW p \in Over \cup {"clone", "spec", "build", "inspect", "start", "probe", "remove",
                                "export", "dispatch"}
    PROVE  LET n == [m EXCEPT !.pc = p]
           IN  n \in RunType /\ n.pc = p /\ Keeps(n, m)
BY DEF RunType, Keeps

LEMMA BecomeFacts ==
    ASSUME run \in [Runs -> RunType], NEW r \in Runs, NEW m \in RunType, Become(r, m)
    PROVE  /\ run' \in [Runs -> RunType]
           /\ run'[r] = m
           /\ \A q \in Runs : q # r => run'[q] = run[q]
BY DEF Become

(* Disposing of the clone leaves a well-formed host. *)
LEMMA DisposeFacts ==
    ASSUME Host, NEW r \in Runs, NEW e \in SUBSET (Places \X Services),
           NEW c \in [Places -> [Services -> {"none", "file", "dir"}]], DisposeClone(r, e, c)
    PROVE  /\ clones' \subseteq Runs /\ env' \subseteq Places \X Services
           /\ config' \in [Places -> [Services -> {"none", "file", "dir"}]]
<1>1. CASE run[r].dir = r
  <2>1. c \in [Places -> [Services -> {"none", "file", "dir"}]] /\ r \in Places
    BY DEF Places
  <2>2. [c EXCEPT ![r] = [i \in Services |-> "none"]] \in [Places -> [Services -> {"none", "file", "dir"}]]
    BY <2>1
  <2> QED BY <1>1, <2>2 DEF DisposeClone, Host
<1>2. CASE run[r].dir # r
  BY <1>2 DEF DisposeClone, Host
<1> QED BY <1>1, <1>2

LEMMA EnvDisposedType ==
    ASSUME Host, NEW r \in Runs, run[r].dir \in Places, run[r].i \in Services
    PROVE  EnvDisposed(r) \subseteq Places \X Services
BY DEF EnvDisposed, Host

(* A step of run r that leaves it at m. *)
LEMMA RunStep ==
    ASSUME IInv, NEW r \in Runs, NEW m \in RunType, Become(r, m),
           Host', Store', Known', tip' = tip, proven \subseteq proven',
           \A i \in Services : tag[i] \in Images => tag'[i] \in Images,
           Placed(r, m, tag', proven', tip),
           \A a \in staged' : a \in staged \/ Proven(a, proven')
    PROVE  IInv'
<1>1. /\ run' \in [Runs -> RunType]
      /\ run'[r] = m
      /\ \A q \in Runs : q # r => run'[q] = run[q]
  BY BecomeFacts DEF IInv
<1>2. \A q \in Runs : Placed(q, run[q], tag', proven', tip)
  <2> TAKE q \in Runs
  <2>1. Placed(q, run[q], tag, proven, tip)
    BY DEF IInv
  <2> QED BY <2>1 DEF Placed, Working
<1>3. \A q \in Runs : Placed(q, run'[q], tag', proven', tip')
  BY <1>1, <1>2
<1>4. \A a \in staged' : Proven(a, proven')
  BY DEF IInv, Proven
<1> QED BY <1>1, <1>3, <1>4 DEF IInv

(* What is known of a run and of the host before each step. *)
LEMMA RunFacts ==
    ASSUME IInv, NEW r \in Runs
    PROVE  /\ run[r] \in RunType /\ Placed(r, run[r], tag, proven, tip)
           /\ Host /\ Store /\ Known
BY DEF IInv

(* A run that is over, or has all its images, keeps what it knows. *)
LEMMA PlacedOver ==
    ASSUME NEW r, NEW m, NEW n, NEW tags, NEW good, NEW tips, Placed(r, m, tags, good, tips),
           Keeps(n, m), n.pc \notin Working
    PROVE  Placed(r, n, tags, good, tips)
BY DEF Placed, Keeps, Working, Trying
-----------------------------------------------------------------------------
(* Each step keeps the invariant.                                          *)

LEMMA BeginStep == ASSUME IInv, NEW r \in Runs, Begin(r) PROVE IInv'
<1> DEFINE a == [Fresh EXCEPT !.pc = "clone", !.i = 1, !.dir = r, !.from = tip]
           b == [Fresh EXCEPT !.pc = "spec", !.i = 1, !.dir = Tree]
<1>1. 1 \in Services /\ 1 \in 0..NServices /\ tip \in [Services -> 0..MaxCommit]
  BY CountAssumption DEF Services, IInv, Known
<1>2. a \in RunType /\ a.pc = "clone" /\ a.i = 1 /\ a.dir = r /\ a.from = tip
  BY <1>1, FreshFacts DEF RunType
<1>3. b \in RunType /\ b.pc = "spec" /\ b.i = 1 /\ b.dir = Tree /\ \A j \in Services : b.from[j] = 0
  BY <1>1, FreshFacts DEF RunType
<1>4. Placed(r, a, tag, proven, tip)
  BY <1>1, <1>2, CountAssumption DEF Placed, Services, Trying
<1>5. Placed(r, b, tag, proven, tip)
  BY <1>1, <1>3, CountAssumption, RunsAssumption DEF Placed, Trying
<1>6. PICK m \in {a, b} : Become(r, m)
  BY DEF Begin
<1>7. m \in RunType /\ Placed(r, m, tag, proven, tip)
  BY <1>2, <1>3, <1>4, <1>5
<1>8. Host' /\ Store' /\ Known' /\ UNCHANGED <<tip, tag, proven, staged>>
  BY DEF Begin, IInv, Host, Store, Known, store, Overlaps, Roughness
<1> HIDE DEF a, b
<1> QED BY <1>6, <1>7, <1>8, RunStep

LEMMA CheckoutStep == ASSUME IInv, NEW r \in Runs, CheckoutSubmodule(r) PROVE IInv'
<1> DEFINE o == run[r]
           a == [o EXCEPT !.src[o.i] = tip[o.i]]
           n == IF a.i < NServices THEN [a EXCEPT !.i = a.i + 1] ELSE [a EXCEPT !.pc = "spec", !.i = 1]
<1>1. /\ o \in RunType /\ o.pc = "clone" /\ o.i \in Services /\ o.dir = r
      /\ Placed(r, o, tag, proven, tip) /\ tip \in [Services -> 0..MaxCommit]
  BY DEF IInv, CheckoutSubmodule, Placed, Working, Known
<1>2. /\ a \in RunType /\ a.pc = "clone" /\ a.i = o.i /\ a.dir = o.dir /\ a.from = o.from
      /\ \A j \in Services : a.src[j] = IF j = o.i THEN tip[j] ELSE o.src[j]
  BY <1>1 DEF RunType
<1> HIDE DEF a
<1>3. /\ n \in RunType /\ n.dir = r /\ n.from = o.from /\ n.src = a.src
      /\ n.pc = (IF o.i < NServices THEN "clone" ELSE "spec")
      /\ n.i = (IF o.i < NServices THEN o.i + 1 ELSE 1)
  <2>1. 1 \in 0..NServices /\ (o.i < NServices => o.i + 1 \in 0..NServices)
    BY <1>1, CountAssumption DEF Services
  <2>2. CASE o.i < NServices
    BY <1>1, <1>2, <2>1, <2>2 DEF RunType
  <2>3. CASE ~(o.i < NServices)
    BY <1>1, <1>2, <2>1, <2>3 DEF RunType
  <2> QED BY <2>2, <2>3
<1>4. Placed(r, n, tag, proven, tip)
  <2>1. n.i \in Services /\ (n.pc = "clone" => n.i = o.i + 1) /\ (n.pc # "clone" => o.i = NServices)
    BY <1>1, <1>3, CountAssumption DEF Services
  <2>2. \A j \in Services : o.from[j] <= tip[j] /\ (j < o.i => o.from[j] <= o.src[j])
    BY <1>1 DEF Placed, Working
  <2>3. \A j \in Services : (n.pc = "clone" => j < n.i) => o.from[j] <= n.src[j]
    <3> SUFFICES ASSUME NEW j \in Services, n.pc = "clone" => j < n.i PROVE o.from[j] <= n.src[j]
      OBVIOUS
    <3>1. j <= o.i
      BY <1>1, <2>1 DEF Services
    <3>2. j = o.i \/ j < o.i
      BY <1>1, <3>1 DEF Services
    <3> QED BY <1>2, <1>3, <2>2, <3>2
  <2>4. n.pc \notin Trying \cup {"export", "inspect", "remove"}
    BY <1>3 DEF Trying
  <2> QED BY <1>3, <2>1, <2>2, <2>3, <2>4 DEF Placed
<1>5. Become(r, n)
  BY DEF CheckoutSubmodule, a
<1>6. Host' /\ Store' /\ Known' /\ UNCHANGED <<tip, tag, proven, staged>>
  BY DEF CheckoutSubmodule, IInv, Host, Store, Known, store, files
<1> HIDE DEF n
<1> QED BY <1>3, <1>4, <1>5, <1>6, RunStep

LEMMA StageStep == ASSUME IInv, NEW r \in Runs, StageEnvFile(r) PROVE IInv'
<1> DEFINE o == run[r]
           b == <<o.dir, o.i>> \in env
           m == [o EXCEPT !.pc = "build", !.prev = b]
<1>1. o \in RunType /\ o.pc = "spec" /\ Placed(r, o, tag, proven, tip)
  BY DEF IInv, StageEnvFile
<1>2. o.i \in Services /\ o.dir \in Places
  BY <1>1 DEF Placed, Working, Places
<1>3. m \in RunType /\ m.pc = "build" /\ m.i = o.i /\ m.dir = o.dir /\ m.from = o.from /\ m.src = o.src
  <2>1. b \in BOOLEAN
    OBVIOUS
  <2> HIDE DEF b
  <2> QED BY <1>1, <2>1 DEF RunType
<1>4. Placed(r, m, tag, proven, tip)
  BY <1>1, <1>3 DEF Placed, Working, Trying
<1>5. Become(r, m)
  BY DEF StageEnvFile
<1>6. Host' /\ Store' /\ Known' /\ UNCHANGED <<tip, tag, proven, staged>>
  BY <1>2 DEF StageEnvFile, IInv, Host, Store, Known, store
<1> HIDE DEF m
<1> QED BY <1>3, <1>4, <1>5, <1>6, RunStep

LEMMA BuildStep == ASSUME IInv, NEW r \in Runs, Build(r) PROVE IInv'
<1> DEFINE o == run[r]
           m == [o EXCEPT !.pc = "inspect"]
<1>1. /\ o \in RunType /\ o.pc = "build" /\ Placed(r, o, tag, proven, tip)
      /\ tip \in [Services -> 0..MaxCommit] /\ tag \in [Services -> Images \cup {None}]
  BY DEF IInv, Build, Known
<1>2. o.i \in Services /\ o.src \in [Services -> 0..MaxCommit]
  BY <1>1 DEF Placed, Working, RunType
<1>3. m \in RunType /\ m.pc = "inspect" /\ Keeps(m, o)
  BY <1>1, MoveFacts
<1>4. PICK c \in 0..MaxCommit : tag' = [tag EXCEPT ![o.i] = Image(o.i, c)]
  <2>1. o.src[o.i] \in 0..MaxCommit /\ 0..tip[o.i] \subseteq 0..MaxCommit
    BY <1>1, <1>2, CountAssumption
  <2>2. \E c \in (IF o.dir = r THEN {o.src[o.i]} ELSE 0..tip[o.i]) :
           tag' = [tag EXCEPT ![o.i] = Image(o.i, c)]
    BY DEF Build
  <2> QED BY <2>1, <2>2
<1>5. Image(o.i, c) \in Images /\ Image(o.i, c).svc = o.i
  BY <1>2 DEF Images, Image
<1>6. /\ tag' \in [Services -> Images \cup {None}] /\ tag'[o.i] \in Images
      /\ \A i \in Services : tag'[i] = IF i = o.i THEN Image(o.i, c) ELSE tag[i]
  BY <1>1, <1>2, <1>4, <1>5
<1>7. Placed(r, m, tag', proven, tip)
  BY <1>1, <1>2, <1>3, <1>6 DEF Placed, Keeps, Working, Trying
<1>8. Become(r, m) /\ UNCHANGED <<tip, proven, staged>>
  BY DEF Build, store
<1>9. Host' /\ Store'
  BY DEF Build, IInv, Host, Store, store, files
<1>10. Known'
  BY <1>5, <1>6, <1>8 DEF IInv, Known
<1>11. \A i \in Services : tag[i] \in Images => tag'[i] \in Images
  BY <1>5, <1>6
<1> HIDE DEF m
<1> QED BY <1>3, <1>7, <1>8, <1>9, <1>10, <1>11, RunStep

(* Whatever fails: the run is over and its files are well-formed. *)
LEMMA FailStep ==
    ASSUME IInv, NEW r \in Runs, run[r].pc \in Working \cup {"dispatch"}, NEW p \in {"failed", "done"},
           Become(r, [run[r] EXCEPT !.pc = p]),
           NEW e \in SUBSET (Places \X Services),
           NEW c \in [Places -> [Services -> {"none", "file", "dir"}]], DisposeClone(r, e, c),
           containers' \subseteq Runs \X Services, Store', staged' = staged,
           UNCHANGED <<tip, tag, proven>>
    PROVE  IInv'
<1> DEFINE m == [run[r] EXCEPT !.pc = p]
<1>1. m \in RunType /\ m.pc = p /\ Keeps(m, run[r])
  BY MoveFacts DEF IInv, Over
<1> HIDE DEF m
<1>2. Placed(r, m, tag, proven, tip)
  BY <1>1, PlacedOver DEF IInv, Working
<1>3. Host'
  BY DisposeFacts DEF IInv, Host
<1>4. Known'
  BY DEF IInv, Known
<1> QED BY <1>1, <1>2, <1>3, <1>4, RunStep DEF m

LEMMA StagedPlace ==
    ASSUME IInv, NEW r \in Runs, run[r].pc \in Working
    PROVE  /\ run[r].i \in Services /\ run[r].dir \in Places /\ run[r].dir \in {r, Tree}
           /\ EnvDisposed(r) \subseteq Places \X Services
<1>1. run[r].i \in Services /\ run[r].dir \in Places /\ run[r].dir \in {r, Tree}
  BY DEF IInv, Placed, Places
<1> QED BY <1>1, EnvDisposedType DEF IInv

LEMMA BuildFailsStep == ASSUME IInv, NEW r \in Runs, BuildFails(r) PROVE IInv'
<1>1. /\ run[r].pc \in Working /\ Become(r, [run[r] EXCEPT !.pc = "failed"])
      /\ UNCHANGED <<tip, tag, proven, containers, staged, tmp, old, last, rough>>
  BY DEF BuildFails, Fail, Working, store
<1>2. PICK e \in SUBSET (Places \X Services) : DisposeClone(r, e, config)
  BY <1>1, StagedPlace DEF BuildFails, Fail, IInv, Host
<1>3. Store' /\ containers' \subseteq Runs \X Services
      /\ config \in [Places -> [Services -> {"none", "file", "dir"}]]
  BY <1>1 DEF IInv, Store, Host
<1> QED BY <1>1, <1>2, <1>3, FailStep

LEMMA FinishStep == ASSUME IInv, NEW r \in Runs, Finish(r) PROVE IInv'
<1>1. /\ run[r].pc = "dispatch" /\ Become(r, [run[r] EXCEPT !.pc = "done"])
      /\ UNCHANGED <<tip, tag, proven, containers, staged, tmp, old, last, rough>>
      /\ DisposeClone(r, env, config)
  BY DEF Finish, store
<1>2. Store' /\ containers' \subseteq Runs \X Services /\ env \in SUBSET (Places \X Services)
      /\ config \in [Places -> [Services -> {"none", "file", "dir"}]]
  BY <1>1 DEF IInv, Store, Host
<1> QED BY <1>1, <1>2, FailStep

LEMMA ExportFailsStep == ASSUME IInv, NEW r \in Runs, ExportFails(r) PROVE IInv'
<1>1. /\ run[r].pc \in Working /\ Become(r, [run[r] EXCEPT !.pc = "failed"])
      /\ UNCHANGED <<tip, tag, proven, containers, staged>>
      /\ DisposeClone(r, EnvDisposed(r), config)
  BY DEF ExportFails, Fail, Working
<1>2. Store'
  BY DEF ExportFails, IInv, Store
<1>3. containers' \subseteq Runs \X Services /\ EnvDisposed(r) \in SUBSET (Places \X Services)
      /\ config \in [Places -> [Services -> {"none", "file", "dir"}]]
  BY <1>1, StagedPlace DEF IInv, Host
<1> QED BY <1>1, <1>2, <1>3, FailStep

LEMMA StartFailsStep == ASSUME IInv, NEW r \in Runs, SmokeStartFails(r) PROVE IInv'
<1>1. /\ run[r].pc \in Working /\ Become(r, [run[r] EXCEPT !.pc = "failed"])
      /\ UNCHANGED <<tip, tag, proven, staged>>
      /\ DisposeClone(r, EnvDisposed(r), config)
  BY DEF SmokeStartFails, Fail, Working, store
<1>2. Store'
  BY DEF SmokeStartFails, IInv, Store, store, Cause, Roughness
<1>3. EnvDisposed(r) \in SUBSET (Places \X Services)
      /\ config \in [Places -> [Services -> {"none", "file", "dir"}]]
  BY <1>1, StagedPlace DEF IInv, Host
<1>4. containers' \subseteq Runs \X Services
  BY <1>1, StagedPlace DEF SmokeStartFails, IInv, Host
<1> QED BY <1>1, <1>2, <1>3, <1>4, FailStep
(* What the lookup of the image leads to. *)
LEMMA InspectDoes ==
    ASSUME IInv, NEW r \in Runs, Inspect(r)
    PROVE  LET o == run[r]
               starts == [o EXCEPT !.img = tag[o.i], !.pc = "start"]
               exports == [o EXCEPT !.img = tag[o.i], !.pc = "export"]
           IN  /\ UNCHANGED <<tip, tag, containers, last, proven, rough>>
               /\ \/ o.i \in Tested /\ Become(r, starts)
                     /\ config' = [config EXCEPT ![o.dir][o.i] = "file"]
                     /\ UNCHANGED <<clones, env, tmp, staged, old>>
                  \/ o.i \in Tested /\ Fail(r, config) /\ UNCHANGED <<tmp, staged, old>>
                     /\ config[o.dir][o.i] = "dir"
                  \/ o.i \notin Tested /\ Become(r, exports) /\ PruneAndOpen(r)
                     /\ UNCHANGED <<clones, env, config>>
<1> DEFINE o == run[r]
           m == [o EXCEPT !.img = tag[o.i]]
<1>1. o \in RunType
  BY DEF IInv
<1>2. m.i = o.i /\ m.dir = o.dir
  BY <1>1 DEF RunType
<1>3. /\ [m EXCEPT !.pc = "start"] = [o EXCEPT !.img = tag[o.i], !.pc = "start"]
      /\ [m EXCEPT !.pc = "export"] = [o EXCEPT !.img = tag[o.i], !.pc = "export"]
  OBVIOUS
<1> HIDE DEF m
<1>4. UNCHANGED <<tip, tag, containers, last, proven, rough>>
  BY DEF Inspect
<1>5. \/ m.i \in Tested /\ Writable(m) /\ WriteSmokeConfig(m) /\ Become(r, [m EXCEPT !.pc = "start"])
         /\ UNCHANGED <<clones, env, store>>
      \/ m.i \in Tested /\ ~Writable(m) /\ Fail(r, config) /\ UNCHANGED store
      \/ m.i \notin Tested /\ PruneAndOpen(r) /\ Become(r, [m EXCEPT !.pc = "export"])
         /\ UNCHANGED <<clones, env, config>>
  BY DEF Inspect, m
<1> QED BY <1>2, <1>3, <1>4, <1>5 DEF Writable, WriteSmokeConfig, store

LEMMA LookedUp ==
    ASSUME NEW o \in RunType, NEW t \in Images, NEW p \in {"start", "export"}
    PROVE  LET m == [o EXCEPT !.img = t, !.pc = p]
           IN  /\ m \in RunType /\ m.pc = p /\ m.img = t /\ m.i = o.i /\ m.dir = o.dir /\ m.src = o.src
               /\ m.prev = o.prev /\ m.images = o.images /\ m.made = o.made /\ m.from = o.from
BY DEF RunType

LEMMA InspectStep == ASSUME IInv, NEW r \in Runs, Inspect(r) PROVE IInv'
<1> DEFINE o == run[r]
           t == tag[o.i]
           starts == [o EXCEPT !.img = tag[o.i], !.pc = "start"]
           exports == [o EXCEPT !.img = tag[o.i], !.pc = "export"]
<1>1. o \in RunType /\ o.pc = "inspect" /\ Placed(r, o, tag, proven, tip)
  BY DEF IInv, Inspect
<1>2. o.i \in Services /\ o.dir \in Places /\ t \in Images /\ t.svc = o.i
  BY <1>1, StagedPlace DEF IInv, Placed, Known, Working
<1>3. /\ starts \in RunType /\ starts.pc = "start" /\ starts.img = t /\ starts.i = o.i
      /\ starts.dir = o.dir /\ starts.src = o.src /\ starts.from = o.from
  BY <1>1, <1>2, LookedUp
<1>4. /\ exports \in RunType /\ exports.pc = "export" /\ exports.img = t /\ exports.i = o.i
      /\ exports.dir = o.dir /\ exports.src = o.src /\ exports.from = o.from
  BY <1>1, <1>2, LookedUp
<1>5. Placed(r, starts, tag, proven, tip)
  BY <1>1, <1>2, <1>3 DEF Placed, Working
<1>6. o.i \notin Tested => Placed(r, exports, tag, proven, tip)
  BY <1>1, <1>2, <1>4 DEF Placed, Working
<1>7. UNCHANGED <<tip, tag, containers, last, proven, rough>> /\ Known'
  BY InspectDoes DEF IInv, Known
<1> HIDE DEF starts, exports
<1>8. CASE Become(r, starts) /\ UNCHANGED <<clones, env, tmp, staged, old>>
           /\ config' = [config EXCEPT ![o.dir][o.i] = "file"]
  <2>1. Host' /\ Store'
    BY <1>2, <1>7, <1>8 DEF IInv, Host, Store
  <2> QED BY <1>3, <1>5, <1>7, <1>8, <2>1, RunStep
<1>9. CASE Fail(r, config) /\ UNCHANGED <<tmp, staged, old>>
  <2>1. run[r].pc \in Working /\ Become(r, [run[r] EXCEPT !.pc = "failed"])
        /\ DisposeClone(r, EnvDisposed(r), config)
    BY <1>1, <1>9 DEF Fail, Working
  <2>2. Store' /\ containers' \subseteq Runs \X Services /\ EnvDisposed(r) \in SUBSET (Places \X Services)
        /\ config \in [Places -> [Services -> {"none", "file", "dir"}]]
    BY <1>7, <1>9, <2>1, StagedPlace DEF IInv, Host, Store
  <2> QED BY <1>7, <1>9, <2>1, <2>2, FailStep
<1>10. CASE o.i \notin Tested /\ Become(r, exports) /\ PruneAndOpen(r) /\ UNCHANGED <<clones, env, config>>
  <2>1. Host' /\ Store' /\ staged' \subseteq staged
    BY <1>7, <1>10 DEF IInv, Host, Store, PruneAndOpen
  <2> QED BY <1>4, <1>6, <1>7, <1>10, <2>1, RunStep
<1> QED BY <1>8, <1>9, <1>10, InspectDoes DEF starts, exports

LEMMA OkFacts ==
    ASSUME NEW o \in RunType, NEW b \in BOOLEAN, NEW p \in {"probe", "remove"}
    PROVE  LET m == [o EXCEPT !.pc = p, !.ok = b]
           IN  /\ m \in RunType /\ m.pc = p /\ m.ok = b /\ m.img = o.img /\ m.i = o.i /\ m.dir = o.dir
               /\ m.src = o.src /\ m.prev = o.prev /\ m.images = o.images /\ m.made = o.made
               /\ m.from = o.from
BY DEF RunType

LEMMA SmokeStartStep == ASSUME IInv, NEW r \in Runs, SmokeStart(r) PROVE IInv'
<1> DEFINE o == run[r]
           b == config[o.dir][o.i] = "file"
           m == [o EXCEPT !.pc = "probe", !.ok = b]
<1>1. o \in RunType /\ o.pc = "start" /\ Placed(r, o, tag, proven, tip)
  BY DEF IInv, SmokeStart
<1>2. o.i \in Services /\ o.dir \in Places
  BY <1>1, StagedPlace DEF Working
<1>3. m \in RunType /\ m.pc = "probe" /\ m.img = o.img /\ m.i = o.i /\ m.dir = o.dir /\ m.src = o.src
      /\ m.from = o.from
  <2>1. b \in BOOLEAN
    OBVIOUS
  <2> HIDE DEF b
  <2> QED BY <1>1, <2>1, OkFacts
<1>4. Placed(r, m, tag, proven, tip)
  BY <1>1, <1>3 DEF Placed, Working, Trying
<1>5. Become(r, m) /\ UNCHANGED <<tip, tag, clones, env, tmp, staged, old, last, proven, rough>>
  BY DEF SmokeStart, store
<1>6. Host' /\ Store' /\ Known'
  BY <1>2, <1>5 DEF SmokeStart, IInv, Host, Store, Known
<1> HIDE DEF m
<1> QED BY <1>3, <1>4, <1>5, <1>6, RunStep

LEMMA ProbeStep == ASSUME IInv, NEW r \in Runs, Probe(r) PROVE IInv'
<1> DEFINE o == run[r]
           m(b) == [o EXCEPT !.pc = "remove", !.ok = b]
<1>1. o \in RunType /\ o.pc = "probe" /\ Placed(r, o, tag, proven, tip)
  BY DEF IInv, Probe
<1>2. o.img \in Images /\ o.img.svc = o.i
  BY <1>1 DEF Placed, Trying
<1>3. \A b \in BOOLEAN : /\ m(b) \in RunType /\ m(b).pc = "remove" /\ m(b).ok = b /\ m(b).img = o.img
                         /\ m(b).i = o.i /\ m(b).dir = o.dir /\ m(b).src = o.src /\ m(b).from = o.from
  BY <1>1, OkFacts
<1>4. UNCHANGED <<tip, tag, clones, env, config, containers, tmp, staged, old, last, rough>>
  BY DEF Probe, files, store
<1>5. PICK b \in BOOLEAN : /\ Become(r, m(b)) /\ proven \subseteq proven'
                           /\ proven' \subseteq proven \cup {o.img} /\ (b => o.img \in proven')
  <2>1. CASE Become(r, m(TRUE)) /\ Healthy(r)
             /\ proven' = IF o.img \in Broken THEN proven ELSE proven \cup {o.img}
    BY <2>1 DEF Healthy
  <2>2. CASE Become(r, m(FALSE)) /\ UNCHANGED proven
    BY <2>2
  <2> QED BY <2>1, <2>2 DEF Probe
<1>6. Host' /\ Store' /\ Known'
  BY <1>2, <1>4, <1>5 DEF IInv, Host, Store, Known
<1> HIDE DEF m
<1>7. Placed(r, m(b), tag', proven', tip)
  BY <1>1, <1>2, <1>3, <1>4, <1>5 DEF Placed, Working, Trying
<1>8. m(b) \in RunType
  BY <1>3
<1> QED BY <1>4, <1>5, <1>6, <1>7, <1>8, RunStep

LEMMA SmokeCleanStep == ASSUME IInv, NEW r \in Runs, SmokeClean(r) PROVE IInv'
<1> DEFINE o == run[r]
           c == [config EXCEPT ![o.dir][o.i] = IF @ = "file" THEN "none" ELSE @]
           m == [o EXCEPT !.pc = "export"]
<1>1. o \in RunType /\ o.pc = "remove" /\ Placed(r, o, tag, proven, tip)
  BY DEF IInv, SmokeClean
<1>2. o.i \in Services /\ o.dir \in Places /\ EnvDisposed(r) \in SUBSET (Places \X Services)
  BY <1>1, StagedPlace DEF Working
<1>3. c \in [Places -> [Services -> {"none", "file", "dir"}]]
  BY <1>2 DEF IInv, Host
<1>4. UNCHANGED <<tip, tag, last, proven>> /\ containers' \subseteq Runs \X Services /\ rough' \subseteq Roughness
  BY DEF SmokeClean, IInv, Host, Store, Cause, Roughness
<1>5. Known'
  BY <1>4 DEF IInv, Known
<1>6. CASE o.ok
  <2>1. PruneAndOpen(r) /\ config' = c /\ Become(r, m) /\ UNCHANGED <<clones, env>>
    BY <1>6 DEF SmokeClean
  <2>2. m \in RunType /\ m.pc = "export" /\ Keeps(m, o)
    BY <1>1, MoveFacts
  <2> HIDE DEF m, c
  <2>3. Placed(r, m, tag, proven, tip)
    BY <1>1, <1>6, <2>2 DEF Placed, Keeps, Working, Trying
  <2>4. Host' /\ Store' /\ staged' \subseteq staged
    BY <1>3, <1>4, <2>1 DEF IInv, Host, Store, PruneAndOpen
  <2> QED BY <1>4, <1>5, <2>1, <2>2, <2>3, <2>4, RunStep
<1>7. CASE ~o.ok
  <2>1. run[r].pc \in Working /\ Become(r, [run[r] EXCEPT !.pc = "failed"])
        /\ DisposeClone(r, EnvDisposed(r), c) /\ UNCHANGED <<tmp, staged, old>>
    BY <1>1, <1>7 DEF SmokeClean, Fail, Working, store
  <2> HIDE DEF c
  <2>2. Store'
    BY <1>4, <2>1 DEF IInv, Store
  <2> QED BY <1>2, <1>3, <1>4, <2>1, <2>2, FailStep
<1> QED BY <1>6, <1>7
(* What an export that docker save ended well leads to: the artifact a.    *)
After(o, a, known) ==
    LET n == [o EXCEPT !.images = @ \cup {a}, !.made = IF known THEN @ ELSE @ \cup {a}]
    IN  IF o.i < NServices THEN [n EXCEPT !.pc = "spec", !.i = @ + 1, !.img = None]
        ELSE [n EXCEPT !.pc = "dispatch"]

LEMMA AfterFacts ==
    ASSUME NEW o \in RunType, o.i \in Services, NEW a \in Artifacts, NEW known \in BOOLEAN
    PROVE  LET m == After(o, a, known)
           IN  /\ m \in RunType /\ m.dir = o.dir /\ m.src = o.src /\ m.from = o.from
               /\ m.images = o.images \cup {a}
               /\ (~known => m.made = o.made \cup {a})
               /\ m.pc = (IF o.i < NServices THEN "spec" ELSE "dispatch")
               /\ m.i = (IF o.i < NServices THEN o.i + 1 ELSE o.i)
<1> DEFINE made == IF known THEN o.made ELSE o.made \cup {a}
           n == [o EXCEPT !.images = o.images \cup {a}, !.made = made]
<1>1. made \in SUBSET Artifacts /\ o.images \cup {a} \in SUBSET Artifacts
  BY DEF RunType
<1>2. o.i < NServices => o.i + 1 \in 0..NServices
  BY CountAssumption DEF Services
<1>3. After(o, a, known) = IF o.i < NServices THEN [n EXCEPT !.pc = "spec", !.i = n.i + 1, !.img = None]
                           ELSE [n EXCEPT !.pc = "dispatch"]
  BY DEF After
<1> HIDE DEF made
<1>4. /\ n \in RunType /\ n.i = o.i /\ n.dir = o.dir /\ n.src = o.src /\ n.from = o.from
      /\ n.images = o.images \cup {a} /\ n.made = made
  BY <1>1 DEF RunType
<1> HIDE DEF n
<1>5. CASE o.i < NServices
  <2> DEFINE x == [n EXCEPT !.pc = "spec", !.i = n.i + 1, !.img = None]
  <2>1. /\ x \in RunType /\ x.dir = n.dir /\ x.src = n.src /\ x.from = n.from /\ x.images = n.images
        /\ x.made = n.made /\ x.pc = "spec" /\ x.i = n.i + 1
    BY <1>2, <1>4, <1>5 DEF RunType
  <2> QED BY <1>3, <1>4, <1>5, <2>1 DEF made
<1>6. CASE ~(o.i < NServices)
  <2> DEFINE x == [n EXCEPT !.pc = "dispatch"]
  <2>1. x \in RunType /\ x.pc = "dispatch" /\ Keeps(x, n)
    BY <1>4, MoveFacts
  <2> QED BY <1>3, <1>4, <1>6, <2>1 DEF made, Keeps
<1> QED BY <1>5, <1>6

LEMMA ExportDoes ==
    ASSUME IInv, NEW r \in Runs, Export(r)
    PROVE  LET a == Artifact(run[r].img, FALSE)
           IN  /\ a \in Artifacts /\ a.img = run[r].img /\ ~a.cut
               /\ run[r].i \in Services /\ run[r].dir \in Places
               /\ Become(r, After(run[r], a, a \in staged))
               /\ tmp' = tmp \ {r} /\ staged' = staged \cup {a} /\ old' = old \ {r}
               /\ env' = EnvDisposed(r) /\ last' \subseteq last \cup run[r].images \cup {a}
               /\ rough' = IF a \in staged THEN rough \cup {"kept"} ELSE rough
               /\ UNCHANGED <<tip, tag, clones, config, containers, proven>>
<1> DEFINE a == Artifact(run[r].img, FALSE)
           n == [run[r] EXCEPT !.images = @ \cup {a}, !.made = IF a \in staged THEN @ ELSE @ \cup {a}]
<1>1. run[r] \in RunType /\ run[r].pc = "export" /\ run[r].img \in Images
  BY DEF IInv, Export, Placed
<1>2. run[r].i \in Services /\ run[r].dir \in Places
  BY <1>1, StagedPlace DEF Working
<1>3. a \in Artifacts /\ a.img = run[r].img /\ ~a.cut
  BY <1>1 DEF Artifact, Artifacts
<1>4. Exported(r, FALSE)
  <2>1. PICK cut \in BOOLEAN, code \in {0, 1} : (code = 0 => ~cut) /\ Trusted(code) /\ Exported(r, cut)
    BY DEF Export
  <2>2. cut = FALSE
    BY <2>1 DEF Trusted
  <2> QED BY <2>1, <2>2
<1>5. Become(r, After(run[r], a, a \in staged))
  BY <1>4 DEF Exported, After
<1>6. n.images = run[r].images \cup {a}
  BY <1>1 DEF RunType
<1>7. last' = last \/ last' = n.images
  BY <1>4 DEF Exported
<1> QED BY <1>2, <1>3, <1>4, <1>5, <1>6, <1>7 DEF Exported

LEMMA ExportStep == ASSUME IInv, NEW r \in Runs, Export(r) PROVE IInv'
<1> DEFINE o == run[r]
           a == Artifact(o.img, FALSE)
           known == a \in staged
           m == After(o, a, known)
<1>1. o \in RunType /\ o.pc = "export" /\ Placed(r, o, tag, proven, tip)
  BY DEF IInv, Export
<1>2. /\ a \in Artifacts /\ a.img = o.img /\ ~a.cut /\ o.i \in Services /\ o.dir \in Places
      /\ Become(r, m) /\ tmp' = tmp \ {r} /\ staged' = staged \cup {a} /\ old' = old \ {r}
      /\ env' = EnvDisposed(r) /\ last' \subseteq last \cup run[r].images \cup {a}
      /\ rough' = (IF known THEN rough \cup {"kept"} ELSE rough)
      /\ UNCHANGED <<tip, tag, clones, config, containers, proven>>
  BY ExportDoes
<1>3. known \in BOOLEAN
  OBVIOUS
<1> HIDE DEF known, a
<1>4. /\ m \in RunType /\ m.dir = o.dir /\ m.src = o.src /\ m.from = o.from
      /\ m.pc = (IF o.i < NServices THEN "spec" ELSE "dispatch")
      /\ m.i = (IF o.i < NServices THEN o.i + 1 ELSE o.i)
  BY <1>1, <1>2, <1>3, AfterFacts
<1> HIDE DEF m
<1>5. m.i \in Services
  BY <1>2, <1>4, CountAssumption DEF Services
<1>6. Placed(r, m, tag, proven, tip)
  BY <1>1, <1>4, <1>5 DEF Placed, Working, Trying
<1>7. Proven(a, proven)
  BY <1>1, <1>2 DEF Placed, Proven
<1>8. Host'
  BY <1>1, <1>2, StagedPlace DEF IInv, Host, Working
<1>9. Store'
  BY <1>1, <1>2 DEF IInv, Store, Roughness, RunType
<1>10. Known'
  BY <1>2 DEF IInv, Known
<1> QED BY <1>2, <1>4, <1>6, <1>7, <1>8, <1>9, <1>10, RunStep

LEMMA ResendFacts ==
    ASSUME NEW left \in SUBSET Artifacts
    PROVE  LET m == [Fresh EXCEPT !.pc = "dispatch", !.images = left]
           IN  /\ m \in RunType /\ m.pc = "dispatch" /\ m.images = left /\ m.dir = None
               /\ \A j \in Services : m.from[j] = 0
BY FreshFacts DEF RunType

LEMMA ResendStep == ASSUME IInv, NEW r \in Runs, Resend(r) PROVE IInv'
<1> DEFINE left == {a \in last : a \in staged}
           m == [Fresh EXCEPT !.pc = "dispatch", !.images = left]
<1>1. left \in SUBSET Artifacts
  BY DEF IInv, Store
<1>2. /\ m \in RunType /\ m.pc = "dispatch" /\ m.dir = None
      /\ \A j \in Services : m.from[j] = 0
  BY <1>1, ResendFacts
<1>3. Become(r, m) /\ UNCHANGED <<tip, tag, clones, env, config, containers, tmp, staged, old, proven>>
  BY DEF Resend, files, store
<1> HIDE DEF m
<1>4. tip \in [Services -> 0..MaxCommit]
  BY DEF IInv, Known
<1>5. Placed(r, m, tag, proven, tip)
  BY <1>2, <1>4, RunsAssumption, CountAssumption DEF Placed, Working, Trying
<1>6. Host' /\ Known'
  BY <1>3 DEF IInv, Host, Known
<1>7. Store'
  BY <1>3 DEF Resend, IInv, Store, Overlaps, Roughness
<1> QED BY <1>2, <1>3, <1>5, <1>6, <1>7, RunStep

LEMMA PushStep == ASSUME IInv, NEW i \in Services, Push(i) PROVE IInv'
<1>1. tip \in [Services -> 0..MaxCommit] /\ tip[i] < MaxCommit /\ tip' = [tip EXCEPT ![i] = tip[i] + 1]
  BY DEF IInv, Known, Push
<1>2. tip' \in [Services -> 0..MaxCommit] /\ \A j \in Services : tip[j] <= tip'[j]
  BY <1>1, CountAssumption
<1>3. UNCHANGED <<tag, run, clones, env, config, containers, tmp, staged, old, last, proven, rough>>
  BY DEF Push, files, store
<1>4. Host' /\ Store' /\ Known'
  BY <1>2, <1>3 DEF IInv, Host, Store, Known
<1>5. \A r \in Runs : Placed(r, run[r], tag, proven, tip')
  <2> TAKE r \in Runs
  <2>1. Placed(r, run[r], tag, proven, tip) /\ run[r].from \in [Services -> 0..MaxCommit]
    BY DEF IInv, RunType
  <2> QED BY <1>1, <1>2, <2>1, CountAssumption DEF Placed
<1> QED BY <1>3, <1>4, <1>5 DEF IInv

LEMMA AgeStep == ASSUME IInv, Age PROVE IInv'
<1>1. UNCHANGED <<tip, tag, run, clones, env, config, containers, tmp, staged, last, proven, rough>>
  BY DEF Age, files
<1>2. Host' /\ Store' /\ Known'
  BY <1>1 DEF Age, IInv, Host, Store, Known
<1> QED BY <1>1, <1>2 DEF IInv

LEMMA CrashFacts ==
    ASSUME IInv, Crash
    PROVE  /\ run' \in [Runs -> RunType]
           /\ \A r \in Runs : Keeps(run'[r], run[r]) /\ run'[r].pc \in Over
           /\ UNCHANGED <<tip, tag, clones, env, config, containers, tmp, staged, old, last, proven>>
           /\ rough' = rough \cup {"crash"}
<1> DEFINE m(r) == IF Active(r) THEN [run[r] EXCEPT !.pc = "dead"] ELSE run[r]
<1>1. \A r \in Runs : m(r) \in RunType /\ Keeps(m(r), run[r]) /\ m(r).pc \in Over
  <2> TAKE r \in Runs
  <2>1. run[r] \in RunType
    BY DEF IInv
  <2>2. CASE Active(r)
    BY <2>1, <2>2, MoveFacts DEF Over
  <2>3. CASE ~Active(r)
    BY <2>1, <2>3 DEF Active, Keeps
  <2> QED BY <2>2, <2>3
<1>2. run' = [r \in Runs |-> m(r)]
  BY DEF Crash
<1> HIDE DEF m
<1>3. UNCHANGED <<tip, tag, clones, env, config, containers, tmp, staged, old, last, proven>>
      /\ rough' = rough \cup {"crash"}
  BY DEF Crash, files, store, Cause
<1> QED BY <1>1, <1>2, <1>3

LEMMA CrashStep == ASSUME IInv, Crash PROVE IInv'
<1>1. Host' /\ Store' /\ Known'
  BY CrashFacts DEF IInv, Host, Store, Known, Roughness
<1>2. \A r \in Runs : Placed(r, run'[r], tag, proven, tip)
  <2> TAKE r \in Runs
  <2>1. Keeps(run'[r], run[r]) /\ run'[r].pc \notin Working /\ Placed(r, run[r], tag, proven, tip)
    BY CrashFacts DEF IInv, Over, Working
  <2> QED BY <2>1, PlacedOver
<1> QED BY <1>1, <1>2, CrashFacts DEF IInv

LEMMA IInvInit == Init => IInv
<1> SUFFICES ASSUME Init PROVE IInv
  OBVIOUS
<1>1. Host /\ Store
  BY DEF Init, Host, Store, Places
<1>2. Known
  <2>1. tip \in [Services -> 0..MaxCommit] /\ tag \in [Services -> Images \cup {None}] /\ proven \subseteq Images
    BY CountAssumption DEF Init
  <2>2. \A i \in Services : tag[i] = None
    BY DEF Init
  <2>3. \A i \in Services : tag[i] \notin Images
    BY <2>2, NoneAssumption
  <2> QED BY <2>1, <2>3 DEF Known
<1>3. run \in [Runs -> RunType] /\ \A r \in Runs : run[r] = Fresh
  BY FreshFacts DEF Init
<1>4. \A r \in Runs : Placed(r, run[r], tag, proven, tip)
  BY <1>3, FreshFacts, RunsAssumption, CountAssumption DEF Init, Placed, Working, Trying
<1>5. staged = {}
  BY DEF Init
<1> QED BY <1>1, <1>2, <1>3, <1>4, <1>5 DEF IInv

LEMMA IInvStep == IInv /\ [Next]_vars => IInv'
<1> SUFFICES ASSUME IInv, [Next]_vars PROVE IInv'
  OBVIOUS
<1>1. ASSUME NEW r \in Runs, Step(r) PROVE IInv'
  BY <1>1, BeginStep, CheckoutStep, StageStep, BuildStep, BuildFailsStep, InspectStep,
     SmokeStartStep, StartFailsStep, ProbeStep, SmokeCleanStep, ExportStep, ExportFailsStep,
     ResendStep, FinishStep DEF Step
<1>2. CASE UNCHANGED vars
  BY <1>2 DEF vars, files, store, IInv, Host, Store, Known
<1> QED BY <1>1, <1>2, AgeStep, CrashStep, PushStep DEF Next

LEMMA IInvAlways == Spec => []IInv
BY IInvInit, IInvStep, PTL DEF Spec

(* Every variable of the image builds keeps its type: a run never steps    *)
(* beyond the last service, and works in its clone or in the tree.         *)
THEOREM TypeCorrect == Spec => []TypeOK
<1>1. IInv => TypeOK
  BY DEF IInv, Host, Store, Known, TypeOK, RunType, Places
<1> QED BY <1>1, IInvAlways, PTL

(* Whatever overlaps, fails or dies, what a replica can download is a      *)
(* whole export of an image that answered its smoke test, if its service   *)
(* has one.                                                                *)
THEOREM OfferedAreProven == Spec => []OfferedIsProven
<1>1. IInv => OfferedIsProven
  BY DEF IInv, OfferedIsProven, Proven
<1> QED BY <1>1, IInvAlways, PTL
-----------------------------------------------------------------------------
(* What is ordered can be delivered.                                       *)

Smooth == rough \cap {"overlap", "kept", "partial"} = {}
OneRun == \A q, r \in Runs : Active(q) /\ Active(r) => q = r

Current(m, img) == img.commit >= m.from[img.svc]

(* One image of every service before the one a run is at, all current, on  *)
(* disk and, while it builds, made by itself, so that pruning spares them. *)
Gathered(m, tags, there, aged) ==
    /\ m.pc = "inspect" => Current(m, tags[m.i])
    /\ m.pc \in Trying \cup {"export"} => Current(m, m.img)
    /\ m.pc \notin Over => m.images \subseteq there /\ \A a \in m.images : Current(m, a.img)
    /\ m.pc = "clone" => m.images = {}
    /\ m.pc \in Working \ {"clone"} => ServicesOf(m.images) = 1..(m.i - 1)
    /\ m.pc \in Working => m.images \subseteq m.made /\ m.made \cap aged = {}
    /\ m.pc = "dispatch" => ServicesOf(m.images) = Services

DInv == IInv /\ (Smooth => OneRun /\ \A r \in Runs : Gathered(run[r], tag, staged, old))

LEMMA GatheredOver ==
    ASSUME NEW m, m.pc \in Over, NEW tags, NEW there, NEW aged
    PROVE  Gathered(m, tags, there, aged)
BY DEF Gathered, Over, Working, Trying

LEMMA OthersOver ==
    ASSUME DInv, Smooth, NEW r \in Runs, Active(r)
    PROVE  \A q \in Runs : q # r => run[q].pc \in Over
BY DEF DInv, OneRun, Active

(* A step of the only run that is under way. *)
LEMMA GatheringStep ==
    ASSUME DInv, IInv', NEW r \in Runs, NEW m \in RunType, Become(r, m),
           Smooth' => \A q \in Runs : q # r => run[q].pc \in Over,
           Smooth' => Gathered(m, tag', staged', old')
    PROVE  DInv'
<1> SUFFICES ASSUME Smooth' PROVE OneRun' /\ \A q \in Runs : Gathered(run'[q], tag', staged', old')
  BY DEF DInv
<1>1. run'[r] = m /\ \A q \in Runs : q # r => run'[q] = run[q]
  BY BecomeFacts DEF DInv, IInv
<1>2. OneRun'
  BY <1>1 DEF OneRun, Active
<1>3. \A q \in Runs : q # r => Gathered(run'[q], tag', staged', old')
  BY <1>1, GatheredOver
<1> QED BY <1>1, <1>2, <1>3

(* A step that leaves what has been gathered, and where, as it was. *)
LEMMA SameGathered ==
    ASSUME NEW o, NEW m, NEW tags, NEW there, NEW aged, Gathered(o, tags, there, aged),
           NEW there2, NEW aged2, o.pc \in Working, m.pc \in Working \ {"clone"},
           m.i = o.i, m.images = o.images, m.made = o.made, m.from = o.from,
           o.pc # "clone",
           m.pc = "inspect" => FALSE,
           m.pc \in Trying \cup {"export"} => Current(m, m.img),
           m.images \subseteq there2, m.made \cap aged2 = {}
    PROVE  Gathered(m, tags, there2, aged2)
BY DEF Gathered, Over, Working, Current

LEMMA GatheredNow ==
    ASSUME DInv, Smooth, NEW r \in Runs, run[r].pc \in Working
    PROVE  /\ Gathered(run[r], tag, staged, old)
           /\ \A q \in Runs : q # r => run[q].pc \in Over
<1>1. Active(r)
  BY DEF Active, Working, Over
<1> QED BY <1>1, OthersOver DEF DInv

LEMMA BeginGathers == ASSUME DInv, IInv', NEW r \in Runs, Begin(r) PROVE DInv'
<1> DEFINE a == [Fresh EXCEPT !.pc = "clone", !.i = 1, !.dir = r, !.from = tip]
           b == [Fresh EXCEPT !.pc = "spec", !.i = 1, !.dir = Tree]
<1>1. 1 \in 0..NServices /\ tip \in [Services -> 0..MaxCommit]
  BY CountAssumption DEF DInv, IInv, Known
<1>2. a \in RunType /\ a.pc = "clone" /\ a.i = 1 /\ a.images = {} /\ a.made = {}
  BY <1>1, FreshFacts DEF RunType
<1>3. b \in RunType /\ b.pc = "spec" /\ b.i = 1 /\ b.images = {} /\ b.made = {}
  BY <1>1, FreshFacts DEF RunType
<1>4. PICK m \in {a, b} : Become(r, m)
  BY DEF Begin
<1>5. m \in RunType /\ m.pc \in {"clone", "spec"} /\ m.i = 1 /\ m.images = {} /\ m.made = {}
  BY <1>2, <1>3
<1> HIDE DEF a, b
<1>6. ServicesOf(m.images) = 1..(m.i - 1)
  BY <1>5 DEF ServicesOf
<1>7. Gathered(m, tag', staged', old')
  BY <1>5, <1>6 DEF Gathered, Trying
<1>8. Smooth' => \A q \in Runs : q # r => run[q].pc \in Over
  BY DEF Begin, Smooth, Overlaps, Active
<1> QED BY <1>4, <1>5, <1>7, <1>8, GatheringStep

LEMMA CheckoutGathers == ASSUME DInv, IInv', NEW r \in Runs, CheckoutSubmodule(r) PROVE DInv'
<1> DEFINE o == run[r]
           a == [o EXCEPT !.src[o.i] = tip[o.i]]
           n == IF a.i < NServices THEN [a EXCEPT !.i = a.i + 1] ELSE [a EXCEPT !.pc = "spec", !.i = 1]
<1>1. o \in RunType /\ o.pc = "clone" /\ o.i \in Services /\ tip \in [Services -> 0..MaxCommit]
  BY DEF DInv, IInv, CheckoutSubmodule, Placed, Working, Known
<1>2. a \in RunType /\ a.pc = "clone" /\ a.i = o.i /\ a.images = o.images /\ a.made = o.made
  BY <1>1 DEF RunType
<1> HIDE DEF a
<1>3. /\ n \in RunType /\ n.images = o.images /\ n.made = o.made
      /\ (n.pc = "clone" \/ (n.pc = "spec" /\ n.i = 1))
  <2>1. 1 \in 0..NServices /\ (o.i < NServices => o.i + 1 \in 0..NServices)
    BY <1>1, CountAssumption DEF Services
  <2>2. CASE o.i < NServices
    BY <1>1, <1>2, <2>1, <2>2 DEF RunType
  <2>3. CASE ~(o.i < NServices)
    BY <1>1, <1>2, <2>1, <2>3 DEF RunType
  <2> QED BY <2>2, <2>3
<1>4. Become(r, n) /\ UNCHANGED <<tag, staged, old, rough>>
  BY DEF CheckoutSubmodule, a, store
<1> HIDE DEF n
<1>5. ASSUME Smooth' PROVE Gathered(n, tag', staged', old') /\ \A q \in Runs : q # r => run[q].pc \in Over
  <2>1. Smooth
    BY <1>4, <1>5 DEF Smooth
  <2>2. o.images = {} /\ o.made \cap old = {} /\ \A q \in Runs : q # r => run[q].pc \in Over
    BY <1>1, <2>1, GatheredNow DEF Gathered, Working
  <2>3. n.pc = "spec" => ServicesOf(n.images) = 1..(n.i - 1)
    BY <1>3, <2>2 DEF ServicesOf
  <2>4. Gathered(n, tag', staged', old')
    BY <1>3, <1>4, <2>2, <2>3 DEF Gathered, Trying, Working
  <2> QED BY <2>2, <2>4
<1> QED BY <1>3, <1>4, <1>5, GatheringStep

LEMMA StageGathers == ASSUME DInv, IInv', NEW r \in Runs, StageEnvFile(r) PROVE DInv'
<1> DEFINE o == run[r]
           b == <<o.dir, o.i>> \in env
           m == [o EXCEPT !.pc = "build", !.prev = b]
<1>1. o \in RunType /\ o.pc = "spec"
  BY DEF DInv, IInv, StageEnvFile
<1>2. m \in RunType /\ m.pc = "build" /\ m.i = o.i /\ m.from = o.from /\ m.images = o.images /\ m.made = o.made
  <2>1. b \in BOOLEAN
    OBVIOUS
  <2> HIDE DEF b
  <2> QED BY <1>1, <2>1 DEF RunType
<1>3. Become(r, m) /\ UNCHANGED <<tag, staged, old, rough>>
  BY DEF StageEnvFile, store
<1> HIDE DEF m
<1>4. ASSUME Smooth' PROVE Gathered(m, tag', staged', old') /\ \A q \in Runs : q # r => run[q].pc \in Over
  <2>1. Smooth
    BY <1>3, <1>4 DEF Smooth
  <2>2. Gathered(o, tag, staged, old) /\ \A q \in Runs : q # r => run[q].pc \in Over
    BY <1>1, <2>1, GatheredNow DEF Working
  <2> QED BY <1>1, <1>2, <1>3, <2>2 DEF Gathered, Trying, Working, Over, Current
<1> QED BY <1>2, <1>3, <1>4, GatheringStep

LEMMA BuildGathers == ASSUME DInv, IInv', NEW r \in Runs, Build(r) PROVE DInv'
<1> DEFINE o == run[r]
           m == [o EXCEPT !.pc = "inspect"]
<1>1. /\ o \in RunType /\ o.pc = "build" /\ Placed(r, o, tag, proven, tip) /\ o.i \in Services
      /\ tip \in [Services -> 0..MaxCommit] /\ tag \in [Services -> Images \cup {None}]
      /\ o.from \in [Services -> 0..MaxCommit] /\ o.src \in [Services -> 0..MaxCommit]
  BY DEF DInv, IInv, Build, Known, Placed, Working, RunType
<1>2. m \in RunType /\ m.pc = "inspect" /\ Keeps(m, o)
  BY <1>1, MoveFacts
<1>3. PICK c \in (IF o.dir = r THEN {o.src[o.i]} ELSE 0..tip[o.i]) :
         tag' = [tag EXCEPT ![o.i] = Image(o.i, c)]
  BY DEF Build
<1>4. c >= o.from[o.i]
  <2>1. CASE o.dir = r
    BY <1>1, <1>3, <2>1 DEF Placed, Working
  <2>2. CASE o.dir # r
    BY <1>1, <1>3, <2>2 DEF Placed, Working
  <2> QED BY <2>1, <2>2
<1>5. tag'[o.i] = Image(o.i, c) /\ Image(o.i, c).svc = o.i /\ Image(o.i, c).commit = c
  BY <1>1, <1>3 DEF Image
<1>6. Become(r, m) /\ UNCHANGED <<staged, old, rough>>
  BY DEF Build, store
<1> HIDE DEF m
<1>7. Current(m, tag'[m.i])
  BY <1>2, <1>4, <1>5 DEF Current, Keeps
<1>8. ASSUME Smooth' PROVE Gathered(m, tag', staged', old') /\ \A q \in Runs : q # r => run[q].pc \in Over
  <2>1. Smooth
    BY <1>6, <1>8 DEF Smooth
  <2>2. Gathered(o, tag, staged, old) /\ \A q \in Runs : q # r => run[q].pc \in Over
    BY <1>1, <2>1, GatheredNow DEF Working
  <2> QED BY <1>1, <1>2, <1>6, <1>7, <2>2 DEF Gathered, Trying, Working, Over, Current, Keeps
<1> QED BY <1>2, <1>6, <1>8, GatheringStep

(* A run that ends gathers nothing any more. *)
LEMMA EndGathers ==
    ASSUME DInv, IInv', NEW r \in Runs, Active(r), rough \subseteq rough',
           NEW p \in {"failed", "done"}, Become(r, [run[r] EXCEPT !.pc = p])
    PROVE  DInv'
<1> DEFINE m == [run[r] EXCEPT !.pc = p]
<1>1. m \in RunType /\ m.pc = p
  BY MoveFacts DEF DInv, IInv, Over
<1> HIDE DEF m
<1>2. Gathered(m, tag', staged', old')
  BY <1>1, GatheredOver DEF Over
<1>3. Smooth' => \A q \in Runs : q # r => run[q].pc \in Over
  BY OthersOver DEF Smooth
<1> QED BY <1>1, <1>2, <1>3, GatheringStep DEF m

(* An image is tried out, or exported: pruning spares what the run made. *)
LEMMA TryGathers ==
    ASSUME DInv, IInv', NEW r \in Runs, run[r].pc \in Working \ {"clone"}, NEW m \in RunType,
           Become(r, m), m.pc \in Trying \cup {"export"}, tag' = tag, rough \subseteq rough',
           m.i = run[r].i, m.images = run[r].images, m.made = run[r].made, m.from = run[r].from,
           \/ run[r].pc \in Trying /\ m.img = run[r].img
           \/ run[r].pc = "inspect" /\ m.img = tag[run[r].i],
           UNCHANGED <<staged, old>> \/ PruneAndOpen(r)
    PROVE  DInv'
<1>1. ASSUME Smooth' PROVE Gathered(m, tag', staged', old') /\ \A q \in Runs : q # r => run[q].pc \in Over
  <2>1. Smooth
    BY <1>1 DEF Smooth
  <2>2. Gathered(run[r], tag, staged, old) /\ \A q \in Runs : q # r => run[q].pc \in Over
    BY <2>1, GatheredNow
  <2>3. Current(m, m.img)
    BY <2>2 DEF Gathered, Current
  <2>4. m.images \subseteq staged' /\ m.made \cap old' = {}
    BY <2>2 DEF Gathered, PruneAndOpen, Working, Over
  <2>5. m.pc # "inspect" /\ m.pc \in Working \ {"clone"}
    BY DEF Trying, Working
  <2> QED BY <2>2, <2>3, <2>4, <2>5, SameGathered
<1> QED BY <1>1, GatheringStep
LEMMA InspectGathers == ASSUME DInv, IInv', NEW r \in Runs, Inspect(r) PROVE DInv'
<1> DEFINE o == run[r]
           t == tag[o.i]
           starts == [o EXCEPT !.img = tag[o.i], !.pc = "start"]
           exports == [o EXCEPT !.img = tag[o.i], !.pc = "export"]
<1>1. o \in RunType /\ o.pc = "inspect" /\ t \in Images
  BY DEF DInv, IInv, Inspect, Placed
<1>2. /\ starts \in RunType /\ starts.pc = "start" /\ starts.img = t /\ starts.i = o.i
      /\ starts.images = o.images /\ starts.made = o.made /\ starts.from = o.from
  BY <1>1, LookedUp
<1>3. /\ exports \in RunType /\ exports.pc = "export" /\ exports.img = t /\ exports.i = o.i
      /\ exports.images = o.images /\ exports.made = o.made /\ exports.from = o.from
  BY <1>1, LookedUp
<1>4. tag' = tag /\ rough' = rough
  BY DEF Inspect
<1> HIDE DEF starts, exports
<1>5. CASE Become(r, starts) /\ UNCHANGED <<tmp, staged, old>>
  BY <1>1, <1>2, <1>4, <1>5, TryGathers DEF Working, Trying
<1>6. CASE Fail(r, config)
  <2>1. Active(r) /\ Become(r, [run[r] EXCEPT !.pc = "failed"])
    BY <1>1, <1>6 DEF Active, Over, Fail
  <2> QED BY <1>4, <2>1, EndGathers
<1>7. CASE Become(r, exports) /\ PruneAndOpen(r)
  BY <1>1, <1>3, <1>4, <1>7, TryGathers DEF Working, Trying
<1>8. \/ Become(r, starts) /\ UNCHANGED <<tmp, staged, old>>
      \/ Fail(r, config)
      \/ Become(r, exports) /\ PruneAndOpen(r)
  BY InspectDoes DEF DInv, starts, exports
<1> QED BY <1>5, <1>6, <1>7, <1>8

LEMMA SmokeStartGathers == ASSUME DInv, IInv', NEW r \in Runs, SmokeStart(r) PROVE DInv'
<1> DEFINE o == run[r]
           b == config[o.dir][o.i] = "file"
           m == [o EXCEPT !.pc = "probe", !.ok = b]
<1>1. o \in RunType /\ o.pc = "start"
  BY DEF DInv, IInv, SmokeStart
<1>2. m \in RunType /\ m.pc = "probe" /\ m.img = o.img /\ m.i = o.i /\ m.images = o.images
      /\ m.made = o.made /\ m.from = o.from
  <2>1. b \in BOOLEAN
    OBVIOUS
  <2> HIDE DEF b
  <2> QED BY <1>1, <2>1, OkFacts
<1>3. Become(r, m) /\ UNCHANGED <<tag, staged, old, rough>>
  BY DEF SmokeStart, store
<1> HIDE DEF m
<1> QED BY <1>1, <1>2, <1>3, TryGathers DEF Working, Trying

LEMMA ProbeGathers == ASSUME DInv, IInv', NEW r \in Runs, Probe(r) PROVE DInv'
<1> DEFINE o == run[r]
           m(b) == [o EXCEPT !.pc = "remove", !.ok = b]
<1>1. o \in RunType /\ o.pc = "probe"
  BY DEF DInv, IInv, Probe
<1>2. PICK b \in BOOLEAN : Become(r, m(b))
  BY DEF Probe
<1>3. m(b) \in RunType /\ m(b).pc = "remove" /\ m(b).img = o.img /\ m(b).i = o.i
      /\ m(b).images = o.images /\ m(b).made = o.made /\ m(b).from = o.from
  BY <1>1, OkFacts
<1>4. UNCHANGED <<tag, staged, old, rough>>
  BY DEF Probe, store
<1> HIDE DEF m
<1> QED BY <1>1, <1>2, <1>3, <1>4, TryGathers DEF Working, Trying

LEMMA SmokeCleanGathers == ASSUME DInv, IInv', NEW r \in Runs, SmokeClean(r) PROVE DInv'
<1> DEFINE o == run[r]
           m == [o EXCEPT !.pc = "export"]
<1>1. o \in RunType /\ o.pc = "remove" /\ tag' = tag /\ rough \subseteq rough'
  BY DEF DInv, IInv, SmokeClean, Cause
<1>2. CASE o.ok
  <2>1. PruneAndOpen(r) /\ Become(r, m)
    BY <1>2 DEF SmokeClean
  <2>2. m \in RunType /\ m.pc = "export" /\ Keeps(m, o)
    BY <1>1, MoveFacts
  <2> HIDE DEF m
  <2> QED BY <1>1, <2>1, <2>2, TryGathers DEF Working, Trying, Keeps
<1>3. CASE ~o.ok
  <2>1. Active(r) /\ Become(r, [run[r] EXCEPT !.pc = "failed"])
    BY <1>1, <1>3 DEF Active, Over, SmokeClean, Fail
  <2> QED BY <1>1, <2>1, EndGathers
<1> QED BY <1>2, <1>3

(* The steps that end a run. *)
LEMMA EndsGather ==
    ASSUME DInv, IInv', NEW r \in Runs,
           BuildFails(r) \/ SmokeStartFails(r) \/ ExportFails(r) \/ Finish(r)
    PROVE  DInv'
<1>1. Active(r)
  BY DEF Active, Over, BuildFails, SmokeStartFails, ExportFails, Finish
<1>2. rough \subseteq rough'
  BY DEF BuildFails, SmokeStartFails, ExportFails, Finish, Cause
<1>3. PICK p \in {"failed", "done"} : Become(r, [run[r] EXCEPT !.pc = p])
  BY DEF BuildFails, SmokeStartFails, ExportFails, Finish, Fail
<1> QED BY <1>1, <1>2, <1>3, EndGathers

(* One more image, of the service the run is at. *)
LEMMA OneMore ==
    ASSUME NEW images \in SUBSET Artifacts, NEW a \in Artifacts, NEW i \in Services,
           a.img.svc = i, ServicesOf(images) = 1..(i - 1)
    PROVE  ServicesOf(images \cup {a}) = 1..i
<1>1. ServicesOf(images \cup {a}) = ServicesOf(images) \cup {a.img.svc}
  BY DEF ServicesOf
<1>2. (1..(i - 1)) \cup {i} = 1..i
  BY DEF Services
<1> QED BY <1>1, <1>2

LEMMA ExportGathers == ASSUME DInv, IInv', NEW r \in Runs, Export(r) PROVE DInv'
<1> DEFINE o == run[r]
           a == Artifact(o.img, FALSE)
           known == a \in staged
           m == After(o, a, known)
<1>1. o \in RunType /\ o.pc = "export" /\ o.img \in Images /\ o.img.svc = o.i
  BY DEF DInv, IInv, Export, Placed
<1>2. /\ a \in Artifacts /\ a.img = o.img /\ o.i \in Services
      /\ Become(r, m) /\ staged' = staged \cup {a} /\ old' = old \ {r}
      /\ rough' = (IF known THEN rough \cup {"kept"} ELSE rough)
  BY ExportDoes DEF DInv
<1>3. known \in BOOLEAN
  OBVIOUS
<1>4. ~known => a \notin staged
  OBVIOUS
<1> HIDE DEF known, a
<1>5. /\ m \in RunType /\ m.from = o.from /\ m.images = o.images \cup {a}
      /\ (~known => m.made = o.made \cup {a})
      /\ m.pc = (IF o.i < NServices THEN "spec" ELSE "dispatch")
      /\ m.i = (IF o.i < NServices THEN o.i + 1 ELSE o.i)
  <2> HIDE DEF o
  <2> QED BY <1>1, <1>2, <1>3, AfterFacts
<1> HIDE DEF m
<1>6. ASSUME Smooth' PROVE Gathered(m, tag', staged', old') /\ \A q \in Runs : q # r => run[q].pc \in Over
  <2>1. Smooth /\ ~known
    BY <1>2, <1>3, <1>6 DEF Smooth
  <2>2. Gathered(o, tag, staged, old) /\ \A q \in Runs : q # r => run[q].pc \in Over
    BY <1>1, <2>1, GatheredNow DEF Working
  <2>3. /\ o.images \subseteq staged /\ (\A x \in o.images : Current(o, x.img)) /\ Current(o, o.img)
        /\ ServicesOf(o.images) = 1..(o.i - 1) /\ o.images \subseteq o.made /\ o.made \cap old = {}
    BY <1>1, <2>2 DEF Gathered, Working, Over, Trying
  <2>4. a \notin old
    BY <1>2, <1>4, <2>1, RunsAssumption DEF DInv, IInv, Store
  <2>5. ServicesOf(m.images) = 1..o.i
    <3>1. o.images \in SUBSET Artifacts /\ a.img.svc = o.i
      BY <1>1, <1>2 DEF RunType
    <3>2. ServicesOf(o.images \cup {a}) = 1..o.i
      BY <1>2, <2>3, <3>1, OneMore
    <3> QED BY <1>5, <3>2
  <2>6. m.images \subseteq staged' /\ m.images \subseteq m.made /\ m.made \cap old' = {}
    BY <1>2, <1>5, <2>1, <2>3, <2>4
  <2>7. \A x \in m.images : Current(m, x.img)
    BY <1>2, <1>5, <2>3 DEF Current
  <2>8. CASE o.i < NServices
    <3>1. m.pc = "spec" /\ m.i - 1 = o.i
      BY <1>2, <1>5, <2>8 DEF Services
    <3> QED BY <2>2, <2>5, <2>6, <2>7, <3>1 DEF Gathered, Trying
  <2>9. CASE ~(o.i < NServices)
    <3>1. m.pc = "dispatch" /\ 1..o.i = Services
      BY <1>2, <1>5, <2>9, CountAssumption DEF Services
    <3> QED BY <2>2, <2>5, <2>6, <2>7, <3>1 DEF Gathered, Trying, Working
  <2> QED BY <2>8, <2>9
<1> QED BY <1>2, <1>5, <1>6, GatheringStep

LEMMA ResendGathers == ASSUME DInv, IInv', NEW r \in Runs, Resend(r) PROVE DInv'
<1> DEFINE left == {a \in last : a \in staged}
           m == [Fresh EXCEPT !.pc = "dispatch", !.images = left]
<1>1. left \in SUBSET Artifacts /\ left \subseteq staged
  BY DEF DInv, IInv, Store
<1>2. m \in RunType /\ m.pc = "dispatch" /\ m.images = left /\ \A j \in Services : m.from[j] = 0
  BY <1>1, ResendFacts
<1>3. Become(r, m) /\ UNCHANGED <<tag, staged, old>>
  BY DEF Resend, store
<1>4. rough' = Overlaps(r) \cup IF ServicesOf(left) # Services THEN {"partial"} ELSE {}
  BY DEF Resend
<1> HIDE DEF m, left
<1>5. \A a \in left : Current(m, a.img)
  BY <1>1, <1>2 DEF Current, Artifacts, Images
<1>6. ASSUME Smooth' PROVE Gathered(m, tag', staged', old') /\ \A q \in Runs : q # r => run[q].pc \in Over
  <2>1. ServicesOf(left) = Services
    BY <1>4, <1>6 DEF Smooth
  <2>2. \A q \in Runs : q # r => run[q].pc \in Over
    BY <1>4, <1>6 DEF Smooth, Overlaps, Active
  <2> QED BY <1>1, <1>2, <1>3, <1>5, <2>1, <2>2 DEF Gathered, Trying, Working
<1> QED BY <1>2, <1>3, <1>6, GatheringStep

LEMMA AgeGathers == ASSUME DInv, IInv', Age PROVE DInv'
<1>1. PICK f : (\A r \in Runs : Active(r) => f \notin run[r].made) /\ old' = old \cup {f}
  BY DEF Age
<1>2. UNCHANGED <<tag, run, staged, rough>>
  BY DEF Age
<1> SUFFICES ASSUME Smooth PROVE OneRun' /\ \A r \in Runs : Gathered(run[r], tag, staged, old')
  BY <1>2 DEF DInv, Smooth
<1>3. OneRun'
  BY <1>2 DEF DInv, OneRun, Active
<1>4. \A r \in Runs : Gathered(run[r], tag, staged, old')
  <2> TAKE r \in Runs
  <2>1. Gathered(run[r], tag, staged, old)
    BY DEF DInv
  <2>2. run[r].pc \in Working => f \notin run[r].made
    BY <1>1 DEF Active, Working, Over
  <2> QED BY <1>1, <2>1, <2>2 DEF Gathered
<1> QED BY <1>3, <1>4

LEMMA CrashGathers == ASSUME DInv, IInv', Crash PROVE DInv'
<1>1. \A r \in Runs : run'[r].pc \in Over
  BY CrashFacts DEF DInv
<1>2. OneRun'
  BY <1>1 DEF OneRun, Active
<1>3. \A r \in Runs : Gathered(run'[r], tag', staged', old')
  BY <1>1, GatheredOver
<1> QED BY <1>2, <1>3 DEF DInv

LEMMA DInvInit == Init => DInv
<1> SUFFICES ASSUME Init PROVE DInv
  OBVIOUS
<1>1. \A r \in Runs : run[r].pc \in Over
  BY FreshFacts DEF Init, Over
<1>2. OneRun
  BY <1>1 DEF OneRun, Active
<1>3. \A r \in Runs : Gathered(run[r], tag, staged, old)
  BY <1>1, GatheredOver
<1> QED BY <1>2, <1>3, IInvInit DEF DInv

LEMMA DInvStep == DInv /\ [Next]_vars => DInv'
<1> SUFFICES ASSUME DInv, [Next]_vars PROVE DInv'
  OBVIOUS
<1>1. IInv'
  BY IInvStep DEF DInv
<1>2. ASSUME NEW r \in Runs, Step(r) PROVE DInv'
  BY <1>1, <1>2, BeginGathers, CheckoutGathers, StageGathers, BuildGathers, InspectGathers,
     SmokeStartGathers, ProbeGathers, SmokeCleanGathers, EndsGather, ExportGathers,
     ResendGathers DEF Step
<1>3. ASSUME NEW i \in Services, Push(i) PROVE DInv'
  <2>1. UNCHANGED <<tag, run, staged, old, rough>>
    BY <1>3 DEF Push, store
  <2> QED BY <1>1, <2>1 DEF DInv, Smooth, OneRun, Active
<1>4. CASE UNCHANGED vars
  BY <1>1, <1>4 DEF vars, store, DInv, Smooth, OneRun, Active
<1> QED BY <1>1, <1>2, <1>3, <1>4, AgeGathers, CrashGathers DEF Next

(* If runs do not overlap, none finds its image exported before and none   *)
(* re-sends the rest of an earlier set, then a run that orders replicas to *)
(* take images has one of every service, none older than the branch was    *)
(* when it began, and all can still be downloaded.                         *)
THEOREM OrderedIsDeliverable == Spec => []Deliverable
<1>1. DInv => Deliverable
  <2> SUFFICES ASSUME DInv, Smooth, NEW r \in Runs, Dispatching(r)
               PROVE  /\ ServicesOf(Sent(r)) = Services
                      /\ \A a \in Sent(r) : a.img.commit >= run[r].from[a.img.svc] /\ Stream(a) = a
    BY DEF Deliverable, Smooth
  <2>1. Gathered(run[r], tag, staged, old) /\ run[r].pc = "dispatch"
    BY DEF DInv, Dispatching
  <2> QED BY <2>1 DEF Gathered, Sent, Stream, Current, Over
<1> QED BY <1>1, DInvInit, DInvStep, PTL DEF Spec

-----------------------------------------------------------------------------
(* Nothing is left behind.                                                 *)

Quiet == rough \cap {"overlap", "crash", "docker"} = {}

(* What is on the host belongs to run r, at m, and to the step it is at;   *)
(* nothing does once it is over.                                           *)
Mine(r, m, cl, e, c, k, t) ==
    /\ \A q \in cl : q = r /\ m.pc \notin Over /\ m.dir = r
    /\ \A p \in e : m.pc \in Staging /\ m.i \in WithEnv /\ p = <<m.dir, m.i>>
    /\ m.pc \in Staging => ~m.prev
    /\ \A d \in Places, i \in Services : c[d][i] # "none" => m.pc \in Trying /\ d = m.dir /\ i = m.i
    /\ m.pc \in Trying => c[m.dir][m.i] = "file"
    /\ \A p \in k : m.pc \in {"probe", "remove"} /\ p = <<r, m.i>>
    /\ \A q \in t : q = r /\ m.pc = "export"

Bare(cl, e, c, k, t) ==
    /\ cl = {} /\ e = {} /\ k = {} /\ t = {}
    /\ \A d \in Places, i \in Services : c[d][i] = "none"

Idle == \A r \in Runs : run[r].pc \in Over

CInv ==
    /\ IInv
    /\ Quiet => /\ OneRun
                /\ \A r \in Runs : Active(r) => Mine(r, run[r], clones, env, config, containers, tmp)
                /\ Idle => Bare(clones, env, config, containers, tmp)

LEMMA OverIsBare ==
    ASSUME NEW r, NEW m, m.pc \in Over, NEW cl, NEW e, NEW c, NEW k, NEW t, Mine(r, m, cl, e, c, k, t)
    PROVE  Bare(cl, e, c, k, t)
BY DEF Mine, Bare, Over, Staging, Trying

(* What is known when a run that is under way takes a step, *)
LEMMA MineNow ==
    ASSUME CInv, Quiet, NEW r \in Runs, Active(r)
    PROVE  /\ Mine(r, run[r], clones, env, config, containers, tmp)
           /\ \A q \in Runs : q # r => run[q].pc \in Over
BY DEF CInv, OneRun, Active

(* and when one begins. *)
LEMMA BareBefore ==
    ASSUME CInv, NEW r \in Runs, run[r].pc = "new", Overlaps(r) \subseteq rough', Quiet'
    PROVE  /\ Bare(clones, env, config, containers, tmp)
           /\ \A q \in Runs : q # r => run[q].pc \in Over
<1>1. Quiet /\ \A q \in Runs : q # r => run[q].pc \in Over
  BY DEF Quiet, Overlaps, Active
<1>2. Idle
  BY <1>1 DEF Idle, Over
<1> QED BY <1>1, <1>2 DEF CInv

LEMMA TidyStep ==
    ASSUME CInv, IInv', NEW r \in Runs, NEW m \in RunType, Become(r, m),
           Quiet' => \A q \in Runs : q # r => run[q].pc \in Over,
           Quiet' => Mine(r, m, clones', env', config', containers', tmp')
    PROVE  CInv'
<1> SUFFICES ASSUME Quiet'
             PROVE  /\ OneRun'
                    /\ \A q \in Runs : Active(q)' => Mine(q, run'[q], clones', env', config', containers', tmp')
                    /\ Idle' => Bare(clones', env', config', containers', tmp')
  BY DEF CInv
<1>1. run'[r] = m /\ \A q \in Runs : q # r => run'[q] = run[q]
  BY BecomeFacts DEF CInv, IInv
<1>2. OneRun'
  BY <1>1 DEF OneRun, Active
<1>3. \A q \in Runs : Active(q)' => Mine(q, run'[q], clones', env', config', containers', tmp')
  BY <1>1 DEF Active
<1>4. ASSUME Idle' PROVE Bare(clones', env', config', containers', tmp')
  BY <1>1, <1>4, OverIsBare DEF Idle
<1> QED BY <1>2, <1>3, <1>4

LEMMA BeginTidies == ASSUME CInv, IInv', NEW r \in Runs, Begin(r) PROVE CInv'
<1> DEFINE a == [Fresh EXCEPT !.pc = "clone", !.i = 1, !.dir = r, !.from = tip]
           b == [Fresh EXCEPT !.pc = "spec", !.i = 1, !.dir = Tree]
<1>1. 1 \in 0..NServices /\ tip \in [Services -> 0..MaxCommit]
  BY CountAssumption DEF CInv, IInv, Known
<1>2. a \in RunType /\ a.pc = "clone" /\ a.dir = r
  BY <1>1, FreshFacts DEF RunType
<1>3. b \in RunType /\ b.pc = "spec"
  BY <1>1, FreshFacts DEF RunType
<1>4. UNCHANGED <<env, config, containers, tmp>> /\ run[r].pc = "new" /\ rough' = Overlaps(r)
  BY DEF Begin, store
<1>5. \/ Become(r, a) /\ clones' = clones \cup {r}
      \/ Become(r, b) /\ clones' = clones
  BY DEF Begin
<1> HIDE DEF a, b
<1>6. ASSUME Quiet' PROVE Bare(clones, env, config, containers, tmp) /\ \A q \in Runs : q # r => run[q].pc \in Over
  BY <1>4, <1>6, BareBefore
<1>7. CASE Become(r, a) /\ clones' = clones \cup {r}
  <2>1. Quiet' => Mine(r, a, clones', env', config', containers', tmp')
    BY <1>2, <1>4, <1>6, <1>7 DEF Bare, Mine, Over, Staging, Trying
  <2> QED BY <1>2, <1>6, <1>7, <2>1, TidyStep
<1>8. CASE Become(r, b) /\ clones' = clones
  <2>1. Quiet' => Mine(r, b, clones', env', config', containers', tmp')
    BY <1>3, <1>4, <1>6, <1>8 DEF Bare, Mine, Over, Staging, Trying
  <2> QED BY <1>3, <1>6, <1>8, <2>1, TidyStep
<1> QED BY <1>5, <1>7, <1>8

LEMMA ResendTidies == ASSUME CInv, IInv', NEW r \in Runs, Resend(r) PROVE CInv'
<1> DEFINE left == {a \in last : a \in staged}
           m == [Fresh EXCEPT !.pc = "dispatch", !.images = left]
<1>1. left \in SUBSET Artifacts
  BY DEF CInv, IInv, Store
<1>2. m \in RunType /\ m.pc = "dispatch"
  BY <1>1, ResendFacts
<1>3. Become(r, m) /\ UNCHANGED <<clones, env, config, containers, tmp>> /\ run[r].pc = "new"
  BY DEF Resend, files, store
<1>4. Overlaps(r) \subseteq rough'
  BY DEF Resend
<1> HIDE DEF m
<1>5. ASSUME Quiet' PROVE Bare(clones, env, config, containers, tmp) /\ \A q \in Runs : q # r => run[q].pc \in Over
  BY <1>3, <1>4, <1>5, BareBefore
<1>6. Quiet' => Mine(r, m, clones', env', config', containers', tmp')
  BY <1>2, <1>3, <1>5 DEF Bare, Mine, Over, Staging, Trying
<1> QED BY <1>2, <1>3, <1>5, <1>6, TidyStep

(* A step of a run that is under way: it remains to show where it leaves   *)
(* the host.                                                               *)
LEMMA ActiveTidies ==
    ASSUME CInv, IInv', NEW r \in Runs, Active(r), NEW m \in RunType, Become(r, m), rough \subseteq rough',
           Quiet' /\ Mine(r, run[r], clones, env, config, containers, tmp)
               => Mine(r, m, clones', env', config', containers', tmp')
    PROVE  CInv'
<1>1. Quiet' => Quiet
  BY DEF Quiet
<1> QED BY <1>1, MineNow, TidyStep

LEMMA CheckoutTidies == ASSUME CInv, IInv', NEW r \in Runs, CheckoutSubmodule(r) PROVE CInv'
<1> DEFINE o == run[r]
           a == [o EXCEPT !.src[o.i] = tip[o.i]]
           n == IF a.i < NServices THEN [a EXCEPT !.i = a.i + 1] ELSE [a EXCEPT !.pc = "spec", !.i = 1]
<1>1. o \in RunType /\ o.pc = "clone" /\ o.i \in Services /\ tip \in [Services -> 0..MaxCommit]
  BY DEF CInv, IInv, CheckoutSubmodule, Placed, Working, Known
<1>2. a \in RunType /\ a.pc = "clone" /\ a.i = o.i /\ a.dir = o.dir
  BY <1>1 DEF RunType
<1> HIDE DEF a
<1>3. n \in RunType /\ n.dir = o.dir /\ n.pc \in {"clone", "spec"}
  <2>1. 1 \in 0..NServices /\ (o.i < NServices => o.i + 1 \in 0..NServices)
    BY <1>1, CountAssumption DEF Services
  <2>2. CASE o.i < NServices
    BY <1>1, <1>2, <2>1, <2>2 DEF RunType
  <2>3. CASE ~(o.i < NServices)
    BY <1>1, <1>2, <2>1, <2>3 DEF RunType
  <2> QED BY <2>2, <2>3
<1>4. Become(r, n) /\ UNCHANGED <<clones, env, config, containers, tmp, rough>>
  BY DEF CheckoutSubmodule, a, files, store
<1> HIDE DEF n
<1>5. Active(r)
  BY <1>1 DEF Active, Over
<1>6. Mine(r, o, clones, env, config, containers, tmp) => Mine(r, n, clones', env', config', containers', tmp')
  BY <1>1, <1>3, <1>4 DEF Mine, Over, Staging, Trying
<1> QED BY <1>3, <1>4, <1>5, <1>6, ActiveTidies

LEMMA StageTidies == ASSUME CInv, IInv', NEW r \in Runs, StageEnvFile(r) PROVE CInv'
<1> DEFINE o == run[r]
           b == <<o.dir, o.i>> \in env
           m == [o EXCEPT !.pc = "build", !.prev = b]
<1>1. o \in RunType /\ o.pc = "spec"
  BY DEF CInv, IInv, StageEnvFile
<1>2. b \in BOOLEAN
  OBVIOUS
<1>3. Become(r, m) /\ UNCHANGED <<clones, config, containers, tmp, rough>>
      /\ env' = IF o.i \in WithEnv THEN env \cup {<<o.dir, o.i>>} ELSE env
  BY DEF StageEnvFile, store
<1>4. b => env # {}
  OBVIOUS
<1> HIDE DEF b
<1>5. m \in RunType /\ m.pc = "build" /\ m.i = o.i /\ m.dir = o.dir /\ m.prev = b
  BY <1>1, <1>2 DEF RunType
<1> HIDE DEF m
<1>6. Active(r)
  BY <1>1 DEF Active, Over
<1>7. Mine(r, o, clones, env, config, containers, tmp) => Mine(r, m, clones', env', config', containers', tmp')
  <2> SUFFICES ASSUME Mine(r, o, clones, env, config, containers, tmp)
               PROVE  Mine(r, m, clones', env', config', containers', tmp')
    OBVIOUS
  <2>1. env = {}
    BY <1>1 DEF Mine, Staging
  <2>2. ~m.prev
    BY <1>4, <1>5, <2>1
  <2> QED BY <1>1, <1>3, <1>5, <2>1, <2>2 DEF Mine, Over, Staging, Trying
<1> QED BY <1>3, <1>5, <1>6, <1>7, ActiveTidies

LEMMA BuildTidies == ASSUME CInv, IInv', NEW r \in Runs, Build(r) PROVE CInv'
<1> DEFINE o == run[r]
           m == [o EXCEPT !.pc = "inspect"]
<1>1. o \in RunType /\ o.pc = "build"
  BY DEF CInv, IInv, Build
<1>2. m \in RunType /\ m.pc = "inspect" /\ Keeps(m, o)
  BY <1>1, MoveFacts
<1>3. Become(r, m) /\ UNCHANGED <<clones, env, config, containers, tmp, rough>>
  BY DEF Build, files, store
<1> HIDE DEF m
<1>4. Active(r)
  BY <1>1 DEF Active, Over
<1>5. Mine(r, o, clones, env, config, containers, tmp) => Mine(r, m, clones', env', config', containers', tmp')
  BY <1>1, <1>2, <1>3 DEF Mine, Over, Staging, Trying, Keeps
<1> QED BY <1>2, <1>3, <1>4, <1>5, ActiveTidies
(* Disposing of the env file and of the clone empties the host. *)
LEMMA EnvEmptied ==
    ASSUME NEW r, NEW cl, NEW c, NEW k, NEW t, Mine(r, run[r], cl, env, c, k, t), run[r].pc \in Staging
    PROVE  EnvDisposed(r) = {}
BY DEF Mine, EnvDisposed

LEMMA ServiceEmptied ==
    ASSUME NEW r, Mine(r, run[r], clones, env, config, containers, tmp), run[r].pc \in Staging \ Trying
    PROVE  /\ EnvDisposed(r) = {} /\ containers = {}
           /\ \A d \in Places, i \in Services : config[d][i] = "none"
<1>1. EnvDisposed(r) = {}
  BY EnvEmptied
<1> QED BY <1>1 DEF Mine, Trying

LEMMA Disposed ==
    ASSUME Host, NEW r \in Runs, NEW c \in [Places -> [Services -> {"none", "file", "dir"}]],
           DisposeClone(r, {}, c), \A q \in clones : q = r /\ run[r].dir = r,
           \A d \in Places, i \in Services : c[d][i] = "none"
    PROVE  /\ clones' = {} /\ env' = {}
           /\ \A d \in Places, i \in Services : config'[d][i] = "none"
<1>1. CASE run[r].dir = r
  <2>1. config' = [c EXCEPT ![r] = [i \in Services |-> "none"]] /\ r \in Places
    BY <1>1 DEF DisposeClone, Places
  <2>2. \A d \in Places, i \in Services : config'[d][i] = "none"
    BY <2>1
  <2> QED BY <1>1, <2>2 DEF DisposeClone
<1>2. CASE run[r].dir # r
  BY <1>2 DEF DisposeClone
<1> QED BY <1>1, <1>2

(* A run that ends leaves the host empty. *)
LEMMA EndTidies ==
    ASSUME CInv, IInv', NEW r \in Runs, Active(r), rough \subseteq rough',
           NEW p \in {"failed", "done"}, Become(r, [run[r] EXCEPT !.pc = p]),
           NEW e, NEW c \in [Places -> [Services -> {"none", "file", "dir"}]],
           DisposeClone(r, e, c),
           Quiet' /\ Mine(r, run[r], clones, env, config, containers, tmp)
               => /\ e = {} /\ containers' = {} /\ tmp' = {}
                  /\ \A d \in Places, i \in Services : c[d][i] = "none"
    PROVE  CInv'
<1> DEFINE m == [run[r] EXCEPT !.pc = p]
<1>1. m \in RunType /\ m.pc = p
  BY MoveFacts DEF CInv, IInv, Over
<1>2. Become(r, m)
  OBVIOUS
<1> HIDE DEF m
<1>3. ASSUME Quiet', Mine(r, run[r], clones, env, config, containers, tmp)
      PROVE  Mine(r, m, clones', env', config', containers', tmp')
  <2>1. /\ e = {} /\ containers' = {} /\ tmp' = {}
        /\ \A d \in Places, i \in Services : c[d][i] = "none"
    BY <1>3
  <2>2. \A q \in clones : q = r /\ run[r].dir = r
    BY <1>3 DEF Mine
  <2>3. clones' = {} /\ env' = {} /\ \A d \in Places, i \in Services : config'[d][i] = "none"
    BY <2>1, <2>2, Disposed DEF CInv, IInv
  <2> QED BY <1>1, <2>1, <2>3 DEF Mine, Staging, Trying
<1> QED BY <1>1, <1>2, <1>3, ActiveTidies

(* At its other steps a run has no container, no smoke configuration, no   *)
(* unfinished export and, before and after a service, no env file.         *)
LEMMA MineAt ==
    ASSUME NEW r, NEW m, NEW cl, NEW e, NEW c, NEW k, NEW t, Mine(r, m, cl, e, c, k, t)
    PROVE  /\ m.pc \notin Staging => e = {}
           /\ m.pc \notin Trying => k = {} /\ \A d \in Places, i \in Services : c[d][i] = "none"
           /\ m.pc # "export" => t = {}
BY DEF Mine, Staging, Trying

LEMMA BuildFailsTidies == ASSUME CInv, IInv', NEW r \in Runs, BuildFails(r) PROVE CInv'
<1>1. /\ Active(r) /\ run[r].pc \notin Trying /\ run[r].pc # "export"
      /\ Become(r, [run[r] EXCEPT !.pc = "failed"])
      /\ UNCHANGED <<containers, tmp, rough>>
  BY DEF BuildFails, Fail, store, Active, Over, Trying
<1>2. config \in [Places -> [Services -> {"none", "file", "dir"}]]
  BY DEF CInv, IInv, Host
<1>3. CASE run[r].pc \notin Staging /\ DisposeClone(r, env, config)
  <2>1. ASSUME Mine(r, run[r], clones, env, config, containers, tmp)
        PROVE  /\ env = {} /\ containers' = {} /\ tmp' = {}
               /\ \A d \in Places, i \in Services : config[d][i] = "none"
    BY <1>1, <1>3, <2>1, MineAt
  <2> QED BY <1>1, <1>2, <1>3, <2>1, EndTidies
<1>4. CASE run[r].pc \in Staging /\ DisposeClone(r, EnvDisposed(r), config)
  <2>1. ASSUME Mine(r, run[r], clones, env, config, containers, tmp)
        PROVE  /\ EnvDisposed(r) = {} /\ containers' = {} /\ tmp' = {}
               /\ \A d \in Places, i \in Services : config[d][i] = "none"
    BY <1>1, <1>4, <2>1, MineAt, ServiceEmptied
  <2> QED BY <1>1, <1>2, <1>4, <2>1, EndTidies
<1> QED BY <1>3, <1>4 DEF BuildFails, Fail, Staging

LEMMA FinishTidies == ASSUME CInv, IInv', NEW r \in Runs, Finish(r) PROVE CInv'
<1>1. /\ Active(r) /\ run[r].pc = "dispatch" /\ Become(r, [run[r] EXCEPT !.pc = "done"])
      /\ UNCHANGED <<containers, tmp, rough>> /\ DisposeClone(r, env, config)
  BY DEF Finish, store, Active, Over
<1>2. config \in [Places -> [Services -> {"none", "file", "dir"}]]
  BY DEF CInv, IInv, Host
<1>3. run[r].pc \notin Staging \cup Trying \cup {"export"}
  BY <1>1 DEF Staging, Trying
<1>4. ASSUME Mine(r, run[r], clones, env, config, containers, tmp)
      PROVE  /\ env = {} /\ containers' = {} /\ tmp' = {}
             /\ \A d \in Places, i \in Services : config[d][i] = "none"
  BY <1>1, <1>3, <1>4, MineAt
<1> QED BY <1>1, <1>2, <1>4, EndTidies

LEMMA ExportFailsTidies == ASSUME CInv, IInv', NEW r \in Runs, ExportFails(r) PROVE CInv'
<1>1. /\ Active(r) /\ run[r].pc = "export" /\ Become(r, [run[r] EXCEPT !.pc = "failed"])
      /\ UNCHANGED <<containers, rough>> /\ tmp' = tmp \ {r}
      /\ DisposeClone(r, EnvDisposed(r), config)
  BY DEF ExportFails, Fail, Active, Over
<1>2. config \in [Places -> [Services -> {"none", "file", "dir"}]]
  BY DEF CInv, IInv, Host
<1>3. run[r].pc \in Staging /\ run[r].pc \notin Trying
  BY <1>1 DEF Staging, Trying
<1>4. ASSUME Mine(r, run[r], clones, env, config, containers, tmp)
      PROVE  /\ EnvDisposed(r) = {} /\ containers' = {} /\ tmp' = {}
             /\ \A d \in Places, i \in Services : config[d][i] = "none"
  <2>1. tmp' = {}
    BY <1>1, <1>4 DEF Mine
  <2> QED BY <1>1, <1>3, <1>4, <2>1, ServiceEmptied
<1> QED BY <1>1, <1>2, <1>4, EndTidies

LEMMA StartFailsTidies == ASSUME CInv, IInv', NEW r \in Runs, SmokeStartFails(r) PROVE CInv'
BY DEF SmokeStartFails, Cause, CInv, Quiet

LEMMA InspectTidies == ASSUME CInv, IInv', NEW r \in Runs, Inspect(r) PROVE CInv'
<1> DEFINE o == run[r]
           t == tag[o.i]
           starts == [o EXCEPT !.img = tag[o.i], !.pc = "start"]
           exports == [o EXCEPT !.img = tag[o.i], !.pc = "export"]
<1>1. /\ o \in RunType /\ o.pc = "inspect" /\ t \in Images /\ Active(r)
      /\ config \in [Places -> [Services -> {"none", "file", "dir"}]]
  BY DEF CInv, IInv, Inspect, Placed, Active, Over, Host
<1>2. o.i \in Services /\ o.dir \in Places
  BY <1>1, StagedPlace DEF CInv, Working
<1>3. starts \in RunType /\ starts.pc = "start" /\ starts.i = o.i /\ starts.dir = o.dir /\ starts.prev = o.prev
  BY <1>1 DEF RunType
<1>4. exports \in RunType /\ exports.pc = "export" /\ exports.i = o.i /\ exports.dir = o.dir /\ exports.prev = o.prev
  BY <1>1 DEF RunType
<1>5. UNCHANGED <<containers, rough>>
  BY DEF Inspect
<1> HIDE DEF starts, exports
<1>6. CASE Become(r, starts) /\ UNCHANGED <<clones, env, tmp, staged, old>>
           /\ config' = [config EXCEPT ![o.dir][o.i] = "file"]
  <2>1. \A d \in Places, i \in Services :
           config'[d][i] = IF d = o.dir /\ i = o.i THEN "file" ELSE config[d][i]
    BY <1>1, <1>2, <1>6
  <2>2. Mine(r, o, clones, env, config, containers, tmp) => Mine(r, starts, clones', env', config', containers', tmp')
    BY <1>1, <1>2, <1>3, <1>5, <1>6, <2>1 DEF Mine, Over, Staging, Trying
  <2> QED BY <1>1, <1>3, <1>5, <1>6, <2>2, ActiveTidies
<1>7. CASE Fail(r, config) /\ UNCHANGED <<tmp, staged, old>>
  <2>1. Become(r, [run[r] EXCEPT !.pc = "failed"]) /\ DisposeClone(r, EnvDisposed(r), config)
    BY <1>7 DEF Fail
  <2>2. o.pc \in Staging /\ o.pc \notin Trying \cup {"export"}
    BY <1>1 DEF Staging, Trying
  <2>3. ASSUME Mine(r, run[r], clones, env, config, containers, tmp)
        PROVE  /\ EnvDisposed(r) = {} /\ containers' = {} /\ tmp' = {}
               /\ \A d \in Places, i \in Services : config[d][i] = "none"
    BY <1>5, <1>7, <2>2, <2>3, MineAt, ServiceEmptied
  <2> QED BY <1>1, <1>5, <2>1, <2>3, EndTidies
<1>8. CASE Become(r, exports) /\ PruneAndOpen(r) /\ UNCHANGED <<clones, env, config>>
  <2>1. Mine(r, o, clones, env, config, containers, tmp) => Mine(r, exports, clones', env', config', containers', tmp')
    BY <1>1, <1>2, <1>4, <1>5, <1>8 DEF Mine, Over, Staging, Trying, PruneAndOpen
  <2> QED BY <1>1, <1>4, <1>5, <1>8, <2>1, ActiveTidies
<1>9. \/ Become(r, starts) /\ UNCHANGED <<clones, env, tmp, staged, old>>
         /\ config' = [config EXCEPT ![o.dir][o.i] = "file"]
      \/ Fail(r, config) /\ UNCHANGED <<tmp, staged, old>>
      \/ Become(r, exports) /\ PruneAndOpen(r) /\ UNCHANGED <<clones, env, config>>
  BY InspectDoes DEF CInv, starts, exports
<1> QED BY <1>6, <1>7, <1>8, <1>9

LEMMA SmokeStartTidies == ASSUME CInv, IInv', NEW r \in Runs, SmokeStart(r) PROVE CInv'
<1> DEFINE o == run[r]
           b == config[o.dir][o.i] = "file"
           m == [o EXCEPT !.pc = "probe", !.ok = b]
<1>1. o \in RunType /\ o.pc = "start" /\ Active(r)
  BY DEF CInv, IInv, SmokeStart, Active, Over
<1>2. m \in RunType /\ m.pc = "probe" /\ m.i = o.i /\ m.dir = o.dir /\ m.prev = o.prev
  <2>1. b \in BOOLEAN
    OBVIOUS
  <2> HIDE DEF b
  <2> QED BY <1>1, <2>1, OkFacts
<1>3. Become(r, m) /\ UNCHANGED <<clones, env, tmp, rough>> /\ containers' = containers \cup {<<r, o.i>>}
      /\ (config[o.dir][o.i] = "file" => config' = config)
  BY DEF SmokeStart, store
<1> HIDE DEF m
<1>4. Mine(r, o, clones, env, config, containers, tmp) => Mine(r, m, clones', env', config', containers', tmp')
  <2> SUFFICES ASSUME Mine(r, o, clones, env, config, containers, tmp)
               PROVE  Mine(r, m, clones', env', config', containers', tmp')
    OBVIOUS
  <2>1. config' = config
    BY <1>1, <1>3 DEF Mine, Trying
  <2> QED BY <1>1, <1>2, <1>3, <2>1 DEF Mine, Over, Staging, Trying
<1> QED BY <1>1, <1>2, <1>3, <1>4, ActiveTidies

LEMMA ProbeTidies == ASSUME CInv, IInv', NEW r \in Runs, Probe(r) PROVE CInv'
<1> DEFINE o == run[r]
           m(b) == [o EXCEPT !.pc = "remove", !.ok = b]
<1>1. o \in RunType /\ o.pc = "probe" /\ Active(r)
  BY DEF CInv, IInv, Probe, Active, Over
<1>2. PICK b \in BOOLEAN : Become(r, m(b))
  BY DEF Probe
<1>3. m(b) \in RunType /\ m(b).pc = "remove" /\ m(b).i = o.i /\ m(b).dir = o.dir /\ m(b).prev = o.prev
  BY <1>1, OkFacts
<1>4. UNCHANGED <<clones, env, config, containers, tmp, rough>>
  BY DEF Probe, files, store
<1> HIDE DEF m
<1>5. Mine(r, o, clones, env, config, containers, tmp) => Mine(r, m(b), clones', env', config', containers', tmp')
  BY <1>1, <1>3, <1>4 DEF Mine, Over, Staging, Trying
<1> QED BY <1>1, <1>2, <1>3, <1>4, <1>5, ActiveTidies

LEMMA SmokeCleanTidies == ASSUME CInv, IInv', NEW r \in Runs, SmokeClean(r) PROVE CInv'
<1> DEFINE o == run[r]
           c == [config EXCEPT ![o.dir][o.i] = IF @ = "file" THEN "none" ELSE @]
           m == [o EXCEPT !.pc = "export"]
<1>1. /\ o \in RunType /\ o.pc = "remove" /\ Active(r)
      /\ config \in [Places -> [Services -> {"none", "file", "dir"}]]
  BY DEF CInv, IInv, SmokeClean, Active, Over, Host
<1>2. o.i \in Services /\ o.dir \in Places
  BY <1>1, StagedPlace DEF CInv, Working
<1>3. /\ c \in [Places -> [Services -> {"none", "file", "dir"}]]
      /\ \A d \in Places, i \in Services :
            c[d][i] = IF d = o.dir /\ i = o.i /\ config[d][i] = "file" THEN "none" ELSE config[d][i]
  BY <1>1, <1>2
<1>4. rough \subseteq rough' /\ (Quiet' => containers' = containers \ {<<r, o.i>>})
  BY DEF SmokeClean, Cause, Quiet
<1>5. ASSUME Quiet', Mine(r, o, clones, env, config, containers, tmp)
      PROVE  /\ containers' = {} /\ tmp = {}
             /\ \A d \in Places, i \in Services : c[d][i] = "none"
  BY <1>1, <1>2, <1>3, <1>4, <1>5 DEF Mine, Trying
<1>6. CASE o.ok
  <2>1. PruneAndOpen(r) /\ config' = c /\ Become(r, m) /\ UNCHANGED <<clones, env>>
    BY <1>6 DEF SmokeClean
  <2>2. m \in RunType /\ m.pc = "export" /\ Keeps(m, o)
    BY <1>1, MoveFacts
  <2> HIDE DEF m, c
  <2>3. ASSUME Quiet', Mine(r, o, clones, env, config, containers, tmp)
        PROVE  Mine(r, m, clones', env', config', containers', tmp')
    BY <1>1, <1>5, <2>1, <2>2, <2>3 DEF Mine, Over, Staging, Trying, Keeps, PruneAndOpen
  <2> QED BY <1>1, <1>4, <2>1, <2>2, <2>3, ActiveTidies
<1>7. CASE ~o.ok
  <2>1. Become(r, [run[r] EXCEPT !.pc = "failed"]) /\ DisposeClone(r, EnvDisposed(r), c) /\ tmp' = tmp
    BY <1>7 DEF SmokeClean, Fail, store
  <2>2. o.pc \in Staging
    BY <1>1 DEF Staging
  <2> HIDE DEF c
  <2> QED BY <1>1, <1>3, <1>4, <1>5, <2>1, <2>2, EnvEmptied, EndTidies
<1> QED BY <1>6, <1>7

LEMMA ExportTidies == ASSUME CInv, IInv', NEW r \in Runs, Export(r) PROVE CInv'
<1> DEFINE o == run[r]
           a == Artifact(o.img, FALSE)
           known == a \in staged
           m == After(o, a, known)
<1>1. o \in RunType /\ o.pc = "export" /\ Active(r)
  BY DEF CInv, IInv, Export, Active, Over
<1>2. /\ a \in Artifacts /\ o.i \in Services
      /\ Become(r, m) /\ tmp' = tmp \ {r} /\ env' = EnvDisposed(r)
      /\ rough' = (IF known THEN rough \cup {"kept"} ELSE rough)
      /\ UNCHANGED <<clones, config, containers>>
  BY ExportDoes DEF CInv
<1>3. known \in BOOLEAN
  OBVIOUS
<1> HIDE DEF known, a
<1>4. m \in RunType /\ m.dir = o.dir /\ m.pc \in {"spec", "dispatch"}
  BY <1>1, <1>2, <1>3, AfterFacts
<1> HIDE DEF m
<1>5. rough \subseteq rough'
  BY <1>2
<1>6. ASSUME Mine(r, o, clones, env, config, containers, tmp)
      PROVE  Mine(r, m, clones', env', config', containers', tmp')
  <2>1. env' = {}
    BY <1>1, <1>2, <1>6, EnvEmptied DEF Staging
  <2>2. containers' = {} /\ \A d \in Places, i \in Services : config'[d][i] = "none"
    BY <1>1, <1>2, <1>6, MineAt DEF Trying
  <2>3. tmp' = {} /\ \A q \in clones' : q = r /\ o.dir = r
    BY <1>2, <1>6 DEF Mine
  <2> QED BY <1>4, <2>1, <2>2, <2>3 DEF Mine, Over, Staging, Trying
<1> QED BY <1>1, <1>2, <1>4, <1>5, <1>6, ActiveTidies

LEMMA CInvInit == Init => CInv
<1> SUFFICES ASSUME Init PROVE CInv
  OBVIOUS
<1>1. \A r \in Runs : run[r].pc \in Over
  BY FreshFacts DEF Init, Over
<1>2. OneRun /\ \A r \in Runs : ~Active(r)
  BY <1>1 DEF OneRun, Active
<1>3. Bare(clones, env, config, containers, tmp)
  BY DEF Init, Bare, Places
<1> QED BY <1>2, <1>3, IInvInit DEF CInv

LEMMA CInvStep == CInv /\ [Next]_vars => CInv'
<1> SUFFICES ASSUME CInv, [Next]_vars PROVE CInv'
  OBVIOUS
<1>1. IInv'
  BY IInvStep DEF CInv
<1>2. ASSUME NEW r \in Runs, Step(r) PROVE CInv'
  BY <1>1, <1>2, BeginTidies, CheckoutTidies, StageTidies, BuildTidies, BuildFailsTidies,
     InspectTidies, SmokeStartTidies, StartFailsTidies, ProbeTidies, SmokeCleanTidies,
     ExportTidies, ExportFailsTidies, ResendTidies, FinishTidies DEF Step
<1>3. ASSUME UNCHANGED <<run, clones, env, config, containers, tmp, rough>> PROVE CInv'
  BY <1>1, <1>3 DEF CInv, Quiet, OneRun, Active, Idle
<1>4. ASSUME NEW i \in Services, Push(i) PROVE CInv'
  BY <1>3, <1>4 DEF Push, files, store
<1>5. CASE Age
  BY <1>3, <1>5 DEF Age, files
<1>6. CASE Crash
  BY <1>1, <1>6 DEF Crash, Cause, CInv, Quiet
<1>7. CASE UNCHANGED vars
  BY <1>3, <1>7 DEF vars, files, store
<1> QED BY <1>2, <1>4, <1>5, <1>6, <1>7 DEF Next

(* With no run under way there is no clone, staged .env, smoke             *)
(* configuration, container or unfinished export on the host, if runs did  *)
(* not overlap, docker did as told and the process lived.                  *)
THEOREM NothingIsLeft == Spec => []CleanedUp
<1>1. CInv => CleanedUp
  <2> SUFFICES ASSUME CInv, Quiet, \A r \in Runs : ~Active(r)
               PROVE  /\ clones = {} /\ env = {} /\ containers = {} /\ tmp = {}
                      /\ \A d \in Runs \cup {Tree}, i \in Services : config[d][i] = "none"
    BY DEF CleanedUp, Quiet
  <2>1. Idle
    BY DEF Idle, Active
  <2> QED BY <2>1 DEF CInv, Bare, Places
<1> QED BY <1>1, CInvInit, CInvStep, PTL DEF Spec
=============================================================================
