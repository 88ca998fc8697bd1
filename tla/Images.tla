-------------------------------- MODULE Images --------------------------------
(***************************************************************************)
(* The images replicas are ordered to run: built on the primary from a     *)
(* throwaway clone or from its working tree, tried out, exported to the    *)
(* temporary directory and handed out from there (ImageBuildService,       *)
(* ImageArtifactService, DeploymentService.buildReplicaImages).            *)
(*                                                                         *)
(* A run is one propagation step. Only one is meant to be under way, but   *)
(* the check for another is not atomic with the start (see Deployment), so *)
(* runs may overlap here. An image is a service at a commit; its artifact  *)
(* is named after the hash of its contents, so it is the image itself and  *)
(* whether the export is cut short.                                        *)
(***************************************************************************)
EXTENDS Integers, FiniteSets

CONSTANTS
    NServices,  \* services 1..NServices are built in this order
    WithEnv,    \* services whose build needs the host's env file
    Tested,     \* services that are smoke tested
    Broken,     \* images that do not come up
    Runs,       \* propagation steps; each runs once
    MaxCommit,  \* bound: commits pushed to a service
    Tree,       \* the primary's working tree
    None

Services == 1..NServices
Images == [svc : Services, commit : 0..MaxCommit]
Artifacts == [img : Images, cut : BOOLEAN]

ASSUME CountAssumption == NServices \in Nat \ {0} /\ MaxCommit \in Nat
ASSUME ServicesAssumption == WithEnv \subseteq Services /\ Tested \subseteq Services
ASSUME RunsAssumption == {Tree, None} \cap Runs = {} /\ \A r \in Runs : r \notin Artifacts
ASSUME NoneAssumption == None \notin Images

VARIABLES
    tip,        \* tip[i]: the last commit of service i on its tracked branch
    tag,        \* tag[i]: the image <service>:deploy names, or None
    run,        \* run[r]: where the run stands
    clones,     \* runs whose clone is on disk
    env,        \* <<directory, service>> pairs with a staged .env
    config,     \* config[d][i]: .smoke-config.yml there: "none", "file" or "dir"
    containers, \* <<run, service>> of smoke containers
    tmp,        \* runs whose unfinished export is on disk
    staged,     \* artifacts on disk under their final name
    old,        \* files of tmp and staged that are older than ARTIFACT_TTL_MS
    last,       \* the images of the last run, as saved in its state
    proven,     \* history: images that answered their smoke test
    rough       \* history: what happened that the clean-up or the store does not stand

files == <<clones, env, config, containers>>
store == <<tmp, staged, old>>
vars == <<tip, tag, run, files, store, last, proven, rough>>

(* Two runs at a time; the process killed; a docker command failing that   *)
(* should have started or removed a container; an artifact of an earlier   *)
(* run found and kept; a re-send without all images.                       *)
Roughness == {"overlap", "crash", "docker", "kept", "partial"}

Image(i, c) == [svc |-> i, commit |-> c]
Artifact(img, cut) == [img |-> img, cut |-> cut]
ServicesOf(images) == {a.img.svc : a \in images}

Fresh == [pc |-> "new", i |-> 0, dir |-> None, src |-> [i \in Services |-> 0], prev |-> FALSE,
          img |-> None, ok |-> FALSE, images |-> {}, made |-> {}, from |-> [i \in Services |-> 0]]
Over == {"new", "done", "failed", "dead"}
Active(r) == run[r].pc \notin Over

Init ==
    /\ tip = [i \in Services |-> 0]
    /\ tag = [i \in Services |-> None]
    /\ run = [r \in Runs |-> Fresh]
    /\ clones = {}
    /\ env = {}
    /\ config = [d \in Runs \cup {Tree} |-> [i \in Services |-> "none"]]
    /\ containers = {}
    /\ tmp = {}
    /\ staged = {}
    /\ old = {}
    /\ last = {}
    /\ proven = {}
    /\ rough = {}

Become(r, m) == run' = [run EXCEPT ![r] = m]
Cause(c) == rough' = rough \cup {c}
Overlaps(r) == IF \E q \in Runs \ {r} : Active(q) THEN rough \cup {"overlap"} ELSE rough

-----------------------------------------------------------------------------
(* The source                                                              *)

(* A push to the branch of a service. *)
Push(i) ==
    /\ tip[i] < MaxCommit
    /\ tip' = [tip EXCEPT ![i] = @ + 1]
    /\ UNCHANGED <<tag, run, files, store, last, proven, rough>>

(* With a source repository configured the step clones it first. The saved *)
(* state of a deployment that begins names no images.                      *)
Begin(r) ==
    /\ run[r].pc = "new"
    /\ \/ Become(r, [Fresh EXCEPT !.pc = "clone", !.i = 1, !.dir = r, !.from = tip])
          /\ clones' = clones \cup {r}
       \/ Become(r, [Fresh EXCEPT !.pc = "spec", !.i = 1, !.dir = Tree])
          /\ UNCHANGED clones
    /\ rough' = Overlaps(r)
    /\ last' = {}
    /\ UNCHANGED <<tip, tag, env, config, containers, store, proven>>

(* Mutant: submodules are checked out at the commit the superproject records. *)
CheckoutSubmodule_Recorded(r) ==
    LET m == run[r] IN
    /\ m.pc = "clone"
    /\ Become(r, IF m.i < NServices THEN [m EXCEPT !.i = @ + 1]
                 ELSE [m EXCEPT !.pc = "spec", !.i = 1])
    /\ UNCHANGED <<tip, tag, files, store, last, proven, rough>>

(* git submodule update --remote: each service at the tip of its branch. *)
CheckoutSubmodule(r) ==
    /\ run[r].pc = "clone"
    /\ LET m == [run[r] EXCEPT !.src[run[r].i] = tip[run[r].i]]
       IN  Become(r, IF m.i < NServices THEN [m EXCEPT !.i = @ + 1]
                     ELSE [m EXCEPT !.pc = "spec", !.i = 1])
    /\ UNCHANGED <<tip, tag, files, store, last, proven, rough>>

-----------------------------------------------------------------------------
(* However a service or the run ends                                       *)

(* The disposer of stageEnvFile: what was there before is restored. *)
EnvDisposed(r) ==
    LET place == <<run[r].dir, run[r].i>>
    IN  IF run[r].i \notin WithEnv THEN env
        ELSE IF run[r].prev THEN env \cup {place} ELSE env \ {place}

(* The clone goes, with all that is in it. *)
DisposeClone(r, e, c) ==
    IF run[r].dir = r
    THEN /\ clones' = clones \ {r}
         /\ env' = {p \in e : p[1] # r}
         /\ config' = [c EXCEPT ![r] = [i \in Services |-> "none"]]
    ELSE clones' = clones /\ env' = e /\ config' = c

(* Mutant: the clone of a failed build is left to a caller that was never  *)
(* handed it.                                                              *)
Fail_KeepsClone(r, c) ==
    /\ Become(r, [run[r] EXCEPT !.pc = "failed"])
    /\ env' = EnvDisposed(r)
    /\ config' = c
    /\ UNCHANGED clones

(* One service fails: the step fails before anything is dispatched. *)
Fail(r, c) ==
    /\ Become(r, [run[r] EXCEPT !.pc = "failed"])
    /\ DisposeClone(r, EnvDisposed(r), c)

(* git fails, the env file is missing (before it is staged), docker is     *)
(* not available, the build or the lookup of the image fails.              *)
BuildFails(r) ==
    \/ /\ run[r].pc \in {"clone", "spec"}
       /\ Become(r, [run[r] EXCEPT !.pc = "failed"])
       /\ DisposeClone(r, env, config)
       /\ UNCHANGED <<tip, tag, containers, store, last, proven, rough>>
    \/ /\ run[r].pc \in {"build", "inspect"}
       /\ Fail(r, config)
       /\ UNCHANGED <<tip, tag, containers, store, last, proven, rough>>

-----------------------------------------------------------------------------
(* One service: env file, build, smoke test                                *)

StageEnvFile(r) ==
    LET m == run[r]
        place == <<m.dir, m.i>>
    IN
    /\ m.pc = "spec"
    /\ Become(r, [m EXCEPT !.pc = "build", !.prev = place \in env])
    /\ env' = IF m.i \in WithEnv THEN env \cup {place} ELSE env
    /\ UNCHANGED <<tip, tag, clones, config, containers, store, last, proven, rough>>

(* docker build -t: of the clone, or of whatever the working tree holds. *)
Build(r) ==
    LET m == run[r] IN
    /\ m.pc = "build"
    /\ \E c \in (IF m.dir = r THEN {m.src[m.i]} ELSE 0..tip[m.i]) :
          tag' = [tag EXCEPT ![m.i] = Image(m.i, c)]
    /\ Become(r, [m EXCEPT !.pc = "inspect"])
    /\ UNCHANGED <<tip, files, store, last, proven, rough>>

(* pruneOld, and an export that begins: a file of its own to write to. *)
PruneAndOpen(r) ==
    /\ tmp' = (tmp \ old) \cup {r}
    /\ staged' = staged \ old
    /\ old' = {}

(* The throwaway configuration of the smoke test, in the build directory.  *)
(* It cannot be written when a directory has taken its name.               *)
Writable(m) == config[m.dir][m.i] # "dir"
WriteSmokeConfig(m) == config' = [config EXCEPT ![m.dir][m.i] = "file"]

(* The image the tag names now is the one to try out and to export. *)
Inspect(r) ==
    /\ run[r].pc = "inspect"
    /\ LET m == [run[r] EXCEPT !.img = tag[run[r].i]] IN
       \/ /\ m.i \in Tested /\ Writable(m)
          /\ WriteSmokeConfig(m)
          /\ Become(r, [m EXCEPT !.pc = "start"])
          /\ UNCHANGED <<clones, env, store>>
       \/ /\ m.i \in Tested /\ ~Writable(m)
          /\ Fail(r, config)
          /\ UNCHANGED store
       \/ /\ m.i \notin Tested
          /\ PruneAndOpen(r)
          /\ Become(r, [m EXCEPT !.pc = "export"])
          /\ UNCHANGED <<clones, env, config>>
    /\ UNCHANGED <<tip, tag, containers, last, proven, rough>>

(* docker run. A mounted file that is not there (another run has cleaned   *)
(* it up) is made a directory.                                             *)
SmokeStart(r) ==
    LET m == run[r]
        mounted == config[m.dir][m.i] = "file"
    IN
    /\ m.pc = "start"
    /\ containers' = containers \cup {<<r, m.i>>}
    /\ config' = IF mounted THEN config ELSE [config EXCEPT ![m.dir][m.i] = "dir"]
    /\ Become(r, [m EXCEPT !.pc = "probe", !.ok = mounted])
    /\ UNCHANGED <<tip, tag, clones, env, store, last, proven, rough>>

(* It fails outside of the try block, perhaps after creating the container. *)
SmokeStartFails(r) ==
    /\ run[r].pc = "start"
    /\ \/ containers' = containers \cup {<<r, run[r].i>>}
       \/ UNCHANGED containers
    /\ Fail(r, config)
    /\ Cause("docker")
    /\ UNCHANGED <<tip, tag, store, last, proven>>

(* The image can answer the probe. *)
Healthy(r) == run[r].ok /\ run[r].img \notin Broken

(* The container answers, exits, or never answers in time. *)
Probe(r) ==
    /\ run[r].pc = "probe"
    /\ \/ /\ Healthy(r)
          /\ Become(r, [run[r] EXCEPT !.pc = "remove", !.ok = TRUE])
          /\ proven' = IF run[r].img \in Broken THEN proven ELSE proven \cup {run[r].img}
       \/ /\ Become(r, [run[r] EXCEPT !.pc = "remove", !.ok = FALSE])
          /\ UNCHANGED proven
    /\ UNCHANGED <<tip, tag, files, store, last, rough>>

(* The finally block of smokeTest; a failing docker rm goes unnoticed. *)
SmokeClean(r) ==
    LET m == run[r]
        c == [config EXCEPT ![m.dir][m.i] = IF @ = "file" THEN "none" ELSE @]
    IN
    /\ m.pc = "remove"
    /\ \/ containers' = containers \ {<<r, m.i>>} /\ UNCHANGED rough
       \/ UNCHANGED containers /\ Cause("docker")
    /\ IF m.ok
       THEN /\ PruneAndOpen(r)
            /\ config' = c
            /\ Become(r, [m EXCEPT !.pc = "export"])
            /\ UNCHANGED <<clones, env>>
       ELSE Fail(r, c) /\ UNCHANGED store
    /\ UNCHANGED <<tip, tag, last, proven>>

-----------------------------------------------------------------------------
(* Export                                                                  *)

(* Mutant: the exit status of docker save is not looked at. *)
Trusted_Always(code) == TRUE

Trusted(code) == code = 0

(* The tar is complete on disk; docker save has ended with that status.    *)
(* It is renamed to its hash, or dropped if there is a file of that name.  *)
Exported(r, cut) ==
    LET m == run[r]
        a == Artifact(m.img, cut)
        n == [m EXCEPT !.images = @ \cup {a},
                       !.made = IF a \in staged THEN @ ELSE @ \cup {a}]
    IN
    /\ tmp' = tmp \ {r}
    /\ staged' = staged \cup {a}
    /\ old' = old \ {r}
    /\ env' = EnvDisposed(r)
    /\ rough' = IF a \in staged THEN rough \cup {"kept"} ELSE rough
    /\ IF m.i < NServices
       THEN Become(r, [n EXCEPT !.pc = "spec", !.i = @ + 1, !.img = None]) /\ UNCHANGED last
       ELSE Become(r, [n EXCEPT !.pc = "dispatch"]) /\ last' = n.images
    /\ UNCHANGED <<tip, tag, clones, config, containers, proven>>

(* Nothing, part or all of the image was written when docker save ended;   *)
(* it only ends with 0 after all of it.                                    *)
Export(r) ==
    /\ run[r].pc = "export"
    /\ \E cut \in BOOLEAN, code \in {0, 1} :
          /\ code = 0 => ~cut
          /\ Trusted(code)
          /\ Exported(r, cut)

ExportFails(r) ==
    /\ run[r].pc = "export"
    /\ tmp' = tmp \ {r}
    /\ old' = old \ {r}
    /\ Fail(r, config)
    /\ UNCHANGED <<tip, tag, containers, staged, last, proven, rough>>

-----------------------------------------------------------------------------
(* Hand-out                                                                *)

(* A run that re-sends what an earlier one staged: availableStagedImages   *)
(* keeps the images that are still on disk.                                *)
Resend(r) ==
    LET left == {a \in last : a \in staged} IN
    /\ run[r].pc = "new"
    /\ left # {}
    /\ Become(r, [Fresh EXCEPT !.pc = "dispatch", !.images = left])
    /\ rough' = Overlaps(r) \cup IF ServicesOf(left) # Services THEN {"partial"} ELSE {}
    /\ last' = left
    /\ UNCHANGED <<tip, tag, files, store, proven>>

(* All replicas are done with the run. *)
Finish(r) ==
    /\ run[r].pc = "dispatch"
    /\ Become(r, [run[r] EXCEPT !.pc = "done"])
    /\ DisposeClone(r, env, config)
    /\ UNCHANGED <<tip, tag, containers, store, last, proven, rough>>

(* ImageArtifactService.stream: what a replica that asks for a is sent. *)
Stream(a) == IF a \in staged THEN a ELSE None

(* Six hours pass for a file. A run takes minutes: what it made itself is  *)
(* not that old while it lasts.                                            *)
Age ==
    /\ \E f \in (staged \cup tmp) \ old :
          /\ \A r \in Runs : Active(r) => f # r /\ f \notin run[r].made
          /\ old' = old \cup {f}
    /\ UNCHANGED <<tip, tag, run, files, tmp, staged, last, proven, rough>>

Crash ==
    /\ \E r \in Runs : Active(r)
    /\ run' = [r \in Runs |-> IF Active(r) THEN [run[r] EXCEPT !.pc = "dead"] ELSE run[r]]
    /\ Cause("crash")
    /\ UNCHANGED <<tip, tag, files, store, last, proven>>

Step(r) ==
    \/ Begin(r) \/ CheckoutSubmodule(r) \/ StageEnvFile(r) \/ Build(r) \/ BuildFails(r)
    \/ Inspect(r) \/ SmokeStart(r) \/ SmokeStartFails(r) \/ Probe(r) \/ SmokeClean(r)
    \/ Export(r) \/ ExportFails(r) \/ Resend(r) \/ Finish(r)

Next == Age \/ Crash \/ (\E r \in Runs : Step(r)) \/ (\E i \in Services : Push(i))

Spec == Init /\ [][Next]_vars

-----------------------------------------------------------------------------
TypeOK ==
    /\ tip \in [Services -> 0..MaxCommit]
    /\ tag \in [Services -> Images \cup {None}]
    /\ run \in [Runs ->
         [pc : Over \cup {"clone", "spec", "build", "inspect", "start", "probe", "remove",
                          "export", "dispatch"},
          i : 0..NServices, dir : Runs \cup {Tree, None}, src : [Services -> 0..MaxCommit],
          prev : BOOLEAN, img : Images \cup {None}, ok : BOOLEAN,
          images : SUBSET Artifacts,
          made : SUBSET Artifacts, from : [Services -> 0..MaxCommit]]]
    /\ clones \subseteq Runs
    /\ env \subseteq (Runs \cup {Tree}) \X Services
    /\ config \in [Runs \cup {Tree} -> [Services -> {"none", "file", "dir"}]]
    /\ containers \subseteq Runs \X Services
    /\ tmp \subseteq Runs
    /\ staged \subseteq Artifacts
    /\ old \subseteq tmp \cup staged
    /\ last \subseteq Artifacts
    /\ proven \subseteq Images
    /\ rough \subseteq Roughness

(* "Proves they work before any replica is told to run them": whatever     *)
(* overlaps or crashes, an artifact a replica can download is a complete   *)
(* export of an image that answered its smoke test, if its service has one. *)
OfferedIsProven ==
    \A a \in staged : ~a.cut /\ (a.img.svc \in Tested => a.img \in proven)

Dispatching(r) == run[r].pc = "dispatch"
Sent(r) == run[r].images

(* A run that orders replicas to take images has one of every service ("a  *)
(* half-applied set is worse than none"), none older than the branch was   *)
(* when it began ("silently stale"), and all can still be downloaded; if   *)
(* runs did not overlap, none found its image exported before and none     *)
(* re-sent the rest of an earlier set.                                     *)
Deliverable ==
    rough \cap {"overlap", "kept", "partial"} = {} =>
        \A r \in Runs : Dispatching(r) =>
            /\ ServicesOf(Sent(r)) = Services
            /\ \A a \in Sent(r) : a.img.commit >= run[r].from[a.img.svc] /\ Stream(a) = a

(* "Removed however this step ends": with no run under way there is no     *)
(* clone, staged .env, smoke configuration, container or unfinished export *)
(* on the host, if docker started and removed containers as told and the   *)
(* process lived.                                                          *)
CleanedUp ==
    rough \cap {"overlap", "crash", "docker"} = {} /\ (\A r \in Runs : ~Active(r)) =>
        /\ clones = {} /\ env = {} /\ containers = {} /\ tmp = {}
        /\ \A d \in Runs \cup {Tree}, i \in Services : config[d][i] = "none"

(* The same without one of the conditions. *)
DownloadableThoughKept ==
    rough \subseteq {"kept"} =>
        \A r \in Runs : Dispatching(r) => \A a \in Sent(r) : Stream(a) = a
CompleteThoughResent ==
    rough \subseteq {"kept", "partial"} =>
        \A r \in Runs : Dispatching(r) => ServicesOf(Sent(r)) = Services
CleanedUpDespiteDocker ==
    rough \subseteq {"docker"} /\ (\A r \in Runs : ~Active(r)) =>
        containers = {} /\ \A i \in Services : config[Tree][i] = "none"
=============================================================================
