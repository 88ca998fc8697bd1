---------------------------- MODULE TieredStorage ----------------------------
(***************************************************************************)
(* Tiered storage: files that were not accessed for long are moved to a    *)
(* cold drive and replaced by a symbolic link, and moved back when they    *)
(* are accessed (TieredStorageService), under the file operations of users *)
(* that share the directory (FilesService, InstrumentedFileSystemService). *)
(*                                                                         *)
(* Every file system call is synchronous, so between two awaits a handler  *)
(* is not interleaved with another one: `turn' holds the demotion or the   *)
(* promotion whose system calls are being made, and only a crash of the    *)
(* process comes between them. Handlers interleave at every await.         *)
(***************************************************************************)
CONSTANTS
    Paths,          \* names users store files under
    Tmp,            \* temporary names "<path>.tiering-*" and "<path>.promoting-*"
    Hidden,         \* names starting with "." or "_", skipped by the walks
    Drives,         \* configured cold drives
    Data,           \* file contents
    None,           \* no directory entry, no file, nothing
    Torn,           \* what a copy cut short by a crash leaves
    Sweeps,         \* demotion sweeps that may overlap
    Tasks,          \* background promotions that may overlap
    NameReuse,      \* may a name be reused while its blob serves another name?
    OpenLeftovers,  \* do users open temporary names a crash left behind?
    Evacs,          \* evacuations that may overlap
    EvacDrives      \* drives an administrator may evacuate

Names == Paths \cup Tmp
Blobs == Drives \X Names        \* <<d, n>> is /mnt/d/cloud-dir/n

ASSUME NamesAssumption ==
    /\ Paths \cap Tmp = {}
    /\ Hidden \subseteq Paths
    /\ EvacDrives \subseteq Drives
    /\ NameReuse \in BOOLEAN
    /\ OpenLeftovers \in BOOLEAN

ASSUME DataAssumption ==
    /\ Data \cap Blobs = {}
    /\ None \notin Data \cup Blobs
    /\ Torn \notin Data \cup Blobs \cup {None}

VARIABLES
    main,       \* main[n]: contents of a real file, blob a link points to, or None
    cold,       \* cold[b]: contents of the blob b on its cold drive
    turn,       \* the demotion or promotion whose system calls are under way
    sweep,      \* sweep[s]: where the demotion sweep s stands
    demoting,   \* TieredStorageService.demoting
    task,       \* task[t]: the background promotion t
    promoting,  \* TieredStorageService.promoting
    deleting,   \* names whose cold data is removed and that are not unlinked yet
    evac        \* evac[e]: the evacuation e of a drive

vars == <<main, cold, turn, sweep, demoting, task, promoting, deleting, evac>>
jobs == <<sweep, demoting, task, promoting, deleting, evac>>

Steps == {"demote_copied", "demote_linked", "promote_copied", "promote_swapped"}
IdleTurn == [step |-> "idle", name |-> None, tmp |-> None, blob |-> None]
Turn(step, n, t, b) == [step |-> step, name |-> n, tmp |-> t, blob |-> b]

(* An idle sweep, background promotion and evacuation. The walk of a sweep *)
(* holds the files to visit with the drive it picked: <<d, n>> stands for  *)
(* n on its way to the blob <<d, n>>.                                      *)
IdleSweep == [pc |-> "idle", todo |-> {}]
IdleTask == [pc |-> "idle", name |-> None]
IdleEvac == [pc |-> "idle", drive |-> None, links |-> {}, link |-> None, blobs |-> {}]

IsReal(n) == main[n] \in Data \cup {Torn}
IsLink(n) == main[n] \in Blobs          \* lstatSync(n).isSymbolicLink()

(* What the kernel returns for n, following the link. *)
View(n) == IF IsLink(n) THEN cold[main[n]] ELSE main[n]

Init ==
    /\ main = [n \in Names |-> None]
    /\ cold = [b \in Blobs |-> None]
    /\ turn = IdleTurn
    /\ sweep = [s \in Sweeps |-> IdleSweep]
    /\ demoting = FALSE
    /\ task = [t \in Tasks |-> IdleTask]
    /\ promoting = {}
    /\ deleting = {}
    /\ evac = [e \in Evacs |-> IdleEvac]

(* No synchronous code is running: the event loop may enter a handler. *)
EventLoop == turn = IdleTurn

-----------------------------------------------------------------------------
(* Promotion: copy the blob to a temporary name, rename it over the link,  *)
(* remove the blob. Every call may throw.                                  *)

(* promote() up to the end of copyFileSync; a name that is not a link any  *)
(* more and a blob that is gone leave everything unchanged.                *)
PromoteCopy(n) ==
    \/ /\ IsLink(n)
       /\ View(n) # None
       /\ \E t \in Tmp :
            /\ main[t] = None
            /\ main' = [main EXCEPT ![t] = View(n)]
            /\ turn' = Turn("promote_copied", n, t, main[n])
    \/ UNCHANGED <<main, turn>>

(* Mutant: the blob is removed before the copy is renamed over the link. *)
PromoteSwap_DropFirst ==
    /\ turn.step = "promote_copied"
    /\ cold' = [cold EXCEPT ![turn.blob] = None]
    /\ turn' = IdleTurn
    /\ \/ main' = [main EXCEPT ![turn.name] = main[turn.tmp], ![turn.tmp] = None]
       \/ main' = [main EXCEPT ![turn.tmp] = None]
    /\ UNCHANGED jobs

PromoteSwap ==
    /\ turn.step = "promote_copied"
    /\ \/ /\ main' = [main EXCEPT ![turn.name] = main[turn.tmp], ![turn.tmp] = None]
          /\ turn' = [turn EXCEPT !.step = "promote_swapped"]
       \/ /\ main' = [main EXCEPT ![turn.tmp] = None]
          /\ turn' = IdleTurn
    /\ UNCHANGED <<cold, jobs>>

PromoteDrop ==
    /\ turn.step = "promote_swapped"
    /\ \/ cold' = [cold EXCEPT ![turn.blob] = None]
       \/ UNCHANGED cold
    /\ turn' = IdleTurn
    /\ UNCHANGED <<main, jobs>>

(* onAccess(n), started by every read and write: has() and lstat are made  *)
(* in the caller's turn, so only a link starts a background promotion.     *)
(* When every t in Tasks is busy the promotion is left out (bound).        *)
OnAccess(n, entry) ==
    IF entry \in Blobs /\ n \notin promoting /\ \E t \in Tasks : task[t] = IdleTask
    THEN \E t \in Tasks :
            /\ task[t] = IdleTask
            /\ task' = [task EXCEPT ![t] = [pc |-> "flag", name |-> n]]
    ELSE UNCHANGED task

(* The feature flag is answered: give up, or enter `promoting' and promote. *)
PromoteOnAccess(t) ==
    /\ EventLoop
    /\ task[t].pc = "flag"
    /\ \/ /\ task' = [task EXCEPT ![t] = IdleTask]
          /\ UNCHANGED <<main, turn, promoting>>
       \/ /\ promoting' = promoting \cup {task[t].name}
          /\ task' = [task EXCEPT ![t].pc = "finally"]
          /\ PromoteCopy(task[t].name)
    /\ UNCHANGED <<cold, sweep, demoting, deleting, evac>>

(* Mutant: no finally block, the entry of `promoting' stays. *)
PromoteFinally_Leak(t) ==
    /\ EventLoop
    /\ task[t].pc = "finally"
    /\ task' = [task EXCEPT ![t] = IdleTask]
    /\ UNCHANGED <<main, cold, turn, sweep, demoting, promoting, deleting, evac>>

PromoteFinally(t) ==
    /\ EventLoop
    /\ task[t].pc = "finally"
    /\ promoting' = promoting \ {task[t].name}
    /\ task' = [task EXCEPT ![t] = IdleTask]
    /\ UNCHANGED <<main, cold, turn, sweep, demoting, deleting, evac>>

-----------------------------------------------------------------------------
(* Demotion: copy the file to its mirror path on the cold drive, link a    *)
(* temporary name to it, rename the link over the file.                    *)

SweepStart(s) ==
    /\ EventLoop
    /\ sweep[s].pc = "idle"
    /\ ~demoting
    /\ sweep' = [sweep EXCEPT ![s].pc = "flag"]
    /\ UNCHANGED <<main, cold, turn, demoting, task, promoting, deleting, evac>>

(* The flag is off or no drive is accessible; or a drive is picked (the    *)
(* one with the most free space) and the directory is read.                *)
SweepPick(s) ==
    /\ EventLoop
    /\ sweep[s].pc = "flag"
    /\ \/ /\ sweep' = [sweep EXCEPT ![s] = IdleSweep]
          /\ UNCHANGED demoting
       \/ \E d \in Drives :
            /\ demoting' = TRUE
            /\ sweep' = [sweep EXCEPT ![s] =
                            [pc |-> "walk",
                             todo |-> {d} \X {n \in Names \ Hidden : IsReal(n)}]]
    /\ UNCHANGED <<main, cold, turn, task, promoting, deleting, evac>>

(* The form the mutants of SweepFile share: what is copied, and when. *)
SweepFileMutant(s, b, copied, guard) ==
    /\ EventLoop
    /\ sweep[s].pc = "walk"
    /\ b \in sweep[s].todo
    /\ guard
    /\ sweep' = [sweep EXCEPT ![s].todo = @ \ {b}]
    /\ cold' = [cold EXCEPT ![b] = copied]
    /\ \E t \in Tmp : main[t] = None /\ turn' = Turn("demote_copied", b[2], t, b)
    /\ UNCHANGED <<main, demoting, task, promoting, deleting, evac>>

(* Mutant: no lstat before the copy; a file that meanwhile became a link   *)
(* is copied onto itself and truncated.                                    *)
SweepFile_NoLstat(s, b) ==
    SweepFileMutant(s, b, IF IsLink(b[2]) THEN Torn ELSE main[b[2]], main[b[2]] # None)

(* Mutant: no lstat, and the copy preserves links. *)
SweepFile_CopyLink(s, b) == SweepFileMutant(s, b, main[b[2]], main[b[2]] # None)

(* Mutant: an error of the copy is ignored. *)
SweepFile_IgnoreError(s, b) == SweepFileMutant(s, b, Torn, IsReal(b[2]))

(* One file of the walk: it vanished, is recent or small, or became a link *)
(* (skipped); its copy to the cold drive fails and is unlinked; or it is   *)
(* copied.                                                                 *)
SweepFile(s, b) ==
    /\ EventLoop
    /\ sweep[s].pc = "walk"
    /\ b \in sweep[s].todo
    /\ sweep' = [sweep EXCEPT ![s].todo = @ \ {b}]
    /\ \/ UNCHANGED <<cold, turn>>
       \/ /\ IsReal(b[2])
          /\ cold' = [cold EXCEPT ![b] = None]
          /\ UNCHANGED turn
       \/ /\ IsReal(b[2])
          /\ cold' = [cold EXCEPT ![b] = main[b[2]]]
          /\ \E t \in Tmp :
                /\ main[t] = None
                /\ turn' = Turn("demote_copied", b[2], t, b)
    /\ UNCHANGED <<main, demoting, task, promoting, deleting, evac>>

(* catch: remove the temporary link and the copy. *)
DemoteUndo ==
    /\ main' = [main EXCEPT ![turn.tmp] = None]
    /\ cold' = [cold EXCEPT ![turn.blob] = None]
    /\ turn' = IdleTurn

DemoteLink ==
    /\ turn.step = "demote_copied"
    /\ \/ /\ main' = [main EXCEPT ![turn.tmp] = turn.blob]
          /\ turn' = [turn EXCEPT !.step = "demote_linked"]
          /\ UNCHANGED cold
       \/ DemoteUndo
    /\ UNCHANGED jobs

DemoteSwap ==
    /\ turn.step = "demote_linked"
    /\ \/ /\ main' = [main EXCEPT ![turn.name] = turn.blob, ![turn.tmp] = None]
          /\ turn' = IdleTurn
          /\ UNCHANGED cold
       \/ DemoteUndo
    /\ UNCHANGED jobs

SweepEnd(s) ==
    /\ EventLoop
    /\ sweep[s].pc = "walk"
    /\ sweep[s].todo = {}
    /\ sweep' = [sweep EXCEPT ![s] = IdleSweep]
    /\ demoting' = FALSE
    /\ UNCHANGED <<main, cold, turn, task, promoting, deleting, evac>>

-----------------------------------------------------------------------------
(* Evacuation of a cold drive: promote the links that point to it, then    *)
(* remove what is left on it.                                              *)

(* What walkSymlinks yields. *)
Links == {n \in Names \ Hidden : IsLink(n)}

(* An administrator asks for one; nothing keeps a second evacuation, even  *)
(* of the same drive, from starting beside it.                             *)
EvacStart(e, d) ==
    /\ EventLoop
    /\ evac[e].pc = "idle"
    /\ evac' = [evac EXCEPT ![e] = [IdleEvac EXCEPT !.pc = "links", !.drive = d,
                                                   !.links = Links]]
    /\ UNCHANGED <<main, cold, turn, sweep, demoting, task, promoting, deleting>>

(* Mutant: the walk starts over until it meets no link. *)
EvacReadlink_Rescan(e, n) ==
    /\ EventLoop
    /\ evac[e].pc = "links"
    /\ n \in evac[e].links
    /\ IsLink(n) /\ main[n][1] = evac[e].drive
    /\ evac' = [evac EXCEPT ![e].pc = "promote", ![e].link = n]
    /\ UNCHANGED <<main, cold, turn, sweep, demoting, task, promoting, deleting>>

(* readlink: only a link to this drive is promoted, one await later. *)
EvacReadlink(e, n) ==
    /\ EventLoop
    /\ evac[e].pc = "links"
    /\ n \in evac[e].links
    /\ evac' = IF IsLink(n) /\ main[n][1] = evac[e].drive
               THEN [evac EXCEPT ![e].links = @ \ {n}, ![e].pc = "promote", ![e].link = n]
               ELSE [evac EXCEPT ![e].links = @ \ {n}]
    /\ UNCHANGED <<main, cold, turn, sweep, demoting, task, promoting, deleting>>

(* An error of promote() is counted and the walk goes on. *)
EvacPromote(e) ==
    /\ EventLoop
    /\ evac[e].pc = "promote"
    /\ PromoteCopy(evac[e].link)
    /\ evac' = [evac EXCEPT ![e].pc = "links", ![e].link = None]
    /\ UNCHANGED <<cold, sweep, demoting, task, promoting, deleting>>

EvacScan(e) ==
    /\ EventLoop
    /\ evac[e].pc = "links"
    /\ evac[e].links = {}
    /\ evac' = [evac EXCEPT ![e].pc = "blobs",
                            ![e].blobs = {b \in Blobs : /\ b[1] = evac[e].drive
                                                        /\ b[2] \notin Hidden
                                                        /\ cold[b] # None}]
    /\ UNCHANGED <<main, cold, turn, sweep, demoting, task, promoting, deleting>>

EvacRemove(e, b) ==
    /\ EventLoop
    /\ evac[e].pc = "blobs"
    /\ b \in evac[e].blobs
    /\ evac' = [evac EXCEPT ![e].blobs = @ \ {b}]
    /\ \/ cold' = [cold EXCEPT ![b] = None]
       \/ UNCHANGED cold
    /\ UNCHANGED <<main, turn, sweep, demoting, task, promoting, deleting>>

EvacEnd(e) ==
    /\ EventLoop
    /\ evac[e].pc = "blobs"
    /\ evac[e].blobs = {}
    /\ evac' = [evac EXCEPT ![e] = IdleEvac]
    /\ UNCHANGED <<main, cold, turn, sweep, demoting, task, promoting, deleting>>

-----------------------------------------------------------------------------
(* File operations of users, through the instrumented file system.         *)

UserNames == IF OpenLeftovers THEN Names ELSE Paths

(* With NameReuse = FALSE users do not take a name whose mirror path still *)
(* holds the bytes of another name (the file was renamed while cold).      *)
NameFree(n, but) ==
    NameReuse \/ \A q \in Paths \ {n, but}, d \in Drives : main[q] # <<d, n>>

Read(n) ==
    /\ EventLoop
    /\ View(n) # None
    /\ OnAccess(n, main[n])
    /\ UNCHANGED <<main, cold, turn, sweep, demoting, promoting, deleting, evac>>

(* writeFileSync follows the link and writes the blob, in one step (a      *)
(* write through a stream is in TieredStreams).                            *)
Write(n, v) ==
    /\ EventLoop
    /\ NameFree(n, n)
    /\ IF IsLink(n)
       THEN cold' = [cold EXCEPT ![main[n]] = v] /\ UNCHANGED main
       ELSE main' = [main EXCEPT ![n] = v] /\ UNCHANGED cold
    /\ OnAccess(n, main[n])
    /\ UNCHANGED <<turn, sweep, demoting, promoting, deleting, evac>>

(* removeColdData, then (one await later) unlinkSync. *)
Delete(n) ==
    /\ EventLoop
    /\ main[n] # None
    /\ \/ IsLink(n) /\ cold' = [cold EXCEPT ![main[n]] = None]
       \/ UNCHANGED cold
    /\ deleting' = deleting \cup {n}
    /\ UNCHANGED <<main, turn, sweep, demoting, task, promoting, evac>>

DeleteUnlink(n) ==
    /\ EventLoop
    /\ n \in deleting
    /\ main' = [main EXCEPT ![n] = None]
    /\ deleting' = deleting \ {n}
    /\ UNCHANGED <<cold, turn, sweep, demoting, task, promoting, evac>>

(* renameSync: a link moves, the blob it points to stays where it is. *)
Rename(p, q) ==
    /\ EventLoop
    /\ p # q
    /\ main[p] # None
    /\ NameFree(q, p)
    /\ main' = [main EXCEPT ![p] = None, ![q] = main[p]]
    /\ UNCHANGED <<cold, turn, jobs>>

-----------------------------------------------------------------------------
(* The process is killed: the file system keeps what the calls made so far *)
(* did to it, everything in memory is lost.                                *)
LoseMemory ==
    /\ turn' = IdleTurn
    /\ sweep' = [s \in Sweeps |-> IdleSweep]
    /\ demoting' = FALSE
    /\ task' = [t \in Tasks |-> IdleTask]
    /\ promoting' = {}
    /\ deleting' = {}
    /\ evac' = [e \in Evacs |-> IdleEvac]

Crash == LoseMemory /\ UNCHANGED <<main, cold>>

(* ... in the middle of one of the two copies. *)
CrashInDemoteCopy(s, b) ==
    /\ EventLoop
    /\ b \in sweep[s].todo
    /\ IsReal(b[2])
    /\ cold' = [cold EXCEPT ![b] = Torn]
    /\ LoseMemory
    /\ UNCHANGED main

(* Mutant: the blob is copied straight over the link. *)
CrashInPromoteCopy_InPlace(n, t) ==
    /\ EventLoop
    /\ \E k \in Tasks : task[k].pc = "flag" /\ task[k].name = n
    /\ IsLink(n)
    /\ main' = [main EXCEPT ![n] = Torn]
    /\ LoseMemory
    /\ UNCHANGED cold

CrashInPromoteCopy(n, t) ==
    /\ EventLoop
    /\ \/ \E k \in Tasks : task[k].pc = "flag" /\ task[k].name = n
       \/ \E e \in Evacs : evac[e].pc = "promote" /\ evac[e].link = n
    /\ IsLink(n)
    /\ View(n) # None
    /\ main[t] = None
    /\ main' = [main EXCEPT ![t] = Torn]
    /\ LoseMemory
    /\ UNCHANGED cold

-----------------------------------------------------------------------------
SweepProgress(s) == SweepPick(s) \/ (\E b \in Blobs : SweepFile(s, b)) \/ SweepEnd(s)

Sweeping == \E s \in Sweeps : SweepStart(s) \/ SweepProgress(s)

Promoting == \E t \in Tasks : PromoteOnAccess(t) \/ PromoteFinally(t)

EvacProgress(e) == \/ \E n \in Names : EvacReadlink(e, n)
                   \/ EvacPromote(e)
                   \/ EvacScan(e)
                   \/ \E b \in Blobs : EvacRemove(e, b)
                   \/ EvacEnd(e)

Evacuating == \E e \in Evacs : EvacProgress(e) \/ \E d \in EvacDrives : EvacStart(e, d)

SystemCalls == PromoteSwap \/ PromoteDrop \/ DemoteLink \/ DemoteSwap

Users == \/ \E n \in UserNames : Read(n) \/ Delete(n)
         \/ \E p \in Paths, v \in Data : Write(p, v)
         \/ \E p, q \in Paths : Rename(p, q)

Unlinking == \E n \in UserNames : DeleteUnlink(n)

Crashing == \/ Crash
            \/ \E s \in Sweeps, b \in Blobs : CrashInDemoteCopy(s, b)
            \/ \E n \in Names, t \in Tmp : CrashInPromoteCopy(n, t)

Next == Sweeping \/ Promoting \/ Evacuating \/ SystemCalls \/ Users \/ Unlinking \/ Crashing

Spec == Init /\ [][Next]_vars

-----------------------------------------------------------------------------
(* The event loop runs every continuation that was queued, and a turn that *)
(* was entered runs to its end; the cron starts sweeps again and again.    *)
(* Users, administrators and crashes owe nothing.                          *)
Fairness ==
    /\ WF_vars(SystemCalls)
    /\ SF_vars(\E s \in Sweeps : SweepStart(s))
    /\ \A s \in Sweeps : SF_vars(SweepProgress(s))
    /\ \A k \in Tasks : SF_vars(PromoteOnAccess(k) \/ PromoteFinally(k))
    /\ \A e \in Evacs : SF_vars(EvacProgress(e))
    /\ SF_vars(Unlinking)

FairSpec == Spec /\ Fairness

-----------------------------------------------------------------------------
(* Names, blobs, marks and positions are what their declarations say; in   *)
(* particular no blob is itself a link (demote never copies one).          *)
TypeOK ==
    /\ main \in [Names -> Data \cup {Torn, None} \cup Blobs]
    /\ cold \in [Blobs -> Data \cup {Torn, None}]
    /\ turn \in [step : Steps, name : Names, tmp : Tmp, blob : Blobs] \cup {IdleTurn}
    /\ sweep \in [Sweeps -> [pc : {"idle", "flag", "walk"}, todo : SUBSET Blobs]]
    /\ demoting \in BOOLEAN
    /\ task \in [Tasks -> [pc : {"flag", "finally"}, name : Names] \cup {IdleTask}]
    /\ promoting \subseteq Names
    /\ deleting \subseteq Names
    /\ evac \in [Evacs -> [pc : {"idle", "links", "promote", "blobs"},
                           drive : Drives \cup {None}, links : SUBSET Names,
                           link : Names \cup {None}, blobs : SUBSET Blobs]]
    /\ \A e \in Evacs : evac[e].pc = "promote" => evac[e].link \in Names

(* No two names users know share a blob. *)
BlobsUnshared ==
    \A p, q \in Paths : p # q /\ main[p] \in Blobs => main[p] # main[q]

(* While a renamed cold file still lives at its old mirror path, the old   *)
(* name is unused: a demotion to that path has nothing to overwrite.       *)
MirrorFree ==
    \A p, q \in Paths, d \in Drives :
        p # q /\ main[q] = <<d, p>> => main[p] = None

(* No name users know holds a copy that a crash or an error cut short, or  *)
(* a blob written for a temporary name.                                    *)
NothingTorn ==
    \A p \in Paths : /\ View(p) # Torn
                     /\ IsLink(p) => main[p][2] \in Paths

(* What the calls of a demotion or a promotion rely on between two calls:  *)
(* a demotion copied the whole file to a blob that no name uses and works  *)
(* with a temporary name of its own; a promotion holds a whole copy before *)
(* the blob goes.                                                          *)
TurnSound ==
    LET n == turn.name  b == turn.blob  t == turn.tmp
        unused == \A p \in Paths : main[p] # b
        copied == IsReal(n) /\ b[2] = n /\ cold[b] = main[n] /\ unused
    IN  /\ turn.step = "demote_copied" => copied /\ main[t] = None
        /\ turn.step = "demote_linked" => copied /\ main[t] = b
        /\ turn.step = "promote_copied" =>
                n \in Paths /\ main[n] = b /\ main[t] = cold[b] /\ cold[b] # None
        /\ turn.step = "promote_swapped" =>
                n \in Paths /\ main[n] = cold[b] /\ unused

(* Background promotions are only started for names that users access. *)
TasksSound == \A k \in Tasks : task[k].pc # "idle" => task[k].name \in UserNames

(* The three above hold between any two system calls, the last two tie     *)
(* them to the work in progress.                                           *)
Inv == BlobsUnshared /\ MirrorFree /\ NothingTorn /\ TurnSound /\ TasksSound

(* The conditions under which tiering loses nothing: no name is reused     *)
(* while its mirror path serves another name, leftovers of a crash stay    *)
(* closed, and no drive is evacuated. Each one is needed.                  *)
Careful == ~NameReuse /\ ~OpenLeftovers /\ EvacDrives = {}

Drive == INSTANCE CloudDrive WITH files <- [p \in Paths |-> View(p)]

(* Users see a map from names to contents that changes only the way an     *)
(* upload, a deletion or a rename changes it.                              *)
ImplementsDrive == Drive!Spec

Background == Sweeping \/ Promoting \/ Evacuating \/ SystemCalls \/ Crashing

(* Tiering is transparent: no step of a sweep, a promotion or an evacuation *)
(* and no crash between two of their system calls changes what any name     *)
(* reads as ("reads, stats and directory listings just work", header of     *)
(* TieredStorageService).                                                   *)
Transparent ==
    [][(\E p \in Paths : View(p)' # View(p)) => ~Background]_vars

(* The only background activity that can cost a file is an evacuation, and *)
(* it costs only files whose bytes are on a drive being emptied:           *)
(* overlapping sweeps, promotions that race with them and crashes change   *)
(* what no name reads as.                                                  *)
EvacLossConfined ==
    [][\A p \in Paths :
            View(p)' # View(p) /\ Background
                => IsLink(p) /\ \E e \in Evacs : main[p][1] = evac[e].drive]_vars

(* Every evacuation comes to its end, whatever fails on the way. *)
EvacEnds == \A e \in Evacs : evac[e].pc # "idle" ~> evac[e].pc = "idle"

(* Every sweep that takes the `demoting' mark gives it back, and so does   *)
(* every promotion with its entry of `promoting' (the two finally blocks): *)
(* a mark that stays would switch demotion, or the promotion of one file,  *)
(* off until the next restart.                                             *)
MarksReturned ==
    /\ demoting ~> ~demoting
    /\ \A n \in Names : n \in promoting ~> n \notin promoting

Orphan(b) == cold[b] # None /\ \A n \in Names : main[n] # b

(* The header's "background jobs (demotion + GC)": a blob that no name     *)
(* leads to is reclaimed some day.                                         *)
OrphansReclaimed == \A b \in Blobs : Orphan(b) ~> ~Orphan(b)
=============================================================================
