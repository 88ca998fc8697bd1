# Verification of Shado Cloud

TLA+ modules for the parts of Shado Cloud whose correctness depends on the order
in which things happen: the background moves of files between drives, uploads, the
caches of thumbnails and feature flags, the deployment pipeline that restarts the process
it runs in, the images it builds, their propagation to the replicas, the replication of
files and databases, the terminal of administrators, and the links by which files are
shared. Every module is written from the source (`src/src/...`); `PROJECT.json` gives,
for each definition, the lines it stands for.

## 1. The system

Shado Cloud is a NestJS server: one process with one event loop, a file tree (the
*cloud directory*), a MySQL database, Redis. A *master* serves users; *replicas*
are the same program in another role, connected to the master by a socket (the
*replica link*). Handlers interleave at every `await` and nowhere else; file system
calls are synchronous.

| Part | State | Operations | Hard because |
|---|---|---|---|
| Tiered storage (`file-system/tiered-storage.service.ts`) | the tree with its links, blobs on cold drives, `demoting`, `promoting` | sweep (cron and by hand), promotion on access, evacuation, removal of cold data | several system calls per move and a process that may die between them; walks that hold stale paths; flags awaited between a test and its mark |
| Uploads, quota, ranges (`files/files.service.ts`, `.controller.ts`) | the tree, rows, upload sessions, directories of parts, the cached total | upload, chunked upload (init, part, complete), download of a range | a completion streams across awaits into its final name; a total that is an hour old; arithmetic at the edges |
| Thumbnails (`files/files.service.ts`, `thumbnail-cache.interceptor.ts`) | thumbnail files named after a row, Redis keys named after a path | make, cache, drop on change | two caches dropped one after the other while others fill them |
| Deployment (`admin/deployment.service.ts`, `.controller.ts`) | state in Redis (`current`, `last`, the queue), a copy in the memory of each run, `cancelled`, the child process | start, webhook, queue, propagate only, retry, cancel, resume | two copies of one state; the pipeline kills its own process; check-then-act across awaits |
| Images (`admin/image-build.service.ts`, `replication/image-artifact.service.ts`) | clones, staged env files, containers, archives on disk, tags | clone, build, smoke test, export, prune, re-send, download | four things to give back on every path; a failing export that looks complete; pruning by age |
| Propagation (`admin/replica-propagation.service.ts`, `replication/replica-link.*`, `replica-deploy.runner.ts`) | statuses, early frames, watchers and timers; the registry; the runner's active run | dispatch, ack, progress, timeout, reconnection, accept, run, restart | messages before their acks, after a reconnection, of an earlier run; success defined by a disconnection |
| File replication (`replication/replication.service.ts`) | trees of master and replica, `isReplicating` | listing, download, deletion, live check, backups report | the master changes during a pass, transfers break, listings may be incomplete |
| Database replication (same file) | dump, import, `isDbReplicating` | dump, transfer, import | import without a transaction, two jobs |
| Replica registry (same file) | Redis hash | record, stale check, alert | read-modify-write, concurrent checks on one snapshot |
| Temporary URLs (`temp-url/tempUrl.service.ts`) | rows with a request count | generate, stream, save, list, delete | a counter across awaits |
| Feature flags (`admin/feature-flag.service.ts`) | database rows, Redis cache | get, enable, disable, update, create, delete | readers that fill the cache after it was dropped; whole rows saved |
| Remote terminal (`admin/remote-terminal.gateway.ts`) | sockets, shells, two-factor grants | connect, spawn, disconnect, sweep | several awaits between the socket and its shell; a grant that lapses among them |

Interactions: users reach the tree through `InstrumentedFileSystemService`, which
calls `TieredStorageService.onAccess` after every read and write; an upload drops the
thumbnails of what it replaces; a deployment's propagate step builds images, then calls
`ReplicaPropagationService.propagate`, which talks to the replicas through
`ReplicaLinkRegistry`; a replica's `ReplicaDeployRunner` restarts the process its socket
belongs to; `FilesService` asks the connected replicas, through the same link, whether
they hold a file; feature flags are asked by all, the terminal among them.

What makes the parts correct:

* tiered storage: users cannot tell that files move; nothing is lost by a crash;
* uploads: what is reported as stored is what was sent, within the quota; a range is
  answered with the bytes it asks for;
* thumbnails: after a change nothing shows the old contents;
* deployment: one run at a time, steps in order, success only after every step, a
  resumed run continues where it stood, everything queued is served;
* images: replicas are only offered complete images that were tried out, a dispatched set
  is whole, recent and can be downloaded, and a build leaves nothing behind;
* propagation: it ends, every replica gets one final status, and success is earned;
* file replication: nothing the master has is deleted, what counts as a copy is
  one, and the replica converges to the master;
* database replication: a reported import is a clean replacement, and imports keep
  succeeding; the registry: one alert per stale replica;
* temporary URLs: what happens through a link stays within what its owner allowed
  (writing, number of requests), and a deleted link stays deleted;
* feature flags: a toggle stays and is seen within the lifetime of the cache; the terminal:
  no shell outlives its grant.

## 2. Modules

| Module | Models | Notes |
|---|---|---|
| `CloudDrive` | what users may assume: a map from names to contents | abstract specification |
| `TieredStorage` | `TieredStorageService` with the user operations of `FilesService` on the same tree | implements `CloudDrive`; instances in `MCTieredStorage`, theorems in `TieredStorageProofs` |
| `TieredStreams` | a write through `createWriteStream` among them | extends `TieredStorage`; instance in `MCTieredStreams` |
| `Uploads` | uploads, sessions, quota, ranges of `FilesService` and its controller | instance in `MCUploads`, theorems in `FilesProofs` |
| `Thumbnails` | `toThumbnail`, the interceptor, invalidation | instance in `MCThumbnails`, theorems in `FilesProofs` |
| `Deployment` | `DeploymentService`, `DeploymentController` | two pipelines in `MCDeployment`, theorems in `DeploymentProofs` |
| `Images` | `ImageBuildService`, `ImageArtifactService`, `buildReplicaImages` | instance in `MCImages`, theorems in `ImagesProofs` |
| `ReplicaPropagation` | master, sockets and runner of a propagation | theorems in `ReplicaPropagationProofs` |
| `Mirroring` | the replication pass, the master's listing and file endpoint, the backups report | theorems in `MirroringProofs` |
| `ReplicaRegistry` | the registry and its stale check | theorems in `DatabaseReplicationProofs` |
| `DatabaseReplication` | dump, transfer, import | extends `ReplicaRegistry`: the two services of one class run side by side; theorems in `DatabaseReplicationProofs` |
| `FeatureFlags` | `FeatureFlagService` | theorems in `AccessProofs` |
| `RemoteTerminal` | `RemoteTerminalGateway`, step-up grants | composed with `FeatureFlags`: connections are its readers; theorems in `AccessProofs` |
| `TempUrl` | `TempUrlService`, `TempURLController` | theorems in `AccessProofs` |

Several properties hold under a condition on what has happened, not on a constant: a
history variable (`rough`, `excuse`, `undone`, `revived`, `cut`, `crossed`, `pressed`, the
causes in `history` of `Deployment`) records it, so one run contains the disturbed behaviours as well and the property says which of them
it excuses. Section 5 has, for each excuse that matters, a configuration that shows the
property fail without it.

**TieredStorage.** `main` maps a name to the contents of a real file, to the blob its
link points to, or to nothing; `cold` maps a blob `<<drive, name>>` (its mirror path)
to contents. `turn` holds the demotion or promotion whose system calls are under way:
since they are synchronous only a crash comes between them, and every other action
waits for the event loop. Demotion is `SweepFile` (up to the copy), `DemoteLink`,
`DemoteSwap`; promotion is `PromoteCopy`, `PromoteSwap`, `PromoteDrop`; each call may
throw, and then the catch block is part of the action. `Crash*` kills the process
between calls or inside a copy, which leaves `Torn`. Abstracted: which files are old
and large enough (any may be), directories, sizes, access statistics. A failed copy
removes its target, as the copy of libuv does. `evac[e]` is one of the evacuations that
`evacuateDrive` lets overlap, of the same drive or of several. Users write with
`writeFileSync`, one step as far as other handlers see.

**TieredStreams.** The completion of a chunked upload writes its destination through a
stream instead, over many turns of the event loop. `stream` is one such write: the entry
its open file has, which a demotion or a promotion takes away by its rename, what it
writes, and which kinds of moves came under it. `NextStreams` lets its calls come between
those of every other handler of `TieredStorage`. Tiering is *not* transparent to a file
being streamed into (section 5), so neither `Transparent` nor the refinement is claimed
of this module, only what a stream that no move met stores (`StreamStored`).

**Uploads.** Sizes are counted in parts, 1 to `MaxSize`. `disk[n]` is the sequence of parts stored under
a name, each with the session it came from, so that a mixture shows; `tmp[n]` is the
directory of parts, which is named after the destination and hence shared by sessions;
`cache` is the cached total, `Total` what the server sums up: `listrecursive` leaves out
what lies under a name with a leading dot (`Hidden`), while `upload` accepts such a
destination, so more may be stored (`SizeOf`) than is counted. An upload is `Ask`, `GetUsedData` (a hit is EXISTS, then
GET), `UploadWrite`, `FindRow`, `UploadSave`, `UploadCount`; a completion opens the
destination (`ChunkedUploadComplete`), pipes part by part (`Pipe`, `Piped`) and saves the
row. Any await may fail; the process may die. `ParseByteRange` is the parser of the
controller on parsed numbers; the reference is `AskedFor`, a set of bytes. The header is looked at for audio and video only,
and of several ranges the first; whatever else is asked for is sent whole.

**Thumbnails.** An image is a version, its thumbnail the version it was made from.
`thumb[i]` belongs to row `i`, `redis[n]` to a path. The readers' steps are the awaits of
`toThumbnail` and of the interceptor; feature flags may switch each cache off at every
point. The writers are upload, chunked upload, `save`, `new`, `delete` and `rename`, of
which only three drop thumbnails, and only when they find a row. PDF files take the same
steps as images; videos (`files.service.ts` 628-657) only use the cache of the
interceptor and are left out, and so is `invalidateAllThumbnails`. `RenameRow` moves the
row in one step. The key in Redis has the path as the request spells it, the pattern of
the SCAN the normalised path of the row, unescaped: a key that the pattern does not match
is kept in `unfound`, and its name is excused until it expires. `UpdateStats` is the row
that a download inserts for a file without one.

**Deployment.** `current` is the deployment in Redis, `handler[h]` an asynchronous
chain with the copy it holds in memory, `queued` the number of tickets, `restarting`
a restart that was ordered. One action per stretch between two awaits that matter: every
check (`isRunning`, `getState`) is one step and what is done on its answer a later one.
`Boot` (in `Restart`) is `onModuleInit`: it resumes what Redis calls running. Switches:
`Cancels`, `FlagOff`, `Edits` (a project is deleted or disabled), `RetryAny` (a retry may
name any step), `Crashes`. `history` records what went wrong since a run last started from
rest (`Commit` while `Alone` empties it): a start committed on an answer that was outdated
by then, or before the next of the queue was started (`overtaken`), a cancellation, a
refusal by the flag, a webhook that queues behind a run already over (`late`), a project
that is gone, a run that cannot go on or whose restart command fails (`abandoned`), the
end of a process without a running deployment (`stopped`).

**Images.** A run is one propagation step; runs may overlap, since the check for another
one is not atomic with the start. An image is a service at a commit, an artifact an image
and whether its export is cut short (it is named after the hash of its contents); what a
run has gathered, and the set the last run dispatched, are sets of artifacts. One
action per command: clone, submodule, env file, build, inspection of the tag, smoke
container, probe, clean-up, export; each may fail, and then what the `finally` blocks do
is part of the action. `Age` lets files pass the retention time, but nothing a run made
itself while it lasts (six hours against minutes). A smoke configuration that a step
names itself is taken like the generated one.

**ReplicaPropagation.** A socket is `<<replica, n>>`, the n-th connection. `wire` is
the FIFO from a replica to the master; what is sent while disconnected waits in it, as
the socket library buffers it. `order`, `early`, `rep`, `waiting` are the local
variables of `propagate()`. Step frames only change a log and are left out. Orders with
images go to an updater outside this repository and are left out.

**Mirroring.** `master` and `replica` are the two trees, `away` the files of the master
that cannot be resolved, `pass` the local variables of `replicate()`. A download creates
the file (`Partial`), then the stream ends or breaks. `rough` records that a file was
edited, a name reused, a drive unmounted, a transfer cut short. `GetBackups` is the
report users see: the locations that count as copies, given what the replica answers.

**ReplicaRegistry, DatabaseReplication.** Of an entry of the registry its age and its
count are kept; a stale check holds the stale entries of its snapshot and claims each by
`HDEL`. In database replication a table is the number of times it was written, its rows
come in `NBatches` statements (`TableScript`). A dump has the statements of one table after
those of another; a place in it is a table and the number of its statements passed, and
the import goes from place to place (`After`), executing each statement in `copy`, to the
`End` or to where a transfer that ended early, between two lines or within one, left it.

**FeatureFlags, RemoteTerminal.** One flag: its row, its copy in Redis, the operations of
administrators (each a read, a save and a DEL) and the lookups of readers. In
`RemoteTerminal` a connection is authenticated, becomes a reader of the flag, asks for the
grant and starts its shell, each step an await during which the client may leave; the
sweep visits the sessions one by one.

**TempUrl.** `row` is the database, `handler[h]` a request with the copy of the row it
read, `target` what is stored under the path of a link. A request is `Find`, `Check`,
`Resolve`, `Count`, `Serve`, separated by its awaits; `Count` saves the copy, which
inserts the row when it is gone, as the repository's `save` does. `terms`, `served`,
`written`, `revoked` are history, and so are `crossed` (a request has saved a copy whose
counter was no longer the one in the row, so that a count is lost) and `pressed` (the link
was deleted while a request through it was under way). Reading endpoints (meta, list,
thumbnail) and the arithmetic on paths are left out.

## 3. Runs

| Run | Question | Instance |
|---|---|---|
| `tiered_storage` | Is tiering transparent, and does it implement `CloudDrive`? | 2 names, 2 temporary names, 1 drive, 2 contents, 1 sweep, 1 promotion; names and contents symmetric |
| `tiered_live` | Overlapping sweeps and evacuation: what can be lost, does everything end? | 1 name, 1 drive, 2 sweeps, 1 promotion, 1 evacuation |
| `uploads` | Is a completed upload whole, the quota kept, a range honoured? | 3 names (1 hidden), 2 sessions, 2 handlers, sizes up to 2 (`MaxSize`), quota 2, 3 requests |
| `thumbnails` | Do both caches show the present contents after a change? | 2 names, 1 reader, 1 writer, 2 changes; a VIEW keeps of the excuses which names have one |
| `deployment` | One run at a time, owned, in order, successful only when complete, tickets started? | 4 steps (command, skipped command, restart, propagate), 2 chains, 3 attempts, 1 ticket; cancellations, edits, refusals, crashes |
| `deployment_live` | Does every run end, is the queue served? | 2 steps (command, restart), 2 chains, 2 attempts, 1 ticket; cancellations, refusals, crashes |
| `images` | Are offered images complete and tried out, dispatched sets deliverable, hosts left clean? | 2 services (one tested, one with an env file), 2 runs, 1 push, broken later images |
| `propagation` | Does a propagation end with one final, earned status each? | 2 replicas, one restarts, 2 connections each |
| `mirroring` | Does a pass keep what the master has, are copies copies, does the replica converge? | 3 files (1 ignored), 2 contents, 4 changes, 2 faults |
| `database_replication` | Is a reported import clean, do imports recur, is each lapse mailed about once? | 2 tables (1 without data), 2 batches, 2 jobs, 1 write, 1 fault; 1 replica, 2 checks |
| `remote_terminal` | Does a toggle stay and settle, does a lapsed grant end every shell? | 2 administrators, 2 connections, 2 operations, 2 grants |
| `tempurl` | Does everything through a link stay within its terms? | 1 link, 3 requests at once, limits 0 to 2, 4 served |

Why these bounds are enough to be interesting: two names are what a rename and a reuse
need, two temporary names what a crash leftover and a later move need, two chains what
a lost check, a cancellation under a run, or a webhook that queues too late needs (a run
that hands over is one chain, and the ticket it takes goes on in it); three attempts is
the code's own constant, two leave one failure to be tried again; two connections are a loss and a reconnection; two faults let a
repair fail once; three requests on one link exceed each limit (links do not interact).
Three requests are an upload or a session, its completion and one more (a retry after a
completion that failed needs four: left to `CompletedIsWhole`); files of zero to
two parts with positions up to three contain every edge of a range. Two changes of an
image are the one whose thumbnail is cached and the one that replaces it. Two runs share
a working tree and a directory of artifacts. Two jobs are the one after boot and the
hourly one; two stale checks hold one snapshot. Bounds that are not in the code:
`MaxSize`, `MaxQueue`, `MaxConn`, `MaxRuns`, `MaxChanges`, `MaxFaults`, `MaxServed`, `MaxRequests`,
`MaxVersion`, `MaxCommit`, `MaxOps`, `MaxGrants`, `MaxWrites`, and the
sizes of `Sweeps`, `Tasks`, `Handlers`, `Sessions`, `Runs`, `Jobs`, `Checkers` (an access
that finds no free task starts no promotion). Each property has a mutant of the code that
breaks it. The type invariants of the modules that are not listed with a run hold on that
run's instance too.

Deadlock is not checked for the bounded modules whose users simply stop at a bound
(`Uploads`, `Thumbnails`, `Images`, `RemoteTerminal`, `DatabaseReplication`): nothing in
the code waits for anything there but its own awaits, and each of those may fail.

Both runs of the deployment let checks and commits interleave, and administrators cancel;
they assume that a retry names the step that failed, and `deployment_live` that no project
is deleted or disabled (with it the run passes too, in four minutes). Section 5 shows what
each excuse stands for.

**Fairness.** Tiered storage: a turn that was entered runs to its end (weak fairness of
`SystemCalls`), the event loop runs every continuation and the cron fires again (strong
fairness of sweeps, promotions, evacuation and unlinks: a continuation is disabled while
another handler has the loop). Deployment: strong fairness of every chain's `Continue`,
for the same reason; it includes that commands exit, which the code does not enforce
(`runStep` has no timeout), and that a restart command that did not fail restarts the
process. Propagation: only the
master's timers and continuations, weakly; network and replicas owe nothing. Mirroring:
the cron fires, a request is answered or fails, an unmounted drive is mounted again.
Database replication: each job runs and continues. Feature flags: the cached copy expires,
and a lookup goes on. Remote terminal: the cron fires every 30 seconds, the sweep goes on,
and Redis answers for a session some of the time (strong fairness of `SweepOne`).
Users, administrators, crashes and faults are never fair.

## 4. Proofs

TLAPS checks eight proof modules, for every value of the constants the modules' named
assumptions admit (finite sets of names, bounds that are natural numbers, model values
that differ). Each theorem rests on an inductive invariant, which TLC checked on an
instance before it was proved; one lemma per action shows that it is kept, and the last
step of a theorem combines them. The one condition
on a switch of the deployment (`ASSUME ~RetryAny`) is the one under which the run checks
the property; section 5 shows it fail without it. No theorem assumes that handlers do not
interleave.

`TieredStorageProofs`
* `TypeCorrect`: `Spec => []TypeOK`, no condition.
* `OnlyEvacuationCosts` and `NamesStaySound`, under `Gentle`: no name is reused while its
  mirror path holds another file's bytes, and leftovers of a crash are not opened by users.
  Drives may be evacuated, sweeps may overlap. What users care about (`NothingTorn`) is
  not inductive. A demotion overwrites a blob, so the blob must belong to nobody else
  (`BlobsUnshared`), which a rename endangers unless the old name stays free
  (`MirrorFree`); these three are `NamesSound`. Between two system calls the copy must be
  whole (`TurnHeld`), by whoever started the move (`TasksSound`). An evacuation also
  promotes the temporary links a crash left; such a link may share its blob with a name
  that users know, and its promotion takes that name's bytes. `TurnHeld` allows this for
  a blob on a drive being emptied (`Emptying`) only, or one of that temporary name's own,
  and `EvacSound` says that an evacuation deals with nothing else. Any number of
  evacuations may overlap: a link that one of them has read, another may have promoted by
  then and a sweep demoted again. `IInv` is the conjunction with `TypeOK`.
* `Safety`: under `Careful` (`Gentle`, and no drive is evacuated), `Spec => []Inv`. Each of
  the three conditions is needed: drop one and TLC finds a lost file (section 5).
* `Transparency`: under `Careful` no background step changes what a name reads as.
* `Refinement`: the initial state maps to the initial state of `CloudDrive`, and every
  step to a write, a deletion, a rename or a stutter.

`DeploymentProofs`
* `TypeCorrect`, no condition; it contains that no command is tried more than
  `MaxAttempts` times.
* `StepsInOrder` (`InOrder`) for `~RetryAny`, under every interleaving, with
  cancellations, crashes and refusals. `IInv` says of every copy of a deployment, in Redis
  or in a chain, that the steps before the current one are done (`Ordered`), and what a
  chain holds at each of its awaits (`ChainOK`): a stale copy that is saved later is
  still in order.
* `SuccessIsAll` (`SuccessMeansAll`) for `~RetryAny`, cancellations included: one in the
  delay before another attempt at the last step ends the loop as if it were over, and the
  property says so.
* `OneRunAtATime`, `RunIsOwned`, `TicketIsStarted` (`SingleRun`, `RunOwned`,
  `TicketStarts`), without conditions: every chain may be at any await, and what excuses a
  property is the event that went wrong, not an interleaving that is ruled out. The
  inductive invariant `SInv` has one part for each: while no commit was outdated and nobody
  cancelled, whoever runs is alone and owns the state in Redis (`Owned`); whatever is
  interleaved, a deployment that Redis calls running is driven by a run, by a retry about to
  save its own, or by the restart that was ordered (`Driven`); and while a chain hands over
  to the queue nothing runs, and it was told so (`Clear`).

`ReplicaPropagationProofs`, all without conditions
* `TypeCorrect`, `DoneIsSettled` (`DoneMeansSettled`), `SettledForGood` (`SettledOnce`).
* `SuccessIsEarned` (`SuccessEarned`): a success comes from a frame, from a frame that was
  kept until its ack, or from a reconnection, so the invariant follows the claim back to
  the replica: frames on the wire (`WireEarned`), frames kept back, which are of this run
  (`EarlyEarned`), replicas that are restarting (`StatusEarned`); `Stages` says which
  variables of `propagate()` are in use when.

`FilesProofs`: first the uploads
* `TypeCorrect`.
* `CompletedIsWhole` (`AssembledWhole`), whose condition is that one upload at a time goes
  to a name. While it holds (`Alone`): one session open and one request per name, a session
  open with all its parts while it is completed (`HeldOpen`), each part its own or already
  assembled (`OwnParts`), the destination the parts piped so far (`Assembling`), and a row
  only inserted where there is none (`OneRow`).
* `QuotaIsKept` (`QuotaKept`) from `QInv`: while nothing disturbs it, the cached total is
  what is stored under names that are counted, or was before the one upload under way
  (`Counted`); and while nothing was stored under a hidden name, that is all there is.
* `RangesAreHonoured` (`RangeHonoured`): arithmetic, one case per form of the header.

then the thumbnails (`Uploads` and `Thumbnails` share no name, so that one module can
extend both):
* `ThumbnailsAreFresh` (`Fresh`), for any files, requests and changes. What is stored now
  was read from the file several awaits ago, so the invariant `ThumbInv` speaks of what
  readers carry too (`Settled`): with no change of a file under way and no excuse, both
  caches and every request on its way have what the file has, and no request of another
  name holds one of its rows. A change leaves this state in steps. `Dropping` says how far
  it has come (the file written, the thumbnail of the row dropped, the key in Redis
  dropped). For that, it must be alone with its files and their rows as long as it is not
  marked as raced (`Unraced`), be of a kind that drops thumbnails when the file has no
  excuse (`Unexcused`), and find the only row the file has (`SingleRow`, `RowsApart`), which a
  download may insert at any moment. A key in Redis that no change would find keeps an
  excuse (`Strays`).
* `AnswersAreFresh`, from the same invariant: what a request is about to send is right
  too, not only what it leaves behind.
* `ThumbnailsTypeCorrect`.

`ImagesProofs`
* `TypeCorrect`.
* `OfferedAreProven` (`OfferedIsProven`), no condition: an image about to be exported
  answered its smoke test (`Placed`), although the tag it was looked up by may have moved
  since the build, because the container and the export take the image that was found.
* `OrderedIsDeliverable` (`Deliverable`), whose conditions are no overlap, no kept export and no
  re-sent rest: a run has gathered one current image of each service before the one it is
  at, made by itself, so that pruning spares them (`Gathered`).
* `NothingIsLeft` (`CleanedUp`): what is on the host belongs to the one active run and to
  the step it is at (`Mine`), and nothing does when none is active (`Bare`).

`DatabaseReplicationProofs`
* `RegistryTypeCorrect`.
* `AlertIsOnce` (`AlertedOnce`) for any number of overlapping checks: a lapse pays for the
  stale entry, the mail that is due and the mails sent (`Paid`); who holds a replica in
  its snapshot finds it still stale or gone (`HeldIsStale`), and the one whose `HDEL`
  removed it is the only one to mail (`ClaimedOnce`).
* `OneJobAtATime`: one database copy at a time, and `isDbReplicating` is set during it.
* `ReplaceIsClean` (`CleanReplace`) for any number of tables, batches and jobs, with
  failures, crashes and writes anywhere, from `RepInv`: a table is dumped as it was at
  some moment since the job began (`Dumped`); an import has every table before its place
  whole, and the one it is at dropped, or created and filled by the batches passed
  (`Filled`); and it ends at the `End` unless a dump was cut. That the statements of two
  jobs never mix is `OneJobAtATime`.
* `TypeCorrect`: the whole state, with the bounds, from `RepInv` (an import never leaves
  the dump).

`MirroringProofs`
* `TypeCorrect`.
* `LiveFilesKept`: `Spec => KeepsLive`, without conditions. The invariant is
  `DoomedGone`: no file on the list to delete has been on the master ever since it was
  listed. It is established by `ListAll`, because an incomplete listing dooms nothing.
* `CopiesAreCopies`: `Spec => []CopyConfirmed`, whose condition is that nothing rough has
  happened so far. The inductive invariant `CopyInv` says that the trees agree
  (`Matching`), what the download under way is going to write, and that `isReplicating`
  holds exactly during a pass; it is kept by every step after which `rough` is still
  empty, and `rough` only grows (`RoughStays`).

`AccessProofs`: first the temporary URLs
* `TypeCorrect`.
* `GrantIsKept` (`GrantKept`), under every interleaving; its parts are `WritesGranted`,
  `CounterBounded` (`OnlyGrantedWrites`, `CounterWithinLimit`, from `GrantInv`) and
  `LimitKept`. A copy of a row may be stale in its counter but never in the owner's terms
  (`TermsKept`), and a request past the check has room and permission in its own copy
  (`LetThrough`), so saving it keeps the counter within the limit. That no more requests
  are served than the limit on a link that lost no count follows from `Counted`: who was
  or will be served is counted in the row.
* `RevocationStays` (`RevokedStays`), under every interleaving, from `UseInv`: a link that
  was deleted while no request through it was under way has no row and no request, ever
  again.

then the remote terminal and its flag:
* `TogglesStick` (`ToggleSticks`), from `FlagInv`. The property is not inductive, because
  an operation saves the whole row it read before. While nothing is `undone` one operation
  is under way (`OneOperation`); an edit about to save holds what was acknowledged last,
  and a toggle about to be acknowledged is in the row (`Operating`). The steps of the
  terminal are lookups of the flag or leave it alone.
* `TerminalTypeCorrect`.

What the proofs taught about the model. `AssembledWhole` used to excuse parallel uploads
to different names; the proof did not need it, so the property is now stated, and checked,
without. The arms of a `CASE` in `ParseByteRange` overlapped, so that its value was not
determined by its definition; it now follows the order of the code's early returns. And
"an evacuation costs only files of its drive" holds although a leftover link may share a
file's blob, for a reason no run showed: the one blob at stake is on that drive.
Nor does an outdated check endanger the lock: that a running deployment is driven by
somebody (`Driven`) needs neither of the excuses of `SingleRun`. The dump
of the databases used to be written as one long sequence, put together from those of the
tables, of which nothing can be said at a position without induction over the tables; with
places it has the same behaviours, and the proof goes table by table. And the excuse of a
raced thumbnail is wide enough for requests that began before the change as well as for
ones that begin during it; `Unraced` has to exclude both, and it does.

Model-checked only: liveness, which rests on fairness and `ENABLED` and is out of the
prover's reach: `MarksReturned`, `EvacEnds`, `RunEnds`, `QueueServed`, `PropagationEnds`,
`Converges`, `Settles`, `LapseEndsShell`, `StandbyRefreshed`. Every other property of the
runs is the statement of a theorem above.

## 5. Where the conditions come from

Each of the following properties leaves out one of the conditions, or states what a
comment says, and TLC ends with a violation. The first column names the configuration
(`tlc -config X.cfg M`, with the module its name begins with; `MCTieredStorage` for
the other `MCTiered*`), or the run on whose instance the property is violated when it takes the
place of the run's own properties:

| Configuration or run | Property | What it shows |
|---|---|---|
| `MCTieredNameReuse` | `Transparent` | a file renamed while cold loses its contents when a new file takes its old name and is demoted ("with no awareness of cold storage", `tiered-storage.service.ts` 19-22) |
| `MCTieredLeftover` | `Transparent` | a temporary link a crash left, opened by name, is promoted and takes the original's blob along ("Crash-safe", 131-133) |
| `MCTieredEvacLoss` | `Transparent` | evacuation deletes blobs of hidden names and of links that failed to promote ("Anything still on the drive is unreferenced", 274) |
| `MCTieredGC` | `OrphansReclaimed` | no garbage collection exists ("reclaimed by GC", 133) |
| `MCUploadsShared` | `WholeDespiteSharing` | two uploads to one name at a time: a completion is reported for a file that holds the other's parts |
| run `uploads` | `QuotaDespiteChunks` | chunked uploads do not count towards the cached total, so several exceed the quota |
| run `uploads` | `QuotaDespiteHidden` | uploads into a path that begins with a dot are not counted (`directories.service.ts` 195-198), so one after the other they exceed the quota |
| run `uploads` | `QuotaDespiteParallel` | parallel uploads are checked against the same total and exceed the quota |
| run `thumbnails` | `FreshThoughRaced` | a request during the change stores the old thumbnail after it was dropped |
| run `thumbnails` | `FreshThoughSaved` | `save` leaves the thumbnails of the old contents |
| run `thumbnails` | `FreshThoughRenamed` | `rename` leaves the thumbnails of the old name, for the file that takes it next |
| run `thumbnails` | `FreshWithoutRow` | a chunked upload or a deletion that finds no row drops nothing (compare the TODO in `thumbnail-cache.interceptor.ts` 39-43); without the VIEW of the run, which drops what tells this excuse from others |
| `MCDeploymentCancel` | `CancelSticks` | a cancelled deployment goes back to running: the run holds its own copy and saves it (`deployment.service.ts` 650, 968, 1423; reported as a success, `deployment.controller.ts` 230) |
| run `deployment` | `SingleRunThoughCancelled` | a run that was cancelled goes on until its command has ended, beside the next one |
| run `deployment` | `SingleRunThoughOutdated` | two starts that both saw nothing running both run ("Deployment already in progress", `deployment.service.ts` 706) |
| `MCDeploymentRetry` | `SuccessMeansAll` | a retry that names another step leaves steps out ("Step not found or not failed", 685) |
| run `deployment` | `RunOwnedThoughAbandoned` | a restart command that fails, or a project that is gone at boot or after a retry was saved (691-698), leaves a deployment that Redis calls running and nobody runs |
| run `deployment` | `TicketStartsThoughOvertaken` | a start of somebody else between the end of a run and the queue's: the ticket was taken, is refused and lost (`deployment.service.ts` 664-672) |
| `MCDeploymentCancel`, in place of its property | `SuccessThoughCancelled` | a cancellation in the delay before the last step's next attempt: reported as a success, the step still "running" |
| `MCDeploymentLate` | `QueueServedThoughLate` | a webhook sees a run (`deployment.controller.ts` 85), the run ends and finds the queue empty (1014, 664), the webhook queues (86): its ticket waits for nobody |
| `MCDeploymentQueue` | `QueueServedThoughCancelled` | a cancellation does not hand off to the queue ("Deployment queued", `deployment.controller.ts` 87) |
| `MCDeploymentAlone` | `PropagationAlone` | a propagate-only run resumed after a crash goes on with later steps ("ON ITS OWN", `deployment.service.ts` 775) |
| `MCTieredStreams`, in place of its property | `StreamStoredThoughDemoted` | a sweep takes a stale file that is being overwritten through a stream (a write does not set the time of the last access), and the upload goes into a file without a name |
| `MCTieredStreams`, in place of its property | `StreamStoredThoughPromoted` | a read promotes a cold file that is being overwritten through a stream: what is written after the copy is removed with the blob |
| run `images` | `DownloadableThoughKept` | an image exported before keeps the old file's age, and is pruned while replicas are still to fetch it |
| `MCImagesResent` | `CompleteThoughResent` | a re-send offers what is left of a set, one service of two |
| run `images` | `CleanedUpDespiteDocker` | `docker run` that fails leaves its container and the smoke configuration: it is called before the `try` (`image-build.service.ts` 320) |
| `ReplicaPropagationConfirm` | `RestartConfirmed` | a replica whose restart failed is confirmed by a link that breaks and comes back ("only confirmed once it reconnects", "doubles as a health check", `replica-propagation.service.ts` 274, 145) |
| `ReplicaPropagationFast` | `FastRestartSeen` | a replica that restarts before all acks are in is reported as failed ("a fast restart can't slip through", `replica-propagation.service.ts` 274-275) |
| `ReplicaPropagationOne` | `OneAtATime` | an order is accepted while the restart of the last one is pending ("one at a time", `replica-deploy.runner.ts` 80) |
| run `mirroring` | `CopiesDespiteBreaks` | a truncated copy is reported as present and never repaired (`replication.service.ts` 661-665, 710; "Verified present on replica (live)", `files.service.ts` 914) |
| run `mirroring` | `CopiesDespiteEdits` | a file that was overwritten on the master is never downloaded again |
| run `mirroring` | `ConvergesDespiteUnmounts` | a file whose drive is unmounted when its download starts becomes an empty file that counts as present |
| run `database_replication` | `CleanReplaceThoughCut` | a dump that ends between two lines is imported and reported as a success |
| run `database_replication` | `StandbyStands` | during every import tables of the standby are missing ("a full standby of the box") |
| run `database_replication` | `AlertedOnceThoughBack` | a replica that comes back under a stale check is removed and mailed about all the same |
| `DatabaseReplicationCounts` | `AllCounted` | parallel requests of a replica lose counts |
| run `remote_terminal` | `ShellHasSocket` | a client that leaves before its shell starts leaves a shell without a socket until its grant lapses ("one PTY shell per connected admin socket") |
| run `remote_terminal` | `ToggleSeen` | a reader stores the old flag after the toggle dropped the cache |
| run `tempurl` | `LimitKeptThoughCrossed` | two requests that read the row together are both served on one count ("Max requests exhausted", `tempUrl.service.ts` 102) |
| run `tempurl` | `RevokedStaysThoughPressed` | a request under way saves the row of a link whose deletion was reported as a success (`tempUrl.controller.ts` 204-208) |

Three more pass: `ReplicaPropagationReruns` (`SuccessEarned` over three propagations, so
that a frame of the first meets the third), `MCTieredEvacs` (the properties of
`tiered_live` with two evacuations and one sweep) and `MCTieredStreams` (`StreamStored`:
an upload that was streamed while no move met its name is what the name reads as, through
every sweep and promotion that comes later).

## 6. Plan

1. Composition of `Deployment` and `ReplicaPropagation`: an abstract propagate step
   ("ends, with one status per replica") that the second implements and the first uses.
2. `reconcileDefaultSteps` (`deployment.service.ts` 455-514) against its promise that
   nothing is removed, reordered or overwritten.
3. Directories and their renaming; a cold drive unmounted during a sweep (`mkdir -p`
   recreates the tree on the mount point, `tiered-storage.service.ts` 147).
4. A streamed write in the refinement of `CloudDrive`, once a move leaves files alone that
   are open for writing.

## 7. Not modelled

* Directories (`directories/`): a renamed directory keeps the rows of its files under
  their old paths, a deleted one removes rows one by one; left for the plan.
* Authentication, authorisation, profiles: answers of a separate authentication service,
  used here as "passes or fails". The password vault stores encrypted rows, one query each.
* Administration pages, metrics, traffic, heartbeat, health: reads and counters.
* Google Drive backup: one upload a day to a service outside the repository.
* Configuration, logging, middleware: no state.
* The mirror disks of a node: filled by something outside the repository; the code only
  reports whether a file exists there.
* The updater that replaces images on a replica: outside the repository.
