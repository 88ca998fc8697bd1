--------------------------- MODULE MirroringProofs ---------------------------
(***************************************************************************)
(* What file replication guarantees for every set of files and contents:   *)
(* type correctness, that the replica unlinks nothing the master still has *)
(* (KeepsLive, unconditionally), and that a copy the backups report counts *)
(* is a copy (CopyConfirmed, as long as nothing rough happened).           *)
(***************************************************************************)
EXTENDS Mirroring, TLAPS

(* One lemma per group of actions: each keeps the types. *)
LEMMA TypeTree ==
    TypeOK /\ (Users \/ Drives) => TypeOK'
<1> SUFFICES ASSUME TypeOK, Users \/ Drives PROVE TypeOK'
  OBVIOUS
<1> USE ParameterAssumption, DataAssumption DEF TypeOK, Changed, Listing, Roughness
<1>1. CASE Users
  <2>1. CASE \E f \in Files, v \in Data : Upload(f, v)
    BY <2>1 DEF Upload
  <2>2. CASE \E f \in Files, v \in Data : Edit(f, v)
    BY <2>2 DEF Edit
  <2>3. CASE \E f \in Files : Remove(f)
    BY <2>3 DEF Remove
  <2> QED BY <1>1, <2>1, <2>2, <2>3 DEF Users
<1>2. CASE Drives
  <2>1. CASE \E ff \in SUBSET Files : Unmount(ff)
    BY <2>1 DEF Unmount
  <2>2. CASE Mount
    BY <2>2 DEF Mount
  <2> QED BY <1>2, <2>1, <2>2 DEF Drives
<1> QED BY <1>1, <1>2

LEMMA IdleType ==
    IdlePass \in [pc : {"idle", "asked", "download", "stream"}, mine : SUBSET Files,
                  todo : SUBSET Files, doomed : SUBSET Files, file : Files \cup {None},
                  what : Data \cup {None, Partial}, held : SUBSET Files]
BY DEF IdlePass

LEMMA TypePass ==
    TypeOK /\ (Replicate \/ Progress \/ Failing) => TypeOK'
<1> SUFFICES ASSUME TypeOK, Replicate \/ Progress \/ Failing PROVE TypeOK'
  OBVIOUS
<1>e. ASSUME EndPass PROVE /\ isReplicating' \in BOOLEAN
                           /\ pass' = IdlePass
                           /\ pass'.pc # "stream"
  BY <1>e DEF EndPass, IdlePass
<1> USE ParameterAssumption, DataAssumption, IdleType DEF TypeOK, Fault, tree, Roughness
<1>1. CASE Replicate
  BY <1>1 DEF Replicate, IdlePass
<1>2. CASE ListAll
  BY <1>2 DEF ListAll, Listing
<1>3. CASE StreamEnds
  BY <1>3 DEF StreamEnds
<1>4. CASE Unlink
  BY <1>4, <1>e DEF Unlink
<1>5. ASSUME NEW f \in Files, Download(f) PROVE TypeOK'
  BY <1>5 DEF Download, GetFile, Listing
<1>6. CASE ListAllFails
  BY <1>6, <1>e DEF ListAllFails
<1>7. CASE StreamBreaks
  <2>1. CASE EndPass
    BY <1>7, <1>e, <2>1 DEF StreamBreaks
  <2>2. CASE /\ pass' = [pass EXCEPT !.pc = "download", !.file = None, !.what = None]
             /\ UNCHANGED isReplicating
    <3>1. UNCHANGED <<tree, replica, isReplicating>> /\ Fault
      BY <1>7, <2>2 DEF StreamBreaks
    <3>2. pass'.pc # "stream"
      BY <2>2
    <3>3. pass' \in [pc : {"idle", "asked", "download", "stream"}, mine : SUBSET Files,
                     todo : SUBSET Files, doomed : SUBSET Files, file : Files \cup {None},
                     what : Data \cup {None, Partial}, held : SUBSET Files]
      BY <2>2
    <3>4. isReplicating' \in BOOLEAN /\ faults' \in 0..MaxFaults /\ rough' \subseteq Roughness
      BY <1>7, <3>1 DEF StreamBreaks
    <3> QED BY <3>1, <3>2, <3>3, <3>4
  <2> QED BY <1>7, <2>1, <2>2 DEF StreamBreaks
<1>8. CASE Crash
  BY <1>8, <1>e DEF Crash
<1>9. ASSUME NEW f \in Files, DownloadFails(f) PROVE TypeOK'
  BY <1>9, <1>e DEF DownloadFails
<1>10. ASSUME NEW gone \in SUBSET pass.doomed, UnlinkFails(gone) PROVE TypeOK'
  BY <1>10, <1>e DEF UnlinkFails
<1> QED
  BY <1>1, <1>2, <1>3, <1>4, <1>5, <1>6, <1>7, <1>8, <1>9, <1>10 DEF Progress, Failing

LEMMA TypeInit == Init => TypeOK
<1> SUFFICES ASSUME Init PROVE TypeOK
  OBVIOUS
<1>1. pass \in [pc : {"idle", "asked", "download", "stream"}, mine : SUBSET Files,
                todo : SUBSET Files, doomed : SUBSET Files, file : Files \cup {None},
                what : Data \cup {None, Partial}, held : SUBSET Files]
  BY IdleType DEF Init
<1>2. pass.pc # "stream"
  BY DEF Init, IdlePass
<1>3. isReplicating \in BOOLEAN
  BY DEF Init
<1>4. changes \in 0..MaxChanges /\ faults \in 0..MaxFaults
  BY ParameterAssumption DEF Init
<1>5. /\ master \in [Files -> Data \cup {None}]
      /\ replica \in [Files -> Data \cup {None, Partial}]
      /\ away \subseteq Files /\ used \subseteq Files /\ rough \subseteq Roughness
  BY DEF Init
<1> QED BY <1>1, <1>2, <1>3, <1>4, <1>5 DEF TypeOK

LEMMA TypeStep == TypeOK /\ [Next]_vars => TypeOK'
<1>1. ASSUME TypeOK, UNCHANGED vars PROVE TypeOK'
  BY <1>1 DEF TypeOK, vars, tree
<1> QED BY <1>1, TypeTree, TypePass DEF Next

(* Every variable keeps its type, whatever the parameters are. *)
THEOREM TypeCorrect == Spec => []TypeOK
<1> QED BY TypeInit, TypeStep, PTL DEF Spec

-----------------------------------------------------------------------------
(* What the delete phase relies on between the listing and the unlink: no  *)
(* file it will unlink has been on the master all the time since.          *)
DoomedGone == pass.doomed \cap pass.held = {}

LEMMA DoomedStep == TypeOK /\ DoomedGone /\ [Next]_vars => DoomedGone'
<1> SUFFICES ASSUME TypeOK, DoomedGone, [Next]_vars PROVE DoomedGone'
  OBVIOUS
<1>e. ASSUME EndPass PROVE DoomedGone'
  BY <1>e DEF EndPass, IdlePass, DoomedGone
<1> USE DEF DoomedGone, TypeOK
<1>1. CASE Users
  BY <1>1 DEF Users, Upload, Edit, Remove
<1>2. CASE Drives
  BY <1>2 DEF Drives, Mount, Unmount
<1>3. CASE Replicate
  BY <1>3 DEF Replicate, IdlePass
<1>4. CASE ListAll
  <2>1. CASE Complete
    BY <1>4, <2>1 DEF ListAll, Listing, Complete
  <2>2. CASE ~Complete
    BY <1>4, <2>2 DEF ListAll
  <2> QED BY <2>1, <2>2
<1>5. CASE StreamEnds \/ \E f \in Files : Download(f)
  BY <1>5 DEF StreamEnds, Download
<1>6. CASE Unlink
  BY <1>6, <1>e DEF Unlink
<1>7. CASE Failing
  BY <1>7, <1>e DEF Failing, ListAllFails, StreamBreaks, Crash, DownloadFails, UnlinkFails
<1>8. CASE UNCHANGED vars
  BY <1>8 DEF vars
<1> QED BY <1>1, <1>2, <1>3, <1>4, <1>5, <1>6, <1>7, <1>8 DEF Next, Progress

(* A step that unlinks a file unlinks one that was doomed. *)
LEMMA OnlyDoomed ==
    ASSUME TypeOK, [Next]_vars, NEW f \in Files, replica[f] # None, replica'[f] = None
    PROVE  f \in pass.doomed
<1> USE DataAssumption DEF TypeOK
<1>1. CASE Users
  BY <1>1 DEF Users, Upload, Edit, Remove
<1>2. CASE Drives
  BY <1>2 DEF Drives, Mount, Unmount
<1>3. CASE Replicate \/ ListAll
  BY <1>3 DEF Replicate, ListAll
<1>4. CASE StreamEnds
  BY <1>4 DEF StreamEnds
<1>5. CASE \E g \in Files : Download(g)
  BY <1>5 DEF Download
<1>6. CASE Unlink
  BY <1>6 DEF Unlink
<1>7. CASE Failing
  BY <1>7 DEF Failing, ListAllFails, StreamBreaks, Crash, DownloadFails, UnlinkFails
<1>8. CASE UNCHANGED vars
  BY <1>8 DEF vars
<1> QED BY <1>1, <1>2, <1>3, <1>4, <1>5, <1>6, <1>7, <1>8 DEF Next, Progress

(* The replica never unlinks a file that the master has had since it was   *)
(* listed, reachable or not (the LISTING_COMPLETE_HEADER gate of           *)
(* replicate()), whatever users, drives and broken transfers do.           *)
THEOREM LiveFilesKept == Spec => KeepsLive
<1>1. Init => DoomedGone
  BY DEF Init, DoomedGone, IdlePass
<1>2. TypeOK /\ DoomedGone /\ [Next]_vars
        => [\A f \in Files : replica[f] # None /\ replica'[f] = None => f \notin pass.held]_vars
  BY OnlyDoomed DEF DoomedGone
<1> QED BY <1>1, <1>2, TypeInit, TypeStep, DoomedStep, PTL DEF Spec, KeepsLive

(* What the report says, in terms of the two trees. *)
Matching ==
    \A f \in Files :
        replica[f] # None /\ master[f] # None /\ pass.file # f => replica[f] = master[f]

-----------------------------------------------------------------------------
(* Why a copy is a copy: a name that was never used is on neither node, a  *)
(* download under way is of what the master has (or had, when the file is  *)
(* gone by now), only used names are downloaded, and isReplicating keeps a *)
(* second pass from starting while a transfer is under way.                *)
CopyInv ==
    /\ away = {}
    /\ \A f \in Files : f \notin used => master[f] = None /\ replica[f] = None
    /\ pass.todo \subseteq used
    /\ pass.pc = "stream" => /\ pass.file \in used
                             /\ master[pass.file] \in {None, pass.what}
    /\ pass.pc # "stream" => pass.file = None
    /\ isReplicating <=> pass.pc # "idle"
    /\ Matching

LEMMA CopyInit == Init => CopyInv
BY DEF Init, CopyInv, Matching, IdlePass

(* What happened has happened. *)
LEMMA RoughStays == [Next]_vars => rough \subseteq rough'
<1> SUFFICES ASSUME [Next]_vars PROVE rough \subseteq rough'
  OBVIOUS
<1>1. CASE Users \/ Drives
  BY <1>1 DEF Users, Drives, Upload, Edit, Remove, Mount, Unmount
<1>2. CASE Replicate \/ Progress
  BY <1>2 DEF Replicate, Progress, ListAll, StreamEnds, Unlink, Download
<1>3. CASE Failing
  BY <1>3 DEF Failing, ListAllFails, StreamBreaks, Crash, DownloadFails, UnlinkFails
<1>4. CASE UNCHANGED vars
  BY <1>4 DEF vars
<1> QED BY <1>1, <1>2, <1>3, <1>4 DEF Next

LEMMA CopyTree ==
    ASSUME rough' = {}, TypeOK, CopyInv, Users \/ Drives PROVE CopyInv'
<1> USE DataAssumption, FilesAssumption DEF TypeOK, CopyInv, Matching
<1>1. ASSUME NEW f \in Files, NEW v \in Data, Upload(f, v) PROVE CopyInv'
  BY <1>1 DEF Upload
<1>2. ASSUME NEW f \in Files, Remove(f) PROVE CopyInv'
  BY <1>2 DEF Remove
<1>3. ASSUME NEW f \in Files, NEW v \in Data, Edit(f, v) PROVE CopyInv'
  BY <1>3 DEF Edit
<1>4. CASE Drives
  BY <1>4 DEF Drives, Mount, Unmount
<1> QED BY <1>1, <1>2, <1>3, <1>4 DEF Users

LEMMA CopyPass ==
    ASSUME rough' = {}, TypeOK, CopyInv, Replicate \/ Progress \/ Failing PROVE CopyInv'
<1> USE DataAssumption, FilesAssumption DEF TypeOK, CopyInv, Matching, tree
<1>e. ASSUME EndPass, pass.pc # "stream", UNCHANGED tree,
             \A f \in Files : replica'[f] \in {None, replica[f]}
      PROVE  CopyInv'
  BY <1>e DEF EndPass, IdlePass
<1>1. CASE Replicate
  BY <1>1 DEF Replicate, IdlePass
<1>2. CASE ListAll
  BY <1>2 DEF ListAll, Listing
<1>3. CASE StreamEnds
  BY <1>3 DEF StreamEnds
<1>4. CASE Unlink
  BY <1>4, <1>e DEF Unlink
<1>5. ASSUME NEW f \in Files, Download(f) PROVE CopyInv'
  BY <1>5 DEF Download, GetFile, Listing
<1>6. CASE ListAllFails
  BY <1>6, <1>e DEF ListAllFails
<1>7. CASE StreamBreaks
  BY <1>7 DEF StreamBreaks
<1>8. CASE Crash
  <2>1. pass.pc # "stream"
    BY <1>8 DEF Crash
  <2> QED BY <1>8, <1>e, <2>1 DEF Crash
<1>9. ASSUME NEW f \in Files, DownloadFails(f) PROVE CopyInv'
  <2>1. CASE EndPass
    BY <1>9, <1>e, <2>1 DEF DownloadFails
  <2>2. CASE pass' = [pass EXCEPT !.todo = @ \ {f}] /\ UNCHANGED isReplicating
    BY <1>9, <2>2 DEF DownloadFails
  <2> QED BY <1>9, <2>1, <2>2 DEF DownloadFails
<1>10. ASSUME NEW gone \in SUBSET pass.doomed, UnlinkFails(gone) PROVE CopyInv'
  BY <1>10, <1>e DEF UnlinkFails
<1> QED
  BY <1>1, <1>2, <1>3, <1>4, <1>5, <1>6, <1>7, <1>8, <1>9, <1>10 DEF Progress, Failing

(* What getBackups counts as a copy on a connected replica is a copy of    *)
(* the master's file or still being transferred, as long as files are      *)
(* written once, names not reused, drives mounted, transfers not cut short.*)
THEOREM CopiesAreCopies == Spec => []CopyConfirmed
<1> DEFINE I == rough = {} => CopyInv
<1>1. TypeOK /\ I /\ [Next]_vars => I'
  <2> SUFFICES ASSUME TypeOK, I, [Next]_vars, rough' = {} PROVE CopyInv'
    OBVIOUS
  <2>1. CopyInv
    BY RoughStays
  <2>2. CASE UNCHANGED vars
    BY <2>1, <2>2 DEF vars, tree, CopyInv, Matching
  <2> QED BY <2>1, <2>2, CopyTree, CopyPass DEF Next
<1>2. I => CopyConfirmed
  BY DEF CopyInv, CopyConfirmed, Copies, Matching, QueryFile, HasFile, GetBackups, StoredAt
<1>3. Init => I
  BY CopyInit
<1> QED BY <1>1, <1>2, <1>3, TypeInit, TypeStep, PTL DEF Spec
=============================================================================
