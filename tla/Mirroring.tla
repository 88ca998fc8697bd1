------------------------------ MODULE Mirroring ------------------------------
(***************************************************************************)
(* File replication (ReplicationService): every five minutes a replica     *)
(* compares the names it has with the listing of the master, downloads the *)
(* names it has not and unlinks the names the master has not. The master   *)
(* goes on serving its users meanwhile, parts of its tree may be           *)
(* unreachable (a cold drive that is not mounted), transfers break.        *)
(*                                                                         *)
(* A listing only makes synchronous calls, so it is one step of its node.  *)
(***************************************************************************)
EXTENDS Naturals

CONSTANTS
    Files,      \* paths relative to the cloud directory
    Ignored,    \* those that match an ignore pattern of the replica
    Data,       \* contents
    None,       \* no file
    Partial,    \* a file whose download is under way or was cut short
    MaxChanges, \* bound: changes of the master's tree
    MaxFaults   \* bound: requests that fail, processes that die

ASSUME FilesAssumption == Ignored \subseteq Files /\ None \notin Files
ASSUME DataAssumption == None \notin Data /\ Partial \notin Data /\ None # Partial
ASSUME ParameterAssumption == MaxChanges \in Nat /\ MaxFaults \in Nat

VARIABLES
    master,         \* master[f]: what the master stores under f
    away,           \* files of the master whose cold drive is not mounted
    used,           \* names users have used so far
    changes,        \* number of changes of the master's tree
    replica,        \* replica[f]: what the replica stores under f
    isReplicating,  \* ReplicationService.isReplicating
    pass,           \* where replicate() stands
    faults,         \* number of faults
    rough           \* history: what happened that this design does not stand

(* Users overwrite a file, or take the name of one that was deleted; a     *)
(* cold drive is unmounted; a transfer is cut short.                       *)
Roughness == {"edit", "reuse", "unmount", "break"}

tree == <<master, away, used, changes>>
vars == <<tree, replica, isReplicating, pass, faults, rough>>

(* mine: replicaFiles; todo: files still to download; doomed: files the    *)
(* master does not have; file, what: the download under way; held: history *)
(* variable, files the master has had ever since it was listed.            *)
IdlePass == [pc |-> "idle", mine |-> {}, todo |-> {}, doomed |-> {},
             file |-> None, what |-> None, held |-> {}]

Init ==
    /\ master = [f \in Files |-> None]
    /\ away = {} /\ used = {} /\ changes = 0
    /\ replica = [f \in Files |-> None]
    /\ isReplicating = FALSE
    /\ pass = IdlePass
    /\ faults = 0
    /\ rough = {}

-----------------------------------------------------------------------------
(* The master.                                                             *)

(* listCloudDirDetailed: an entry that cannot be resolved is left out, and *)
(* the listing is not complete then.                                       *)
Listing == {f \in Files : master[f] # None /\ f \notin away}
Complete == \A f \in Files : master[f] # None => f \notin away

(* Mutant: a file that is gone is sent as no file. *)
GetFile_Gone(f) == master[f]

(* getFile sends its status and the IV before it opens the file: when that *)
(* fails, the answer is a transfer that ends at once.                      *)
GetFile(f) == IF f \in Listing THEN master[f] ELSE Partial

Changed == changes < MaxChanges /\ changes' = changes + 1

(* The tree changes as users and the cold drives change it. *)
Upload(f, v) ==
    /\ Changed
    /\ master[f] = None
    /\ rough' = rough \cup IF f \in used THEN {"reuse"} ELSE {}
    /\ master' = [master EXCEPT ![f] = v]
    /\ used' = used \cup {f}
    /\ UNCHANGED <<away, replica, isReplicating, pass, faults>>

Edit(f, v) ==
    /\ Changed
    /\ rough' = rough \cup {"edit"}
    /\ f \in Listing
    /\ master' = [master EXCEPT ![f] = v]
    /\ UNCHANGED <<away, used, replica, isReplicating, pass, faults>>

Remove(f) ==
    /\ Changed
    /\ master[f] # None
    /\ master' = [master EXCEPT ![f] = None]
    /\ away' = away \ {f}
    /\ pass' = [pass EXCEPT !.held = @ \ {f}]
    /\ UNCHANGED <<used, replica, isReplicating, faults, rough>>

Unmount(ff) ==
    /\ Changed
    /\ rough' = rough \cup {"unmount"}
    /\ away' = away \cup (ff \cap Listing)
    /\ UNCHANGED <<master, used, replica, isReplicating, pass, faults>>

Mount ==
    /\ away # {}
    /\ away' = {}
    /\ UNCHANGED <<master, used, changes, replica, isReplicating, pass, faults, rough>>

-----------------------------------------------------------------------------
(* The replica.                                                            *)

(* Mutant: an early return without the finally block. *)
EndPass_NoFinally == pass' = IdlePass /\ UNCHANGED isReplicating

(* The finally block. *)
EndPass == pass' = IdlePass /\ isReplicating' = FALSE

Fault == faults < MaxFaults /\ faults' = faults + 1

Replicate ==
    /\ ~isReplicating
    /\ isReplicating' = TRUE
    /\ pass' = [IdlePass EXCEPT !.pc = "asked",
                                !.mine = {f \in Files : replica[f] # None}]
    /\ UNCHANGED <<tree, replica, faults, rough>>

(* Mutant: what the master could not resolve counts as deleted. *)
ListAll_AnyListing ==
    /\ pass.pc = "asked"
    /\ pass' = [pass EXCEPT !.pc = "download",
                            !.todo = Listing \ (pass.mine \cup Ignored),
                            !.doomed = pass.mine \ (Listing \cup Ignored),
                            !.held = {f \in Files : master[f] # None}]
    /\ UNCHANGED <<tree, replica, isReplicating, faults, rough>>

(* The master answers listall, and the replica compares. *)
ListAll ==
    /\ pass.pc = "asked"
    /\ pass' = [pass EXCEPT !.pc = "download",
                            !.todo = Listing \ (pass.mine \cup Ignored),
                            !.doomed = IF Complete THEN pass.mine \ (Listing \cup Ignored)
                                       ELSE {},
                            !.held = {f \in Files : master[f] # None}]
    /\ UNCHANGED <<tree, replica, isReplicating, faults, rough>>

(* The request for the listing fails or is refused. *)
ListAllFails ==
    /\ pass.pc = "asked"
    /\ Fault
    /\ EndPass
    /\ UNCHANGED <<tree, replica, rough>>

(* The answer to getfile has come: the file is created (createWriteStream) *)
(* and the transfer begins.                                                *)
Download(f) ==
    /\ pass.pc = "download"
    /\ f \in pass.todo
    /\ replica' = [replica EXCEPT ![f] = Partial]
    /\ pass' = [pass EXCEPT !.pc = "stream", !.todo = @ \ {f}, !.file = f, !.what = GetFile(f)]
    /\ UNCHANGED <<tree, isReplicating, faults, rough>>

(* Mutant: the file is created before the status of the answer is looked at. *)
DownloadFails_Created(f) ==
    /\ pass.pc = "download"
    /\ f \in pass.todo
    /\ Fault
    /\ pass' = [pass EXCEPT !.todo = @ \ {f}]
    /\ replica' = [replica EXCEPT ![f] = Partial]
    /\ UNCHANGED <<tree, isReplicating, rough>>

(* The answer is an error: the next file; the request throws: the pass is  *)
(* over.                                                                   *)
DownloadFails(f) ==
    /\ pass.pc = "download"
    /\ f \in pass.todo
    /\ Fault
    /\ \/ pass' = [pass EXCEPT !.todo = @ \ {f}] /\ UNCHANGED isReplicating
       \/ EndPass
    /\ UNCHANGED <<tree, replica, rough>>

(* decryptResponseStream resolves once everything is written, and warns at *)
(* most when the size is not the one that was listed. A file that changed  *)
(* during the transfer may have been read half old, half new.              *)
StreamEnds ==
    /\ pass.pc = "stream"
    /\ \E got \in {pass.what} \cup IF master[pass.file] \notin {None, pass.what}
                                    THEN {Partial} ELSE {} :
            replica' = [replica EXCEPT ![pass.file] = got]
    /\ pass' = [pass EXCEPT !.pc = "download", !.file = None, !.what = None]
    /\ UNCHANGED <<tree, isReplicating, faults, rough>>

(* The transfer is cut short: a network error ends the pass, an error that *)
(* the master met reading the file ends the transfer as if all was sent.   *)
StreamBreaks ==
    /\ pass.pc = "stream"
    /\ Fault
    /\ rough' = rough \cup {"break"}
    /\ \/ EndPass
       \/ /\ pass' = [pass EXCEPT !.pc = "download", !.file = None, !.what = None]
          /\ UNCHANGED isReplicating
    /\ UNCHANGED <<tree, replica>>

(* Every file is downloaded: the others are unlinked, without an await.    *)
Unlink ==
    /\ pass.pc = "download"
    /\ pass.todo = {}
    /\ replica' = [f \in Files |-> IF f \in pass.doomed THEN None ELSE replica[f]]
    /\ EndPass
    /\ UNCHANGED <<tree, faults, rough>>

(* unlinkSync throws after some of them. *)
UnlinkFails(gone) ==
    /\ pass.pc = "download"
    /\ pass.todo = {}
    /\ Fault
    /\ replica' = [f \in Files |-> IF f \in gone THEN None ELSE replica[f]]
    /\ EndPass
    /\ UNCHANGED <<tree, rough>>

(* The process of the replica is killed. *)
Crash ==
    /\ Fault
    /\ rough' = rough \cup IF pass.pc = "stream" THEN {"break"} ELSE {}
    /\ EndPass
    /\ UNCHANGED <<tree, replica>>

-----------------------------------------------------------------------------
Users == \/ \E f \in Files, v \in Data : Upload(f, v) \/ Edit(f, v)
         \/ \E f \in Files : Remove(f)

Drives == Mount \/ \E ff \in SUBSET Files : Unmount(ff)

Progress == ListAll \/ StreamEnds \/ Unlink \/ \E f \in Files : Download(f)

Failing == \/ ListAllFails \/ StreamBreaks \/ Crash
           \/ \E f \in Files : DownloadFails(f)
           \/ \E gone \in SUBSET pass.doomed : gone # pass.doomed /\ UnlinkFails(gone)

Next == Users \/ Drives \/ Replicate \/ Progress \/ Failing

Spec == Init /\ [][Next]_vars

(* The cron fires again and again, what was asked for is answered some day *)
(* (or fails), and a drive is mounted again. Users owe nothing.            *)
FairSpec == Spec /\ WF_vars(Replicate) /\ WF_vars(Progress) /\ WF_vars(Mount)

-----------------------------------------------------------------------------
(* The two trees and the pass stay in their types; in particular the       *)
(* master's file endpoint sends something for every name it was asked for. *)
TypeOK ==
    /\ master \in [Files -> Data \cup {None}]
    /\ away \subseteq Files
    /\ used \subseteq Files
    /\ changes \in 0..MaxChanges
    /\ replica \in [Files -> Data \cup {None, Partial}]
    /\ isReplicating \in BOOLEAN
    /\ pass \in [pc : {"idle", "asked", "download", "stream"}, mine : SUBSET Files,
                 todo : SUBSET Files, doomed : SUBSET Files, file : Files \cup {None},
                 what : Data \cup {None, Partial}, held : SUBSET Files]
    /\ pass.pc = "stream" => pass.file \in Files /\ pass.what # None
    /\ faults \in 0..MaxFaults
    /\ rough \subseteq Roughness

(* "an unresolvable file is not a deleted file": the replica never unlinks *)
(* a file that the master has had since it was listed, reachable or not,   *)
(* whatever users, drives and broken transfers do during the pass.         *)
KeepsLive ==
    [][\A f \in Files : replica[f] # None /\ replica'[f] = None => f \notin pass.held]_vars

(* checkFile, the answer of a replica to the backups report; it may come   *)
(* too late, or the replica may be offline.                                *)
HasFile(f) == replica[f] # None
QueryFile(f) == {"silent", IF HasFile(f) THEN "present" ELSE "absent"}

(* getBackups: where the report says there is a copy of f, given the       *)
(* replica's answer. A file whose drive is not mounted counts as neither   *)
(* present nor missing.                                                    *)
GetBackups(f, answer) ==
    {l \in {"primary", "replica"} :
        IF l = "primary" THEN master[f] # None /\ f \notin away ELSE answer = "present"}

StoredAt(l, f) == IF l = "primary" THEN master[f] ELSE replica[f]

Copies ==
    \A f \in Files : master[f] # None /\ pass.file # f =>
        \A answer \in QueryFile(f) :
            \A l \in GetBackups(f, answer) : StoredAt(l, f) = master[f]

(* "Connected replicas give an authoritative answer": what the backups     *)
(* report counts as a copy of a file on the replica is a copy of it,       *)
(* unless its transfer is still under way; as long as files are written    *)
(* once and names not used again, drives stay mounted and transfers are    *)
(* not cut short. Each of these conditions is needed.                      *)
CopyConfirmed == rough = {} => Copies

InSync == \A f \in Files \ Ignored : replica[f] = master[f]

(* "downloads anything it's missing (deleting anything the master no       *)
(* longer has)": once the master's tree is left alone, all but the ignored *)
(* files of the replica become those of the master, and stay so, under the *)
(* same conditions.                                                        *)
Converges == <>[](rough # {} \/ InSync)

(* The same without one of the conditions. *)
CopiesDespiteBreaks == rough \subseteq {"break"} => Copies
CopiesDespiteEdits == rough \subseteq {"edit"} => Copies
ConvergesDespiteUnmounts == <>[](rough \ {"unmount"} # {} \/ InSync)
=============================================================================
