---------------------------- MODULE FeatureFlags ----------------------------
(***************************************************************************)
(* One feature flag (FeatureFlagService): a row in the database, a copy of *)
(* it in Redis that lives for CACHE_TTL_SECONDS, administrators who change *)
(* the row and drop the copy, and readers who fill it. A reader that finds *)
(* no row creates it, disabled.                                            *)
(*                                                                         *)
(* The row is whether the flag is enabled; its payload and description are *)
(* written back with it and left out. One action is what happens between   *)
(* two awaits.                                                             *)
(***************************************************************************)
EXTENDS Integers

CONSTANTS
    Admins,     \* requests of administrators that may be in flight
    Readers,    \* callers of isFeatureFlagEnabled
    MaxOps,     \* bound: operations of administrators
    Absent      \* no row, no copy

ASSUME OpsAssumption == MaxOps \in Nat
ASSUME AbsentAssumption == Absent \notin BOOLEAN

VARIABLES
    flag,       \* FeatureFlag.enabled, or Absent
    cache,      \* the copy in Redis, or Absent
    admin,      \* admin[a]: the operation and what it is about to save
    reader,     \* reader[r]: where its lookup stands
    ops,        \* number of operations so far
    told,       \* history: what the last toggle that was acknowledged set, Absent
                \* from the start of another operation on
    undone      \* history: what may undo a toggle

flagVars == <<flag, cache, admin, reader, ops, told, undone>>

(* An operation begun while another is under way; a reader creating a row  *)
(* that has appeared since it looked.                                      *)
Undoing == {"parallel", "seed"}

NoOperation == [pc |-> "idle", op |-> "none", on |-> FALSE]
Reading(pc, on) == [pc |-> pc, on |-> on]
NotReading == Reading("idle", FALSE)

FlagInit ==
    /\ flag = Absent
    /\ cache = Absent
    /\ admin = [a \in Admins |-> NoOperation]
    /\ reader = [r \in Readers |-> NotReading]
    /\ ops = 0
    /\ told = Absent
    /\ undone = {}

-----------------------------------------------------------------------------
(* Administrators                                                          *)

Begin(a, op, pc, on) ==
    /\ admin[a] = NoOperation
    /\ ops < MaxOps
    /\ ops' = ops + 1
    /\ admin' = [admin EXCEPT ![a] = [pc |-> pc, op |-> op, on |-> on]]
    /\ told' = IF op = "update" THEN told ELSE Absent
    /\ undone' = IF \E b \in Admins \ {a} : admin[b] # NoOperation
                 THEN undone \cup {"parallel"} ELSE undone

(* enableFeatureFlag, disableFeatureFlag: findOne. *)
Toggle(a, on) ==
    /\ flag # Absent
    /\ Begin(a, "toggle", "save", on)
    /\ UNCHANGED <<flag, cache, reader>>

(* Mutant: the row is saved as a new one would be. *)
UpdateFeatureFlag_Defaults(a) ==
    /\ flag # Absent
    /\ Begin(a, "update", "save", FALSE)
    /\ UNCHANGED <<flag, cache, reader>>

(* updateFeatureFlag: findOne. The whole row is going to be saved. *)
UpdateFeatureFlag(a) ==
    /\ flag # Absent
    /\ Begin(a, "update", "save", flag)
    /\ UNCHANGED <<flag, cache, reader>>

(* save: a row that has been deleted meanwhile is inserted again. *)
SaveFlag(a) ==
    /\ admin[a].pc = "save"
    /\ flag' = admin[a].on
    /\ admin' = [admin EXCEPT ![a].pc = "del"]
    /\ UNCHANGED <<cache, reader, ops, told, undone>>

(* deleteFeatureFlag *)
DeleteFeatureFlag(a) ==
    /\ Begin(a, "delete", "del", FALSE)
    /\ flag' = Absent
    /\ UNCHANGED <<cache, reader>>

(* createFeatureFlag: an upsert, which disables a flag that exists; the    *)
(* copy stays.                                                             *)
CreateFeatureFlag(a) ==
    /\ Begin(a, "none", "idle", FALSE)
    /\ flag' = FALSE
    /\ UNCHANGED <<cache, reader>>

(* DEL of the copy. From here on the operation counts as acknowledged: the *)
(* listeners that are awaited next (invokeEventListeners) change nothing   *)
(* here and only make the answer later, so what holds from the DEL on      *)
(* holds from the answer on.                                               *)
Invalidate(a) ==
    /\ admin[a].pc = "del"
    /\ cache' = Absent
    /\ told' = IF admin[a].op = "toggle" THEN admin[a].on ELSE told
    /\ admin' = [admin EXCEPT ![a] = NoOperation]
    /\ UNCHANGED <<flag, reader, ops, undone>>

(* The database or Redis fails: the operation ends where it is. *)
OperationFails(a) ==
    /\ admin[a] # NoOperation
    /\ admin' = [admin EXCEPT ![a] = NoOperation]
    /\ UNCHANGED <<flag, cache, reader, ops, told, undone>>

-----------------------------------------------------------------------------
(* Readers                                                                 *)

GetCached(r) ==
    /\ reader[r].pc = "get"
    /\ reader' = [reader EXCEPT ![r] = IF cache # Absent THEN Reading("got", cache)
                                       ELSE Reading("find", FALSE)]
    /\ UNCHANGED <<flag, cache, admin, ops, told, undone>>

FindFlag(r) ==
    /\ reader[r].pc = "find"
    /\ reader' = [reader EXCEPT ![r] = IF flag # Absent THEN Reading("set", flag)
                                       ELSE Reading("create", FALSE)]
    /\ UNCHANGED <<flag, cache, admin, ops, told, undone>>

SetCached(r) ==
    /\ reader[r].pc = "set"
    /\ cache' = reader[r].on
    /\ reader' = [reader EXCEPT ![r].pc = "got"]
    /\ UNCHANGED <<flag, admin, ops, told, undone>>

(* The flag was not there: it is created, and counts as disabled. *)
CreateMissing(r) ==
    /\ reader[r].pc = "create"
    /\ flag' = FALSE
    /\ reader' = [reader EXCEPT ![r].pc = "got"]
    /\ undone' = IF flag # Absent THEN undone \cup {"seed"} ELSE undone
    /\ UNCHANGED <<cache, admin, ops, told>>

(* Mutant: the copy is stored without a lifetime. *)
ExpireCached_Never == FALSE /\ UNCHANGED flagVars

ExpireCached ==
    /\ cache # Absent
    /\ cache' = Absent
    /\ UNCHANGED <<flag, admin, reader, ops, told, undone>>

AdminStep(a) ==
    \/ \E on \in BOOLEAN : Toggle(a, on)
    \/ UpdateFeatureFlag(a) \/ DeleteFeatureFlag(a) \/ CreateFeatureFlag(a)
    \/ SaveFlag(a) \/ Invalidate(a) \/ OperationFails(a)

ReaderStep(r) == GetCached(r) \/ FindFlag(r) \/ SetCached(r) \/ CreateMissing(r)

FlagNext ==
    \/ \E a \in Admins : AdminStep(a)
    \/ \E r \in Readers : ReaderStep(r)
    \/ ExpireCached

(* The copy expires, and the database and Redis answer. *)
FlagFairness == WF_flagVars(ExpireCached) /\ \A r \in Readers : WF_flagVars(ReaderStep(r))

-----------------------------------------------------------------------------
FlagTypeOK ==
    /\ flag \in BOOLEAN \cup {Absent}
    /\ cache \in BOOLEAN \cup {Absent}
    /\ admin \in [Admins -> [pc : {"idle", "save", "del"},
                             op : {"none", "toggle", "update", "delete"}, on : BOOLEAN]]
    /\ reader \in [Readers -> [pc : {"idle", "get", "find", "set", "create", "got"},
                               on : BOOLEAN]]
    /\ ops \in 0..MaxOps
    /\ told \in BOOLEAN \cup {Absent}
    /\ undone \subseteq Undoing

(* A toggle that was acknowledged stays in the database until the next     *)
(* one: editing the payload, readers filling the cache and readers         *)
(* creating the flag leave it alone; if administrators do one thing at a   *)
(* time and no reader looked before the row was there.                     *)
ToggleSticks == undone = {} /\ told # Absent => flag = told

(* "Become visible within the window": once administrators stop, readers   *)
(* end up with the row, whatever was stored in the cache after it changed. *)
Settles == <>[](cache \in {Absent, flag})

(* What dropping the copy would achieve if no reader were between its      *)
(* lookup and storing what it found.                                       *)
ToggleSeen == undone = {} /\ told # Absent => cache \in {Absent, told}
=============================================================================
