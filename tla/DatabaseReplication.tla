------------------------ MODULE DatabaseReplication ------------------------
(***************************************************************************)
(* The hourly copy of the master's databases to a replica                  *)
(* (ReplicationService.getDatabaseDump, replicateDatabase): the master     *)
(* writes every table to a file of SQL statements, one per line; the       *)
(* replica decrypts the file and executes it line by line in its own       *)
(* databases, without a transaction. A stale-replica check runs beside it  *)
(* on the master (ReplicaRegistry), from the same class and every hour.    *)
(*                                                                         *)
(* A table is the number of times it was written; its rows come in         *)
(* NBatches INSERT statements.                                             *)
(***************************************************************************)
EXTENDS ReplicaRegistry, Sequences

CONSTANTS
    NTables,    \* tables of all databases, in the order of the dump
    NBatches,   \* INSERT statements per table
    Excluded,   \* DATA_EXCLUDED_TABLES
    Jobs,       \* invocations of replicateDatabase: the cron job, and the one after boot
    MaxWrites,  \* bound: writes to a table
    MaxFaults   \* bound: failures and crashes

Tables == 1..NTables
ASSUME SizeAssumption == {NTables, NBatches, MaxWrites, MaxFaults} \subseteq Nat
ASSUME ExcludedAssumption == Excluded \subseteq Tables
ASSUME NoTableAssumption == Nobody \notin [1..NBatches -> Seq(Nat)]

VARIABLES
    data,       \* data[t]: the master's table
    copy,       \* copy[t][b]: what batch b has put into the replica's table; Nobody: no table
    busy,       \* isDbReplicating
    job,        \* job[j]: where the invocation stands
    faults,     \* number of failures so far
    told,       \* history: told[t]: how old t may be after the copy that was reported
                \* last; Nobody once a statement was executed since
    cut         \* history: a dump has ended early

dbVars == <<data, copy, busy, job, faults, told, cut>>
vars == <<registryVars, dbVars>>

Batches(t) == IF t \in Excluded THEN 0 ELSE NBatches

(* The statements for one table; the dump has those of table 1, 2, ... A   *)
(* place in it is a table and the number of its statements passed.         *)
Statement(kind, t, b) == [kind |-> kind, t |-> t, b |-> b]
TableScript(t) ==
    <<Statement("drop", t, 0), Statement("create", t, 0)>>
        \o [b \in 1..Batches(t) |-> Statement("insert", t, b)]
Within == UNION {{t} \X (0..(1 + Batches(t))) : t \in Tables}
End == <<NTables + 1, 0>>
After(p) == IF p[2] = 1 + Batches(p[1]) THEN <<p[1] + 1, 0>> ELSE <<p[1], p[2] + 1>>

(* t: the table the dump is at; vers[t]: the table as it was dumped;       *)
(* from[t]: as it was when the job began; at: the place the import is at;  *)
(* end: where the file that arrived ends; torn: its last line is only part *)
(* of a statement.                                                         *)
NoTables == [t \in Tables |-> 0]
NoJob == [pc |-> "idle", t |-> 0, vers |-> NoTables, from |-> NoTables, at |-> <<1, 0>>,
          end |-> End, torn |-> FALSE]
EmptyTable == [b \in 1..NBatches |-> <<>>]

Init ==
    /\ RegistryInit
    /\ data = NoTables
    /\ copy = [t \in Tables |-> Nobody]
    /\ busy = FALSE
    /\ job = [j \in Jobs |-> NoJob]
    /\ faults = 0
    /\ told = Nobody
    /\ cut = FALSE

Become(j, m) == job' = [job EXCEPT ![j] = m]
Fault == faults < MaxFaults /\ faults' = faults + 1

-----------------------------------------------------------------------------
(* The rows of an excluded table play no part. *)
Write(t) ==
    /\ t \notin Excluded
    /\ data[t] < MaxWrites
    /\ data' = [data EXCEPT ![t] = @ + 1]
    /\ UNCHANGED <<copy, busy, job, faults, told, cut>>

(* Mutant: the flag is set but not looked at. *)
Free_Always == TRUE

(* A job that is running makes another one skip. *)
Free == ~busy

ReplicateDatabase(j) ==
    /\ job[j] = NoJob
    /\ Free
    /\ busy' = TRUE
    /\ Become(j, [NoJob EXCEPT !.pc = "dump", !.t = 1, !.from = data])
    /\ UNCHANGED <<data, copy, faults, told, cut>>

(* writeDumpToFile: the next table, as it is now. *)
WriteDump(j) ==
    LET m == job[j] IN
    /\ m.pc = "dump"
    /\ m.t <= NTables
    /\ Become(j, [m EXCEPT !.t = @ + 1, !.vers[m.t] = data[m.t]])
    /\ UNCHANGED <<data, copy, busy, faults, told, cut>>

(* The file arrives. *)
Transfer(j) ==
    /\ job[j].pc = "dump"
    /\ job[j].t > NTables
    /\ Become(j, [job[j] EXCEPT !.pc = "import"])
    /\ UNCHANGED <<data, copy, busy, faults, told, cut>>

(* The master cannot read its file to the end: the response ends early,    *)
(* between two lines or within one, like any other.                        *)
TransferCut(j) ==
    /\ job[j].pc = "dump"
    /\ job[j].t > NTables
    /\ Fault
    /\ \E p \in Within, torn \in BOOLEAN :
          Become(j, [job[j] EXCEPT !.pc = "import", !.end = p, !.torn = torn])
    /\ cut' = TRUE
    /\ UNCHANGED <<data, copy, busy, told>>

(* What one statement does; Nobody where the server refuses it. *)
Executed(s, v) ==
    CASE s.kind = "drop" -> [copy EXCEPT ![s.t] = Nobody]
      [] s.kind = "create" /\ copy[s.t] = Nobody -> [copy EXCEPT ![s.t] = EmptyTable]
      [] s.kind = "insert" /\ copy[s.t] # Nobody -> [copy EXCEPT ![s.t][s.b] = Append(@, v)]
      [] OTHER -> Nobody

(* Mutant: the flag stays set. *)
EndJob_Busy(j) == Become(j, NoJob) /\ UNCHANGED busy

(* The finally block. *)
EndJob(j) == Become(j, NoJob) /\ busy' = FALSE

Import(j) ==
    LET m == job[j] IN
    /\ m.pc = "import"
    /\ m.at # m.end
    /\ LET s == TableScript(m.at[1])[m.at[2] + 1]
           after == Executed(s, m.vers[s.t])
       IN  IF after = Nobody
           THEN EndJob(j) /\ UNCHANGED copy
           ELSE copy' = after /\ Become(j, [m EXCEPT !.at = After(@)]) /\ UNCHANGED busy
    /\ told' = Nobody
    /\ UNCHANGED <<data, faults, cut>>

(* The end of the file, a partial statement before it is refused. *)
ImportEnds(j) ==
    /\ job[j].pc = "import"
    /\ job[j].at = job[j].end
    /\ EndJob(j)
    /\ told' = IF job[j].torn THEN told ELSE job[j].from
    /\ UNCHANGED <<data, copy, faults, cut>>

(* The master answers with an error, the connection breaks, a statement    *)
(* fails.                                                                  *)
JobFails(j) ==
    /\ job[j] # NoJob
    /\ Fault
    /\ EndJob(j)
    /\ UNCHANGED <<data, copy, told, cut>>

(* The replica's process dies and starts again. *)
Crash ==
    /\ \E j \in Jobs : job[j] # NoJob
    /\ Fault
    /\ job' = [j \in Jobs |-> NoJob]
    /\ busy' = FALSE
    /\ UNCHANGED <<data, copy, told, cut>>

JobStep(j) ==
    \/ ReplicateDatabase(j) \/ WriteDump(j) \/ Transfer(j) \/ Import(j) \/ ImportEnds(j)

DatabaseNext ==
    \/ \E j \in Jobs : JobStep(j) \/ TransferCut(j) \/ JobFails(j)
    \/ \E t \in Tables : Write(t)
    \/ Crash

Next == \/ RegistryNext /\ UNCHANGED dbVars
        \/ DatabaseNext /\ UNCHANGED registryVars

Spec == Init /\ [][Next]_vars

(* The cron job runs every hour, and what it does comes to an end. *)
FairSpec == Spec /\ \A j \in Jobs : WF_dbVars(JobStep(j))

-----------------------------------------------------------------------------
DatabaseTypeOK ==
    /\ data \in [Tables -> 0..MaxWrites]
    /\ copy \in [Tables -> [1..NBatches -> Seq(0..MaxWrites)] \cup {Nobody}]
    /\ busy \in BOOLEAN
    /\ job \in [Jobs -> [pc : {"idle", "dump", "import"}, t : 0..(NTables + 1),
                         vers : [Tables -> 0..MaxWrites], from : [Tables -> 0..MaxWrites],
                         at : Within \cup {End}, end : Within \cup {End}, torn : BOOLEAN]]
    /\ faults \in 0..MaxFaults
    /\ told \in [Tables -> 0..MaxWrites] \cup {Nobody}
    /\ cut \in BOOLEAN

TypeOK == RegistryTypeOK /\ DatabaseTypeOK

(* t holds the whole of version v once. *)
Holds(t, v) ==
    /\ copy[t] # Nobody
    /\ \A b \in 1..NBatches : copy[t][b] = IF b <= Batches(t) THEN <<v>> ELSE <<>>

(* "Each import is a clean replace, never a duplicate": when the databases *)
(* are reported as replicated, every table is there, with every row of one *)
(* version of it once, no older than when the job began; whatever failed   *)
(* before, if no dump ended early.                                         *)
CleanReplace ==
    told # Nobody /\ ~cut =>
        \A t \in Tables : \E v \in told[t]..data[t] : Holds(t, v)

(* The replica has all of the master's tables again and again, whatever    *)
(* fails in between. (It does not keep them: every job drops them.)        *)
StandbyRefreshed == []<>(\A t \in Tables : Holds(t, data[t]))

(* The same when a dump may end early. *)
CleanReplaceThoughCut ==
    told # Nobody => \A t \in Tables : \E v \in told[t]..data[t] : Holds(t, v)

(* "A full standby of the box": no table is missing once it was there. *)
StandbyStands == [][\A t \in Tables : copy[t] # Nobody => copy'[t] # Nobody]_vars
=============================================================================
