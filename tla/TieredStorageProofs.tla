------------------------- MODULE TieredStorageProofs -------------------------
(* Machine-checked proofs about TieredStorage, for every set of names,     *)
(* drives, contents, sweeps and background promotions.                     *)
EXTENDS TieredStorage, TLAPS

LEMMA TypeInit == Init => TypeOK
  <1> SUFFICES ASSUME Init PROVE TypeOK
    OBVIOUS
  <1>1. main \in [Names -> Data \cup {Torn, None} \cup Blobs]
    BY DEF Init
  <1>2. cold \in [Blobs -> Data \cup {Torn, None}]
    BY DEF Init
  <1>3. sweep \in [Sweeps -> [pc : {"idle", "flag", "walk"}, todo : SUBSET Blobs]]
    BY DEF Init, IdleSweep
  <1>4. demoting \in BOOLEAN /\ promoting \subseteq Names /\ deleting \subseteq Names
    BY DEF Init
  <1>5. task \in [Tasks -> [pc : {"flag", "finally"}, name : Names] \cup {IdleTask}]
    BY DEF Init
  <1>6. /\ evac \in [Evacs -> [pc : {"idle", "links", "promote", "blobs"},
                               drive : Drives \cup {None}, links : SUBSET Names,
                               link : Names \cup {None}, blobs : SUBSET Blobs]]
        /\ \A e \in Evacs : evac[e].pc # "promote"
    BY DEF Init, IdleEvac
  <1> QED BY <1>1, <1>2, <1>3, <1>4, <1>5, <1>6 DEF Init, TypeOK

(* What a background promotion that starts (or does not) leaves in task. *)
LEMMA OnAccessType ==
  ASSUME TypeOK, NEW n \in Names, NEW entry, OnAccess(n, entry)
  PROVE  task' \in [Tasks -> [pc : {"flag", "finally"}, name : Names] \cup {IdleTask}]
  BY DEF OnAccess, TypeOK, IdleTask

LEMMA PromoteCopyType ==
  ASSUME TypeOK, NEW n \in Names, PromoteCopy(n)
  PROVE  /\ main' \in [Names -> Data \cup {Torn, None} \cup Blobs]
         /\ turn' \in [step : Steps, name : Names, tmp : Tmp, blob : Blobs] \cup {IdleTurn}
  <1>1. CASE UNCHANGED <<main, turn>>
    BY <1>1 DEF TypeOK
  <1>2. CASE IsLink(n) /\ \E t \in Tmp :
               /\ main' = [main EXCEPT ![t] = View(n)]
               /\ turn' = Turn("promote_copied", n, t, main[n])
    BY <1>2 DEF TypeOK, IsLink, View, Turn, Steps, Names
  <1> QED BY <1>1, <1>2 DEF PromoteCopy

LEMMA TypeStep == TypeOK /\ [Next]_vars => TypeOK'
  <1> SUFFICES ASSUME TypeOK, [Next]_vars PROVE TypeOK'
    OBVIOUS
  <1>1. ASSUME PromoteSwap PROVE TypeOK'
    BY <1>1 DEF PromoteSwap, TypeOK, jobs, Steps, IdleTurn, Names
  <1>2. ASSUME PromoteDrop PROVE TypeOK'
    BY <1>2 DEF PromoteDrop, TypeOK, jobs, Steps, IdleTurn
  <1>3. ASSUME NEW t \in Tasks, PromoteOnAccess(t) PROVE TypeOK'
    <2>1. task[t].name \in Names
      BY <1>3 DEF PromoteOnAccess, TypeOK, IdleTask
    <2> QED BY <1>3, <2>1, PromoteCopyType DEF PromoteOnAccess, TypeOK, IdleTask
  <1>4. ASSUME NEW t \in Tasks, PromoteFinally(t) PROVE TypeOK'
    BY <1>4 DEF PromoteFinally, TypeOK, IdleTask
  <1>5. ASSUME NEW s \in Sweeps, SweepStart(s) PROVE TypeOK'
    BY <1>5 DEF SweepStart, TypeOK
  <1>6. ASSUME NEW s \in Sweeps, SweepPick(s) PROVE TypeOK'
    <2>1. CASE sweep' = [sweep EXCEPT ![s] = IdleSweep] /\ UNCHANGED demoting
      BY <1>6, <2>1 DEF SweepPick, TypeOK, IdleSweep
    <2>2. ASSUME NEW d \in Drives, demoting' = TRUE,
                 sweep' = [sweep EXCEPT ![s] =
                            [pc |-> "walk", todo |-> {d} \X {n \in Names \ Hidden : IsReal(n)}]]
          PROVE  TypeOK'
      <3>1. sweep' \in [Sweeps -> [pc : {"idle", "flag", "walk"}, todo : SUBSET Blobs]]
        BY <2>2 DEF TypeOK, Blobs
      <3>2. demoting' \in BOOLEAN
        BY <2>2
      <3> QED BY <1>6, <3>1, <3>2 DEF SweepPick, TypeOK
    <2> QED BY <1>6, <2>1, <2>2 DEF SweepPick
  <1>7. ASSUME NEW s \in Sweeps, NEW b \in Blobs, SweepFile(s, b) PROVE TypeOK'
    <2>1. b[2] \in Names
      BY DEF Blobs
    <2>2. /\ sweep' \in [Sweeps -> [pc : {"idle", "flag", "walk"}, todo : SUBSET Blobs]]
          /\ UNCHANGED <<main, demoting, task, promoting, deleting, evac>>
      BY <1>7 DEF SweepFile, TypeOK
    <2>3. CASE UNCHANGED <<cold, turn>>
      BY <2>2, <2>3 DEF TypeOK
    <2>4. CASE cold' = [cold EXCEPT ![b] = None] /\ UNCHANGED turn
      BY <2>2, <2>4 DEF TypeOK
    <2>5. CASE /\ IsReal(b[2])
               /\ cold' = [cold EXCEPT ![b] = main[b[2]]]
               /\ \E t \in Tmp : turn' = Turn("demote_copied", b[2], t, b)
      <3>1. cold' \in [Blobs -> Data \cup {Torn, None}]
        BY <2>5 DEF TypeOK, IsReal
      <3>2. turn' \in [step : Steps, name : Names, tmp : Tmp, blob : Blobs]
        BY <2>1, <2>5 DEF Turn, Steps
      <3> QED BY <2>2, <3>1, <3>2 DEF TypeOK
    <2> QED BY <1>7, <2>3, <2>4, <2>5 DEF SweepFile
  <1>8. ASSUME DemoteLink \/ DemoteSwap PROVE TypeOK'
    <2>1. /\ main' \in [Names -> Data \cup {Torn, None} \cup Blobs]
          /\ cold' \in [Blobs -> Data \cup {Torn, None}]
      BY <1>8 DEF DemoteLink, DemoteSwap, DemoteUndo, TypeOK, IdleTurn, Names
    <2>2. turn' \in [step : Steps, name : Names, tmp : Tmp, blob : Blobs] \cup {IdleTurn}
      BY <1>8 DEF DemoteLink, DemoteSwap, DemoteUndo, TypeOK, Steps, IdleTurn
    <2>3. UNCHANGED <<sweep, demoting, task, promoting, deleting, evac>>
      BY <1>8 DEF DemoteLink, DemoteSwap, jobs
    <2> QED BY <2>1, <2>2, <2>3 DEF TypeOK
  <1>10. ASSUME NEW s \in Sweeps, SweepEnd(s) PROVE TypeOK'
    BY <1>10 DEF SweepEnd, TypeOK, IdleSweep
  <1>11. ASSUME NEW e \in Evacs, NEW d \in EvacDrives, EvacStart(e, d) PROVE TypeOK'
    BY <1>11, NamesAssumption DEF EvacStart, Links, TypeOK, IdleEvac
  <1>12. ASSUME NEW e \in Evacs, NEW n \in Names, EvacReadlink(e, n) PROVE TypeOK'
    <2> DEFINE Evac == [pc : {"idle", "links", "promote", "blobs"}, drive : Drives \cup {None},
                        links : SUBSET Names, link : Names \cup {None}, blobs : SUBSET Blobs]
    <2>1. /\ evac \in [Evacs -> Evac]
          /\ \A k \in Evacs \ {e} : evac[k].pc = "promote" => evac[k].link \in Names
      BY DEF TypeOK
    <2>2. \E r \in Evac : (r.pc = "promote" => r.link \in Names) /\ evac' = [evac EXCEPT ![e] = r]
      BY <1>12, <2>1 DEF EvacReadlink
    <2>3. evac' \in [Evacs -> Evac] /\ \A k \in Evacs : evac'[k].pc = "promote" => evac'[k].link \in Names
      BY <2>1, <2>2
    <2>4. UNCHANGED <<main, cold, turn, sweep, demoting, task, promoting, deleting>>
      BY <1>12 DEF EvacReadlink
    <2> QED BY <2>3, <2>4 DEF TypeOK
  <1>13. ASSUME NEW e \in Evacs, EvacPromote(e) PROVE TypeOK'
    <2>1. /\ main' \in [Names -> Data \cup {Torn, None} \cup Blobs]
          /\ turn' \in [step : Steps, name : Names, tmp : Tmp, blob : Blobs] \cup {IdleTurn}
      BY <1>13, PromoteCopyType DEF EvacPromote, TypeOK
    <2> DEFINE Evac == [pc : {"idle", "links", "promote", "blobs"}, drive : Drives \cup {None},
                        links : SUBSET Names, link : Names \cup {None}, blobs : SUBSET Blobs]
    <2>2. /\ evac \in [Evacs -> Evac]
          /\ \A k \in Evacs \ {e} : evac[k].pc = "promote" => evac[k].link \in Names
      BY DEF TypeOK
    <2>3. \E r \in Evac : r.pc = "links" /\ evac' = [evac EXCEPT ![e] = r]
      <3> DEFINE r == [evac[e] EXCEPT !.pc = "links", !.link = None]
      <3>1. evac' = [evac EXCEPT ![e] = r]
        BY <1>13, <2>2 DEF EvacPromote
      <3>2. r \in Evac /\ r.pc = "links"
        BY <2>2
      <3> QED BY <3>1, <3>2
    <2>4. evac' \in [Evacs -> Evac] /\ \A k \in Evacs : evac'[k].pc = "promote" => evac'[k].link \in Names
      BY <2>2, <2>3
    <2>5. UNCHANGED <<cold, sweep, demoting, task, promoting, deleting>>
      BY <1>13 DEF EvacPromote
    <2> QED BY <2>1, <2>4, <2>5 DEF TypeOK
  <1>14. ASSUME NEW e \in Evacs, EvacScan(e) PROVE TypeOK'
    BY <1>14 DEF EvacScan, TypeOK
  <1>15. ASSUME NEW e \in Evacs, NEW b \in Blobs, EvacRemove(e, b) PROVE TypeOK'
    BY <1>15 DEF EvacRemove, TypeOK
  <1>16. ASSUME NEW e \in Evacs, EvacEnd(e) PROVE TypeOK'
    BY <1>16 DEF EvacEnd, TypeOK, IdleEvac
  <1>17. ASSUME NEW n \in UserNames, Read(n) PROVE TypeOK'
    <2>1. n \in Names
      BY DEF UserNames, Names
    <2> QED BY <1>17, <2>1, OnAccessType DEF Read, TypeOK
  <1>18. ASSUME NEW n \in Paths, NEW v \in Data, Write(n, v) PROVE TypeOK'
    <2>1. n \in Names
      BY DEF Names
    <2>2. /\ main' \in [Names -> Data \cup {Torn, None} \cup Blobs]
          /\ cold' \in [Blobs -> Data \cup {Torn, None}]
      BY <1>18, <2>1 DEF Write, TypeOK, IsLink
    <2> QED BY <1>18, <2>1, <2>2, OnAccessType DEF Write, TypeOK
  <1>19. ASSUME NEW n \in UserNames, Delete(n) PROVE TypeOK'
    BY <1>19 DEF Delete, TypeOK, IsLink, UserNames, Names
  <1>20. ASSUME NEW n \in UserNames, DeleteUnlink(n) PROVE TypeOK'
    BY <1>20 DEF DeleteUnlink, TypeOK
  <1>21. ASSUME NEW p \in Paths, NEW q \in Paths, Rename(p, q) PROVE TypeOK'
    BY <1>21 DEF Rename, TypeOK, jobs, Names
  <1>22. ASSUME LoseMemory,
                main' \in [Names -> Data \cup {Torn, None} \cup Blobs],
                cold' \in [Blobs -> Data \cup {Torn, None}]
         PROVE  TypeOK'
    <2>1. /\ turn' = IdleTurn
          /\ sweep' \in [Sweeps -> [pc : {"idle", "flag", "walk"}, todo : SUBSET Blobs]]
          /\ task' \in [Tasks -> [pc : {"flag", "finally"}, name : Names] \cup {IdleTask}]
      BY <1>22 DEF LoseMemory, IdleSweep
    <2>2. demoting' \in BOOLEAN /\ promoting' \subseteq Names /\ deleting' \subseteq Names
      BY <1>22 DEF LoseMemory
    <2>3. /\ evac' \in [Evacs -> [pc : {"idle", "links", "promote", "blobs"},
                                  drive : Drives \cup {None}, links : SUBSET Names,
                                  link : Names \cup {None}, blobs : SUBSET Blobs]]
          /\ \A e \in Evacs : evac'[e].pc # "promote"
      BY <1>22 DEF LoseMemory, IdleEvac
    <2> QED BY <1>22, <2>1, <2>2, <2>3 DEF TypeOK
  <1>23. ASSUME Crashing PROVE TypeOK'
    BY <1>22, <1>23 DEF Crashing, Crash, CrashInDemoteCopy, CrashInPromoteCopy, TypeOK, Names
  <1>24. CASE UNCHANGED vars
    BY <1>24 DEF vars, TypeOK
  <1> QED
    BY <1>1, <1>2, <1>3, <1>4, <1>5, <1>6, <1>7, <1>8, <1>10, <1>11, <1>12, <1>13,
       <1>14, <1>15, <1>16, <1>17, <1>18, <1>19, <1>20, <1>21, <1>23, <1>24
    DEF Next, Sweeping, SweepProgress, Promoting, Evacuating, EvacProgress, SystemCalls,
        Users, Unlinking

(* Every variable always holds a value of its type: a name is a file, a    *)
(* link to a blob or nothing, and a blob holds bytes, never a link.        *)
THEOREM TypeCorrect == Spec => []TypeOK
  BY TypeInit, TypeStep, PTL DEF Spec

-----------------------------------------------------------------------------
(* The inductive invariant, under the two conditions on users: no name is  *)
(* reused while its mirror path serves another name, leftovers of a crash  *)
(* stay closed. Drives may be evacuated.                                   *)

Gentle == ~NameReuse /\ ~OpenLeftovers

NamesSound == BlobsUnshared /\ MirrorFree /\ NothingTorn

(* An evacuation also promotes links a crash left behind at temporary      *)
(* names. Such a link may share its blob with a name users know, so the    *)
(* promotion takes that name's bytes; but only off a drive being emptied.  *)
(* (When another evacuation promoted the link first and a sweep demoted    *)
(* the file it became, the blob is that temporary name's own.)             *)
Emptying(b) ==
    \E e \in Evacs : evac[e].pc = "links" /\ (b[1] = evac[e].drive \/ b[2] \in Tmp)

(* A leftover link that an evacuation has read and is about to promote. *)
Leftover(x) == x \in Tmp /\ \E e \in Evacs : evac[e].pc = "promote" /\ evac[e].link = x

(* TurnSound, with promotions of such links. *)
TurnHeld ==
    LET n == turn.name  b == turn.blob  t == turn.tmp
        unused == \A p \in Paths : main[p] # b
        copied == IsReal(n) /\ b[2] = n /\ cold[b] = main[n] /\ unused
    IN  /\ turn.step = "demote_copied" => copied /\ main[t] = None
        /\ turn.step = "demote_linked" => copied /\ main[t] = b
        /\ turn.step = "promote_copied" =>
                /\ main[n] = b /\ main[t] = cold[b] /\ cold[b] # None
                /\ n \in Paths \/ Emptying(b)
        /\ turn.step = "promote_swapped" =>
                /\ main[n] = cold[b]
                /\ (n \in Paths /\ unused) \/ Emptying(b)

(* Until a leftover link that was read is promoted nobody takes its name;  *)
(* if it still is a link it leads to the drive, or to a blob of its own.   *)
(* What is left to remove is on the drive.                                 *)
EvacSound ==
    /\ \A e \in Evacs : evac[e].pc = "promote" /\ evac[e].link \in Tmp =>
          LET x == evac[e].link
          IN  /\ main[x] # None
              /\ main[x] \in Blobs => main[x][1] = evac[e].drive \/ main[x][2] \in Tmp
              /\ turn # IdleTurn => turn.tmp # x
    /\ \A e \in Evacs : \A b \in evac[e].blobs : b[1] = evac[e].drive

IInv == TypeOK /\ NamesSound /\ TurnHeld /\ TasksSound /\ EvacSound

(* What an evacuation may cost. *)
AtStake(p) ==
    IsLink(p) /\ \E e \in Evacs : evac[e].pc # "idle" /\ main[p][1] = evac[e].drive

NoEvac == \A e \in Evacs : evac[e].pc = "idle"

LEMMA InvInit == Init => IInv /\ NoEvac
  <1> SUFFICES ASSUME Init PROVE IInv /\ NoEvac
    OBVIOUS
  <1>1. \A n \in Names : main[n] = None
    BY DEF Init
  <1>2. Paths \subseteq Names
    BY DEF Names
  <1>3. NamesSound
    BY <1>1, <1>2, DataAssumption
    DEF NamesSound, BlobsUnshared, MirrorFree, NothingTorn, View, IsLink, Blobs
  <1>4. TurnHeld
    BY DEF Init, TurnHeld, IdleTurn
  <1>5. TasksSound
    BY DEF Init, TasksSound, IdleTask
  <1>6. NoEvac /\ EvacSound
    BY DEF Init, IdleEvac, EvacSound, NoEvac
  <1> QED BY TypeInit, <1>3, <1>4, <1>5, <1>6 DEF IInv

(* A handler that touches no file keeps what the invariant says of them. *)
LEMMA FilesFrame ==
  ASSUME NamesSound, UNCHANGED <<main, cold>>
  PROVE  NamesSound' /\ \A p \in Paths : View(p)' = View(p)
  BY DEF NamesSound, BlobsUnshared, MirrorFree, NothingTorn, View, IsLink

LEMMA IdleTurnSound == ASSUME turn' = IdleTurn PROVE TurnHeld'
  BY DEF TurnHeld, IdleTurn

LEMMA OnAccessSound ==
  ASSUME TypeOK, TasksSound, NEW n \in UserNames, NEW entry, OnAccess(n, entry)
  PROVE  TasksSound'
  BY DEF OnAccess, TasksSound, TypeOK, IdleTask

LEMMA TasksFrame == ASSUME TasksSound, UNCHANGED task PROVE TasksSound'
  BY DEF TasksSound

(* A leftover link an evacuation has read is left alone, or it becomes a   *)
(* file or a link to a blob of its own.                                    *)
LEMMA EvacFrame ==
  ASSUME EvacSound, UNCHANGED evac,
         \A x \in Tmp : Leftover(x) =>
            \/ main'[x] = main[x]
            \/ main'[x] # None /\ (main'[x] \in Blobs => main'[x][2] \in Tmp),
         turn' # IdleTurn => ~Leftover(turn'.tmp)
  PROVE  EvacSound'
  BY DEF EvacSound, Leftover

(* Its name is not taken for a temporary file. *)
LEMMA LeftoverKept ==
  ASSUME EvacSound, NEW x, Leftover(x)
  PROVE  main[x] # None /\ (turn # IdleTurn => turn.tmp # x)
  BY DEF EvacSound, Leftover

(* The temporary copy of a promotion is invisible, and whole. *)
LEMMA PromoteCopySound ==
  ASSUME TypeOK, NamesSound, turn = IdleTurn, NEW n \in Names, PromoteCopy(n), UNCHANGED cold,
         n \in Paths \/ (IsLink(n) =>
            \E e \in Evacs : evac'[e].pc = "links"
                             /\ (main[n][1] = evac'[e].drive \/ main[n][2] \in Tmp))
  PROVE  /\ NamesSound' /\ TurnHeld'
         /\ turn' # IdleTurn => turn'.tmp \in Tmp /\ main[turn'.tmp] = None
         /\ \A p \in Paths : View(p)' = View(p)
         /\ \A t \in Names : main[t] # None => main'[t] = main[t]
  <1>1. CASE UNCHANGED <<main, turn>>
    BY <1>1, FilesFrame, IdleTurnSound DEF IdleTurn
  <1>2. ASSUME NEW t \in Tmp, IsLink(n), View(n) # None, main[t] = None,
               main' = [main EXCEPT ![t] = View(n)],
               turn' = Turn("promote_copied", n, t, main[n])
        PROVE  /\ NamesSound' /\ TurnHeld' /\ turn'.tmp \in Tmp /\ main[turn'.tmp] = None
               /\ \A p \in Paths : View(p)' = View(p)
               /\ \A x \in Names : main[x] # None => main'[x] = main[x]
    <2>1. \A x \in Names : x # t => main'[x] = main[x]
      BY <1>2 DEF TypeOK, Names
    <2>2. \A p \in Paths : main'[p] = main[p]
      BY <2>1, NamesAssumption DEF Names
    <2>3. NamesSound'
      BY <2>2 DEF NamesSound, BlobsUnshared, MirrorFree, NothingTorn, View, IsLink
    <2>4. main'[t] = cold[main[n]] /\ cold[main[n]] # None
      BY <1>2 DEF TypeOK, Names, View
    <2>5. main'[n] = main[n]
      BY <1>2, <2>1, DataAssumption DEF IsLink
    <2>6. n \in Paths \/ Emptying(main[n])'
      BY <1>2, <2>5 DEF Emptying
    <2>7. turn'.step = "promote_copied" /\ turn'.name = n /\ turn'.tmp = t /\ turn'.blob = main[n]
      BY <1>2 DEF Turn
    <2>8. TurnHeld'
      BY <2>4, <2>5, <2>6, <2>7 DEF TurnHeld, Emptying
    <2>9. \A x \in Names : main[x] # None => main'[x] = main[x]
      BY <1>2, <2>1
    <2> QED BY <1>2, <2>2, <2>3, <2>7, <2>8, <2>9 DEF View, IsLink
  <1> QED BY <1>1, <1>2 DEF PromoteCopy

LEMMA PromoteSwapSound ==
  ASSUME TypeOK, NamesSound, TurnHeld, EvacSound, PromoteSwap
  PROVE  /\ NamesSound' /\ TurnHeld' /\ EvacSound'
         /\ \A p \in Paths : View(p)' = View(p)
  <1> DEFINE n == turn.name  t == turn.tmp  b == turn.blob
  <1>1. /\ n \in Names /\ t \in Tmp /\ b \in Blobs
        /\ main[n] = b /\ main[t] = cold[b] /\ cold[b] # None
        /\ n \in Paths \/ Emptying(b)
    BY DEF PromoteSwap, TurnHeld, TypeOK, IdleTurn
  <1>2. cold[b] \in Data \cup {Torn} /\ cold[b] \notin Blobs
    BY <1>1, DataAssumption DEF TypeOK
  <1>3. t # n /\ t \in Names /\ Paths \subseteq Names /\ UNCHANGED <<cold, evac>>
    BY <1>1, <1>2 DEF Names, PromoteSwap, jobs
  <1>4. ~Leftover(t)
    BY LeftoverKept DEF PromoteSwap, IdleTurn
  <1>5. CASE /\ main' = [main EXCEPT ![n] = main[t], ![t] = None]
             /\ turn' = [turn EXCEPT !.step = "promote_swapped"]
    <2>1. main'[n] = cold[b] /\ \A x \in Names \ {n, t} : main'[x] = main[x]
      BY <1>1, <1>3, <1>5 DEF TypeOK
    <2>2. turn'.step = "promote_swapped" /\ turn'.name = n /\ turn'.blob = b /\ turn'.tmp = t
      BY <1>5 DEF PromoteSwap, TypeOK, IdleTurn
    <2>3. EvacSound'
      <3>1. \A x \in Tmp : Leftover(x) => main'[x] = main[x] \/ x = n
        BY <1>4, <2>1 DEF Names
      <3> QED BY <1>1, <1>2, <1>3, <1>4, <2>1, <2>2, <3>1, EvacFrame
    <2>4. \A p \in Paths \ {n} : main'[p] = main[p]
      BY <1>1, <2>1, NamesAssumption DEF Names
    <2>5. CASE n \in Paths
      <3>1. cold[b] \in Data
        BY <1>1, <1>2, <2>5 DEF NamesSound, NothingTorn, View, IsLink
      <3>2. main'[n] \notin Blobs /\ main'[n] # None /\ main'[n] # Torn
        BY <2>1, <3>1, DataAssumption
      <3>3. BlobsUnshared'
        BY <2>4, <3>2 DEF NamesSound, BlobsUnshared
      <3>4. MirrorFree'
        BY <1>1, <2>4, <2>5, <3>2, DataAssumption DEF NamesSound, MirrorFree, Blobs, Names
      <3>5. NothingTorn'
        BY <1>3, <2>4, <3>2 DEF NamesSound, NothingTorn, View, IsLink
      <3>6. \A p \in Paths : main'[p] # b
        BY <1>1, <2>4, <2>5, <3>2 DEF NamesSound, BlobsUnshared
      <3>7. TurnHeld'
        BY <1>3, <2>1, <2>2, <2>5, <3>6 DEF TurnHeld
      <3>8. ASSUME NEW p \in Paths, p = n PROVE View(p)' = View(p)
        BY <1>1, <2>1, <3>2, <3>8 DEF View, IsLink
      <3>9. ASSUME NEW p \in Paths, p # n PROVE View(p)' = View(p)
        <4>1. main'[p] = main[p] /\ cold' = cold
          BY <1>3, <2>4, <3>9
        <4> QED BY <4>1 DEF View, IsLink
      <3> QED BY <2>3, <3>3, <3>4, <3>5, <3>7, <3>8, <3>9 DEF NamesSound
    <2>6. CASE n \notin Paths
      <3>1. \A p \in Paths : main'[p] = main[p]
        BY <2>4, <2>6
      <3>2. NamesSound' /\ \A p \in Paths : View(p)' = View(p)
        BY <1>3, <3>1 DEF NamesSound, BlobsUnshared, MirrorFree, NothingTorn, View, IsLink
      <3>3. TurnHeld'
        BY <1>1, <1>3, <2>1, <2>2, <2>6 DEF TurnHeld, Emptying
      <3> QED BY <2>3, <3>2, <3>3
    <2> QED BY <2>5, <2>6
  <1>6. CASE main' = [main EXCEPT ![t] = None] /\ turn' = IdleTurn
    <2>1. \A x \in Names \ {t} : main'[x] = main[x]
      BY <1>1, <1>3, <1>6 DEF TypeOK
    <2>2. \A p \in Paths : main'[p] = main[p]
      BY <1>1, <2>1, NamesAssumption DEF Names
    <2>3. NamesSound' /\ \A p \in Paths : View(p)' = View(p)
      BY <1>3, <2>2 DEF NamesSound, BlobsUnshared, MirrorFree, NothingTorn, View, IsLink
    <2>4. EvacSound'
      BY <1>3, <1>4, <1>6, <2>1, EvacFrame DEF Names, IdleTurn
    <2> QED BY <1>6, <2>3, <2>4, IdleTurnSound
  <1> QED BY <1>5, <1>6 DEF PromoteSwap

LEMMA PromoteDropSound ==
  ASSUME TypeOK, NamesSound, TurnHeld, EvacSound, PromoteDrop
  PROVE  /\ NamesSound' /\ TurnHeld' /\ EvacSound'
         /\ \A p \in Paths : View(p)' # View(p) => AtStake(p)
  <1> DEFINE b == turn.blob
  <1>1. b \in Blobs /\ ((\A p \in Paths : main[p] # b) \/ Emptying(b))
    BY DEF PromoteDrop, TurnHeld, TypeOK, IdleTurn
  <1>2. UNCHANGED <<main, evac>> /\ turn' = IdleTurn
    BY DEF PromoteDrop, jobs
  <1>3. (\A c \in Blobs \ {b} : cold'[c] = cold[c]) /\ cold'[b] \in {cold[b], None}
    BY <1>1 DEF PromoteDrop, TypeOK
  <1>4. NamesSound'
    BY <1>2, <1>3, DataAssumption DEF NamesSound, BlobsUnshared, MirrorFree, NothingTorn, View, IsLink
  <1>5. \A p \in Paths : View(p)' # View(p) => AtStake(p)
    <2> SUFFICES ASSUME NEW p \in Paths, View(p)' # View(p) PROVE AtStake(p)
      OBVIOUS
    <2>1. IsLink(p) /\ main[p] = b
      BY <1>2, <1>3 DEF View, IsLink
    <2>2. b[2] \notin Tmp
      BY <2>1, NamesAssumption DEF NamesSound, NothingTorn
    <2> QED BY <1>1, <2>1, <2>2 DEF AtStake, Emptying
  <1>6. EvacSound'
    BY <1>2, EvacFrame
  <1> QED BY <1>2, <1>4, <1>5, <1>6, IdleTurnSound

(* No name users know is linked to the mirror path of a real file, so what *)
(* a demotion does to that path shows nowhere.                             *)
LEMMA MirrorUnused ==
  ASSUME TypeOK, NamesSound, NEW b \in Blobs, IsReal(b[2])
  PROVE  \A p \in Paths : main[p] # b
  <1> SUFFICES ASSUME NEW p \in Paths, main[p] = b PROVE FALSE
    OBVIOUS
  <1>1. IsLink(p) /\ b[2] \in Paths
    BY DEF NamesSound, NothingTorn, IsLink
  <1>2. b = <<b[1], b[2]>> /\ b[1] \in Drives
    BY DEF Blobs
  <1>3. CASE b[2] = p
    BY <1>3, DataAssumption DEF IsReal
  <1>4. CASE b[2] # p
    <2>1. main[b[2]] = None
      BY <1>1, <1>2, <1>4 DEF NamesSound, MirrorFree
    <2> QED BY <2>1, DataAssumption DEF IsReal
  <1> QED BY <1>3, <1>4

(* A change to a blob that no name is linked to shows nowhere. *)
LEMMA BlobFrame ==
  ASSUME TypeOK, NamesSound, NEW b \in Blobs, \A p \in Paths : main[p] # b,
         NEW x, cold' = [cold EXCEPT ![b] = x], \A p \in Paths : main'[p] = main[p]
  PROVE  NamesSound' /\ \A p \in Paths : View(p)' = View(p)
  <1>1. \A c \in Blobs \ {b} : cold'[c] = cold[c]
    BY DEF TypeOK
  <1> QED BY <1>1 DEF NamesSound, BlobsUnshared, MirrorFree, NothingTorn, View, IsLink

LEMMA SweepFileSound ==
  ASSUME TypeOK, NamesSound, EvacSound, NEW s \in Sweeps, NEW b \in Blobs, SweepFile(s, b)
  PROVE  /\ NamesSound' /\ TurnHeld' /\ EvacSound'
         /\ \A p \in Paths : View(p)' = View(p)
  <1>0. UNCHANGED <<main, evac>> /\ turn = IdleTurn
    BY DEF SweepFile, EventLoop
  <1>1. turn' # IdleTurn => ~Leftover(turn'.tmp)
    BY <1>0, LeftoverKept DEF SweepFile, Turn
  <1>2. EvacSound'
    BY <1>0, <1>1, EvacFrame
  <1>3. CASE UNCHANGED <<cold, turn>>
    BY <1>0, <1>2, <1>3, FilesFrame, IdleTurnSound
  <1>4. CASE IsReal(b[2]) /\ cold' = [cold EXCEPT ![b] = None] /\ UNCHANGED turn
    BY <1>0, <1>2, <1>4, MirrorUnused, BlobFrame, IdleTurnSound
  <1>5. CASE /\ IsReal(b[2])
             /\ cold' = [cold EXCEPT ![b] = main[b[2]]]
             /\ \E t \in Tmp : main[t] = None /\ turn' = Turn("demote_copied", b[2], t, b)
    <2>1. \A p \in Paths : main[p] # b
      BY <1>5, MirrorUnused
    <2>2. TurnHeld'
      BY <1>0, <1>5, <2>1 DEF TurnHeld, Turn, TypeOK, IsReal
    <2> QED BY <1>0, <1>2, <1>5, <2>1, <2>2, BlobFrame
  <1> QED BY <1>3, <1>4, <1>5 DEF SweepFile

(* What a demotion under way may count on. *)
LEMMA DemoteFacts ==
  ASSUME TypeOK, TurnHeld, EvacSound, turn.step \in {"demote_copied", "demote_linked"}
  PROVE  /\ turn.name \in Names /\ turn.tmp \in Tmp /\ turn.blob \in Blobs
         /\ IsReal(turn.name) /\ turn.blob[2] = turn.name
         /\ cold[turn.blob] = main[turn.name]
         /\ \A p \in Paths : main[p] # turn.blob
         /\ turn.name # turn.tmp
         /\ ~Leftover(turn.tmp)
  <1>1. turn.name \in Names /\ turn.tmp \in Tmp /\ turn.blob \in Blobs
    BY DEF TypeOK, IdleTurn
  <1>2. /\ IsReal(turn.name) /\ turn.blob[2] = turn.name
        /\ cold[turn.blob] = main[turn.name]
        /\ \A p \in Paths : main[p] # turn.blob
    BY DEF TurnHeld
  <1>3. main[turn.tmp] \in Blobs \cup {None}
    BY <1>1 DEF TurnHeld
  <1>4. turn.name # turn.tmp
    BY <1>2, <1>3, DataAssumption DEF IsReal
  <1>5. ~Leftover(turn.tmp)
    BY LeftoverKept DEF IdleTurn
  <1> QED BY <1>1, <1>2, <1>4, <1>5

LEMMA DemoteUndoSound ==
  ASSUME TypeOK, NamesSound, TurnHeld, EvacSound, UNCHANGED evac,
         turn.step \in {"demote_copied", "demote_linked"}, DemoteUndo
  PROVE  /\ NamesSound' /\ TurnHeld' /\ EvacSound'
         /\ \A p \in Paths : View(p)' = View(p)
  <1>1. turn' = IdleTurn /\ \A x \in Names \ {turn.tmp} : main'[x] = main[x]
    BY DemoteFacts DEF DemoteUndo, TypeOK, Names
  <1>2. \A p \in Paths : main'[p] = main[p]
    BY <1>1, DemoteFacts, NamesAssumption DEF Names
  <1>3. EvacSound'
    BY <1>1, DemoteFacts, EvacFrame DEF Names
  <1> QED BY <1>1, <1>2, <1>3, DemoteFacts, BlobFrame, IdleTurnSound DEF DemoteUndo

LEMMA DemoteLinkSound ==
  ASSUME TypeOK, NamesSound, TurnHeld, EvacSound, DemoteLink
  PROVE  /\ NamesSound' /\ TurnHeld' /\ EvacSound'
         /\ \A p \in Paths : View(p)' = View(p)
  <1>0. turn.step = "demote_copied" /\ UNCHANGED evac
    BY DEF DemoteLink, jobs
  <1>1. CASE /\ main' = [main EXCEPT ![turn.tmp] = turn.blob]
             /\ turn' = [turn EXCEPT !.step = "demote_linked"]
             /\ UNCHANGED cold
    <2>1. /\ \A n \in Names \ {turn.tmp} : main'[n] = main[n]
          /\ main'[turn.tmp] = turn.blob
      BY <1>0, <1>1, DemoteFacts DEF TypeOK, Names
    <2>2. \A p \in Paths : p \in Names \ {turn.tmp}
      BY <1>0, DemoteFacts, NamesAssumption DEF Names
    <2>3. NamesSound'
      BY <1>1, <2>1, <2>2 DEF NamesSound, BlobsUnshared, MirrorFree, NothingTorn, View, IsLink
    <2>4. /\ turn'.step = "demote_linked" /\ turn'.name = turn.name
          /\ turn'.tmp = turn.tmp /\ turn'.blob = turn.blob
      BY <1>0, <1>1 DEF TypeOK, IdleTurn
    <2>5. TurnHeld'
      BY <1>0, <1>1, <2>1, <2>2, <2>4, DemoteFacts DEF TurnHeld, IsReal
    <2>6. EvacSound'
      BY <1>0, <2>1, <2>4, DemoteFacts, EvacFrame DEF Names
    <2> QED BY <1>1, <2>1, <2>2, <2>3, <2>5, <2>6 DEF View, IsLink
  <1> QED BY <1>0, <1>1, DemoteUndoSound DEF DemoteLink

LEMMA DemoteSwapSound ==
  ASSUME TypeOK, NamesSound, TurnHeld, EvacSound, DemoteSwap
  PROVE  /\ NamesSound' /\ TurnHeld' /\ EvacSound'
         /\ \A p \in Paths : View(p)' = View(p)
  <1> DEFINE n == turn.name  t == turn.tmp  b == turn.blob
  <1>0. turn.step = "demote_linked" /\ UNCHANGED evac
    BY DEF DemoteSwap, jobs
  <1>1. CASE /\ main' = [main EXCEPT ![n] = b, ![t] = None]
             /\ turn' = IdleTurn
             /\ UNCHANGED cold
    <2>1. /\ \A p \in Paths \ {n} : main'[p] = main[p]
          /\ main'[n] = b
          /\ \A x \in Names \ {n, t} : main'[x] = main[x]
      BY <1>0, <1>1, DemoteFacts, NamesAssumption DEF TypeOK, Names
    <2>2. b = <<b[1], n>> /\ b \in Blobs /\ IsReal(n) /\ cold[b] = main[n] /\ main[n] # None
      BY <1>0, DemoteFacts, DataAssumption DEF Blobs, IsReal
    <2>3. BlobsUnshared'
      BY <1>0, <2>1, DemoteFacts DEF NamesSound, BlobsUnshared
    <2>4. MirrorFree'
      <3> SUFFICES ASSUME NEW p \in Paths, NEW q \in Paths, NEW d \in Drives,
                          p # q, main'[q] = <<d, p>>
                   PROVE  main'[p] = None
        BY DEF MirrorFree
      <3>1. CASE q = n
        BY <2>1, <2>2, <3>1
      <3>2. CASE q # n
        <4>1. main[p] = None
          BY <2>1, <3>2 DEF NamesSound, MirrorFree
        <4> QED BY <2>1, <2>2, <4>1
      <3> QED BY <3>1, <3>2
    <2>5. \A p \in Paths : View(p)' = View(p)
      <3>1. ASSUME NEW p \in Paths, p = n PROVE View(p)' = View(p)
        BY <1>1, <2>1, <2>2, <3>1, DataAssumption DEF View, IsLink, IsReal
      <3>2. ASSUME NEW p \in Paths, p # n PROVE View(p)' = View(p)
        <4>1. main'[p] = main[p] /\ cold' = cold
          BY <1>1, <2>1, <3>2
        <4> QED BY <4>1 DEF View, IsLink
      <3> QED BY <3>1, <3>2
    <2>6. NothingTorn'
      <3> SUFFICES ASSUME NEW p \in Paths
                   PROVE  View(p)' # Torn /\ (IsLink(p)' => main'[p][2] \in Paths)
        BY DEF NothingTorn
      <3>1. View(p)' # Torn
        BY <2>5 DEF NamesSound, NothingTorn
      <3>2. CASE p = n
        BY <1>0, <2>1, <3>1, <3>2, DemoteFacts
      <3>3. CASE p # n
        BY <2>1, <3>1, <3>3 DEF NamesSound, NothingTorn, IsLink
      <3> QED BY <3>2, <3>3
    <2>7. EvacSound'
      BY <1>0, <1>1, <2>1, <2>2, DataAssumption, DemoteFacts, EvacFrame DEF Names
    <2> QED BY <1>1, <2>3, <2>4, <2>5, <2>6, <2>7, IdleTurnSound DEF NamesSound
  <1> QED BY <1>0, <1>1, DemoteUndoSound DEF DemoteSwap

(* What an evacuation removes in the end is on its drive. *)
LEMMA EvacRemoveSound ==
  ASSUME TypeOK, NamesSound, EvacSound, NEW e \in Evacs, NEW b \in Blobs, EvacRemove(e, b)
  PROVE  NamesSound' /\ \A p \in Paths : View(p)' # View(p) => AtStake(p)
  <1>1. UNCHANGED main /\ b[1] = evac[e].drive /\ evac[e].pc = "blobs"
    BY DEF EvacRemove, EvacSound
  <1>2. (\A c \in Blobs \ {b} : cold'[c] = cold[c]) /\ cold'[b] \in {cold[b], None}
    BY DEF EvacRemove, TypeOK
  <1>3. NamesSound'
    BY <1>1, <1>2, DataAssumption DEF NamesSound, BlobsUnshared, MirrorFree, NothingTorn, View, IsLink
  <1>4. \A p \in Paths : View(p)' # View(p) => AtStake(p)
    BY <1>1, <1>2 DEF View, IsLink, AtStake
  <1> QED BY <1>3, <1>4

(* The operations of users. *)

LEMMA WriteSound ==
  ASSUME TypeOK, NamesSound, Gentle, NEW n \in Paths, NEW v \in Data, Write(n, v)
  PROVE  /\ BlobsUnshared' /\ MirrorFree' /\ NothingTorn' /\ TurnHeld'
         /\ View(n)' = v
         /\ \A p \in Paths \ {n} : View(p)' = View(p)
  <1>0. n \in Names /\ Paths \subseteq Names /\ v \notin Blobs /\ v # Torn /\ v # None
    BY DataAssumption DEF Names
  <1>1. TurnHeld'
    BY IdleTurnSound DEF Write, EventLoop
  <1>2. CASE IsLink(n)
    <2>1. UNCHANGED main /\ main[n] \in Blobs /\ cold' = [cold EXCEPT ![main[n]] = v]
      BY <1>2 DEF Write, IsLink
    <2>2. cold'[main[n]] = v /\ \A c \in Blobs \ {main[n]} : cold'[c] = cold[c]
      BY <2>1 DEF TypeOK
    <2>3. View(n)' = v /\ \A p \in Paths \ {n} : View(p)' = View(p)
      BY <2>1, <2>2 DEF View, IsLink, NamesSound, BlobsUnshared
    <2> QED BY <1>0, <1>1, <2>1, <2>3 DEF NamesSound, BlobsUnshared, MirrorFree, NothingTorn, IsLink
  <1>3. CASE ~IsLink(n)
    <2>1. UNCHANGED cold /\ main' = [main EXCEPT ![n] = v]
      BY <1>3 DEF Write
    <2>2. main'[n] = v /\ \A p \in Paths \ {n} : main'[p] = main[p]
      BY <1>0, <2>1 DEF TypeOK
    <2>3. View(n)' = v /\ \A p \in Paths \ {n} : View(p)' = View(p)
      BY <1>0, <2>1, <2>2 DEF View, IsLink
    <2>4. BlobsUnshared' /\ NothingTorn'
      BY <1>0, <2>2, <2>3 DEF NamesSound, BlobsUnshared, NothingTorn, IsLink
    <2>5. \A q \in Paths \ {n}, d \in Drives : main[q] # <<d, n>>
      BY DEF Write, NameFree, Gentle
    <2>6. v \notin Drives \X Paths
      BY <1>0 DEF Blobs
    <2>7. MirrorFree'
      BY <2>2, <2>5, <2>6 DEF NamesSound, MirrorFree
    <2> QED BY <1>1, <2>3, <2>4, <2>7
  <1> QED BY <1>2, <1>3

LEMMA DeleteSound ==
  ASSUME TypeOK, NamesSound, NEW n \in Paths, Delete(n)
  PROVE  /\ BlobsUnshared' /\ MirrorFree' /\ NothingTorn' /\ TurnHeld'
         /\ View(n)' \in {View(n), None}
         /\ \A p \in Paths \ {n} : View(p)' = View(p)
  <1>1. UNCHANGED main /\ TurnHeld'
    BY IdleTurnSound DEF Delete, EventLoop
  <1>2. CASE UNCHANGED cold
    BY <1>1, <1>2, FilesFrame DEF NamesSound
  <1>3. CASE IsLink(n) /\ cold' = [cold EXCEPT ![main[n]] = None]
    <2>1. cold'[main[n]] = None /\ \A c \in Blobs \ {main[n]} : cold'[c] = cold[c]
      BY <1>3 DEF TypeOK, IsLink
    <2>2. View(n)' = None /\ \A p \in Paths \ {n} : View(p)' = View(p)
      BY <1>1, <1>3, <2>1 DEF View, IsLink, NamesSound, BlobsUnshared
    <2> QED BY <1>1, <2>2, DataAssumption
            DEF NamesSound, BlobsUnshared, MirrorFree, NothingTorn, IsLink
  <1> QED BY <1>2, <1>3 DEF Delete

LEMMA DeleteUnlinkSound ==
  ASSUME TypeOK, NamesSound, NEW n \in Paths, DeleteUnlink(n)
  PROVE  /\ BlobsUnshared' /\ MirrorFree' /\ NothingTorn' /\ TurnHeld'
         /\ View(n)' = None
         /\ \A p \in Paths \ {n} : View(p)' = View(p)
  <1>1. UNCHANGED cold /\ TurnHeld'
    BY IdleTurnSound DEF DeleteUnlink, EventLoop
  <1>2. main'[n] = None /\ \A p \in Paths \ {n} : main'[p] = main[p]
    BY DEF DeleteUnlink, TypeOK, Names
  <1>3. None \notin Blobs /\ None # Torn
    BY DataAssumption
  <1>4. View(n)' = None /\ \A p \in Paths \ {n} : View(p)' = View(p)
    BY <1>1, <1>2, <1>3 DEF View, IsLink
  <1>5. BlobsUnshared' /\ NothingTorn'
    BY <1>2, <1>3, <1>4 DEF NamesSound, BlobsUnshared, NothingTorn, IsLink
  <1>6. \A d \in Drives, p \in Paths : None # <<d, p>>
    BY <1>3 DEF Blobs, Names
  <1>7. MirrorFree'
    BY <1>2, <1>6 DEF NamesSound, MirrorFree
  <1> QED BY <1>1, <1>4, <1>5, <1>7

LEMMA RenameSound ==
  ASSUME TypeOK, NamesSound, Gentle, NEW p \in Paths, NEW q \in Paths, Rename(p, q)
  PROVE  /\ BlobsUnshared' /\ MirrorFree' /\ NothingTorn' /\ TurnHeld'
         /\ View(p)' = None /\ View(q)' = View(p)
         /\ \A r \in Paths \ {p, q} : View(r)' = View(r)
  <1>1. UNCHANGED cold /\ TurnHeld'
    BY IdleTurnSound DEF Rename, EventLoop
  <1>2. /\ main'[p] = None /\ main'[q] = main[p] /\ p # q
        /\ \A r \in Paths \ {p, q} : main'[r] = main[r]
    BY DEF Rename, TypeOK, Names
  <1>3. None \notin Blobs /\ None # Torn /\ \A d \in Drives, r \in Paths : None # <<d, r>>
    BY DataAssumption DEF Blobs, Names
  <1>4. /\ View(p)' = None /\ View(q)' = View(p)
        /\ \A r \in Paths \ {p, q} : View(r)' = View(r)
    BY <1>1, <1>2, <1>3 DEF View, IsLink
  <1>5. BlobsUnshared'
    BY <1>2, <1>3 DEF NamesSound, BlobsUnshared
  <1>6. NothingTorn'
    BY <1>2, <1>3, <1>4 DEF NamesSound, NothingTorn, IsLink
  <1>7. MirrorFree'
    <2> SUFFICES ASSUME NEW r \in Paths, NEW o \in Paths, NEW d \in Drives,
                        r # o, main'[o] = <<d, r>>
                 PROVE  main'[r] = None
      BY DEF MirrorFree
    <2>1. o # p
      BY <1>2, <1>3
    <2>2. CASE r = p
      BY <1>2, <2>2
    <2>3. CASE r = q
      <3>1. o \in Paths \ {p, q} /\ main[o] = <<d, q>>
        BY <1>2, <2>1, <2>3
      <3> QED BY <3>1 DEF Rename, NameFree, Gentle
    <2>4. CASE r \notin {p, q}
      <3>1. main[r] = None
        BY <1>2, <2>1, <2>4 DEF NamesSound, MirrorFree
      <3> QED BY <1>2, <2>4, <3>1
    <2> QED BY <2>2, <2>3, <2>4
  <1> QED BY <1>1, <1>4, <1>5, <1>6, <1>7

(* A crash: torn copies lie where no name users know leads. *)
LEMMA CrashSound ==
  ASSUME TypeOK, NamesSound, Crashing
  PROVE  /\ NamesSound' /\ TurnHeld' /\ TasksSound' /\ EvacSound'
         /\ NoEvac'
         /\ \A p \in Paths : View(p)' = View(p)
  <1>1. LoseMemory
    BY DEF Crashing, Crash, CrashInDemoteCopy, CrashInPromoteCopy
  <1>2. TurnHeld'
    BY <1>1, IdleTurnSound DEF LoseMemory
  <1>3. TasksSound'
    BY <1>1 DEF LoseMemory, TasksSound, IdleTask
  <1>4. NoEvac' /\ EvacSound'
    BY <1>1 DEF LoseMemory, IdleEvac, EvacSound, NoEvac
  <1>5. CASE Crash
    BY <1>2, <1>3, <1>4, <1>5, FilesFrame DEF Crash
  <1>6. ASSUME NEW s \in Sweeps, NEW b \in Blobs, CrashInDemoteCopy(s, b)
        PROVE  NamesSound' /\ \A p \in Paths : View(p)' = View(p)
    BY <1>6, MirrorUnused, BlobFrame DEF CrashInDemoteCopy
  <1>7. ASSUME NEW n \in Names, NEW t \in Tmp, CrashInPromoteCopy(n, t)
        PROVE  NamesSound' /\ \A p \in Paths : View(p)' = View(p)
    <2>1. UNCHANGED cold /\ \A p \in Paths : main'[p] = main[p]
      BY <1>7, NamesAssumption DEF CrashInPromoteCopy, TypeOK, Names
    <2> QED BY <2>1 DEF NamesSound, BlobsUnshared, MirrorFree, NothingTorn, View, IsLink
  <1> QED BY <1>2, <1>3, <1>4, <1>5, <1>6, <1>7 DEF Crashing

(* A step of an evacuation keeps the invariant and costs at most what is   *)
(* on the drive.                                                           *)
LEMMA EvacStep ==
  ASSUME Gentle, IInv, Evacuating
  PROVE  IInv' /\ \A p \in Paths : View(p)' # View(p) => AtStake(p)
  <1> USE DEF IInv
  <1>0. TypeOK'
    BY TypeStep DEF Next
  <1>1. TasksSound' /\ turn = IdleTurn
    BY TasksFrame DEF Evacuating, EvacProgress, EvacStart, EvacReadlink, EvacPromote, EvacScan,
                      EvacRemove, EvacEnd, EventLoop
  <1>2. ASSUME NEW e \in Evacs, NEW d \in EvacDrives, EvacStart(e, d)
        PROVE  UNCHANGED <<main, cold, turn>> /\ EvacSound'
    <2>1. /\ UNCHANGED <<main, cold, turn>>
          /\ evac'[e].pc = "links" /\ evac'[e].blobs = {}
          /\ \A k \in Evacs \ {e} : evac'[k] = evac[k]
      BY <1>2 DEF EvacStart, TypeOK, IdleEvac
    <2> QED BY <2>1 DEF EvacSound
  <1>3. ASSUME NEW e \in Evacs, NEW n \in Names, EvacReadlink(e, n)
        PROVE  UNCHANGED <<main, cold, turn>> /\ EvacSound'
    <2>1. /\ UNCHANGED <<main, cold, turn>>
          /\ \A k \in Evacs \ {e} : evac'[k] = evac[k]
          /\ evac'[e].drive = evac[e].drive /\ evac'[e].blobs = evac[e].blobs
      BY <1>3 DEF EvacReadlink, TypeOK
    <2>2. CASE IsLink(n) /\ main[n][1] = evac[e].drive
      <3>1. evac'[e].link = n /\ main[n] # None
        BY <1>3, <2>2, DataAssumption DEF EvacReadlink, TypeOK, IsLink
      <3> QED BY <1>1, <2>1, <2>2, <3>1 DEF EvacSound
    <2>3. CASE ~(IsLink(n) /\ main[n][1] = evac[e].drive)
      <3>1. evac'[e].pc = "links"
        BY <1>3, <2>3 DEF EvacReadlink, TypeOK
      <3> QED BY <2>1, <3>1 DEF EvacSound
    <2> QED BY <2>1, <2>2, <2>3
  <1>4. ASSUME NEW e \in Evacs, EvacPromote(e)
        PROVE  NamesSound' /\ TurnHeld' /\ EvacSound' /\ \A p \in Paths : View(p)' = View(p)
    <2> DEFINE x == evac[e].link
    <2>1. /\ evac[e].pc = "promote" /\ x \in Names /\ PromoteCopy(x) /\ UNCHANGED cold
          /\ evac'[e].pc = "links" /\ evac'[e].drive = evac[e].drive
          /\ evac'[e].blobs = evac[e].blobs
          /\ \A k \in Evacs \ {e} : evac'[k] = evac[k]
      BY <1>4 DEF EvacPromote, TypeOK
    <2>2. x \in Paths \/ (IsLink(x) =>
            \E k \in Evacs : evac'[k].pc = "links"
                             /\ (main[x][1] = evac'[k].drive \/ main[x][2] \in Tmp))
      BY <2>1 DEF EvacSound, Names, IsLink
    <2>3. /\ NamesSound' /\ TurnHeld' /\ \A p \in Paths : View(p)' = View(p)
          /\ turn' # IdleTurn => turn'.tmp \in Tmp /\ main[turn'.tmp] = None
          /\ \A t \in Names : main[t] # None => main'[t] = main[t]
      BY <1>1, <2>1, <2>2, PromoteCopySound
    <2>4. EvacSound'
      <3>1. \A k \in Evacs \ {e} : evac[k].pc = "promote" /\ evac[k].link \in Tmp =>
                /\ main[evac[k].link] # None
                /\ main'[evac[k].link] = main[evac[k].link]
                /\ turn' # IdleTurn => turn'.tmp # evac[k].link
        BY <2>3 DEF EvacSound, Names
      <3> QED BY <2>1, <3>1 DEF EvacSound
    <2> QED BY <2>3, <2>4
  <1>5. ASSUME NEW e \in Evacs, EvacScan(e) PROVE UNCHANGED <<main, cold, turn>> /\ EvacSound'
    <2>1. /\ UNCHANGED <<main, cold, turn>>
          /\ evac'[e].pc = "blobs" /\ evac'[e].drive = evac[e].drive
          /\ \A b \in evac'[e].blobs : b[1] = evac[e].drive
          /\ \A k \in Evacs \ {e} : evac'[k] = evac[k]
      BY <1>5 DEF EvacScan, TypeOK
    <2> QED BY <2>1 DEF EvacSound
  <1>6. ASSUME NEW e \in Evacs, NEW b \in Blobs, EvacRemove(e, b)
        PROVE  NamesSound' /\ TurnHeld' /\ EvacSound' /\ \A p \in Paths : View(p)' # View(p) => AtStake(p)
    <2>1. /\ UNCHANGED <<main, turn>>
          /\ evac'[e].pc = "blobs" /\ evac'[e].drive = evac[e].drive
          /\ evac'[e].blobs \subseteq evac[e].blobs
          /\ \A k \in Evacs \ {e} : evac'[k] = evac[k]
      BY <1>6 DEF EvacRemove, TypeOK
    <2>2. EvacSound'
      BY <2>1 DEF EvacSound
    <2> QED BY <1>1, <1>6, <2>1, <2>2, EvacRemoveSound, IdleTurnSound
  <1>7. ASSUME NEW e \in Evacs, EvacEnd(e) PROVE UNCHANGED <<main, cold, turn>> /\ EvacSound'
    <2>1. /\ UNCHANGED <<main, cold, turn>>
          /\ evac'[e].pc = "idle" /\ evac'[e].blobs = {}
          /\ \A k \in Evacs \ {e} : evac'[k] = evac[k]
      BY <1>7 DEF EvacEnd, TypeOK, IdleEvac
    <2> QED BY <2>1 DEF EvacSound
  <1>8. ASSUME UNCHANGED <<main, cold, turn>>, EvacSound'
        PROVE  IInv' /\ \A p \in Paths : View(p)' # View(p) => AtStake(p)
    BY <1>0, <1>1, <1>8, FilesFrame, IdleTurnSound
  <1> QED BY <1>0, <1>1, <1>2, <1>3, <1>4, <1>5, <1>6, <1>7, <1>8 DEF Evacuating, EvacProgress

(* A step of a sweep, a promotion, an evacuation or a crash keeps the      *)
(* invariant, and a name reads differently after it only if its bytes were *)
(* on the drive being emptied.                                             *)
LEMMA BackgroundStep ==
  ASSUME Gentle, IInv, Background
  PROVE  IInv' /\ \A p \in Paths : View(p)' # View(p) => AtStake(p)
  <1> USE DEF IInv
  <1>0. TypeOK'
    BY TypeStep DEF Background, Next
  <1>1. CASE Evacuating
    BY <1>1, EvacStep
  <1>2. ASSUME NEW s \in Sweeps, SweepStart(s) \/ SweepPick(s) \/ SweepEnd(s)
        PROVE  IInv' /\ \A p \in Paths : View(p)' = View(p)
    <2>1. UNCHANGED <<main, cold, turn, task, evac>> /\ turn = IdleTurn
      BY <1>2 DEF SweepStart, SweepPick, SweepEnd, EventLoop
    <2>2. EvacSound'
      BY <2>1, EvacFrame
    <2> QED BY <1>0, <2>1, <2>2, FilesFrame, TasksFrame, IdleTurnSound
  <1>3. ASSUME NEW s \in Sweeps, NEW b \in Blobs, SweepFile(s, b)
        PROVE  IInv' /\ \A p \in Paths : View(p)' = View(p)
    <2>1. UNCHANGED task
      BY <1>3 DEF SweepFile
    <2> QED BY <1>0, <1>3, <2>1, SweepFileSound, TasksFrame
  <1>4. ASSUME NEW t \in Tasks, PromoteOnAccess(t)
        PROVE  IInv' /\ \A p \in Paths : View(p)' = View(p)
    <2>1. TasksSound' /\ UNCHANGED <<cold, evac>> /\ turn = IdleTurn
      BY <1>4 DEF PromoteOnAccess, EventLoop, TasksSound, TypeOK, IdleTask
    <2>2. task[t].name \in Paths /\ task[t].name \in Names
      BY <1>4 DEF PromoteOnAccess, TasksSound, UserNames, Gentle, Names
    <2>3. PromoteCopy(task[t].name)
      BY <1>4 DEF PromoteOnAccess, PromoteCopy
    <2>4. /\ NamesSound' /\ TurnHeld'
          /\ turn' # IdleTurn => turn'.tmp \in Tmp /\ main[turn'.tmp] = None
          /\ \A p \in Paths : View(p)' = View(p)
          /\ \A x \in Names : main[x] # None => main'[x] = main[x]
      BY <2>1, <2>2, <2>3, PromoteCopySound
    <2>5. EvacSound'
      BY <2>1, <2>4, EvacFrame, LeftoverKept DEF Names
    <2> QED BY <1>0, <2>1, <2>4, <2>5
  <1>5. ASSUME NEW t \in Tasks, PromoteFinally(t)
        PROVE  IInv' /\ \A p \in Paths : View(p)' = View(p)
    <2>1. TasksSound' /\ UNCHANGED <<main, cold, turn, evac>> /\ turn = IdleTurn
      BY <1>5 DEF PromoteFinally, TasksSound, TypeOK, IdleTask, EventLoop
    <2>2. EvacSound'
      BY <2>1, EvacFrame
    <2> QED BY <1>0, <2>1, <2>2, FilesFrame, IdleTurnSound
  <1>6. ASSUME SystemCalls
        PROVE  IInv' /\ \A p \in Paths : View(p)' # View(p) => AtStake(p)
    <2>1. UNCHANGED task
      BY <1>6 DEF SystemCalls, PromoteSwap, PromoteDrop, DemoteLink, DemoteSwap, jobs
    <2> QED BY <1>0, <1>6, <2>1, TasksFrame,
               PromoteSwapSound, PromoteDropSound, DemoteLinkSound, DemoteSwapSound
            DEF SystemCalls
  <1>7. ASSUME Crashing
        PROVE  IInv' /\ \A p \in Paths : View(p)' = View(p)
    BY <1>0, <1>7, CrashSound
  <1> QED BY <1>1, <1>2, <1>3, <1>4, <1>5, <1>6, <1>7
          DEF Background, Sweeping, SweepProgress, Promoting

(* A step of a user: no evacuation and no other handler is in between. *)
LEMMA UserEvac ==
  ASSUME TypeOK, EvacSound, UNCHANGED <<turn, evac>>, turn = IdleTurn,
         \A t \in Tmp : main'[t] = main[t]
  PROVE  EvacSound'
  BY EvacFrame

LEMMA InvStep == Gentle /\ IInv /\ [Next]_vars => IInv'
  <1> SUFFICES ASSUME Gentle, IInv, [Next]_vars PROVE IInv'
    OBVIOUS
  <1> USE DEF IInv
  <1>0. TypeOK'
    BY TypeStep
  <1>1. UserNames = Paths
    BY DEF UserNames, Gentle
  <1>2. CASE Background
    BY <1>2, BackgroundStep
  <1>3. ASSUME NEW n \in Paths, Read(n) PROVE IInv'
    <2>1. UNCHANGED <<main, cold, turn, evac>> /\ OnAccess(n, main[n]) /\ turn = IdleTurn
      BY <1>3 DEF Read, EventLoop
    <2>2. EvacSound'
      BY <2>1, UserEvac
    <2> QED BY <1>0, <1>1, <2>1, <2>2, FilesFrame, OnAccessSound, IdleTurnSound
  <1>4. ASSUME NEW n \in Paths, NEW v \in Data, Write(n, v) PROVE IInv'
    <2>1. UNCHANGED <<turn, evac>> /\ OnAccess(n, main[n]) /\ turn = IdleTurn
      BY <1>4 DEF Write, EventLoop
    <2>2. \A t \in Tmp : main'[t] = main[t]
      BY <1>4, NamesAssumption DEF Write, TypeOK, Names
    <2>3. EvacSound'
      BY <2>1, <2>2, UserEvac
    <2> QED BY <1>0, <1>1, <1>4, <2>1, <2>3, WriteSound, OnAccessSound DEF NamesSound
  <1>5. ASSUME NEW n \in Paths, Delete(n) PROVE IInv'
    <2>1. UNCHANGED <<main, turn, task, evac>> /\ turn = IdleTurn
      BY <1>5 DEF Delete, EventLoop
    <2>2. EvacSound'
      BY <2>1, UserEvac
    <2> QED BY <1>0, <1>5, <2>1, <2>2, DeleteSound, TasksFrame DEF NamesSound
  <1>6. ASSUME NEW n \in Paths, DeleteUnlink(n) PROVE IInv'
    <2>1. UNCHANGED <<turn, task, evac>> /\ turn = IdleTurn
      BY <1>6 DEF DeleteUnlink, EventLoop
    <2>2. \A t \in Tmp : main'[t] = main[t]
      BY <1>6, NamesAssumption DEF DeleteUnlink, TypeOK, Names
    <2>3. EvacSound'
      BY <2>1, <2>2, UserEvac
    <2> QED BY <1>0, <1>6, <2>1, <2>3, DeleteUnlinkSound, TasksFrame DEF NamesSound
  <1>7. ASSUME NEW p \in Paths, NEW q \in Paths, Rename(p, q) PROVE IInv'
    <2>1. UNCHANGED <<turn, task, evac>> /\ turn = IdleTurn
      BY <1>7 DEF Rename, jobs, EventLoop
    <2>2. \A t \in Tmp : main'[t] = main[t]
      BY <1>7, NamesAssumption DEF Rename, TypeOK, Names
    <2>3. EvacSound'
      BY <2>1, <2>2, UserEvac
    <2> QED BY <1>0, <1>7, <2>1, <2>3, RenameSound, TasksFrame DEF NamesSound
  <1>8. CASE UNCHANGED vars
    <2>1. UNCHANGED <<main, cold, turn, task, evac>>
      BY <1>8 DEF vars
    <2>2. TurnHeld' /\ EvacSound'
      BY <2>1 DEF TurnHeld, Emptying, EvacSound, IsReal
    <2> QED BY <1>0, <2>1, <2>2, FilesFrame, TasksFrame
  <1> QED BY <1>1, <1>2, <1>3, <1>4, <1>5, <1>6, <1>7, <1>8
          DEF Next, Background, Users, Unlinking

(* However drives are evacuated: no two names share a blob, a mirror path  *)
(* that serves a renamed file is never up for demotion, and no name leads  *)
(* to a torn copy; an evacuation can take a file's bytes, never mix or cut *)
(* them.                                                                   *)
THEOREM NamesStaySound == ASSUME Gentle PROVE Spec => []NamesSound
  <1>1. IInv /\ [Next]_vars => IInv'
    BY InvStep
  <1>2. IInv => NamesSound
    BY DEF IInv
  <1> QED BY InvInit, <1>1, <1>2, PTL DEF Spec

(* However many drives, sweeps and names there are: the only background    *)
(* activity that changes what a name reads as is an evacuation, and only   *)
(* of a name whose bytes are on the drive being emptied.                   *)
THEOREM OnlyEvacuationCosts == ASSUME Gentle PROVE Spec => EvacLossConfined
  <1>1. IInv /\ [Next]_vars => IInv'
    BY InvStep
  <1>2. IInv /\ [Next]_vars =>
          [\A p \in Paths : View(p)' # View(p) /\ Background
                => IsLink(p) /\ \E e \in Evacs : main[p][1] = evac[e].drive]_vars
    BY BackgroundStep DEF AtStake
  <1> QED BY InvInit, <1>1, <1>2, PTL DEF Spec, EvacLossConfined

-----------------------------------------------------------------------------
(* Without evacuations.                                                    *)

CInv == IInv /\ NoEvac

LEMMA CarefulStep == Careful /\ CInv /\ [Next]_vars => CInv'
  <1> SUFFICES ASSUME Careful, CInv, [Next]_vars PROVE CInv'
    OBVIOUS
  <1>1. IInv'
    BY InvStep DEF Careful, Gentle, CInv
  <1>2. ~Evacuating
    BY DEF CInv, NoEvac, Evacuating, EvacProgress, EvacReadlink, EvacPromote, EvacScan, EvacRemove, EvacEnd, Careful
  <1>3. CASE Crashing
    BY <1>1, <1>3, CrashSound DEF CInv, IInv
  <1>4. CASE Sweeping \/ Promoting
    BY <1>1, <1>4 DEF CInv, NoEvac, Sweeping, SweepStart, SweepProgress, SweepPick, SweepFile, SweepEnd,
                      Promoting, PromoteOnAccess, PromoteFinally
  <1>5. CASE SystemCalls \/ Users \/ Unlinking
    BY <1>1, <1>5 DEF CInv, NoEvac, SystemCalls, PromoteSwap, PromoteDrop, DemoteLink, DemoteSwap, jobs,
                      Users, Read, Delete, Write, Rename, Unlinking, DeleteUnlink
  <1>6. CASE UNCHANGED vars
    BY <1>1, <1>6 DEF CInv, NoEvac, vars
  <1> QED BY <1>2, <1>3, <1>4, <1>5, <1>6 DEF Next

LEMMA CarefulBackground ==
  ASSUME Careful, CInv, Background
  PROVE  \A p \in Paths : View(p)' = View(p)
  BY BackgroundStep DEF Careful, Gentle, CInv, NoEvac, AtStake

LEMMA CarefulInit == Init => CInv
  BY InvInit DEF CInv

(* Under Careful, no two names share a blob, a mirror path that serves a   *)
(* renamed file is never up for demotion, no name leads to a torn copy,    *)
(* and every system call of demote() and promote() finds what the calls    *)
(* before it left, with any number of overlapping sweeps and promotions    *)
(* and a crash at any point.                                               *)
THEOREM Safety == ASSUME Careful PROVE Spec => []Inv
  <1>1. CInv /\ [Next]_vars => CInv'
    BY CarefulStep
  <1>2. CInv => Inv
    <2> SUFFICES ASSUME CInv PROVE TurnSound
      BY DEF CInv, IInv, Inv, NamesSound
    <2>1. TurnHeld /\ \A b : ~Emptying(b)
      BY DEF CInv, NoEvac, IInv, Emptying
    <2> QED BY <2>1 DEF TurnHeld, TurnSound
  <1> QED BY CarefulInit, <1>1, <1>2, PTL DEF Spec

(* Tiering is transparent under Careful: no step of a sweep or of a        *)
(* promotion, and no crash between two of their calls, changes what a name *)
(* reads as.                                                               *)
THEOREM Transparency == ASSUME Careful PROVE Spec => Transparent
  <1>1. CInv /\ [Next]_vars => CInv'
    BY CarefulStep
  <1>2. CInv /\ [Next]_vars => [(\E p \in Paths : View(p)' # View(p)) => ~Background]_vars
    BY CarefulBackground
  <1> QED BY CarefulInit, <1>1, <1>2, PTL DEF Spec, Transparent

(* The file map that users see through View. *)
Files == [p \in Paths |-> View(p)]

(* One step of the tiered storage is one step of the drive, or none. *)
LEMMA DriveStep == ASSUME Careful, CInv, [Next]_vars PROVE [Drive!Next]_Files
  <1> USE DEF CInv, IInv
  <1>0. Gentle
    BY DEF Careful, Gentle
  <1>1. UserNames = Paths
    BY DEF UserNames, Careful
  <1>2. CASE Background
    BY <1>2, CarefulBackground DEF Files
  <1>3. ASSUME NEW n \in Paths, Read(n) PROVE UNCHANGED Files
    BY <1>3 DEF Read, Files, View, IsLink
  <1>4. ASSUME NEW n \in Paths, NEW v \in Data, Write(n, v) PROVE Drive!Next
    <2>1. Files' = [Files EXCEPT ![n] = v]
      BY <1>0, <1>4, WriteSound DEF Files
    <2> QED BY <2>1 DEF Drive!Next, Drive!Write, Files
  <1>5. ASSUME NEW n \in Paths, Delete(n) PROVE [Drive!Next]_Files
    <2>1. CASE View(n)' = View(n)
      <3>1. Files' = Files
        BY <1>5, <2>1, DeleteSound DEF Files
      <3> QED BY <3>1
    <2>2. CASE View(n)' = None
      <3>1. Files' = [Files EXCEPT ![n] = None]
        BY <1>5, <2>2, DeleteSound DEF Files
      <3> QED BY <3>1 DEF Drive!Next, Drive!Delete, Files
    <2> QED BY <1>5, <2>1, <2>2, DeleteSound
  <1>6. ASSUME NEW n \in Paths, DeleteUnlink(n) PROVE Drive!Next
    <2>1. Files' = [Files EXCEPT ![n] = None]
      BY <1>6, DeleteUnlinkSound DEF Files
    <2> QED BY <2>1 DEF Drive!Next, Drive!Delete, Files
  <1>7. ASSUME NEW p \in Paths, NEW q \in Paths, Rename(p, q) PROVE [Drive!Next]_Files
    <2>1. p # q
      BY <1>7 DEF Rename
    <2>2. CASE View(p) # None
      <3>1. Files' = [Files EXCEPT ![p] = None, ![q] = Files[p]]
        BY <1>7, <1>0, <2>1, RenameSound DEF Files
      <3> QED BY <2>1, <2>2, <3>1 DEF Drive!Next, Drive!Rename, Files
    <2>3. CASE View(p) = None
      <3>1. Files' = [Files EXCEPT ![q] = None]
        BY <1>7, <1>0, <2>1, <2>3, RenameSound DEF Files
      <3> QED BY <3>1 DEF Drive!Next, Drive!Delete, Files
    <2> QED BY <2>2, <2>3
  <1>8. CASE UNCHANGED vars
    BY <1>8 DEF vars, Files, View, IsLink
  <1> QED BY <1>1, <1>2, <1>3, <1>4, <1>5, <1>6, <1>7, <1>8
          DEF Next, Background, Users, Unlinking

(* Under Careful the tiered storage implements the plain file map of       *)
(* CloudDrive.                                                             *)
THEOREM Refinement == ASSUME Careful PROVE Spec => ImplementsDrive
  <1>1. Init => Drive!Init
    <2>1. ASSUME Init PROVE \A p \in Paths : View(p) = None
      BY <2>1, DataAssumption DEF Init, View, IsLink, Names
    <2> QED BY <2>1 DEF Drive!Init
  <1>2. CInv /\ [Next]_vars => CInv'
    BY CarefulStep
  <1>3. CInv /\ [Next]_vars => [Drive!Next]_Files
    BY DriveStep
  <1> QED BY CarefulInit, <1>1, <1>2, <1>3, PTL DEF Spec, ImplementsDrive, Drive!Spec, Files
=============================================================================
