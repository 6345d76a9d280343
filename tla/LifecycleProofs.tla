-------------------------- MODULE LifecycleProofs ---------------------------
(***************************************************************************)
(* The life of the process, for any number of blocks, reasons, crashes and     *)
(* restarts: however Run returns nothing is left open, the state file is       *)
(* behind memory, and none of its counters ever falls.                       *)
(***************************************************************************)
EXTENDS Lifecycle, FiniteSetTheorems, TLAPS

-----------------------------------------------------------------------------
(* Nothing is left open.                                                    *)

\* Where main is says what is open: the queue from Open to CloseQueue, the loop
\* only after Register, and the context is cancelled before the queue is closed.
OpenInv ==
    /\ main \in {"down", "boot", "restored", "armed", "opened", "serving",
                 "closed", "returned", "failed"}
    /\ main \in {"down", "boot", "restored", "armed", "returned", "failed"} =>
          ~nf /\ ~running
    /\ main \in {"opened", "serving"} => nf
    /\ main = "closed" => ~nf
    /\ loop => main \in {"serving", "closed", "returned"}
    /\ main \in {"closed", "returned"} => done

LEMMA OpenStarts == Init => OpenInv
  BY DEF Init, OpenInv

LEMMA OpenKeeps == OpenInv /\ [Next]_vars => OpenInv'
<1> SUFFICES ASSUME OpenInv, [Next]_vars PROVE OpenInv'
  OBVIOUS
<1> USE DEF OpenInv
<1>1. CASE Boot
  BY <1>1 DEF Boot, Fresh
<1>2. CASE restoreState
  BY <1>2 DEF restoreState
<1>3. CASE setLifecycle
  BY <1>3 DEF setLifecycle
<1>4. CASE Open
  BY <1>4 DEF Open
<1>5. CASE Register
  <2>1. CASE main' = "serving"
    BY <1>5, <2>1 DEF Register
  <2>2. CASE main' = "failed"
    <3>1. main = "opened" /\ ~nf' /\ ~running' /\ loop' = loop
      BY <1>5, <2>2 DEF Register
    <3> QED BY <2>2, <3>1
  <2> QED BY <1>5, <2>1, <2>2 DEF Register
<1>6. CASE CloseQueue
  BY <1>6 DEF CloseQueue
<1>7. CASE ReturnNil
  BY <1>7 DEF ReturnNil
<1>8. CASE Exit
  BY <1>8 DEF Exit
<1>9. CASE Crash
  BY <1>9 DEF Crash
<1>10. CASE SignalArrives
  BY <1>10 DEF SignalArrives
<1>11. CASE SignalStep
  <2>1. UNCHANGED <<main, nf, running, loop>> /\ (done => done')
    BY <1>11, Zenon DEF SignalStep, Stop, CancelApp
  <2> QED BY <2>1
<1>12. ASSUME NEW r \in Reasons, RecordBlock(r) PROVE OpenInv'
  BY <1>12 DEF RecordBlock, runVars
<1>13. CASE LoopEnds
  BY <1>13 DEF LoopEnds
<1>14. CASE Wake \/ MaintStep
  <2>1. UNCHANGED runVars
    BY <1>14, Zenon DEF Wake, MaintStep, saveState, CreateTmp, EncodeTmp, RenameTmp
  <2> QED BY <2>1 DEF runVars
<1>15. CASE UNCHANGED vars
  BY <1>15 DEF vars, runVars
<1> QED
  BY <1>1, <1>2, <1>3, <1>4, <1>5, <1>6, <1>7, <1>8, <1>9, <1>10, <1>11, <1>12,
     <1>13, <1>14, <1>15 DEF Next, MainStep

\* However Run returns, and at whatever point a signal or a crash comes, the queue
\* is closed and the engine does not claim to run; packets arrive only while the
\* queue is open or about to be closed (Run, Running).
THEOREM LifecycleLeavesNothingOpen == Spec => []RunLeavesNothingOpen
<1>1. OpenInv => RunLeavesNothingOpen
  BY DEF OpenInv, RunLeavesNothingOpen
<1> QED BY <1>1, OpenStarts, OpenKeeps, PTL DEF Spec

-----------------------------------------------------------------------------
(* The counters.                                                           *)

\* A value is a set of counters exactly when it is one bounded number for each of
\* some reasons.
LEMMA StatsAre ==
    /\ \A f \in Stats : DOMAIN f \subseteq Reasons /\ f \in [DOMAIN f -> 0..MaxBlocks]
    /\ \A S \in SUBSET Reasons : \A f \in [S -> 0..MaxBlocks] : f \in Stats
  BY DEF Stats

\* Counters that n blocks can have led to: within the cap on the reasons.
Sane(f, n) ==
    /\ f \in Stats
    /\ IsFiniteSet(DOMAIN f) /\ Cardinality(DOMAIN f) <= maxBlockStatsReasons
    /\ \A r \in DOMAIN f : f[r] <= n

\* Counting nothing is sane.
LEMMA NoStatsSane == \A n \in Nat : Sane(NoStats, n)
<1>1. DOMAIN NoStats = {} /\ NoStats \in [{} -> 0..MaxBlocks]
  BY DEF NoStats
<1>2. NoStats \in Stats
  BY <1>1, StatsAre
<1>3. IsFiniteSet({}) /\ Cardinality({}) = 0
  BY FS_EmptySet
<1> QED BY <1>1, <1>2, <1>3, BlockLogAssumption DEF Sane

\* One more block leaves the counters sane, and no counter falls (recordBlock).
LEMMA CountedKeeps ==
    ASSUME NEW f, NEW n \in Nat, n < MaxBlocks, NEW r \in Reasons, Sane(f, n)
    PROVE  Sane(Counted(f, r), n + 1) /\ Within(f, Counted(f, r))
<1>0. /\ DOMAIN f \subseteq Reasons /\ f \in [DOMAIN f -> 0..MaxBlocks]
      /\ \A x \in DOMAIN f : f[x] \in Nat /\ f[x] <= n
      /\ MaxBlocks \in Nat /\ maxBlockStatsReasons \in Nat
  BY StatsAre, LifecycleAssumption, BlockLogAssumption DEF Sane
<1>1. CASE Cardinality(DOMAIN f) < maxBlockStatsReasons
  <2> DEFINE new == [x \in DOMAIN f \cup {r} |->
                       (IF x \in DOMAIN f THEN f[x] ELSE 0) + (IF x = r THEN 1 ELSE 0)]
  <2>1. Counted(f, r) = new /\ DOMAIN new = DOMAIN f \cup {r}
    BY <1>1 DEF Counted
  <2>2. \A x \in DOMAIN new : new[x] \in 0..MaxBlocks /\ new[x] <= n + 1
    BY <1>0
  <2>3. new \in [DOMAIN f \cup {r} -> 0..MaxBlocks]
    BY <2>2
  <2>4. new \in Stats
    BY <1>0, <2>3, StatsAre
  <2>5. /\ IsFiniteSet(DOMAIN f \cup {r})
        /\ Cardinality(DOMAIN f) \in Nat
        /\ \/ Cardinality(DOMAIN f \cup {r}) = Cardinality(DOMAIN f)
           \/ Cardinality(DOMAIN f \cup {r}) = Cardinality(DOMAIN f) + 1
    BY FS_AddElement, FS_CardinalityType DEF Sane
  <2>6. Cardinality(DOMAIN f \cup {r}) <= maxBlockStatsReasons
    BY <1>0, <1>1, <2>5
  <2>7. Within(f, new)
    BY <1>0 DEF Within
  <2> HIDE DEF new
  <2> QED BY <2>1, <2>2, <2>4, <2>5, <2>6, <2>7 DEF Sane
<1>2. CASE ~(Cardinality(DOMAIN f) < maxBlockStatsReasons)
  <2>1. Counted(f, r) = f
    BY <1>2 DEF Counted
  <2> QED BY <1>0, <2>1 DEF Sane, Within
<1> QED BY <1>1, <1>2

\* What a start reads back of sane counters is all of them (restoreState).
LEMMA RestoredKeeps ==
    ASSUME NEW f, NEW n \in Nat, Sane(f, n), NEW g \in Restored(f)
    PROVE  Sane(g, n) /\ Within(f, g)
<1>0. /\ DOMAIN f \subseteq Reasons /\ f \in [DOMAIN f -> 0..MaxBlocks]
      /\ \A x \in DOMAIN f : f[x] \in Nat
      /\ maxBlockStatsReasons \in Nat /\ Cardinality(DOMAIN f) \in Nat
  BY StatsAre, LifecycleAssumption, BlockLogAssumption, FS_CardinalityType DEF Sane
<1>1. PICK T \in SUBSET DOMAIN f :
        /\ g = [r \in T |-> f[r]]
        /\ Cardinality(T) = IF Cardinality(DOMAIN f) < maxBlockStatsReasons
                              THEN Cardinality(DOMAIN f) ELSE maxBlockStatsReasons
  BY DEF Restored
<1>2. Cardinality(T) = Cardinality(DOMAIN f)
  BY <1>0, <1>1 DEF Sane
<1>3. T = DOMAIN f
  BY <1>0, <1>2, FS_Subset DEF Sane
<1>4. g = f
  BY <1>0, <1>1, <1>3
<1> QED BY <1>0, <1>4 DEF Within

\* Not to have fallen is transitive.
LEMMA WithinTransitive ==
    ASSUME NEW f \in Stats, NEW g \in Stats, NEW h \in Stats,
           Within(f, g), Within(g, h)
    PROVE  Within(f, h)
<1>1. /\ \A r \in DOMAIN f : f[r] \in Nat
      /\ \A r \in DOMAIN g : g[r] \in Nat
      /\ \A r \in DOMAIN h : h[r] \in Nat
  BY StatsAre, LifecycleAssumption
<1> QED BY <1>1 DEF Within

-----------------------------------------------------------------------------
(* The state file.                                                         *)

\* The counters in memory, in the copy being saved and in the file are sane, the
\* complete temporary file is that copy, and nothing is being saved before a
\* start has read the file.
SaneInv ==
    /\ blocks \in 0..MaxBlocks
    /\ Sane(blockStats, blocks) /\ Sane(snap, blocks)
    /\ disk = NoFile \/ Sane(disk, blocks)
    /\ maint = "rename" => tmp = snap
    /\ main = "boot" => maint = "off"

\* The inductive invariant: DiskBehindMemory relates the file to memory only
\* because of what the copy in between holds.
FileInv == SaneInv /\ DiskBehindMemory

LEMMA FileStarts == Init => FileInv
<1> SUFFICES ASSUME Init PROVE FileInv
  OBVIOUS
<1>1. 0 \in 0..MaxBlocks
  BY LifecycleAssumption
<1>2. Sane(NoStats, 0)
  BY NoStatsSane
<1> QED BY <1>1, <1>2 DEF Init, FileInv, SaneInv, DiskBehindMemory, Up

\* More blocks leave sane counters sane.
LEMMA SaneGrows ==
    ASSUME NEW f, NEW n \in Nat, Sane(f, n)
    PROVE  Sane(f, n + 1)
<1>1. \A r \in DOMAIN f : f[r] \in Nat
  BY StatsAre, LifecycleAssumption DEF Sane
<1> QED BY <1>1 DEF Sane

\* Steps that leave the files and the counters alone.
LEMMA FileFrame ==
    ASSUME FileInv, UNCHANGED <<snap, tmp, disk, blockStats, blocks, forgot>>,
           maint' = maint \/ maint' \in {"off", "select", "save"},
           main' = "boot" => main = "boot" /\ maint' = "off",
           Up' /\ main' # "boot" => Up /\ main # "boot"
    PROVE  FileInv'
  BY DEF FileInv, SaneInv, DiskBehindMemory

\* A start reads the file (restoreState).
LEMMA RestoreKeeps == FileInv /\ restoreState => FileInv'
<1> SUFFICES ASSUME FileInv, restoreState PROVE FileInv'
  OBVIOUS
<1>0. /\ main = "boot" /\ main' = "restored" /\ maint = "off"
      /\ UNCHANGED <<maint, snap, tmp, disk, blocks>> /\ blocks \in Nat
  BY LifecycleAssumption DEF FileInv, SaneInv, restoreState, saveVars
<1>1. PICK state \in LoadState :
        /\ IF state \in {NoFile, Torn} THEN UNCHANGED blockStats
                                     ELSE blockStats' \in Restored(state)
        /\ forgot' = (forgot \/ state = Torn)
  BY Zenon DEF restoreState
<1>2. CASE state \in {NoFile, Torn}
  <2>1. SaneInv'
    BY <1>0, <1>1, <1>2 DEF FileInv, SaneInv
  <2>2. disk = NoFile \/ forgot'
    BY <1>1, <1>2, LifecycleAssumption DEF LoadState, FileInv, SaneInv, Sane
  <2> QED BY <1>0, <2>1, <2>2 DEF FileInv, DiskBehindMemory
<1>3. CASE state \notin {NoFile, Torn}
  <2>1. state = disk /\ Sane(disk, blocks) /\ blockStats' \in Restored(disk)
    BY <1>1, <1>3 DEF LoadState, FileInv, SaneInv
  <2>2. Sane(blockStats', blocks) /\ Within(disk, blockStats')
    BY <1>0, <2>1, RestoredKeeps
  <2>3. SaneInv'
    BY <1>0, <2>2 DEF FileInv, SaneInv
  <2> QED BY <1>0, <2>2, <2>3 DEF FileInv, DiskBehindMemory
<1> QED BY <1>2, <1>3

\* A block is counted (recordBlock).
LEMMA BlockKeeps ==
    ASSUME FileInv, NEW r \in Reasons, RecordBlock(r)
    PROVE  FileInv'
<1>0. /\ blocks \in Nat /\ blocks < MaxBlocks /\ blocks' = blocks + 1
      /\ blockStats' = Counted(blockStats, r)
      /\ UNCHANGED <<main, maint, snap, tmp, disk, forgot>>
  BY LifecycleAssumption DEF FileInv, SaneInv, RecordBlock, runVars, saveVars
<1>1. Sane(blockStats', blocks') /\ Within(blockStats, blockStats')
  BY <1>0, CountedKeeps DEF FileInv, SaneInv
<1>2. Sane(snap', blocks') /\ (disk' = NoFile \/ Sane(disk', blocks'))
  BY <1>0, SaneGrows DEF FileInv, SaneInv
<1>3. SaneInv'
  BY <1>0, <1>1, <1>2, LifecycleAssumption DEF FileInv, SaneInv
<1>4. /\ blockStats \in Stats /\ blockStats' \in Stats /\ snap \in Stats
      /\ disk = NoFile \/ disk \in Stats
  BY <1>1 DEF FileInv, SaneInv, Sane
<1>5. /\ disk # NoFile /\ Within(disk, blockStats) => Within(disk, blockStats')
      /\ Within(snap, blockStats) => Within(snap, blockStats')
  BY <1>1, <1>4, WithinTransitive
<1> QED BY <1>0, <1>3, <1>5 DEF FileInv, DiskBehindMemory, Up

\* The counters are copied, and the copy replaces the file (saveState, SaveState).
LEMMA SaveKeeps == FileInv /\ MaintStep => FileInv'
<1> SUFFICES ASSUME FileInv, MaintStep PROVE FileInv'
  OBVIOUS
<1>1. CASE saveState
  <2>1. /\ snap' = blockStats /\ maint = "save" /\ maint' = "create"
        /\ UNCHANGED <<main, blockStats, tmp, disk, blocks, forgot>>
    BY <1>1 DEF saveState, runVars, history
  <2>2. Within(blockStats, blockStats)
    <3>1. \A r \in DOMAIN blockStats : blockStats[r] \in Nat
      BY StatsAre, LifecycleAssumption DEF FileInv, SaneInv, Sane
    <3> QED BY <3>1 DEF Within
  <2> QED BY <2>1, <2>2 DEF FileInv, SaneInv, DiskBehindMemory, Up
<1>2. CASE CreateTmp
  <2>1. /\ maint = "create" /\ maint' \in {"encode", "off", "select"}
        /\ UNCHANGED <<main, snap, disk, blockStats, blocks, forgot>>
    BY <1>2 DEF CreateTmp, AfterSave, runVars, history
  <2> QED BY <2>1 DEF FileInv, SaneInv, DiskBehindMemory, Up
<1>3. CASE EncodeTmp
  <2>1. /\ maint = "encode"
        /\ (maint' = "rename" /\ tmp' = snap) \/ maint' \in {"off", "select"}
        /\ UNCHANGED <<main, snap, disk, blockStats, blocks, forgot>>
    BY <1>3 DEF EncodeTmp, AfterSave, runVars, history
  <2> QED BY <2>1 DEF FileInv, SaneInv, DiskBehindMemory, Up
<1>4. CASE RenameTmp
  <2>1. /\ maint = "rename" /\ maint' \in {"off", "select"}
        /\ disk' = snap \/ disk' = disk
        /\ UNCHANGED <<main, snap, blockStats, blocks, forgot>>
    BY <1>4 DEF RenameTmp, AfterSave, runVars, history, FileInv, SaneInv
  <2> QED BY <2>1 DEF FileInv, SaneInv, DiskBehindMemory, Up
<1> QED BY <1>1, <1>2, <1>3, <1>4 DEF MaintStep

LEMMA FileKeeps == FileInv /\ [Next]_vars => FileInv'
<1> SUFFICES ASSUME FileInv, [Next]_vars PROVE FileInv'
  OBVIOUS
<1>1. CASE Boot
  <2>1. /\ main' = "boot" /\ maint' = "off"
        /\ blockStats' = NoStats /\ snap' = NoStats
        /\ UNCHANGED <<tmp, disk, blocks>> /\ blocks \in Nat
    BY <1>1, LifecycleAssumption DEF Boot, Fresh, FileInv, SaneInv
  <2>2. Sane(NoStats, blocks)
    BY <2>1, NoStatsSane
  <2> QED BY <2>1, <2>2 DEF FileInv, SaneInv, DiskBehindMemory
<1>2. CASE setLifecycle \/ Open \/ Register \/ CloseQueue \/ ReturnNil
  <2>1. /\ main \notin {"boot", "down"} /\ main' # "boot"
        /\ UNCHANGED <<snap, tmp, disk, blockStats, blocks, forgot>>
        /\ maint' = maint \/ maint' = "select"
    BY <1>2, Zenon
       DEF setLifecycle, Open, Register, CloseQueue, ReturnNil, saveVars, history
  <2> QED BY <2>1, FileFrame DEF Up
<1>3. CASE Exit \/ Crash
  <2>1. main' = "down" /\ UNCHANGED <<maint, snap, tmp, disk, blockStats, blocks, forgot>>
    BY <1>3 DEF Exit, Crash, saveVars, history
  <2> QED BY <2>1, FileFrame DEF Up
<1>4. CASE SignalArrives \/ SignalStep \/ LoopEnds
  <2>1. UNCHANGED <<main, maint, snap, tmp, disk, blockStats, blocks, forgot>>
    BY <1>4, Zenon
       DEF SignalArrives, SignalStep, Stop, CancelApp, LoopEnds, saveVars, history
  <2> QED BY <2>1, FileFrame DEF Up, FileInv, SaneInv
<1>5. CASE Wake
  <2>1. /\ maint = "select" /\ maint' = "save"
        /\ UNCHANGED <<main, snap, tmp, disk, blockStats, blocks, forgot>>
    BY <1>5, Zenon DEF Wake, runVars, history
  <2> QED BY <2>1, FileFrame DEF Up, FileInv, SaneInv
<1>6. CASE UNCHANGED vars
  <2>1. UNCHANGED <<main, maint, snap, tmp, disk, blockStats, blocks, forgot>>
    BY <1>6 DEF vars, runVars, saveVars, history
  <2> QED BY <2>1, FileFrame DEF Up, FileInv, SaneInv
<1> QED
  BY <1>1, <1>2, <1>3, <1>4, <1>5, <1>6, RestoreKeeps, BlockKeeps, SaveKeeps
  DEF Next, MainStep

\* The state file never holds more than memory, whatever crashes, failed writes
\* and restarts happen (restoreState, saveState, SaveState).
THEOREM LifecycleDiskBehindMemory == Spec => []DiskBehindMemory
<1>1. FileInv => DiskBehindMemory
  BY DEF FileInv
<1> QED BY <1>1, FileStarts, FileKeeps, PTL DEF Spec

\* The file changes only in the rename of a complete copy of later counters.
LEMMA FileRises ==
    FileInv /\ [Next]_vars =>
        (disk' # disk /\ disk # NoFile /\ ~forgot => Within(disk, disk'))
<1> SUFFICES ASSUME FileInv, [Next]_vars, disk' # disk, disk # NoFile, ~forgot
             PROVE  Within(disk, disk')
  OBVIOUS
<1>1. RenameTmp
  BY Zenon DEF Next, MainStep, SignalStep, MaintStep, Boot, restoreState, setLifecycle,
     Open, Register, CloseQueue, ReturnNil, Exit, Crash, SignalArrives, Stop, CancelApp,
     RecordBlock, LoopEnds, Wake, saveState, CreateTmp, EncodeTmp, vars, saveVars
<1>2. maint = "rename" /\ Up /\ main # "boot" /\ disk' = snap
  BY <1>1 DEF RenameTmp, FileInv, SaneInv
<1> QED BY <1>2 DEF FileInv, DiskBehindMemory

\* No counter in the state file ever falls or disappears, across any number of
\* crashes and restarts, unless a start could not read the file (SaveState).
THEOREM LifecycleCountersNeverFall == Spec => CountersNeverFall
  BY FileStarts, FileKeeps, FileRises, PTL DEF Spec, CountersNeverFall

-----------------------------------------------------------------------------
(* Types.                                                                  *)

\* The flags of the goroutines, and where each goroutine is.
FlagTypes ==
    /\ sig \in {"waiting", "raised", "stopped", "finished"}
    /\ armed \in BOOLEAN /\ done \in BOOLEAN /\ appDone \in BOOLEAN
    /\ nf \in BOOLEAN /\ running \in BOOLEAN /\ loop \in BOOLEAN
    /\ last \in BOOLEAN /\ forgot \in BOOLEAN
    /\ maint \in {"off", "select", "save", "create", "encode", "rename"}
    /\ boots \in 0..MaxBoots

LEMMA FlagTypesKept == FlagTypes /\ [Next]_vars => FlagTypes'
<1> SUFFICES ASSUME FlagTypes, [Next]_vars PROVE FlagTypes'
  OBVIOUS
<1> USE DEF FlagTypes, runVars, saveVars, history
<1>1. CASE Boot
  <2>1. boots' \in 0..MaxBoots
    BY <1>1, LifecycleAssumption DEF Boot, Fresh
  <2> QED BY <1>1, <2>1, ZenonT(60) DEF Boot, Fresh
<1>2. CASE restoreState
  <2>1. forgot' \in BOOLEAN
    BY <1>2, ZenonT(60) DEF restoreState
  <2> QED BY <1>2, <2>1, SMTT(30) DEF restoreState
<1>3. CASE setLifecycle \/ CloseQueue \/ ReturnNil
  <2>1. CASE setLifecycle
    <3>1. UNCHANGED <<sig, done, appDone, nf, running, loop, last, forgot, maint, boots>>
      BY <2>1 DEF setLifecycle
    <3>2. armed' = TRUE
      BY <2>1 DEF setLifecycle
    <3> QED BY <3>1, <3>2, ZenonT(60)
  <2>2. CASE CloseQueue
    <3>1. UNCHANGED <<sig, armed, done, appDone, running, loop, last, forgot, maint, boots>>
      BY <2>2 DEF CloseQueue
    <3>2. nf' = FALSE
      BY <2>2 DEF CloseQueue
    <3> QED BY <3>1, <3>2, ZenonT(60)
  <2>3. CASE ReturnNil
    <3>1. UNCHANGED <<sig, armed, done, appDone, nf, loop, last, forgot, maint, boots>>
      BY <2>3 DEF ReturnNil
    <3>2. running' = FALSE
      BY <2>3 DEF ReturnNil
    <3> QED BY <3>1, <3>2, ZenonT(60)
  <2> QED BY <1>3, <2>1, <2>2, <2>3
<1>4. CASE Open
  <2>1. UNCHANGED <<sig, armed, appDone, loop, last, forgot, maint, boots>>
    BY <1>4 DEF Open
  <2>2. done' \in {done, TRUE} /\ nf' \in {nf, TRUE} /\ running' \in {running, TRUE}
    BY <1>4, ZenonT(60) DEF Open
  <2>3. done' \in BOOLEAN /\ nf' \in BOOLEAN /\ running' \in BOOLEAN
    BY <2>2, ZenonT(60)
  <2> QED BY <2>1, <2>3, SMTT(30)
<1>5. CASE Register
  <2>1. UNCHANGED <<sig, armed, appDone, last, forgot, boots>>
    BY <1>5 DEF Register
  <2>2. maint' \in {maint, "select"} /\ loop' \in {loop, TRUE}
    BY <1>5, ZenonT(60) DEF Register
  <2>3. done' \in {done, TRUE} /\ nf' \in {nf, FALSE} /\ running' \in {running, FALSE}
    BY <1>5, ZenonT(60) DEF Register
  <2>4. /\ done' \in BOOLEAN /\ nf' \in BOOLEAN
        /\ running' \in BOOLEAN /\ loop' \in BOOLEAN
    BY <2>2, <2>3, ZenonT(60)
  <2> QED BY <2>1, <2>2, <2>4, SMTT(30)
<1>6. CASE Exit \/ Crash
  <2>1. CASE Exit
    BY <2>1, ZenonT(60) DEF Exit
  <2>2. CASE Crash
    BY <2>2, ZenonT(60) DEF Crash
  <2> QED BY <1>6, <2>1, <2>2
<1>7. CASE SignalArrives \/ CancelApp
  <2>1. CASE SignalArrives
    BY <2>1, ZenonT(60) DEF SignalArrives
  <2>2. CASE CancelApp
    BY <2>2, ZenonT(60) DEF CancelApp
  <2> QED BY <1>7, <2>1, <2>2
<1>8. CASE Stop
  <2>1. done' \in BOOLEAN
    BY <1>8, ZenonT(60) DEF Stop
  <2> QED BY <1>8, <2>1, SMTT(30) DEF Stop
<1>9. ASSUME NEW r \in Reasons, RecordBlock(r) PROVE FlagTypes'
  BY <1>9, ZenonT(60) DEF RecordBlock
<1>10. CASE LoopEnds
  BY <1>10, ZenonT(60) DEF LoopEnds
<1>11. CASE Wake
  <2>1. last' \in BOOLEAN
    BY <1>11, ZenonT(60) DEF Wake
  <2> QED BY <1>11, <2>1, SMTT(30) DEF Wake
<1>12. CASE saveState \/ CreateTmp \/ EncodeTmp \/ RenameTmp
  BY <1>12, SMTT(30) DEF saveState, CreateTmp, EncodeTmp, RenameTmp, AfterSave
<1>13. CASE UNCHANGED vars
  BY <1>13, ZenonT(60) DEF vars
<1> QED
  BY <1>1, <1>2, <1>3, <1>4, <1>5, <1>6, <1>7, <1>8, <1>9, <1>10, <1>11, <1>12, <1>13
  DEF Next, MainStep, SignalStep, MaintStep

\* What the temporary file and the counters at Stop may hold.
CopyTypes == tmp \in Stats \cup {NoFile, Torn} /\ atStop \in Stats

LEMMA CopyTypesKept == CopyTypes /\ FileInv /\ [Next]_vars => CopyTypes'
<1> SUFFICES ASSUME CopyTypes, FileInv, [Next]_vars PROVE CopyTypes'
  OBVIOUS
<1>1. blockStats \in Stats /\ snap \in Stats /\ NoStats \in Stats
  BY NoStatsSane DEF FileInv, SaneInv, Sane
<1>2. atStop' \in {atStop, blockStats, NoStats}
  BY Zenon DEF Next, MainStep, SignalStep, MaintStep, Boot, Fresh, restoreState,
     setLifecycle, Open, Register, CloseQueue, ReturnNil, Exit, Crash, SignalArrives,
     Stop, CancelApp, RecordBlock, LoopEnds, Wake, saveState, CreateTmp, EncodeTmp,
     RenameTmp, vars, history
<1>3. tmp' \in {tmp, snap, NoFile, Torn}
  BY Zenon DEF Next, MainStep, SignalStep, MaintStep, Boot, Fresh, restoreState,
     setLifecycle, Open, Register, CloseQueue, ReturnNil, Exit, Crash, SignalArrives,
     Stop, CancelApp, RecordBlock, LoopEnds, Wake, saveState, CreateTmp, EncodeTmp,
     RenameTmp, vars, saveVars
<1> QED BY <1>1, <1>2, <1>3 DEF CopyTypes

\* Type correctness of the process and its files.
THEOREM LifecycleTypeOK == Spec => []TypeOK
<1>1. Init => FlagTypes /\ CopyTypes
  <2>1. NoStats \in Stats
    BY NoStatsSane DEF Sane
  <2>2. 0 \in 0..MaxBoots
    BY LifecycleAssumption
  <2> QED BY <2>1, <2>2, Zenon DEF Init, FlagTypes, CopyTypes
<1>2. OpenInv /\ FileInv /\ FlagTypes /\ CopyTypes => TypeOK
  BY DEF OpenInv, FileInv, SaneInv, Sane, FlagTypes, CopyTypes, TypeOK
<1> QED
  BY <1>1, <1>2, OpenStarts, OpenKeeps, FileStarts, FileKeeps, FlagTypesKept,
     CopyTypesKept, PTL DEF Spec

=============================================================================
