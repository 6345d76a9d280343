----------------------------- MODULE Lifecycle ------------------------------
(***************************************************************************)
(* The life of the process: Run and Stop of internal/engine/engine.go, the    *)
(* signal goroutine and the end of main in cmd/server/main.go, and the state  *)
(* file of internal/persist/persist.go.                                     *)
(*                                                                         *)
(* Four goroutines: main (in Run), the signal goroutine (which calls Stop),   *)
(* go-nfqueue's receive loop (which records blocks) and the maintenance       *)
(* goroutine (which saves the block counters).  The process may crash at any  *)
(* point and start again; only the state file survives.                     *)
(***************************************************************************)
EXTENDS BlockLog

CONSTANTS
    Reasons,      \* reasons for a block
    NoFile,       \* stands for a file that does not exist
    Torn,         \* stands for a file whose encoding is incomplete
    MaxBlocks,    \* bound: blocks recorded
    MaxBoots      \* bound: starts of the process

(* Block counters, as memory and the state file hold them.                   *)
Stats == UNION {[S -> 0..MaxBlocks] : S \in SUBSET Reasons}

ASSUME LifecycleAssumption ==
    /\ MaxBlocks \in Nat /\ MaxBoots \in Nat
    /\ NoFile # Torn /\ NoFile \notin Stats /\ Torn \notin Stats

VARIABLES
    main,         \* where main is, "down" when there is no process
    sig,          \* where the signal goroutine is
    armed,        \* Run has stored e.cancel
    done,         \* Run's context is cancelled
    appDone,      \* main's context is cancelled
    nf,           \* the NFQUEUE socket is open
    running,      \* e.running
    loop,         \* the receive loop is alive
    maint,        \* where the maintenance goroutine is
    last,         \* the save in progress is its last one
    blockStats,   \* e.blockStats
    snap,         \* the copy that saveState took
    tmp,          \* the file <state>.tmp
    disk,         \* the state file
    atStop,       \* history: the counters when Stop was called
    blocks,       \* history: blocks recorded
    boots,        \* history: starts of the process
    forgot        \* history: some start could not read the state file

runVars == <<main, sig, armed, done, appDone, nf, running, loop>>
saveVars == <<maint, last, snap, tmp, disk>>
history == <<atStop, blocks, boots, forgot>>
vars == <<runVars, saveVars, blockStats, history>>

(* main before it has called Run, with nothing running beside it.            *)
Fresh(b) ==
    /\ main' = "boot" /\ sig' = "waiting"
    /\ armed' = FALSE /\ done' = FALSE /\ appDone' = FALSE
    /\ nf' = FALSE /\ running' = FALSE /\ loop' = FALSE
    /\ maint' = "off" /\ last' = FALSE
    /\ blockStats' = NoStats /\ snap' = NoStats /\ atStop' = NoStats
    /\ boots' = b

Init ==
    /\ main = "down" /\ sig = "waiting"
    /\ armed = FALSE /\ done = FALSE /\ appDone = FALSE
    /\ nf = FALSE /\ running = FALSE /\ loop = FALSE
    /\ maint = "off" /\ last = FALSE
    /\ blockStats = NoStats /\ snap = NoStats /\ atStop = NoStats
    /\ tmp = NoFile /\ disk = NoFile
    /\ blocks = 0 /\ boots = 0 /\ forgot = FALSE

Up == main # "down"

-----------------------------------------------------------------------------
(* main: eng.Run.                                                          *)

(* The process starts and reaches eng.Run, its signal handler installed.     *)
Boot ==
    /\ ~Up
    /\ boots < MaxBoots
    /\ Fresh(boots + 1)
    /\ UNCHANGED <<tmp, disk, blocks, forgot>>

(* Mutant: the loaded counters are not copied.                               *)
restoreNothing ==
    /\ main = "boot"
    /\ main' = "restored"
    /\ UNCHANGED <<sig, armed, done, appDone, nf, running, loop, saveVars,
                   blockStats, history>>

(* LoadState answers with the file's counters, with nothing if there is no     *)
(* file, or with an error, which Torn stands for.                            *)
LoadState ==
    IF disk = NoFile THEN {NoFile} ELSE {disk, Torn}

(* restoreState: an error is reported and the counters start from nothing.    *)
restoreState ==
    /\ main = "boot"
    /\ main' = "restored"
    /\ \E state \in LoadState :
         /\ IF state \in {NoFile, Torn} THEN UNCHANGED blockStats
                                      ELSE blockStats' \in Restored(state)
         /\ forgot' = (forgot \/ state = Torn)
    /\ UNCHANGED <<sig, armed, done, appDone, nf, running, loop, saveVars, atStop,
                   blocks, boots>>

setLifecycle ==
    /\ main = "restored"
    /\ main' = "armed"
    /\ armed' = TRUE
    /\ UNCHANGED <<sig, done, appDone, nf, running, loop, saveVars, blockStats,
                   history>>

(* nfqueue.Open succeeds, or Run cancels and returns its error.              *)
Open ==
    /\ main = "armed"
    /\ \/ /\ main' = "opened" /\ nf' = TRUE /\ running' = TRUE
          /\ UNCHANGED done
       \/ /\ main' = "failed" /\ done' = TRUE
          /\ UNCHANGED <<nf, running>>
    /\ UNCHANGED <<sig, armed, appDone, loop, saveVars, blockStats, history>>

(* Mutant: the error path leaves running set.                                *)
RegisterStaysRunning ==
    /\ main = "opened"
    /\ \/ /\ main' = "serving" /\ loop' = TRUE /\ maint' = "select"
          /\ UNCHANGED <<nf, done>>
       \/ /\ main' = "failed"
          /\ nf' = FALSE /\ done' = TRUE
          /\ UNCHANGED <<loop, maint>>
    /\ UNCHANGED <<sig, armed, appDone, running, last, snap, tmp, disk, blockStats,
                   history>>

(* The hook is registered and the maintenance goroutine started, or Run       *)
(* undoes what it did and returns the error.                                *)
Register ==
    /\ main = "opened"
    /\ \/ /\ main' = "serving" /\ loop' = TRUE /\ maint' = "select"
          /\ UNCHANGED <<nf, running, done>>
       \/ /\ main' = "failed"
          /\ nf' = FALSE /\ running' = FALSE /\ done' = TRUE
          /\ UNCHANGED <<loop, maint>>
    /\ UNCHANGED <<sig, armed, appDone, last, snap, tmp, disk, blockStats, history>>

(* Run sees its context cancelled: the socket is closed, then running is      *)
(* cleared, and Run returns nil.                                            *)
CloseQueue ==
    /\ main = "serving" /\ done
    /\ main' = "closed"
    /\ nf' = FALSE
    /\ UNCHANGED <<sig, armed, done, appDone, running, loop, saveVars, blockStats,
                   history>>

ReturnNil ==
    /\ main = "closed"
    /\ main' = "returned"
    /\ running' = FALSE
    /\ UNCHANGED <<sig, armed, done, appDone, nf, loop, saveVars, blockStats,
                   history>>

(* main ends, and with it every goroutine: at once when Run returned nil,      *)
(* and when it returned an error only once main's own context is cancelled,    *)
(* to keep the admin API up.                                                *)
Exit ==
    /\ \/ main = "returned"
       \/ main = "failed" /\ appDone
    /\ main' = "down"
    /\ loop' = FALSE /\ nf' = FALSE
    /\ UNCHANGED <<sig, armed, done, appDone, running, saveVars, blockStats,
                   history>>

(* The process is killed.                                                  *)
Crash ==
    /\ Up
    /\ main' = "down"
    /\ loop' = FALSE /\ nf' = FALSE /\ running' = FALSE
    /\ UNCHANGED <<sig, armed, done, appDone, saveVars, blockStats, history>>

-----------------------------------------------------------------------------
(* The signal goroutine: SIGINT or SIGTERM arrives, the admin server is shut   *)
(* down, then eng.Stop and cancel.                                          *)
SignalArrives ==
    /\ Up /\ sig = "waiting"
    /\ sig' = "raised"
    /\ UNCHANGED <<main, armed, done, appDone, nf, running, loop, saveVars,
                   blockStats, history>>

(* Mutant: only a running engine is stopped.                                 *)
StopRunning ==
    /\ Up /\ sig = "raised"
    /\ sig' = "stopped"
    /\ done' = (done \/ running)
    /\ atStop' = blockStats
    /\ UNCHANGED <<main, armed, appDone, nf, running, loop, saveVars, blockStats,
                   blocks, boots, forgot>>

(* Stop cancels Run's context if Run has stored its cancel function.         *)
Stop ==
    /\ Up /\ sig = "raised"
    /\ sig' = "stopped"
    /\ done' = (done \/ armed)
    /\ atStop' = blockStats
    /\ UNCHANGED <<main, armed, appDone, nf, running, loop, saveVars, blockStats,
                   blocks, boots, forgot>>

CancelApp ==
    /\ Up /\ sig = "stopped"
    /\ sig' = "finished"
    /\ appDone' = TRUE
    /\ UNCHANGED <<main, armed, done, nf, running, loop, saveVars, blockStats,
                   history>>

-----------------------------------------------------------------------------
(* The receive loop: a packet is blocked and recorded; or the loop ends, for   *)
(* an undeliverable verdict, a receive error or the cancelled context.        *)
RecordBlock(r) ==
    /\ loop
    /\ blocks < MaxBlocks
    /\ blockStats' = Counted(blockStats, r)
    /\ blocks' = blocks + 1
    /\ UNCHANGED <<runVars, saveVars, atStop, boots, forgot>>

LoopEnds ==
    /\ loop
    /\ loop' = FALSE
    /\ UNCHANGED <<main, sig, armed, done, appDone, nf, running, saveVars,
                   blockStats, history>>

-----------------------------------------------------------------------------
(* The maintenance goroutine.                                              *)

(* It wakes for the cancelled context, and then saves for the last time, or    *)
(* for a tick, and then expires flows and rate buckets (modules Conntrack and  *)
(* the limiter's) before it saves.  When both are ready select takes either.  *)
Wake ==
    /\ Up /\ maint = "select"
    /\ last' \in {TRUE, FALSE}
    /\ last' => done
    /\ maint' = "save"
    /\ UNCHANGED <<runVars, snap, tmp, disk, blockStats, history>>

(* Mutant: the counters start again after each save.                         *)
saveStateResets ==
    /\ Up /\ maint = "save"
    /\ snap' = blockStats
    /\ blockStats' = NoStats
    /\ maint' = "create"
    /\ UNCHANGED <<runVars, last, tmp, disk, history>>

(* saveState copies the counters under their lock.                          *)
saveState ==
    /\ Up /\ maint = "save"
    /\ snap' = blockStats
    /\ maint' = "create"
    /\ UNCHANGED <<runVars, last, tmp, disk, blockStats, history>>

AfterSave == IF last THEN "off" ELSE "select"

(* SaveState opens <state>.tmp truncated, or fails: the error is only logged.  *)
CreateTmp ==
    /\ Up /\ maint = "create"
    /\ \/ tmp' = Torn /\ maint' = "encode"
       \/ UNCHANGED tmp /\ maint' = AfterSave
    /\ UNCHANGED <<runVars, last, snap, disk, blockStats, history>>

(* The encoding is complete, or fails and the file is removed.              *)
EncodeTmp ==
    /\ Up /\ maint = "encode"
    /\ \/ tmp' = snap /\ maint' = "rename"
       \/ tmp' = NoFile /\ maint' = AfterSave
    /\ UNCHANGED <<runVars, last, snap, disk, blockStats, history>>

(* The temporary file replaces the state file, or the rename fails and it is   *)
(* removed.                                                                *)
RenameTmp ==
    /\ Up /\ maint = "rename"
    /\ \/ disk' = tmp
       \/ UNCHANGED disk
    /\ tmp' = NoFile
    /\ maint' = AfterSave
    /\ UNCHANGED <<runVars, last, snap, blockStats, history>>

-----------------------------------------------------------------------------
MainStep ==
    \/ restoreState \/ setLifecycle \/ Open \/ Register
    \/ CloseQueue \/ ReturnNil \/ Exit

SignalStep == Stop \/ CancelApp

MaintStep == saveState \/ CreateTmp \/ EncodeTmp \/ RenameTmp

Next ==
    \/ Boot \/ MainStep \/ Crash
    \/ SignalArrives \/ SignalStep
    \/ (\E r \in Reasons : RecordBlock(r)) \/ LoopEnds
    \/ Wake \/ MaintStep

Spec == Init /\ [][Next]_vars

(* The Go scheduler runs every goroutine that can run, and the ticker ticks.   *)
(* No signal, crash, block or restart need ever happen.                      *)
FairSpec ==
    /\ Spec
    /\ WF_vars(MainStep) /\ WF_vars(SignalStep)
    /\ WF_vars(Wake) /\ WF_vars(MaintStep)

-----------------------------------------------------------------------------
TypeOK ==
    /\ main \in {"down", "boot", "restored", "armed", "opened", "serving",
                 "closed", "returned", "failed"}
    /\ sig \in {"waiting", "raised", "stopped", "finished"}
    /\ armed \in BOOLEAN /\ done \in BOOLEAN /\ appDone \in BOOLEAN
    /\ nf \in BOOLEAN /\ running \in BOOLEAN /\ loop \in BOOLEAN
    /\ last \in BOOLEAN /\ forgot \in BOOLEAN
    /\ maint \in {"off", "select", "save", "create", "encode", "rename"}
    /\ blockStats \in Stats /\ snap \in Stats /\ atStop \in Stats
    /\ tmp \in Stats \cup {NoFile, Torn}
    /\ disk \in Stats \cup {NoFile}
    /\ blocks \in 0..MaxBlocks /\ boots \in 0..MaxBoots

(* However Run returns, the queue is closed and the engine does not claim to   *)
(* be running; and while packets can arrive the queue is open, but for the     *)
(* moment in which Run closes it (Run, Running).                            *)
RunLeavesNothingOpen ==
    /\ main \in {"returned", "failed", "down"} => ~nf /\ ~running
    /\ loop => nf \/ done

(* The file never holds more than memory: once a start has read it, what is     *)
(* on disk, and what is about to be, is behind the counters of the process     *)
(* (restoreState, saveState, SaveState).                                    *)
DiskBehindMemory ==
    Up /\ main # "boot" /\ ~forgot =>
        /\ disk # NoFile => Within(disk, blockStats)
        /\ maint \in {"create", "encode", "rename"} =>
              /\ Within(snap, blockStats)
              /\ disk # NoFile => Within(disk, snap)

(* Whatever crashes, failed writes and restarts happen, no counter in the       *)
(* state file ever falls or disappears, unless some start could not read the   *)
(* file (SaveState replaces it only by a complete copy of later counters).     *)
CountersNeverFall ==
    [][disk' # disk /\ disk # NoFile /\ ~forgot => Within(disk, disk')]_vars

(* A signal that comes once Run has stored its cancel function ends the        *)
(* process, whatever Run is doing (Stop, Run, main).                         *)
ArmedSignalEnds == sig = "raised" /\ armed ~> ~Up

(* "Stop gracefully shuts down the NFQUEUE listener": every signal ends the     *)
(* process.                                                                *)
SignalEnds == sig = "raised" ~> ~Up

(* "Survive restarts without losing counters": a process that ends in an        *)
(* orderly way leaves in the file every block counted before it was stopped   *)
(* (the last saveState of the maintenance goroutine).                        *)
OrderlyExitSaves ==
    [][Exit /\ main = "returned" =>
         Within(atStop, IF disk = NoFile THEN NoStats ELSE disk)]_vars

=============================================================================
