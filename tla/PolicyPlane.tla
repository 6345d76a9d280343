---------------------------- MODULE PolicyPlane -----------------------------
(***************************************************************************)
(* The two policy sources of the deployed binary side by side: the etcd       *)
(* syncer and the poller of the policy file (cmd/server/main.go), both        *)
(* loading into one evaluator.  The file is stat'ed, then read if its         *)
(* modification time is after the recorded one, then loaded; it may be edited *)
(* and etcd policies may be loaded between any two of these steps.            *)
(***************************************************************************)
EXTENDS Syncer

CONSTANTS MaxEdits  \* bound: edits of the policy file

ASSUME PlaneAssumption == MaxEdits \in Nat

VARIABLES
    file,       \* the policy file: content (Deleted = no file) and mtime
    lastMod,    \* watchPolicyFile: lastMod
    fpc,        \* where the poller is
    fread,      \* what readPolicyFile returned: content and mtime
    edits       \* how often the file was edited

fileVars == <<file, lastMod, fpc, fread, edits>>
planeVars == <<vars, fileVars>>

\* Mutant: the poller is not seeded.
PlaneInitUnseeded ==
    /\ Init
    /\ file = [content |-> BootPolicy, mod |-> MaxEdits]
    /\ lastMod = 0
    /\ fpc = "sleep"
    /\ fread = file
    /\ edits = 0

\* main has read the file, built the evaluator from it, and seeds the poller
\* with the mtime of the file it read.
PlaneInit ==
    /\ Init
    /\ file = [content |-> BootPolicy, mod |-> MaxEdits]
    /\ lastMod = file.mod
    /\ fpc = "sleep"
    /\ fread = file
    /\ edits = 0

-----------------------------------------------------------------------------
\* Somebody replaces, edits or removes the file.  Two edits may fall into one
\* tick of the file system's clock, and a file put in its place may be older.
Edit(c, t) ==
    /\ edits < MaxEdits
    /\ edits' = edits + 1
    /\ t \in (file.mod - 1)..(file.mod + 1)
    /\ file' = [content |-> c, mod |-> t]
    /\ UNCHANGED <<vars, lastMod, fpc, fread>>

\* A poll begins, once Start has returned: stat, and compare.
StatFile ==
    /\ fpc = "sleep"
    /\ pc \notin {"start", "startApply"}
    /\ file.content # Deleted
    /\ file.mod > lastMod
    /\ fpc' = "read"
    /\ UNCHANGED <<vars, file, lastMod, fread, edits>>

\* readPolicyFile: the content and the mtime of the file it opened, or an error
\* for a file that is gone or too large.
ReadFile ==
    /\ fpc = "read"
    /\ IF file.content \in {Deleted} \cup Oversized
       THEN fpc' = "sleep" /\ UNCHANGED fread
       ELSE fpc' = "load" /\ fread' = file
    /\ UNCHANGED <<vars, file, lastMod, edits>>

\* Mutant: the record takes the mtime that the file has after the load.
LoadFileStats ==
    /\ fpc = "load"
    /\ fpc' = "sleep"
    /\ IF fread.content \in Loadable
       THEN governing' = fread.content /\ lastMod' = file.mod
       ELSE UNCHANGED <<governing, lastMod>>
    /\ UNCHANGED <<etcdVars, pc, got, batchEnd, lastPolicy, slotVars, hot, closed,
                   appliedRev, seenRev, file, fread, edits>>

\* Load; the record advances only when it succeeds.
LoadFile ==
    /\ fpc = "load"
    /\ fpc' = "sleep"
    /\ IF fread.content \in Loadable
       THEN governing' = fread.content /\ lastMod' = fread.mod
       ELSE UNCHANGED <<governing, lastMod>>
    /\ UNCHANGED <<etcdVars, pc, got, batchEnd, lastPolicy, slotVars, hot, closed,
                   appliedRev, seenRev, file, fread, edits>>

\* main never calls Close.
PlaneNext ==
    \/ /\ \/ \E c \in Contents \cup {Deleted} : Put(c)
          \/ SyncerStep
          \/ StreamEnds
          \/ WindowElapses
       /\ UNCHANGED fileVars
    \/ \E c \in Contents \cup {Deleted}, t \in (file.mod - 1)..(file.mod + 1) : Edit(c, t)
    \/ StatFile
    \/ ReadFile
    \/ LoadFile

PlaneSpec == PlaneInit /\ [][PlaneNext]_planeVars

\* The syncer's fairness, and a poller that keeps polling.
PlaneFairSpec ==
    /\ PlaneSpec
    /\ WF_planeVars(SyncerStep /\ UNCHANGED fileVars)
    /\ WF_planeVars(WindowElapses /\ UNCHANGED fileVars)
    /\ WF_planeVars(StatFile) /\ WF_planeVars(ReadFile) /\ WF_planeVars(LoadFile)

-----------------------------------------------------------------------------
(* Properties.                                                             *)

\* As long as nobody edits the file, the policy recorded from etcd governs.
UntouchedFileYields == edits = 0 => RecordedGoverns

\* The last edit, if its mtime is after the recorded one and it loads at all,
\* is read and loaded, and only then recorded: neither earlier polls that met a
\* broken or missing file nor an edit between the read and the load of a poll
\* (readPolicyFile, Load in pollPolicyFile) make the poller miss it.  A poll
\* that has read an earlier version with the same or a later mtime is left out:
\* by its mtime the last edit is then no news.
FileEditLoads ==
    (/\ edits = MaxEdits /\ file.content \in Loadable /\ file.mod > lastMod
     /\ fpc = "load" /\ fread # file => fread.mod < file.mod)
        ~> (lastMod = file.mod /\ fread = file /\ governing = file.content)

=============================================================================
