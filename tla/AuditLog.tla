------------------------------ MODULE AuditLog -------------------------------
(***************************************************************************)
(* The rotating audit log (src/internal/audit/audit.go).                   *)
(*                                                                         *)
(* Events are numbered in the order Log acknowledges them.  The log file   *)
(* and every backup are the sequences of the events whose lines they hold; *)
(* a backup is named by the second of its rotation, so a second rotation   *)
(* in that second replaces it.  One tick is one second, one event one unit *)
(* of size.                                                                *)
(*                                                                         *)
(* The json.Encoder keeps the first write error and returns it from every  *)
(* later call.  A failed write may leave part of a line; if the next       *)
(* process goes on in that file, its first event is written behind it on   *)
(* the same line, which no reader can parse.                               *)
(*                                                                         *)
(* A call that returns an error and changes nothing is not an action: a    *)
(* closed logger, a symlinked directory, an encoder with an error, and a   *)
(* rotation whose Close finds the file already closed.  Files of others    *)
(* that carry the prefix of the backups are left out.                      *)
(***************************************************************************)
EXTENDS Clock, Sequences, FiniteSets, Functions

CONSTANTS
    MaxSize,          \* Config.MaxSizeMB, in events
    MaxBackups,       \* Config.MaxBackups
    MaxEvents,        \* bound: events acknowledged
    MaxAuditRuns      \* bound: times the process starts

ASSUME AuditConstants ==
    /\ MaxSize \in Nat \ {0} /\ MaxBackups \in Nat \ {0}
    /\ MaxEvents \in Nat /\ MaxAuditRuns \in Nat

VARIABLES
    logFile,          \* what the file at Config.Path holds (<<>> if absent)
    torn,             \* whether that file ends in part of a line
    backups,          \* second of rotation -> what that backup holds
    fdOpen,           \* whether Logger.file is an open descriptor
    encErr,           \* the error the json.Encoder keeps
    logSize,          \* Logger.size
    auditClosed,      \* Logger.closed
    events,           \* history: events acknowledged so far
    garbled,          \* history: events written behind part of a line
    overwritten,      \* history: events of a backup that a rotation in the
                      \* same second replaced
    auditRuns         \* process starts so far

auditVars == <<logFile, torn, backups, fdOpen, encErr, logSize, auditClosed,
               events, garbled, overwritten, auditRuns>>

AuditInit ==
    /\ logFile = <<>> /\ torn = FALSE /\ backups = [s \in {} |-> <<>>]
    /\ fdOpen = TRUE /\ encErr = FALSE /\ logSize = 0 /\ auditClosed = FALSE
    /\ events = 0 /\ garbled = {} /\ overwritten = {} /\ auditRuns = 1

MustRotateLog == logSize >= MaxSize

\* Encode(e) with an encoder over a file that holds `kept`, and part of a line
\* if `cut`: the event is on disk and acknowledged, or the write fails, with or
\* without a part of the line written, and the encoder keeps the error.
Encode(kept, cut, size) ==
    \/ /\ events < MaxEvents /\ events' = events + 1
       /\ logFile' = Append(kept, events + 1)
       /\ garbled' = IF cut THEN garbled \cup {events + 1} ELSE garbled
       /\ torn' = FALSE
       /\ logSize' = size + 1
       /\ encErr' = FALSE
    \/ /\ logFile' = kept /\ logSize' = size /\ encErr' = TRUE
       /\ \E part \in BOOLEAN : torn' = (cut \/ part)
       /\ UNCHANGED <<events, garbled>>

\* Log without a rotation.
Log ==
    /\ ~auditClosed /\ ~MustRotateLog /\ fdOpen /\ ~encErr
    /\ Encode(logFile, torn, logSize)
    /\ UNCHANGED <<backups, fdOpen, auditClosed, overwritten, auditRuns>>

-----------------------------------------------------------------------------
\* os.Rename of the log file to the name of the current second.
Renamed == [s \in DOMAIN backups \cup {now} |->
               IF s = now THEN logFile ELSE backups[s]]

OverwrittenByRename ==
    overwritten \cup (IF now \in DOMAIN backups THEN Range(backups[now]) ELSE {})

\* Mutant: the names are not sorted, and the newest come first.
ExcessUnsorted(names) ==
    {s \in names : Cardinality({t \in names : t < s}) >= MaxBackups}

\* The first of the sorted names, all but MaxBackups of them.
Excess(names) ==
    {s \in names : Cardinality({t \in names : t > s}) >= MaxBackups}

\* What may be left of the backups: any of the names may be beyond the window
\* of maxCleanupEntries, all of them if the directory cannot be opened, and any
\* of the removals may fail.
cleanupBackups(dir) ==
    {Restrict(dir, DOMAIN dir \ removed) :
        removed \in UNION {SUBSET Excess(names) : names \in SUBSET DOMAIN dir}}

\* Log whose rotation succeeds; the event then goes to the new file.
RotateAndLog ==
    /\ ~auditClosed /\ MustRotateLog /\ fdOpen
    /\ backups' \in cleanupBackups(Renamed)
    /\ overwritten' = OverwrittenByRename
    /\ Encode(<<>>, FALSE, 0)
    /\ UNCHANGED <<fdOpen, auditClosed, auditRuns>>

\* Log whose rotation fails once the file is closed.  Close itself reports
\* an error or the rename fails ("rename"): the log stays at its path.  The
\* new file cannot be opened ("open"): the log is a backup by then.
RotationFails(stage) ==
    /\ ~auditClosed /\ MustRotateLog /\ fdOpen
    /\ fdOpen' = FALSE
    /\ \/ stage = "rename" /\ UNCHANGED <<logFile, torn, backups, overwritten>>
       \/ /\ stage = "open"
          /\ backups' = Renamed
          /\ overwritten' = OverwrittenByRename
          /\ logFile' = <<>> /\ torn' = FALSE
    /\ UNCHANGED <<encErr, logSize, auditClosed, events, garbled, auditRuns>>

AuditClose ==
    /\ ~auditClosed /\ auditClosed' = TRUE
    /\ fdOpen' = FALSE
    /\ UNCHANGED <<logFile, torn, backups, encErr, logSize, events, garbled,
                   overwritten, auditRuns>>

\* The process ends at any point; NewLogger opens the file for append and
\* takes its size, to which part of a line adds less than a unit.
AuditRestart ==
    /\ auditRuns < MaxAuditRuns /\ auditRuns' = auditRuns + 1
    /\ fdOpen' = TRUE /\ encErr' = FALSE /\ auditClosed' = FALSE
    /\ logSize' = Len(logFile)
    /\ UNCHANGED <<logFile, torn, backups, events, garbled, overwritten>>

AuditNext ==
    \/ /\ \/ Log
          \/ RotateAndLog
          \/ \E stage \in {"rename", "open"} : RotationFails(stage)
          \/ AuditClose
          \/ AuditRestart
       /\ UNCHANGED now
    \/ Tick /\ UNCHANGED auditVars

AuditSpec == AuditInit /\ now = 0 /\ [][AuditNext]_<<auditVars, now>>

-----------------------------------------------------------------------------
\* The backups all of whose events came after event e.
BackupsAfter(e) == {s \in DOMAIN backups : backups[s][1] > e}

\* An acknowledged event is in the log file or in a backup, unless MaxBackups
\* backups of later events are there ("keep only MaxBackups most recent",
\* audit.go:282) or a rotation in the same second took the name of its backup
\* (audit.go:202).  Rotations, clean-ups that read or remove only some of the
\* names, failures at any step and restarts lose nothing else, and events
\* follow each other in the order of the files.  At most one event per restart
\* is on a line that begins with part of another.
AcknowledgedKept ==
    /\ \A e \in 1..events :
          \/ e \in Range(logFile) \cup overwritten
          \/ \E s \in DOMAIN backups : e \in Range(backups[s])
          \/ Cardinality(BackupsAfter(e)) >= MaxBackups
    /\ \A s, t \in DOMAIN backups : s < t =>
          \A i \in DOMAIN backups[s], j \in DOMAIN backups[t] : backups[s][i] < backups[t][j]
    /\ Cardinality(garbled) < auditRuns

=============================================================================
