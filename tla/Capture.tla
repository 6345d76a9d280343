------------------------------- MODULE Capture -------------------------------
(***************************************************************************)
(* The rotating pcap writer for blocked packets                            *)
(* (src/internal/capture/capture.go).                                      *)
(*                                                                         *)
(* The directory is a function from the number in blocked_%05d.pcap to the *)
(* stamp of its creation: a file made by the n-th rotation, over all runs  *)
(* of the process, carries stamp n.  Numbers below 100000 sort by name as  *)
(* they sort by value, so a name is its number.  The contents are left     *)
(* out, except that creating a file truncates the one of that name.        *)
(*                                                                         *)
(* The writer lives in the packet goroutine: WriteBlock is one step.  A    *)
(* crash inside a rotation leaves what RotateFails leaves, and a Restart   *)
(* may follow it.  A rotation refused because a directory component became *)
(* a symlink changes nothing and is not an action.                         *)
(***************************************************************************)
EXTENDS Integers, FiniteSets, Functions

CONSTANTS
    MaxFiles,         \* Config.MaxFiles
    MaxPackets,       \* Config.MaxPackets
    MaxStamp,         \* bound: rotations started over all runs
    MaxRuns           \* bound: times the process starts

ASSUME CaptureConstants ==
    /\ MaxFiles \in Nat \ {0} /\ MaxPackets \in Nat \ {0}
    /\ MaxStamp \in Nat /\ MaxRuns \in Nat

VARIABLES
    pcapFiles,        \* the directory: number -> creation stamp
    curFile,          \* whether Writer.curFile is non-nil
    curFileN,         \* Writer.curFileN
    pktCount,         \* Writer.pktCount
    pcapClosed,       \* Writer.closed
    pcapStamp,        \* history: rotations started so far
    pcapMisses,       \* history: files created since a clean-up was completed
    pcapRuns          \* process starts so far

captureVars == <<pcapFiles, curFile, curFileN, pktCount, pcapClosed,
                 pcapStamp, pcapMisses, pcapRuns>>

CaptureInit ==
    /\ pcapFiles = [n \in {} |-> 0]
    /\ curFile = FALSE /\ curFileN = 0 /\ pktCount = 0 /\ pcapClosed = FALSE
    /\ pcapStamp = 0 /\ pcapMisses = 0 /\ pcapRuns = 1

-----------------------------------------------------------------------------
(* Clean-up: first the file MaxFiles numbers back, then, from a scan of    *)
(* the directory, the lowest names until MaxFiles remain, the current one  *)
(* skipped and not counted.                                                *)

Without(dir, gone) == Restrict(dir, DOMAIN dir \ gone)

Lowest(S, k) == {i \in S : Cardinality({j \in S : j < i}) < k}

\* Mutant: the current file is not skipped.
ExpiredByScanKeepingNone(dir, n) ==
    Lowest(DOMAIN dir, Cardinality(DOMAIN dir) - MaxFiles)

\* Mutant: the skipped file counts as removed.
ExpiredByScanCountingSkips(dir, n) ==
    Lowest(DOMAIN dir, Cardinality(DOMAIN dir) - MaxFiles) \ {n}

ExpiredByScan(dir, n) ==
    Lowest(DOMAIN dir \ {n}, Cardinality(DOMAIN dir) - MaxFiles)

\* "done": both removals work; "unscanned": the directory cannot be opened,
\* so only the indexed removal happens; "readonly": no removal works.
CleanupOutcomes == {"done", "unscanned", "readonly"}

cleanupLocked(dir, n, outcome) ==
    LET indexed == IF n > MaxFiles THEN Without(dir, {n - MaxFiles}) ELSE dir
    IN CASE outcome = "done" -> Without(indexed, ExpiredByScan(indexed, n))
         [] outcome = "unscanned" -> indexed
         [] outcome = "readonly" -> dir

-----------------------------------------------------------------------------
MustRotate == ~curFile \/ pktCount >= MaxPackets

\* O_CREATE|O_TRUNC: the file of that number is new, whatever it was.
Created(n) == [i \in DOMAIN pcapFiles \cup {n} |->
                  IF i = n THEN pcapStamp + 1 ELSE pcapFiles[i]]

\* WriteBlock into the open file; the write itself may fail.
WriteBlock ==
    /\ ~pcapClosed /\ ~MustRotate
    /\ pktCount' \in {pktCount, pktCount + 1}
    /\ UNCHANGED <<pcapFiles, curFile, curFileN, pcapClosed, pcapStamp,
                   pcapMisses, pcapRuns>>

\* WriteBlock that rotates first: the packet then lands in the new file, or
\* its write fails.
RotateAndWrite(outcome) ==
    LET n == curFileN + 1 IN
    /\ ~pcapClosed /\ MustRotate /\ pcapStamp < MaxStamp
    /\ curFile' = TRUE
    /\ curFileN' = n
    /\ pktCount' \in {0, 1}
    /\ pcapFiles' = cleanupLocked(Created(n), n, outcome)
    /\ pcapStamp' = pcapStamp + 1
    /\ pcapMisses' = IF outcome = "done" THEN 0 ELSE pcapMisses + 1
    /\ UNCHANGED <<pcapClosed, pcapRuns>>

\* WriteBlock whose rotation fails after the old file was closed: the new
\* one cannot be opened, or it was created and its header not written.
RotateFails(created) ==
    LET n == curFileN + 1 IN
    /\ ~pcapClosed /\ MustRotate /\ pcapStamp < MaxStamp
    /\ curFile' = FALSE
    /\ curFileN' = n
    /\ pcapFiles' = IF created THEN Created(n) ELSE pcapFiles
    /\ pcapStamp' = pcapStamp + 1
    /\ pcapMisses' = IF created THEN pcapMisses + 1 ELSE pcapMisses
    /\ UNCHANGED <<pktCount, pcapClosed, pcapRuns>>

\* Close leaves curFile non-nil; later writes are refused.
PcapClose ==
    /\ ~pcapClosed /\ pcapClosed' = TRUE
    /\ UNCHANGED <<pcapFiles, curFile, curFileN, pktCount, pcapStamp,
                   pcapMisses, pcapRuns>>

\* The process ends, in order or not, and NewWriter starts over at 0.
PcapRestart ==
    /\ pcapRuns < MaxRuns /\ pcapRuns' = pcapRuns + 1
    /\ curFile' = FALSE /\ curFileN' = 0 /\ pktCount' = 0 /\ pcapClosed' = FALSE
    /\ UNCHANGED <<pcapFiles, pcapStamp, pcapMisses>>

CaptureNext ==
    \/ WriteBlock
    \/ \E outcome \in CleanupOutcomes : RotateAndWrite(outcome)
    \/ \E created \in BOOLEAN : RotateFails(created)
    \/ PcapClose
    \/ PcapRestart

CaptureSpec == CaptureInit /\ [][CaptureNext]_captureVars

-----------------------------------------------------------------------------
\* The file being written is in the directory and is the newest one there:
\* no clean-up of this or an earlier rotation unlinked it, so a blocked
\* packet that WriteBlock reports as written can be found (capture.go:233).
OpenFileKept ==
    curFile => /\ curFileN \in DOMAIN pcapFiles
               /\ \A n \in DOMAIN pcapFiles : pcapFiles[n] <= pcapFiles[curFileN]

\* The retention cap over failures and restarts: beyond MaxFiles, the
\* directory holds at most the files created since a clean-up last ran to
\* its end; the next complete clean-up removes the whole excess
\* (capture.go:243, "at most MaxFiles files remain after cleanup").
CapturesBounded == Cardinality(DOMAIN pcapFiles) <= MaxFiles + pcapMisses

=============================================================================
