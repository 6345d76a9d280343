------------------------------- MODULE Syncer -------------------------------
(***************************************************************************)
(* The etcd policy syncer of internal/syncer/syncer.go: Start loads the       *)
(* current value of the key, then the watch goroutine applies the events of a *)
(* watch stream, collapsing the ones that arrive within minReloadInterval in  *)
(* a pending slot, and resyncs by a Get whenever the stream terminates.       *)
(*                                                                         *)
(* etcd is external: a key with a log of revisions, a Get that returns the    *)
(* newest one or fails, and a watch that delivers, in order and in batches,   *)
(* the revisions made after it was created until it terminates.              *)
(*                                                                         *)
(* onUpdate is the evaluator's Load, here one atomic step: the evaluator      *)
(* implements an atomic register (module Evaluator).                        *)
(***************************************************************************)
EXTENDS Integers, Sequences

CONSTANTS
    Contents,         \* values the key may have
    Loadable,         \* those that Load accepts
    Oversized,        \* those larger than maxPolicySize
    Empty,            \* the empty value
    Deleted,          \* stands for a delete of the key in the log
    BootPolicy,       \* the policy file the process started with
    MaxEvents,        \* maxWatchEventsPerResponse
    MaxRev,           \* bound: revisions of the key
    MaxTerminations   \* bound: watch streams that etcd terminates

ASSUME SyncerAssumption ==
    /\ Loadable \subseteq Contents /\ Oversized \subseteq Contents
    /\ Loadable \cap Oversized = {}
    /\ Empty \in Contents \ (Loadable \cup Oversized)
    /\ Deleted \notin Contents
    /\ BootPolicy \in Loadable
    /\ MaxEvents \in Nat \ {0}
    /\ MaxRev \in Nat /\ MaxTerminations \in Nat

VARIABLES
    log,            \* etcd: the revisions of the key
    nextRev,        \* etcd: the first revision the watch has not delivered
    terminations,   \* etcd: how many streams it has terminated
    pc,             \* where the syncer is
    got,            \* the revision that loadCurrent's Get returned, 0 = none
    batchEnd,       \* the last revision of the response being processed
    lastPolicy,     \* s.lastPolicy
    pendingSet,     \* watch: pendingSet
    pendingPolicy,  \* watch: pendingPolicy
    hot,            \* time.Since(lastReload) < minReloadInterval
    closed,         \* Close was called
    governing,      \* the policy the evaluator has loaded
    appliedRev,     \* history: the newest revision of the governing policy that
                    \* onUpdate was given
    pendingRev,     \* history: the revision of pendingPolicy
    seenRev         \* history: the newest revision given to applyPolicy

etcdVars == <<log, nextRev, terminations>>
slotVars == <<pendingSet, pendingPolicy, pendingRev>>
loadVars == <<governing, appliedRev>>
vars == <<etcdVars, pc, got, batchEnd, lastPolicy, slotVars, hot, closed,
          loadVars, seenRev>>

Steps == {"start", "startApply", "connect", "watching", "batch", "resync",
          "resyncApply", "delay", "stopped"}

TypeOK ==
    /\ log \in Seq(Contents \cup {Deleted})
    /\ nextRev \in Nat /\ terminations \in Nat
    /\ pc \in Steps
    /\ got \in Nat /\ batchEnd \in Nat
    /\ lastPolicy \in Contents
    /\ pendingSet \in BOOLEAN /\ pendingPolicy \in Contents /\ pendingRev \in Nat
    /\ hot \in BOOLEAN /\ closed \in BOOLEAN
    /\ governing \in Loadable /\ appliedRev \in Nat
    /\ seenRev \in Nat

\* etcd may hold a value before the process starts.
Init ==
    /\ log \in {<<>>} \cup {<<c>> : c \in Contents}
    /\ nextRev = 0 /\ terminations = 0
    /\ pc = "start"
    /\ got = 0 /\ batchEnd = 0
    /\ lastPolicy = Empty
    /\ pendingSet = FALSE /\ pendingPolicy = Empty /\ pendingRev = 0
    /\ hot = FALSE /\ closed = FALSE
    /\ governing = BootPolicy /\ appliedRev = 0
    /\ seenRev = 0

-----------------------------------------------------------------------------
(* etcd.                                                                   *)

\* A write of the key; only a key that is there can be deleted.
Put(c) ==
    /\ Len(log) < MaxRev
    /\ c = Deleted => log # <<>> /\ log[Len(log)] # Deleted
    /\ log' = Append(log, c)
    /\ UNCHANGED <<nextRev, terminations, pc, got, batchEnd, lastPolicy, slotVars,
                   hot, closed, loadVars, seenRev>>

\* Values the syncer passes on: neither a delete nor oversized.
Usable(c) == c # Deleted /\ c \notin Oversized

-----------------------------------------------------------------------------
(* The syncer.                                                             *)

\* safeOnUpdate: a policy that does not load leaves the governing one.  Loading
\* the policy that governs again does not make it an older one.
safeOnUpdate(p, r) ==
    IF p \in Loadable
    THEN /\ governing' = p
         /\ appliedRev' = IF p = governing /\ r < appliedRev THEN appliedRev ELSE r
    ELSE UNCHANGED loadVars

\* loadCurrent's Get, from Start or after a stream terminated: it fails, finds
\* nothing to use, or returns the newest revision.
Get ==
    /\ pc \in {"start", "resync"}
    /\ \/ got' = 0
       \/ /\ ~closed
          /\ log # <<>> /\ Usable(log[Len(log)])
          /\ got' = Len(log)
    /\ pc' = IF pc = "start" THEN "startApply" ELSE "resyncApply"
    /\ UNCHANGED <<etcdVars, batchEnd, lastPolicy, slotVars, hot, closed, loadVars,
                   seenRev>>

\* The rest of loadCurrent: dedupe and load.
loadCurrent ==
    IF got = 0
    THEN UNCHANGED <<lastPolicy, loadVars, seenRev>>
    ELSE /\ lastPolicy' = log[got]
         /\ seenRev' = got
         /\ IF log[got] = lastPolicy THEN UNCHANGED loadVars
                                     ELSE safeOnUpdate(log[got], got)

Start ==
    /\ pc = "startApply"
    /\ loadCurrent
    /\ pc' = "connect"
    /\ UNCHANGED <<etcdVars, got, batchEnd, slotVars, hot, closed>>

\* Mutant: the queued policy survives a resync that overtook it.
ResyncKeepsSlot ==
    /\ pc = "resyncApply"
    /\ loadCurrent
    /\ pc' = "delay"
    /\ UNCHANGED <<etcdVars, got, batchEnd, slotVars, hot, closed>>

\* After a resync that read a policy, a different queued one is dropped.
Resync ==
    /\ pc = "resyncApply"
    /\ loadCurrent
    /\ pendingSet' =
          (pendingSet /\ (got = 0 \/ log[got] = Empty \/ pendingPolicy = log[got]))
    /\ pc' = "delay"
    /\ UNCHANGED <<etcdVars, got, batchEnd, pendingPolicy, pendingRev, hot, closed>>

\* The end of watchReconnectDelay.
Reconnect ==
    /\ pc = "delay"
    /\ pc' = "connect"
    /\ UNCHANGED <<etcdVars, got, batchEnd, lastPolicy, slotVars, hot, closed,
                   loadVars, seenRev>>

\* client.Watch: a stream of the revisions made from now on.
Watch ==
    /\ pc = "connect"
    /\ pc' = "watching"
    /\ nextRev' = Len(log) + 1
    /\ UNCHANGED <<log, terminations, got, batchEnd, lastPolicy, slotVars, hot, closed,
                   loadVars, seenRev>>

\* Mutant: within the interval the slot is emptied without a load.
flushDrops(set, p, r) ==
    /\ pendingPolicy' = p /\ pendingRev' = r
    /\ pendingSet' = FALSE
    /\ IF set /\ ~hot THEN hot' = TRUE /\ safeOnUpdate(p, r)
                      ELSE UNCHANGED <<hot, loadVars>>

\* flushPending, with the slot holding policy p of revision r if set.
flushPending(set, p, r) ==
    /\ pendingPolicy' = p /\ pendingRev' = r
    /\ IF set /\ ~hot
       THEN pendingSet' = FALSE /\ hot' = TRUE /\ safeOnUpdate(p, r)
       ELSE pendingSet' = set /\ UNCHANGED <<hot, loadVars>>

\* A response with the revisions up to some r arrives; the slot is flushed
\* first.
Receive ==
    /\ pc = "watching"
    /\ \E r \in nextRev..Len(log) : batchEnd' = r
    /\ flushPending(pendingSet, pendingPolicy, pendingRev)
    /\ pc' = "batch"
    /\ UNCHANGED <<etcdVars, got, lastPolicy, closed, seenRev>>

\* The events of the response.  Each usable one is given to applyPolicy and, if
\* it differs from the one before it, replaces the slot: the slot is set when
\* any event differs from lastPolicy, and then holds the last usable one.
ProcessEvents ==
    LET n == batchEnd - nextRev + 1
        first == IF n > MaxEvents THEN batchEnd ELSE nextRev
        usable == {r \in first..batchEnd : Usable(log[r])}
        changed == \E r \in usable : log[r] # lastPolicy
    IN  /\ pc = "batch"
        /\ \/ /\ usable = {}
              /\ flushPending(pendingSet, pendingPolicy, pendingRev)
              /\ UNCHANGED <<lastPolicy, seenRev>>
           \/ \E last \in usable :
                 /\ \A r \in usable : r <= last
                 /\ lastPolicy' = log[last]
                 /\ seenRev' = last
                 /\ IF changed THEN flushPending(TRUE, log[last], last)
                               ELSE flushPending(pendingSet, pendingPolicy, pendingRev)
        /\ nextRev' = batchEnd + 1
        /\ pc' = "watching"
        /\ UNCHANGED <<log, terminations, got, batchEnd, closed>>

\* Mutant: the slot waits for the next response.
NoTimer == FALSE /\ UNCHANGED vars

\* The timer armed while a policy is pending.
TimerFires ==
    /\ pc = "watching"
    /\ pendingSet /\ ~hot
    /\ flushPending(pendingSet, pendingPolicy, pendingRev)
    /\ UNCHANGED <<etcdVars, pc, got, batchEnd, lastPolicy, closed, seenRev>>

\* The stream ends: cancelled, failed, compacted, or closed with the client.
StreamEnds ==
    /\ pc = "watching"
    /\ closed \/ terminations < MaxTerminations
    /\ terminations' = IF closed THEN terminations ELSE terminations + 1
    /\ pc' = "resync"
    /\ UNCHANGED <<log, nextRev, got, batchEnd, lastPolicy, slotVars, hot, closed,
                   loadVars, seenRev>>

\* minReloadInterval has passed since the last reload.
WindowElapses ==
    /\ hot
    /\ hot' = FALSE
    /\ UNCHANGED <<etcdVars, pc, got, batchEnd, lastPolicy, slotVars, closed, loadVars,
                   seenRev>>

Close ==
    /\ ~closed
    /\ closed' = TRUE
    /\ UNCHANGED <<etcdVars, pc, got, batchEnd, lastPolicy, slotVars, hot, loadVars,
                   seenRev>>

\* Mutant: only the select of the reconnect delay looks at stopCh.
StopInDelay ==
    /\ closed
    /\ pc = "delay"
    /\ pc' = "stopped"
    /\ UNCHANGED <<etcdVars, got, batchEnd, lastPolicy, slotVars, hot, closed,
                   loadVars, seenRev>>

\* stopCh is received in either select.
Stop ==
    /\ closed
    /\ pc \in {"watching", "delay"}
    /\ pc' = "stopped"
    /\ UNCHANGED <<etcdVars, got, batchEnd, lastPolicy, slotVars, hot, closed,
                   loadVars, seenRev>>

SyncerStep ==
    \/ Get \/ Start \/ Resync \/ Reconnect \/ Watch \/ Receive \/ ProcessEvents
    \/ TimerFires \/ Stop

Next ==
    \/ \E c \in Contents \cup {Deleted} : Put(c)
    \/ SyncerStep
    \/ StreamEnds
    \/ WindowElapses
    \/ Close

Spec == Init /\ [][Next]_vars

\* The goroutine runs, time passes, etcd delivers what it has, a timer that
\* stays armed fires, and a select does not overlook a closed stopCh for ever.
\* Nothing makes etcd answer a Get or keep a stream.
Fairness ==
    /\ WF_vars(Get) /\ WF_vars(Start) /\ WF_vars(Resync) /\ WF_vars(Reconnect)
    /\ WF_vars(Watch) /\ WF_vars(Receive) /\ WF_vars(ProcessEvents)
    /\ WF_vars(WindowElapses)
    /\ WF_vars(TimerFires)
    /\ SF_vars(Stop)

FairSpec == Spec /\ Fairness

-----------------------------------------------------------------------------
(* Properties.                                                             *)

\* The syncer never replaces a policy by one of an older revision: not a queued
\* policy that a resync has overtaken, not an event of a stream that a Get has
\* overtaken.
NeverRegresses == [][appliedRev' >= appliedRev]_vars

\* When nothing is queued, the last policy the dedupe recorded governs, if it
\* loads at all: dedupe, slot and resync together never swallow a policy.
RecordedGoverns == ~pendingSet /\ lastPolicy \in Loadable => governing = lastPolicy

\* The slot never holds a policy older than the one that governs, unless it is
\* that policy, and unless an empty value was read since, it holds the last one
\* that dedupe recorded.
SlotIsNewest ==
    pendingSet => /\ pendingRev >= appliedRev \/ pendingPolicy = governing
                  /\ lastPolicy \in {pendingPolicy, Empty}

\* The value of the key once it changes no more.
Final == IF Len(log) = MaxRev THEN log[MaxRev] ELSE Deleted

\* Once the key has its final value and the syncer has read it, from a stream
\* or a Get, that policy governs in the end: the timer flushes the slot even if
\* the stream goes idle, and a terminated stream does not lose the slot.
ReadPolicyGoverns ==
    (Final \in Loadable /\ seenRev = MaxRev) ~> (governing = Final \/ closed)

\* After Close the watch goroutine ends, wherever it was.
CloseStops == closed ~> pc = "stopped"

\* What the comment on watchReconnectDelay says: the syncer is eventually
\* consistent, so that time without a stream is invisible.  Where loadCurrent's
\* Get was answered, the final value of the key, if it loads, comes to govern.
EventuallyConsistent ==
    (Final \in Loadable /\ got # 0) ~> (governing = Final \/ closed)

=============================================================================
