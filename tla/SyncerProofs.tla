---------------------------- MODULE SyncerProofs ----------------------------
(***************************************************************************)
(* For every set of policies, every number of revisions and every sequence   *)
(* of terminated streams, the syncer never replaces a policy by an older one, *)
(* and the policy it recorded last governs when nothing is queued.           *)
(*                                                                         *)
(* Neither is inductive.  That a queued policy is not older than the         *)
(* governing one (SlotIsNewest) is needed for both, and it rests on where the *)
(* revisions come from: a Get reads at or after what was seen before, and a   *)
(* stream delivers what was written after the last Get (SInv).  Beside the    *)
(* poller of the policy file the same holds until the file is edited.         *)
(***************************************************************************)
EXTENDS PolicyPlane, TLAPS

\* The revision a Get has returned, until it is applied.
Applying == pc \in {"startApply", "resyncApply"} /\ got # 0

Revisions ==
    /\ seenRev <= Len(log)
    /\ appliedRev <= seenRev
    /\ pendingSet => pendingRev <= seenRev
    /\ Applying => seenRev <= got /\ got <= Len(log) /\ Usable(log[got])
    /\ pc \in {"watching", "batch"} => seenRev < nextRev
    /\ pc = "batch" => nextRev <= batchEnd /\ batchEnd <= Len(log)
    /\ pc \in {"start", "startApply"} => ~pendingSet

SInv == TypeOK /\ Revisions /\ RecordedGoverns /\ SlotIsNewest

-----------------------------------------------------------------------------
(* The parts of a step.                                                     *)

\* A policy that is no older than the governing one, or is the governing one, is
\* loaded without a step back (safeOnUpdate).
LEMMA LoadKeeps ==
    ASSUME NEW p, NEW r \in Nat, appliedRev \in Nat, governing \in Loadable,
           safeOnUpdate(p, r), r >= appliedRev \/ p = governing
    PROVE  /\ appliedRev' \in Nat /\ appliedRev' >= appliedRev
           /\ appliedRev' \in {r, appliedRev}
           /\ governing' \in Loadable
           /\ p \in Loadable => governing' = p
           /\ appliedRev' <= r \/ governing' = p
BY SMT DEF safeOnUpdate, loadVars

\* Whether or not the slot may be flushed, what it held governs or is held
\* still, and nothing goes back (flushPending).
LEMMA FlushKeeps ==
    ASSUME NEW set \in BOOLEAN, NEW p \in Contents, NEW r \in Nat,
           appliedRev \in Nat, governing \in Loadable, hot \in BOOLEAN,
           flushPending(set, p, r), set => (r >= appliedRev \/ p = governing)
    PROVE  /\ appliedRev' \in Nat /\ appliedRev' >= appliedRev
           /\ appliedRev' \in {r, appliedRev}
           /\ appliedRev' # appliedRev => set
           /\ governing' \in Loadable
           /\ pendingSet' \in BOOLEAN /\ hot' \in BOOLEAN
           /\ pendingPolicy' = p /\ pendingRev' = r
           /\ pendingSet' => set /\ UNCHANGED loadVars
           /\ ~pendingSet' /\ set /\ p \in Loadable => governing' = p
           /\ ~set => UNCHANGED loadVars
<1>1. CASE set /\ ~hot
  <2>1. safeOnUpdate(p, r) /\ pendingSet' = FALSE /\ hot' = TRUE
        /\ pendingPolicy' = p /\ pendingRev' = r
    BY <1>1 DEF flushPending
  <2> QED BY <1>1, <2>1, LoadKeeps
<1>2. CASE ~(set /\ ~hot)
  <2>1. pendingSet' = set /\ UNCHANGED <<hot, loadVars>>
        /\ pendingPolicy' = p /\ pendingRev' = r
    BY <1>2 DEF flushPending
  <2>2. UNCHANGED <<governing, appliedRev>>
    BY <2>1 DEF loadVars
  <2> QED BY <2>1, <2>2 DEF loadVars
<1> QED BY <1>1, <1>2

\* Steps that touch neither slot nor evaluator.
LEMMA FrameKeeps ==
    ASSUME RecordedGoverns, SlotIsNewest, UNCHANGED <<lastPolicy, slotVars, loadVars>>
    PROVE  RecordedGoverns' /\ SlotIsNewest'
BY DEF RecordedGoverns, SlotIsNewest, slotVars, loadVars

-----------------------------------------------------------------------------
(* The invariant.                                                           *)

\* The invariant holds when the process starts (New).
LEMMA SyncerStarts == Init => SInv
<1> SUFFICES ASSUME Init PROVE SInv
  OBVIOUS
<1>1. log \in Seq(Contents \cup {Deleted}) /\ Len(log) >= 0
  <2>1. log = <<>> \/ \E c \in Contents : log = <<c>>
    BY DEF Init
  <2>2. <<>> \in Seq(Contents \cup {Deleted})
    OBVIOUS
  <2>3. \A c \in Contents : <<c>> \in Seq(Contents \cup {Deleted})
    OBVIOUS
  <2>4. log \in Seq(Contents \cup {Deleted})
    BY <2>1, <2>2, <2>3
  <2> QED BY <2>4
<1>2. Empty \in Contents /\ Empty \notin Loadable /\ BootPolicy \in Loadable
  BY SyncerAssumption
<1>3. TypeOK
  BY <1>1, <1>2 DEF Init, TypeOK, Steps
<1>4. Revisions
  BY <1>1 DEF Init, Revisions, Applying
<1>5. RecordedGoverns /\ SlotIsNewest
  BY <1>2 DEF Init, RecordedGoverns, SlotIsNewest
<1> QED BY <1>3, <1>4, <1>5 DEF SInv

\* A write of the key keeps the revisions that were there.
LEMMA PutKeeps ==
    ASSUME SInv, NEW c \in Contents \cup {Deleted}, Put(c)
    PROVE  SInv' /\ appliedRev' = appliedRev
<1> USE DEF SInv
<1>1. UNCHANGED <<nextRev, terminations, pc, got, batchEnd, lastPolicy, pendingSet,
                  pendingPolicy, pendingRev, hot, closed, governing, appliedRev, seenRev>>
  BY DEF Put, slotVars, loadVars
<1>2. log \in Seq(Contents \cup {Deleted}) /\ log' = Append(log, c)
  BY DEF Put, TypeOK
<1>3. /\ log' \in Seq(Contents \cup {Deleted}) /\ Len(log') = Len(log) + 1
      /\ \A i \in 1..Len(log) : log'[i] = log[i]
      /\ Len(log) \in Nat
  BY <1>2
<1>4. TypeOK'
  BY <1>1, <1>3 DEF TypeOK
<1>5. Revisions'
  <2>1. Applying => got \in 1..Len(log)
    BY <1>3 DEF Revisions, Applying, TypeOK
  <2>2. Applying => log'[got] = log[got]
    BY <2>1, <1>3
  <2> QED BY <1>1, <1>3, <2>2 DEF Revisions, Applying, TypeOK, Usable
<1>6. RecordedGoverns' /\ SlotIsNewest'
  BY <1>1, FrameKeeps DEF slotVars, loadVars
<1> QED BY <1>1, <1>4, <1>5, <1>6

\* A Get reads at or after everything that was seen before.
LEMMA GetKeeps ==
    ASSUME SInv, Get
    PROVE  SInv' /\ appliedRev' = appliedRev
<1> USE DEF SInv
<1>1. UNCHANGED <<log, nextRev, terminations, batchEnd, lastPolicy, pendingSet,
                  pendingPolicy, pendingRev, hot, closed, governing, appliedRev, seenRev>>
  BY DEF Get, etcdVars, slotVars, loadVars
<1>2. /\ Len(log) \in Nat /\ pc' \in {"startApply", "resyncApply"}
      /\ pc' = "startApply" => pc = "start"
  BY DEF Get, TypeOK
<1>3. got' = 0 \/ (got' = Len(log) /\ Usable(log[Len(log)]))
  BY DEF Get
<1>4. TypeOK'
  BY <1>1, <1>2, <1>3 DEF TypeOK, Steps
<1>5. Revisions'
  BY <1>1, <1>2, <1>3 DEF Revisions, Applying, TypeOK, Usable
<1>6. RecordedGoverns' /\ SlotIsNewest'
  BY <1>1, FrameKeeps DEF slotVars, loadVars
<1> QED BY <1>1, <1>4, <1>5, <1>6

\* What is left of loadCurrent never steps back and records what it loaded.
LEMMA LoadCurrentKeeps ==
    ASSUME SInv, Applying, loadCurrent
    PROVE  /\ lastPolicy' = log[got] /\ lastPolicy' \in Contents
           /\ seenRev' = got
           /\ appliedRev' \in Nat /\ appliedRev' >= appliedRev /\ appliedRev' <= got
           /\ governing' \in Loadable
           /\ lastPolicy' # lastPolicy /\ lastPolicy' \in Loadable
                => governing' = lastPolicy'
           /\ lastPolicy' \notin Loadable \/ lastPolicy' = lastPolicy
                => UNCHANGED <<governing, appliedRev>>
<1> USE DEF SInv
<1>1. /\ got \in Nat /\ got # 0 /\ seenRev <= got /\ got <= Len(log)
      /\ Usable(log[got]) /\ appliedRev \in Nat /\ seenRev \in Nat
      /\ appliedRev <= seenRev /\ governing \in Loadable
  BY DEF Revisions, Applying, TypeOK
<1>2. log[got] \in Contents
  BY <1>1 DEF TypeOK, Usable
<1>3. lastPolicy' = log[got] /\ seenRev' = got
      /\ IF log[got] = lastPolicy THEN UNCHANGED loadVars
                                  ELSE safeOnUpdate(log[got], got)
  BY <1>1 DEF loadCurrent
<1>4. CASE log[got] = lastPolicy
  BY <1>1, <1>2, <1>3, <1>4 DEF loadVars
<1>5. CASE log[got] # lastPolicy
  <2>1. safeOnUpdate(log[got], got) /\ got >= appliedRev
    BY <1>1, <1>3, <1>5
  <2>2. log[got] \notin Loadable => UNCHANGED <<governing, appliedRev>>
    BY <2>1 DEF safeOnUpdate, loadVars
  <2>3. /\ appliedRev' \in Nat /\ appliedRev' >= appliedRev
        /\ appliedRev' \in {got, appliedRev}
        /\ governing' \in Loadable
        /\ log[got] \in Loadable => governing' = log[got]
    BY <1>1, <2>1, LoadKeeps
  <2> QED BY <1>1, <1>2, <1>3, <1>5, <2>2, <2>3
<1> QED BY <1>4, <1>5

\* Start applies the value of the key; nothing is queued before the first watch.
LEMMA StartKeeps ==
    ASSUME SInv, Start
    PROVE  SInv' /\ appliedRev' >= appliedRev
<1> USE DEF SInv
<1>1. /\ UNCHANGED <<log, nextRev, terminations, got, batchEnd, pendingSet,
                     pendingPolicy, pendingRev, hot, closed>>
      /\ pc = "startApply" /\ pc' = "connect" /\ loadCurrent
  BY DEF Start, etcdVars, slotVars
<1>2. ~pendingSet /\ ~pendingSet'
  BY <1>1 DEF Revisions
<1>3. CASE got = 0
  <2>1. UNCHANGED <<lastPolicy, governing, appliedRev, seenRev>>
    BY <1>1, <1>3 DEF loadCurrent, loadVars
  <2>2. TypeOK' /\ Revisions'
    BY <1>1, <2>1 DEF TypeOK, Steps, Revisions, Applying
  <2>3. RecordedGoverns' /\ SlotIsNewest'
    BY <1>1, <2>1, FrameKeeps DEF slotVars, loadVars
  <2> QED BY <2>1, <2>2, <2>3 DEF TypeOK
<1>4. CASE got # 0
  <2>1. /\ lastPolicy' = log[got] /\ lastPolicy' \in Contents
        /\ seenRev' = got
        /\ appliedRev' \in Nat /\ appliedRev' >= appliedRev /\ appliedRev' <= got
        /\ governing' \in Loadable
        /\ lastPolicy' # lastPolicy /\ lastPolicy' \in Loadable
             => governing' = lastPolicy'
        /\ lastPolicy' \notin Loadable \/ lastPolicy' = lastPolicy
             => UNCHANGED <<governing, appliedRev>>
    BY <1>1, <1>4, LoadCurrentKeeps DEF Applying
  <2>2. TypeOK'
    BY <1>1, <2>1 DEF TypeOK, Steps
  <2>3. Revisions'
    BY <1>1, <1>2, <2>1 DEF TypeOK, Revisions, Applying
  <2>4. RecordedGoverns'
    BY <1>2, <2>1 DEF RecordedGoverns
  <2>5. SlotIsNewest'
    BY <1>2 DEF SlotIsNewest
  <2> QED BY <2>1, <2>2, <2>3, <2>4, <2>5
<1> QED BY <1>3, <1>4

\* After a resync a policy that was queued is dropped, or is the one that the
\* Get has read.
LEMMA ResyncKeeps ==
    ASSUME SInv, Resync
    PROVE  SInv' /\ appliedRev' >= appliedRev
<1> USE DEF SInv
<1>1. /\ UNCHANGED <<log, nextRev, terminations, got, batchEnd,
                     pendingPolicy, pendingRev, hot, closed>>
      /\ pc = "resyncApply" /\ pc' = "delay" /\ loadCurrent
  BY DEF Resync, etcdVars
<1>2. /\ pendingSet' \in BOOLEAN
      /\ pendingSet' => pendingSet
      /\ pendingSet' => got = 0 \/ log[got] = Empty \/ pendingPolicy = log[got]
      /\ pendingSet /\ ~pendingSet' =>
            got # 0 /\ log[got] # Empty /\ pendingPolicy # log[got]
  BY DEF Resync
<1>3. CASE got = 0
  <2>1. UNCHANGED <<lastPolicy, governing, appliedRev, seenRev>>
    BY <1>1, <1>3 DEF loadCurrent, loadVars
  <2>2. TypeOK' /\ Revisions'
    BY <1>1, <1>2, <2>1 DEF TypeOK, Steps, Revisions, Applying
  <2>3. RecordedGoverns'
    BY <1>2, <1>3, <2>1 DEF RecordedGoverns
  <2>4. SlotIsNewest'
    BY <1>1, <1>2, <2>1 DEF SlotIsNewest
  <2> QED BY <2>1, <2>2, <2>3, <2>4 DEF TypeOK
<1>4. CASE got # 0
  <2>1. /\ lastPolicy' = log[got] /\ lastPolicy' \in Contents
        /\ seenRev' = got
        /\ appliedRev' \in Nat /\ appliedRev' >= appliedRev /\ appliedRev' <= got
        /\ governing' \in Loadable
        /\ lastPolicy' # lastPolicy /\ lastPolicy' \in Loadable
             => governing' = lastPolicy'
        /\ lastPolicy' \notin Loadable \/ lastPolicy' = lastPolicy
             => UNCHANGED <<governing, appliedRev>>
    BY <1>1, <1>4, LoadCurrentKeeps DEF Applying
  <2>2. TypeOK'
    BY <1>1, <1>2, <2>1 DEF TypeOK, Steps
  <2>3. Revisions'
    BY <1>1, <1>2, <1>4, <2>1 DEF TypeOK, Revisions, Applying
  <2>4. Empty \notin Loadable
    BY SyncerAssumption
  <2>5. RecordedGoverns'
    <3> SUFFICES ASSUME ~pendingSet', lastPolicy' \in Loadable
                 PROVE  governing' = lastPolicy'
      BY DEF RecordedGoverns
    <3>1. CASE lastPolicy' # lastPolicy
      BY <3>1, <2>1
    <3>2. CASE lastPolicy' = lastPolicy
      <4>1. governing' = governing /\ lastPolicy' = log[got]
        BY <3>2, <2>1
      <4>2. ~pendingSet
        BY <1>2, <3>2, <4>1, <2>4 DEF SlotIsNewest
      <4> QED BY <3>2, <4>1, <4>2 DEF RecordedGoverns
    <3> QED BY <3>1, <3>2
  <2>6. SlotIsNewest'
    <3> SUFFICES ASSUME pendingSet'
                 PROVE  /\ pendingRev >= appliedRev' \/ pendingPolicy = governing'
                        /\ lastPolicy' \in {pendingPolicy, Empty}
      BY <1>1 DEF SlotIsNewest
    <3>1. lastPolicy' \in {pendingPolicy, Empty} /\ pendingSet
      BY <1>2, <1>4, <2>1
    <3>2. CASE lastPolicy' \notin Loadable \/ lastPolicy' = lastPolicy
      <4>1. UNCHANGED <<governing, appliedRev>>
        BY <3>2, <2>1
      <4> QED BY <3>1, <4>1 DEF SlotIsNewest
    <3>3. CASE lastPolicy' \in Loadable /\ lastPolicy' # lastPolicy
      <4>1. governing' = lastPolicy'
        BY <3>3, <2>1
      <4> QED BY <3>1, <3>3, <4>1, <2>4
    <3> QED BY <3>2, <3>3
  <2> QED BY <2>1, <2>2, <2>3, <2>5, <2>6
<1> QED BY <1>3, <1>4

\* A stream delivers what was written after its creation.
LEMMA WatchKeeps ==
    ASSUME SInv, Reconnect \/ Watch \/ StreamEnds \/ WindowElapses \/ Close \/ Stop
    PROVE  SInv' /\ appliedRev' = appliedRev
<1> USE DEF SInv
<1>1. UNCHANGED <<log, got, batchEnd, lastPolicy, pendingSet, pendingPolicy, pendingRev,
                  governing, appliedRev, seenRev>>
  BY DEF Reconnect, Watch, StreamEnds, WindowElapses, Close, Stop,
         etcdVars, slotVars, loadVars
<1>2. Len(log) \in Nat
  BY DEF TypeOK
<1>3. nextRev' = nextRev \/ (pc' = "watching" /\ nextRev' = Len(log) + 1)
  BY DEF Reconnect, Watch, StreamEnds, WindowElapses, Close, Stop, etcdVars
<1>4. terminations' \in Nat /\ pc' \in Steps
  BY DEF Reconnect, Watch, StreamEnds, WindowElapses, Close, Stop, etcdVars, TypeOK, Steps
<1>5. hot' \in BOOLEAN /\ closed' \in BOOLEAN
  BY DEF Reconnect, Watch, StreamEnds, WindowElapses, Close, Stop, TypeOK
<1>6. \/ pc' = pc /\ nextRev' = nextRev
      \/ pc' = "watching" /\ nextRev' = Len(log) + 1
      \/ pc' \in {"connect", "resync", "stopped"} /\ nextRev' = nextRev
  BY DEF Reconnect, Watch, StreamEnds, WindowElapses, Close, Stop, etcdVars
<1>7. TypeOK'
  BY <1>1, <1>2, <1>3, <1>4, <1>5 DEF TypeOK
<1>8. Revisions'
  BY <1>1, <1>2, <1>6 DEF TypeOK, Revisions, Applying, Usable
<1>9. RecordedGoverns' /\ SlotIsNewest'
  BY <1>1, FrameKeeps DEF slotVars, loadVars
<1> QED BY <1>1, <1>7, <1>8, <1>9

\* Flushing the slot as it is, before a batch or by the timer.
LEMMA SlotFlushKeeps ==
    ASSUME SInv, flushPending(pendingSet, pendingPolicy, pendingRev),
           UNCHANGED lastPolicy
    PROVE  /\ RecordedGoverns' /\ SlotIsNewest'
           /\ UNCHANGED <<pendingPolicy, pendingRev>>
           /\ pendingSet' \in BOOLEAN /\ hot' \in BOOLEAN /\ governing' \in Loadable
           /\ appliedRev' \in Nat /\ appliedRev' >= appliedRev /\ appliedRev' <= seenRev
           /\ pendingSet' => pendingSet
<1> USE DEF SInv
<1>1. /\ pendingSet \in BOOLEAN /\ hot \in BOOLEAN /\ pendingPolicy \in Contents
      /\ pendingRev \in Nat /\ appliedRev \in Nat /\ seenRev \in Nat
      /\ governing \in Loadable
  BY DEF TypeOK
<1>2. pendingSet => (pendingRev >= appliedRev \/ pendingPolicy = governing)
  BY DEF SlotIsNewest
<1>3. /\ appliedRev' \in Nat /\ appliedRev' >= appliedRev
      /\ appliedRev' \in {pendingRev, appliedRev}
      /\ appliedRev' # appliedRev => pendingSet
      /\ governing' \in Loadable
      /\ pendingSet' \in BOOLEAN /\ hot' \in BOOLEAN
      /\ pendingPolicy' = pendingPolicy /\ pendingRev' = pendingRev
      /\ pendingSet' => pendingSet /\ UNCHANGED loadVars
      /\ ~pendingSet' /\ pendingSet /\ pendingPolicy \in Loadable
            => governing' = pendingPolicy
      /\ ~pendingSet => UNCHANGED loadVars
  BY <1>1, <1>2, FlushKeeps
<1>4. appliedRev' <= seenRev
  BY <1>1, <1>3 DEF Revisions
<1>5. Empty \notin Loadable
  BY SyncerAssumption
<1>6. RecordedGoverns'
  <2> SUFFICES ASSUME ~pendingSet', lastPolicy \in Loadable
               PROVE  governing' = lastPolicy
    BY DEF RecordedGoverns
  <2>1. CASE pendingSet
    BY <1>3, <1>5, <2>1 DEF SlotIsNewest
  <2>2. CASE ~pendingSet
    BY <1>3, <2>2 DEF RecordedGoverns, loadVars
  <2> QED BY <2>1, <2>2
<1>7. SlotIsNewest'
  BY <1>3 DEF SlotIsNewest, loadVars
<1> QED BY <1>3, <1>4, <1>6, <1>7

\* A response arrives, or the timer fires: the slot is flushed.
LEMMA FlushStepsKeep ==
    ASSUME SInv, Receive \/ TimerFires
    PROVE  SInv' /\ appliedRev' >= appliedRev
<1> USE DEF SInv
<1>1. /\ UNCHANGED <<log, nextRev, terminations, got, lastPolicy, closed, seenRev>>
      /\ flushPending(pendingSet, pendingPolicy, pendingRev)
  BY DEF Receive, TimerFires, etcdVars
<1>2. /\ RecordedGoverns' /\ SlotIsNewest'
      /\ UNCHANGED <<pendingPolicy, pendingRev>>
      /\ pendingSet' \in BOOLEAN /\ hot' \in BOOLEAN /\ governing' \in Loadable
      /\ appliedRev' \in Nat /\ appliedRev' >= appliedRev /\ appliedRev' <= seenRev
      /\ pendingSet' => pendingSet
  BY <1>1, SlotFlushKeeps
<1>3. /\ pc = "watching"
      /\ \/ pc' = "watching" /\ batchEnd' = batchEnd
         \/ pc' = "batch" /\ batchEnd' \in nextRev..Len(log)
  BY DEF Receive, TimerFires
<1>4. Len(log) \in Nat /\ nextRev \in Nat
  BY DEF TypeOK
<1>5. TypeOK'
  BY <1>1, <1>2, <1>3, <1>4 DEF TypeOK, Steps
<1>6. Revisions'
  BY <1>1, <1>2, <1>3, <1>4 DEF TypeOK, Revisions, Applying
<1> QED BY <1>2, <1>5, <1>6

\* A batch: the newest usable event is recorded, and it is queued or loaded unless
\* it was recorded before.
LEMMA BatchKeeps ==
    ASSUME SInv, ProcessEvents
    PROVE  SInv' /\ appliedRev' >= appliedRev
<1> USE DEF SInv
<1> DEFINE first == IF batchEnd - nextRev + 1 > MaxEvents THEN batchEnd ELSE nextRev
           usable == {r \in first..batchEnd : Usable(log[r])}
           changed == \E r \in usable : log[r] # lastPolicy
<1>1. /\ pc = "batch" /\ pc' = "watching" /\ nextRev' = batchEnd + 1
      /\ UNCHANGED <<log, terminations, got, batchEnd, closed>>
  BY DEF ProcessEvents
<1>2. /\ nextRev \in Nat /\ batchEnd \in Nat /\ seenRev \in Nat /\ Len(log) \in Nat
      /\ seenRev < nextRev /\ nextRev <= batchEnd /\ batchEnd <= Len(log)
      /\ appliedRev \in Nat /\ appliedRev <= seenRev
  BY <1>1 DEF TypeOK, Revisions
<1>3. first \in Nat /\ nextRev <= first /\ first <= batchEnd
  BY <1>2, SyncerAssumption
<1>4. \A r \in usable : /\ r \in Nat /\ nextRev <= r /\ r <= batchEnd
                        /\ log[r] \in Contents
  BY <1>2, <1>3 DEF TypeOK, Usable
<1> HIDE DEF first, usable, changed
<1>5. ASSUME flushPending(pendingSet, pendingPolicy, pendingRev), UNCHANGED lastPolicy,
             NEW s \in Nat, seenRev <= s, s <= batchEnd, seenRev' = s
      PROVE  SInv' /\ appliedRev' >= appliedRev
  <2>1. /\ RecordedGoverns' /\ SlotIsNewest'
        /\ UNCHANGED <<pendingPolicy, pendingRev>>
        /\ pendingSet' \in BOOLEAN /\ hot' \in BOOLEAN /\ governing' \in Loadable
        /\ appliedRev' \in Nat /\ appliedRev' >= appliedRev /\ appliedRev' <= seenRev
        /\ pendingSet' => pendingSet
    BY <1>5, SlotFlushKeeps
  <2>2. TypeOK'
    BY <1>1, <1>2, <1>5, <2>1 DEF TypeOK, Steps
  <2>3. Revisions'
    BY <1>1, <1>2, <1>5, <2>1 DEF TypeOK, Revisions, Applying
  <2> QED BY <2>1, <2>2, <2>3
<1>6. CASE usable = {} /\ flushPending(pendingSet, pendingPolicy, pendingRev)
           /\ UNCHANGED <<lastPolicy, seenRev>>
  BY <1>2, <1>5, <1>6
<1>7. ASSUME NEW last \in usable, lastPolicy' = log[last], seenRev' = last,
             IF changed THEN flushPending(TRUE, log[last], last)
                        ELSE flushPending(pendingSet, pendingPolicy, pendingRev)
      PROVE  SInv' /\ appliedRev' >= appliedRev
  <2>1. last \in Nat /\ seenRev <= last /\ appliedRev <= last /\ last <= batchEnd
        /\ log[last] \in Contents
    BY <1>2, <1>4
  <2>2. CASE ~changed
    <3>1. log[last] = lastPolicy
      BY <2>2 DEF changed
    <3> QED BY <1>5, <1>7, <2>1, <2>2, <3>1
  <2>3. CASE changed
    <3>1. flushPending(TRUE, log[last], last)
      BY <1>7, <2>3
    <3>2. hot \in BOOLEAN /\ governing \in Loadable
      BY DEF TypeOK
    <3>3. /\ appliedRev' \in Nat /\ appliedRev' >= appliedRev
          /\ appliedRev' \in {last, appliedRev}
          /\ governing' \in Loadable
          /\ pendingSet' \in BOOLEAN /\ hot' \in BOOLEAN
          /\ pendingPolicy' = log[last] /\ pendingRev' = last
          /\ pendingSet' => UNCHANGED loadVars
          /\ ~pendingSet' /\ log[last] \in Loadable => governing' = log[last]
      BY <1>2, <2>1, <3>1, <3>2, FlushKeeps
    <3>4. TypeOK'
      BY <1>1, <1>2, <1>7, <2>1, <3>3 DEF TypeOK, Steps
    <3>5. Revisions'
      BY <1>1, <1>2, <1>7, <2>1, <3>3 DEF TypeOK, Revisions, Applying
    <3>6. RecordedGoverns'
      BY <1>7, <3>3 DEF RecordedGoverns
    <3>7. SlotIsNewest'
      BY <1>7, <2>1, <3>3 DEF SlotIsNewest
    <3> QED BY <3>3, <3>4, <3>5, <3>6, <3>7
  <2> QED BY <2>2, <2>3
<1> QED BY <1>6, <1>7 DEF ProcessEvents, usable, first, changed

\* Every step keeps the invariant and the revision that governs.
LEMMA SyncerKeeps ==
    ASSUME SInv, [Next]_vars
    PROVE  SInv' /\ appliedRev' >= appliedRev
<1>1. appliedRev \in Nat
  BY DEF SInv, TypeOK
<1>2. CASE UNCHANGED vars
  <2>1. UNCHANGED <<log, nextRev, terminations, pc, got, batchEnd, lastPolicy, pendingSet,
                    pendingPolicy, pendingRev, hot, closed, governing, appliedRev, seenRev>>
    BY <1>2 DEF vars, etcdVars, slotVars, loadVars
  <2>2. TypeOK' /\ Revisions'
    BY <2>1 DEF SInv, TypeOK, Revisions, Applying, Usable
  <2>3. RecordedGoverns' /\ SlotIsNewest'
    BY <2>1, FrameKeeps DEF SInv, slotVars, loadVars
  <2> QED BY <1>1, <2>1, <2>2, <2>3 DEF SInv
<1>3. ASSUME NEW c \in Contents \cup {Deleted}, Put(c)
      PROVE  SInv' /\ appliedRev' >= appliedRev
  BY <1>1, <1>3, PutKeeps
<1>4. CASE Get
  BY <1>1, <1>4, GetKeeps
<1>5. CASE Start
  BY <1>5, StartKeeps
<1>6. CASE Resync
  BY <1>6, ResyncKeeps
<1>7. CASE Receive \/ TimerFires
  BY <1>7, FlushStepsKeep
<1>8. CASE ProcessEvents
  BY <1>8, BatchKeeps
<1>9. CASE Reconnect \/ Watch \/ StreamEnds \/ WindowElapses \/ Close \/ Stop
  BY <1>1, <1>9, WatchKeeps
<1> QED
  BY <1>2, <1>3, <1>4, <1>5, <1>6, <1>7, <1>8, <1>9 DEF Next, SyncerStep

-----------------------------------------------------------------------------
(* Theorems.                                                                *)

\* The invariant, and with it that the slot never holds a policy older than the
\* governing one, for any number of revisions and terminated streams.
THEOREM SyncerInvariant == Spec => []SInv
<1>1. SInv /\ [Next]_vars => SInv'
  BY SyncerKeeps
<1> QED BY <1>1, SyncerStarts, PTL DEF Spec

\* When nothing is queued, the last policy that the dedupe recorded governs.
THEOREM SyncerRecordedGoverns == Spec => []RecordedGoverns
<1>1. SInv => RecordedGoverns
  BY DEF SInv
<1> QED BY <1>1, SyncerInvariant, PTL

\* The syncer never replaces a policy by one of an older revision.
THEOREM SyncerNeverRegresses == Spec => NeverRegresses
<1>1. SInv /\ [Next]_vars => [appliedRev' >= appliedRev]_vars
  BY SyncerKeeps
<1> QED BY <1>1, SyncerInvariant, PTL DEF Spec, NeverRegresses

-----------------------------------------------------------------------------
(* The syncer beside the poller of the policy file.                         *)

\* Until the first edit the poller has the mtime of the file it was seeded with,
\* so it never leaves its sleep and the syncer is alone.
PlaneInv ==
    /\ edits \in Nat
    /\ edits = 0 => /\ SInv
                    /\ fpc = "sleep"
                    /\ file.mod \in Nat /\ lastMod = file.mod

LEMMA PlaneStarts == PlaneInit => PlaneInv
<1> SUFFICES ASSUME PlaneInit PROVE PlaneInv
  OBVIOUS
<1>1. SInv
  BY SyncerStarts DEF PlaneInit
<1>2. edits = 0 /\ fpc = "sleep" /\ file = [content |-> BootPolicy, mod |-> MaxEdits]
      /\ lastMod = file.mod
  BY DEF PlaneInit
<1> QED BY <1>1, <1>2, PlaneAssumption DEF PlaneInv

\* A poll before the first edit finds no newer file.
LEMMA PollerSleeps == PlaneInv /\ edits = 0 => ~StatFile /\ ~ReadFile /\ ~LoadFile
BY DEF PlaneInv, StatFile, ReadFile, LoadFile

LEMMA PlaneKeeps == PlaneInv /\ [PlaneNext]_planeVars => PlaneInv'
<1> SUFFICES ASSUME PlaneInv, [PlaneNext]_planeVars PROVE PlaneInv'
  OBVIOUS
<1>1. ASSUME [Next]_vars, UNCHANGED fileVars PROVE PlaneInv'
  <2>1. UNCHANGED <<file, lastMod, fpc, edits>>
    BY <1>1 DEF fileVars
  <2>2. edits = 0 => SInv'
    BY <1>1, SyncerKeeps DEF PlaneInv
  <2> QED BY <2>1, <2>2 DEF PlaneInv
<1>2. CASE UNCHANGED planeVars
  BY <1>1, <1>2 DEF planeVars
<1>3. CASE /\ \/ \E c \in Contents \cup {Deleted} : Put(c)
              \/ SyncerStep \/ StreamEnds \/ WindowElapses
           /\ UNCHANGED fileVars
  BY <1>1, <1>3 DEF Next
<1>4. CASE \E c \in Contents \cup {Deleted}, t \in (file.mod - 1)..(file.mod + 1) : Edit(c, t)
  <2>1. edits' = edits + 1
    BY <1>4 DEF Edit
  <2>2. edits' \in Nat /\ edits' # 0
    BY <2>1 DEF PlaneInv
  <2> QED BY <2>2 DEF PlaneInv
<1>5. CASE StatFile \/ ReadFile \/ LoadFile
  <2>1. edits # 0
    BY <1>5, PollerSleeps
  <2>2. edits' = edits
    BY <1>5 DEF StatFile, ReadFile, LoadFile
  <2> QED BY <2>1, <2>2 DEF PlaneInv
<1> QED BY <1>2, <1>3, <1>4, <1>5 DEF PlaneNext

\* Started from a file that nobody edits, the poller never overrules etcd: the
\* policy recorded last governs (main seeds the poller with the mtime of the file
\* it booted from).
THEOREM PlaneUntouchedFileYields == PlaneSpec => []UntouchedFileYields
<1>1. PlaneInv => UntouchedFileYields
  BY DEF PlaneInv, SInv, UntouchedFileYields
<1> QED BY <1>1, PlaneStarts, PlaneKeeps, PTL DEF PlaneSpec

=============================================================================
