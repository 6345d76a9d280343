-------------------------- MODULE PeripheryProofs ---------------------------
(***************************************************************************)
(* The layer-2 filter, the capture writer, the rate limiter, the alert router *)
(* and the packet parser, each on its own, for any number of addresses, files, *)
(* packets, ticks and restarts.  The threat-intelligence list and the audit log *)
(* are in IntelAuditProofs.                                                 *)
(***************************************************************************)
EXTENDS PacketParser, RateLimit, L2Filter, Capture, Alert, FiniteSetTheorems, TLAPS

-----------------------------------------------------------------------------
(* The layer-2 filter.                                                     *)

\* What survives of the table when key is written: key has its room, and all
\* other keys but the evicted one stay.
LEMMA RoomKept ==
    ASSUME NEW key, NEW kept \in RoomFor(key)
    PROVE  /\ kept \subseteq DOMAIN arpTable
           /\ key \in DOMAIN arpTable => key \notin Evicted(kept)
           /\ \A a \in DOMAIN arpTable : a \notin Evicted(kept) => a \in kept
  BY DEF RoomFor, Evicted

LEMMA ClaimantsKept == OneClaimantPerBinding /\ [L2Next]_l2Vars => OneClaimantPerBinding'
<1> SUFFICES ASSUME OneClaimantPerBinding, [L2Next]_l2Vars
             PROVE  OneClaimantPerBinding'
  OBVIOUS
<1>1. ASSUME NEW ip \in Claimed, NEW mac \in MACs, RecordDHCP(ip, mac)
      PROVE  OneClaimantPerBinding'
  <2> DEFINE key == normalizeIPKey[ip]
             norm == normalizeMAC[mac]
  <2>1. PICK kept \in RoomFor(key) :
          /\ Bind(key, norm, kept)
          /\ accepted' = [a \in Claimed |->
                             IF a = key \/ a \in Evicted(kept) THEN {} ELSE accepted[a]]
    BY <1>1 DEF RecordDHCP
  <2>2. SUFFICES ASSUME NEW a \in Claimed, accepted'[a] # {}
                 PROVE  a \in DOMAIN arpTable' /\ accepted'[a] = {arpTable'[a]}
    BY DEF OneClaimantPerBinding
  <2>3. a # key /\ a \notin Evicted(kept) /\ accepted'[a] = accepted[a]
    BY <2>1, <2>2
  <2>4. a \in DOMAIN arpTable /\ accepted[a] = {arpTable[a]} /\ a \in kept
    BY <2>2, <2>3, RoomKept DEF OneClaimantPerBinding
  <2> QED BY <2>1, <2>3, <2>4 DEF Bind
<1>2. ASSUME NEW ip \in Claimed, NEW mac \in MACs, CheckARP(ip, mac)
      PROVE  OneClaimantPerBinding'
  <2> DEFINE key == normalizeIPKey[ip]
             norm == normalizeMAC[mac]
  <2>1. PICK kept \in RoomFor(key) :
          /\ Bind(key, norm, kept)
          /\ accepted' = [a \in Claimed |->
                             CASE a = key -> accepted[a] \cup {norm}
                               [] a \in Evicted(kept) -> {}
                               [] OTHER -> accepted[a]]
    BY <1>2 DEF CheckARP
  <2>2. key \in DOMAIN arpTable => arpTable[key] = norm
    BY <1>2 DEF CheckARP
  <2>3. SUFFICES ASSUME NEW a \in Claimed, accepted'[a] # {}
                 PROVE  a \in DOMAIN arpTable' /\ accepted'[a] = {arpTable'[a]}
    BY DEF OneClaimantPerBinding
  <2>4. CASE a = key
    <3>1. accepted'[a] = accepted[a] \cup {norm}
      <4>1. a \notin Evicted(kept)
        BY <2>4, RoomKept DEF Evicted
      <4> QED BY <2>1, <2>4, <4>1
    <3>2. accepted[a] \subseteq {norm}
      BY <2>2, <2>4 DEF OneClaimantPerBinding
    <3>3. a \in DOMAIN arpTable' /\ arpTable'[a] = norm
      BY <2>1, <2>4 DEF Bind
    <3> QED BY <3>1, <3>2, <3>3
  <2>5. CASE a # key
    <3>1. a \notin Evicted(kept) /\ accepted'[a] = accepted[a]
      BY <2>1, <2>3, <2>5
    <3>2. a \in DOMAIN arpTable /\ accepted[a] = {arpTable[a]} /\ a \in kept
      BY <2>3, <3>1, RoomKept DEF OneClaimantPerBinding
    <3> QED BY <2>1, <2>5, <3>1, <3>2 DEF Bind
  <2> QED BY <2>4, <2>5
<1>3. CASE UNCHANGED l2Vars
  BY <1>3 DEF l2Vars, OneClaimantPerBinding
<1> QED BY <1>1, <1>2, <1>3 DEF L2Next

\* Between two writes of a binding CheckARP accepts at most one MAC for the address,
\* under all its spellings, for a table of any size (CheckARP, RecordDHCP).
THEOREM FilterOneClaimant == L2Spec => []OneClaimantPerBinding
<1>1. L2Init => OneClaimantPerBinding
  BY DEF L2Init, OneClaimantPerBinding
<1> QED BY <1>1, ClaimantsKept, PTL DEF L2Spec

-----------------------------------------------------------------------------
(* The capture writer.                                                     *)

\* No file is newer than the last rotation, and the open one is of that rotation.
CaptureInv ==
    /\ curFileN \in Nat /\ pcapStamp \in Nat
    /\ \A n \in DOMAIN pcapFiles : pcapFiles[n] \in Nat /\ pcapFiles[n] <= pcapStamp
    /\ curFile => curFileN \in DOMAIN pcapFiles /\ pcapFiles[curFileN] = pcapStamp

\* A clean-up only removes files, and never the one that was just made.
LEMMA CleanupKeeps ==
    ASSUME NEW dir, NEW n \in Nat, NEW outcome \in CleanupOutcomes, n \in DOMAIN dir
    PROVE  LET left == cleanupLocked(dir, n, outcome)
           IN  /\ DOMAIN left \subseteq DOMAIN dir
               /\ \A i \in DOMAIN left : left[i] = dir[i]
               /\ n \in DOMAIN left
<1> DEFINE indexed == IF n > MaxFiles THEN Without(dir, {n - MaxFiles}) ELSE dir
<1>1. n - MaxFiles # n
  BY CaptureConstants
<1>2. /\ DOMAIN indexed \subseteq DOMAIN dir /\ n \in DOMAIN indexed
      /\ \A i \in DOMAIN indexed : indexed[i] = dir[i]
  BY <1>1 DEF Without, Restrict
<1>3. n \notin ExpiredByScan(indexed, n)
  BY DEF ExpiredByScan, Lowest
<1>4. CASE outcome = "done"
  <2>1. cleanupLocked(dir, n, outcome) = Without(indexed, ExpiredByScan(indexed, n))
    BY <1>4 DEF cleanupLocked
  <2> HIDE DEF indexed
  <2> QED BY <1>2, <1>3, <2>1 DEF Without, Restrict
<1>5. CASE outcome = "unscanned"
  <2>1. cleanupLocked(dir, n, outcome) = indexed
    BY <1>5 DEF cleanupLocked
  <2> HIDE DEF indexed
  <2> QED BY <1>2, <2>1
<1>6. CASE outcome = "readonly"
  <2>1. cleanupLocked(dir, n, outcome) = dir
    BY <1>6 DEF cleanupLocked
  <2> QED BY <2>1
<1> QED BY <1>4, <1>5, <1>6 DEF CleanupOutcomes

LEMMA CreatedFiles ==
    ASSUME CaptureInv, NEW n \in Nat
    PROVE  /\ n \in DOMAIN Created(n) /\ Created(n)[n] = pcapStamp + 1
           /\ \A i \in DOMAIN Created(n) :
                 Created(n)[i] \in Nat /\ Created(n)[i] <= pcapStamp + 1
  BY DEF CaptureInv, Created

LEMMA CaptureKeeps == CaptureInv /\ [CaptureNext]_captureVars => CaptureInv'
<1> SUFFICES ASSUME CaptureInv, [CaptureNext]_captureVars PROVE CaptureInv'
  OBVIOUS
<1> DEFINE n == curFileN + 1
<1>0. n \in Nat /\ pcapStamp \in Nat
  BY DEF CaptureInv
<1>1. CASE WriteBlock
  BY <1>1 DEF CaptureInv, WriteBlock
<1>2. ASSUME NEW outcome \in CleanupOutcomes, RotateAndWrite(outcome)
      PROVE  CaptureInv'
  <2>1. /\ curFileN' = n /\ pcapStamp' = pcapStamp + 1
        /\ pcapFiles' = cleanupLocked(Created(n), n, outcome)
    BY <1>2 DEF RotateAndWrite
  <2>2. /\ DOMAIN pcapFiles' \subseteq DOMAIN Created(n) /\ n \in DOMAIN pcapFiles'
        /\ \A i \in DOMAIN pcapFiles' : pcapFiles'[i] = Created(n)[i]
    BY <1>0, <2>1, CreatedFiles, CleanupKeeps
  <2> HIDE DEF n
  <2> QED BY <1>0, <2>1, <2>2, CreatedFiles DEF CaptureInv
<1>3. ASSUME NEW created \in BOOLEAN, RotateFails(created)
      PROVE  CaptureInv'
  <2>1. /\ ~curFile' /\ curFileN' = n /\ pcapStamp' = pcapStamp + 1
        /\ pcapFiles' = Created(n) \/ pcapFiles' = pcapFiles
    BY <1>3 DEF RotateFails
  <2> HIDE DEF n
  <2> QED BY <1>0, <2>1, CreatedFiles DEF CaptureInv
<1>4. CASE PcapClose
  BY <1>4 DEF CaptureInv, PcapClose
<1>5. CASE PcapRestart
  BY <1>5 DEF CaptureInv, PcapRestart
<1>6. CASE UNCHANGED captureVars
  BY <1>6 DEF CaptureInv, captureVars
<1> QED BY <1>1, <1>2, <1>3, <1>4, <1>5, <1>6 DEF CaptureNext

\* The file being written is in the directory and is its newest, through any failed
\* rotation, failed clean-up and restart (rotate, cleanupLocked).
THEOREM CaptureOpenFileKept == CaptureSpec => []OpenFileKept
<1>1. CaptureInit => CaptureInv
  BY DEF CaptureInit, CaptureInv
<1>2. CaptureInv => OpenFileKept
  BY DEF CaptureInv, OpenFileKept
<1> QED BY <1>1, <1>2, CaptureKeeps, PTL DEF CaptureSpec

\* A set of natural numbers that is not empty has a least element.
LEMMA LeastOf ==
    ASSUME NEW S \in SUBSET Nat, S # {}
    PROVE  \E x \in S : \A y \in S : x <= y
<1> DEFINE R == OpToRel(<, Nat)
<1>1. IsWellFoundedOn(R, Nat)
  BY NatLessThanWellFounded
<1>2. \A x, y \in Nat : y < x => <<y, x>> \in R
  BY DEF OpToRel
<1> HIDE DEF R
<1>3. \E x \in S : \A y \in S : ~(<<y, x>> \in R)
  BY <1>1, WFMin
<1>4. PICK x \in S : \A y \in S : ~(<<y, x>> \in R)
  BY <1>3
<1>5. \A y \in S : x \in Nat /\ y \in Nat /\ ~(y < x)
  BY <1>2, <1>4
<1>6. \A y \in S : x <= y
  BY <1>5
<1> QED BY <1>6

\* The scan finds as many names as it is to remove: were there fewer, the least of
\* the names left over would have been among them (cleanupLocked).
LEMMA LowestSuffices ==
    ASSUME NEW S \in SUBSET Nat, IsFiniteSet(S), NEW k \in Nat, k <= Cardinality(S)
    PROVE  /\ IsFiniteSet(Lowest(S, k)) /\ Lowest(S, k) \subseteq S
           /\ Cardinality(Lowest(S, k)) \in Nat /\ Cardinality(Lowest(S, k)) >= k
<1> DEFINE L == Lowest(S, k)
           Below(x) == {j \in S : j < x}
<1>1. L \subseteq S /\ IsFiniteSet(L) /\ Cardinality(L) \in Nat /\ Cardinality(S) \in Nat
  <2>1. L \subseteq S
    BY DEF Lowest
  <2> HIDE DEF L
  <2> QED BY <2>1, FS_Subset, FS_CardinalityType
<1>2. \A x \in S : x \in L <=> Cardinality(Below(x)) < k
  BY DEF Lowest
<1> HIDE DEF L
<1>3. ASSUME Cardinality(L) < k PROVE FALSE
  <2>1. S \ L # {}
    <3>1. L # S
      BY <1>1, <1>3
    <3> QED BY <1>1, <3>1
  <2>2. PICK x \in S \ L : \A y \in S \ L : x <= y
    BY <2>1, LeastOf
  <2>3. Below(x) \subseteq L
    <3>1. \A j \in S : j < x => ~(x <= j)
      OBVIOUS
    <3> QED BY <2>2, <3>1
  <2> HIDE DEF Below
  <2>4. Cardinality(Below(x)) \in Nat /\ Cardinality(Below(x)) <= Cardinality(L)
    BY <1>1, <2>3, FS_Subset, FS_CardinalityType
  <2>5. Cardinality(Below(x)) < k
    BY <1>1, <1>3, <2>4
  <2> QED BY <1>2, <2>2, <2>5
<1> QED BY <1>1, <1>3 DEF L

\* A clean-up that runs to its end leaves at most MaxFiles files.
LEMMA ScanLeavesMaxFiles ==
    ASSUME NEW dir, NEW n \in DOMAIN dir, IsFiniteSet(DOMAIN dir), DOMAIN dir \subseteq Nat
    PROVE  LET left == Without(dir, ExpiredByScan(dir, n))
           IN  IsFiniteSet(DOMAIN left) /\ Cardinality(DOMAIN left) <= MaxFiles
<1> DEFINE D == DOMAIN dir
           S == D \ {n}
           c == Cardinality(D)
           gone == ExpiredByScan(dir, n)
<1>1. gone = Lowest(S, c - MaxFiles) /\ DOMAIN Without(dir, gone) = D \ gone
  BY DEF ExpiredByScan, Without, Restrict
<1>2. /\ IsFiniteSet(D) /\ c \in Nat /\ MaxFiles \in Nat \ {0}
      /\ D \subseteq Nat /\ n \in D
  BY FS_CardinalityType, CaptureConstants
<1>3. IsFiniteSet(S) /\ Cardinality(S) = c - 1 /\ S \subseteq Nat /\ S \subseteq D
  <2> HIDE DEF D
  <2> QED BY <1>2, FS_RemoveElement
<1> HIDE DEF D, gone, S
<1>4. CASE c <= MaxFiles
  <2>1. D \ gone \subseteq D
    OBVIOUS
  <2>2. IsFiniteSet(D \ gone) /\ Cardinality(D \ gone) <= c /\ Cardinality(D \ gone) \in Nat
    BY <1>2, <2>1, FS_Subset, FS_CardinalityType
  <2> HIDE DEF c
  <2> QED BY <1>1, <1>2, <1>4, <2>2 DEF gone
<1>5. CASE c > MaxFiles
  <2> HIDE DEF c
  <2>1. PICK k \in Nat : k = c - MaxFiles
    BY <1>2, <1>5
  <2>2. k <= Cardinality(S)
    BY <1>2, <1>3, <1>5, <2>1
  <2>3. /\ IsFiniteSet(gone) /\ gone \subseteq S
        /\ Cardinality(gone) \in Nat /\ Cardinality(gone) >= k
    BY <1>1, <1>3, <2>1, <2>2, LowestSuffices
  <2>4. gone = D \cap gone
    BY <1>3, <2>3
  <2>5. IsFiniteSet(D \ gone) /\ Cardinality(D \ gone) = c - Cardinality(gone)
    BY <1>2, <2>4, FS_Difference DEF c
  <2>6. Cardinality(D \ gone) <= MaxFiles
    BY <1>2, <2>1, <2>3, <2>5
  <2> QED BY <1>1, <2>5, <2>6 DEF gone
<1> QED BY <1>2, <1>4, <1>5

\* A finite directory, at most MaxFiles files and those made since a clean-up ran
\* to its end.
RetentionInv ==
    /\ curFileN \in Nat /\ pcapMisses \in Nat
    /\ IsFiniteSet(DOMAIN pcapFiles) /\ DOMAIN pcapFiles \subseteq Nat
    /\ CapturesBounded

\* A rotation makes at most one file.
LEMMA CreatedOne ==
    ASSUME RetentionInv, NEW n \in Nat
    PROVE  /\ IsFiniteSet(DOMAIN Created(n)) /\ DOMAIN Created(n) \subseteq Nat
           /\ n \in DOMAIN Created(n)
           /\ Cardinality(DOMAIN Created(n)) \in Nat
           /\ Cardinality(DOMAIN Created(n)) <= MaxFiles + (pcapMisses + 1)
<1> DEFINE D == DOMAIN pcapFiles
<1>1. DOMAIN Created(n) = D \cup {n}
  BY DEF Created
<1>2. /\ IsFiniteSet(D) /\ Cardinality(D) \in Nat /\ D \subseteq Nat
      /\ Cardinality(D) <= MaxFiles + pcapMisses
      /\ MaxFiles \in Nat /\ pcapMisses \in Nat
  BY FS_CardinalityType, CaptureConstants DEF RetentionInv, CapturesBounded
<1> HIDE DEF D
<1>3. /\ IsFiniteSet(D \cup {n})
      /\ Cardinality(D \cup {n}) = (IF n \in D THEN Cardinality(D) ELSE Cardinality(D) + 1)
  BY <1>2, FS_AddElement
<1>4. Cardinality(D \cup {n}) \in Nat /\ Cardinality(D \cup {n}) <= MaxFiles + (pcapMisses + 1)
  BY <1>2, <1>3
<1> QED BY <1>1, <1>2, <1>3, <1>4

\* What a clean-up leaves of a directory: a complete one MaxFiles files.
LEMMA CleanupBounds ==
    ASSUME NEW dir, NEW n \in Nat, NEW outcome \in CleanupOutcomes, n \in DOMAIN dir,
           IsFiniteSet(DOMAIN dir), DOMAIN dir \subseteq Nat
    PROVE  LET left == cleanupLocked(dir, n, outcome)
           IN  /\ IsFiniteSet(DOMAIN left) /\ DOMAIN left \subseteq DOMAIN dir
               /\ outcome = "done" => Cardinality(DOMAIN left) <= MaxFiles
<1> DEFINE indexed == IF n > MaxFiles THEN Without(dir, {n - MaxFiles}) ELSE dir
           left == cleanupLocked(dir, n, outcome)
<1>1. n - MaxFiles # n
  BY CaptureConstants
<1>2. DOMAIN indexed \subseteq DOMAIN dir /\ n \in DOMAIN indexed
  BY <1>1 DEF Without, Restrict
<1> HIDE DEF indexed
<1>3. IsFiniteSet(DOMAIN indexed) /\ DOMAIN indexed \subseteq Nat
  BY <1>2, FS_Subset
<1>4. CASE outcome = "done"
  <2>1. left = Without(indexed, ExpiredByScan(indexed, n))
    BY <1>4 DEF cleanupLocked, indexed
  <2>2. DOMAIN left \subseteq DOMAIN indexed
    BY <2>1 DEF Without, Restrict
  <2>3. IsFiniteSet(DOMAIN left) /\ Cardinality(DOMAIN left) <= MaxFiles
    BY <1>2, <1>3, <2>1, ScanLeavesMaxFiles
  <2> QED BY <1>2, <2>2, <2>3
<1>5. CASE outcome # "done"
  <2>1. left = indexed \/ left = dir
    BY <1>5 DEF cleanupLocked, CleanupOutcomes, indexed
  <2> QED BY <1>2, <1>3, <1>5, <2>1
<1> QED BY <1>4, <1>5

LEMMA RetentionKept == RetentionInv /\ [CaptureNext]_captureVars => RetentionInv'
<1> SUFFICES ASSUME RetentionInv, [CaptureNext]_captureVars PROVE RetentionInv'
  OBVIOUS
<1>0. PICK n \in Nat : n = curFileN + 1
  BY DEF RetentionInv
<1>1. ASSUME NEW outcome \in CleanupOutcomes, RotateAndWrite(outcome)
      PROVE  RetentionInv'
  <2>1. /\ curFileN' = n /\ pcapFiles' = cleanupLocked(Created(n), n, outcome)
        /\ pcapMisses' = (IF outcome = "done" THEN 0 ELSE pcapMisses + 1)
    BY <1>0, <1>1 DEF RotateAndWrite
  <2>2. /\ IsFiniteSet(DOMAIN Created(n)) /\ DOMAIN Created(n) \subseteq Nat
        /\ n \in DOMAIN Created(n) /\ Cardinality(DOMAIN Created(n)) \in Nat
        /\ Cardinality(DOMAIN Created(n)) <= MaxFiles + (pcapMisses + 1)
    BY CreatedOne
  <2>3. /\ IsFiniteSet(DOMAIN pcapFiles') /\ DOMAIN pcapFiles' \subseteq DOMAIN Created(n)
        /\ outcome = "done" => Cardinality(DOMAIN pcapFiles') <= MaxFiles
    BY <2>1, <2>2, CleanupBounds
  <2>4. /\ Cardinality(DOMAIN pcapFiles') \in Nat
        /\ Cardinality(DOMAIN pcapFiles') <= Cardinality(DOMAIN Created(n))
    BY <2>2, <2>3, FS_Subset, FS_CardinalityType
  <2>5. pcapMisses \in Nat /\ MaxFiles \in Nat
    BY CaptureConstants DEF RetentionInv
  <2>6. Cardinality(DOMAIN pcapFiles') <= MaxFiles + pcapMisses'
    BY <2>1, <2>2, <2>3, <2>4, <2>5
  <2> QED BY <2>1, <2>2, <2>3, <2>5, <2>6 DEF RetentionInv, CapturesBounded
<1>2. ASSUME NEW created \in BOOLEAN, RotateFails(created)
      PROVE  RetentionInv'
  <2>1. CASE created
    <3>1. curFileN' = n /\ pcapFiles' = Created(n) /\ pcapMisses' = pcapMisses + 1
      BY <1>0, <1>2, <2>1 DEF RotateFails
    <3>2. pcapMisses' \in Nat
      BY <3>1 DEF RetentionInv
    <3> QED BY <3>1, <3>2, CreatedOne DEF RetentionInv, CapturesBounded
  <2>2. CASE ~created
    <3>1. curFileN' = n /\ UNCHANGED <<pcapFiles, pcapMisses>>
      BY <1>0, <1>2, <2>2 DEF RotateFails
    <3> QED BY <3>1 DEF RetentionInv, CapturesBounded
  <2> QED BY <2>1, <2>2
<1>3. CASE WriteBlock \/ PcapClose \/ PcapRestart \/ UNCHANGED captureVars
  <2>1. /\ UNCHANGED <<pcapFiles, pcapMisses>> /\ (curFileN' = curFileN \/ curFileN' = 0)
    BY <1>3 DEF WriteBlock, PcapClose, PcapRestart, captureVars
  <2> QED BY <2>1 DEF RetentionInv, CapturesBounded
<1> QED BY <1>1, <1>2, <1>3 DEF CaptureNext

\* Beyond MaxFiles the directory holds at most the files made since a clean-up last
\* ran to its end, for every cap and through any failures and restarts
\* (cleanupLocked).
THEOREM CaptureRetentionBounded == CaptureSpec => []CapturesBounded
<1>1. CaptureInit => RetentionInv
  <2>1. IsFiniteSet({}) /\ Cardinality({}) = 0
    BY FS_EmptySet
  <2>2. CaptureInit => DOMAIN pcapFiles = {} /\ curFileN = 0 /\ pcapMisses = 0
    BY DEF CaptureInit
  <2> QED BY <2>1, <2>2, CaptureConstants DEF RetentionInv, CapturesBounded
<1>2. RetentionInv => CapturesBounded
  BY DEF RetentionInv
<1> QED BY <1>1, <1>2, RetentionKept, PTL DEF CaptureSpec

-----------------------------------------------------------------------------
(* The rate limiter.                                                       *)

\* A bucket's rate is covered by the gaps between the packets of its key.
Covered(pps, gaps) ==
    \/ pps <= PerSecond
    \/ \E g \in gaps : pps * Span(g) <= PerSecond * TicksPerSecond

\* A bucket, and what is known of the packets of its key.
Rated(b, a) ==
    /\ b \in [pps : Nat, lastTime : Nat]
    /\ a.last = b.lastTime
    /\ Covered(b.pps, a.gaps)

\* Gaps are differences of times.
Differences(gaps) == gaps \subseteq Int
GapsInv ==
    /\ now \in Nat
    /\ \A k \in DOMAIN arrivals : arrivals[k].last \in Nat /\ Differences(arrivals[k].gaps)

\* The limiter's invariant: no bucket is rated too fast, its last packet is the
\* last of its key, and there are as few buckets as the cap says.
RateInv ==
    /\ now \in Nat
    /\ \A k \in DOMAIN buckets : k \in DOMAIN arrivals /\ Rated(buckets[k], arrivals[k])
    /\ IsFiniteSet(DOMAIN buckets) /\ Cardinality(DOMAIN buckets) <= MaxEntries

LEMMA RateNaturals ==
    /\ MaxEntries \in Nat \ {0} /\ EvictionSampleSize \in Nat \ {0}
    /\ TicksPerSecond \in Nat \ {0} /\ ClampTicks \in Nat \ {0}
  BY RateLimitConstants

LEMMA DivTimes == ASSUME NEW a \in Nat, NEW d \in Nat \ {0}
                  PROVE  a \div d \in Nat /\ (a \div d) * d <= a
  OBVIOUS

LEMMA LessTimes == ASSUME NEW a \in Nat, NEW b \in Nat, NEW d \in Nat, a <= b
                   PROVE  a * d <= b * d
  OBVIOUS

\* The instantaneous rate is a natural number, whatever the clock did, and what the
\* time between the packets allows.
LEMMA InstIsCovered ==
    ASSUME NEW dt \in Int
    PROVE  /\ InstPPS(dt) \in Nat /\ Span(dt) \in Nat
           /\ InstPPS(dt) * Span(dt) <= PerSecond * TicksPerSecond
<1>1. PerSecond * TicksPerSecond \in Nat
  BY RateNaturals DEF PerSecond
<1>2. Span(dt) \in Nat \ {0}
  BY RateNaturals DEF Span
<1> QED BY <1>1, <1>2, DivTimes DEF InstPPS

\* The smoothed rate is not above both of the two it mixes.
LEMMA SmoothedBetween ==
    ASSUME NEW inst \in Nat, NEW pps \in Nat
    PROVE  /\ Smoothed(inst, pps) \in Nat
           /\ Smoothed(inst, pps) <= inst \/ Smoothed(inst, pps) <= pps
  BY DEF Smoothed

\* A rate that fell is still covered, and so is it by more gaps.
LEMMA CoveredBelow ==
    ASSUME NEW x \in Nat, NEW y \in Nat, x <= y, NEW gaps, NEW more,
           gaps \subseteq more, gaps \subseteq Int, Covered(y, gaps)
    PROVE  Covered(x, more)
<1>1. CASE y <= PerSecond
  BY <1>1 DEF Covered, PerSecond
<1>2. CASE \E g \in gaps : y * Span(g) <= PerSecond * TicksPerSecond
  <2>1. PICK g \in gaps : y * Span(g) <= PerSecond * TicksPerSecond
    BY <1>2
  <2>2. Span(g) \in Nat /\ PerSecond * TicksPerSecond \in Nat
    BY InstIsCovered, RateNaturals DEF PerSecond
  <2>3. x * Span(g) <= y * Span(g) /\ x * Span(g) \in Nat /\ y * Span(g) \in Nat
    BY <2>2, LessTimes
  <2>4. x * Span(g) <= PerSecond * TicksPerSecond
    BY <2>1, <2>2, <2>3
  <2> QED BY <2>1, <2>4 DEF Covered
<1> QED BY <1>1, <1>2 DEF Covered

\* The rate after a packet that came dt after the last one of its key.
LEMMA SmoothedCovered ==
    ASSUME NEW pps \in Nat, NEW gaps, Differences(gaps), NEW dt \in Int, Covered(pps, gaps)
    PROVE  /\ Smoothed(InstPPS(dt), pps) \in Nat
           /\ Covered(Smoothed(InstPPS(dt), pps), gaps \cup {dt})
<1> DEFINE inst == InstPPS(dt)
           new == Smoothed(inst, pps)
<1>1. inst \in Nat /\ inst * Span(dt) <= PerSecond * TicksPerSecond
  BY InstIsCovered
<1> HIDE DEF inst
<1>2. new \in Nat /\ (new <= inst \/ new <= pps)
  BY <1>1, SmoothedBetween
<1> HIDE DEF new
<1>3. CASE new <= inst
  <2>1. Covered(inst, {dt})
    BY <1>1 DEF Covered
  <2>2. {dt} \subseteq gaps \cup {dt} /\ {dt} \subseteq Int
    OBVIOUS
  <2>3. Covered(new, gaps \cup {dt})
    BY <1>1, <1>2, <1>3, <2>1, <2>2, CoveredBelow
  <2> QED BY <1>2, <2>3 DEF new, inst
<1>4. CASE new <= pps
  <2>1. gaps \subseteq gaps \cup {dt} /\ gaps \subseteq Int
    BY DEF Differences
  <2>2. Covered(new, gaps \cup {dt})
    BY <1>2, <1>4, <2>1, CoveredBelow
  <2> QED BY <1>2, <2>2 DEF new, inst
<1> QED BY <1>2, <1>3, <1>4

\* A packet leaves its bucket covered (updateBucket).
LEMMA UpdateKeeps ==
    ASSUME now \in Nat, NEW b, NEW a, NEW c, Rated(b, a), Differences(a.gaps),
           c.last = now, c.gaps = a.gaps \cup {now - a.last}
    PROVE  Rated(updateBucket(b), c)
<1>0. b.pps \in Nat /\ b.lastTime \in Nat /\ a.last = b.lastTime /\ Covered(b.pps, a.gaps)
      /\ now - b.lastTime \in Int
  BY DEF Rated
<1> DEFINE pps == IF b.pps = 0 THEN PerSecond ELSE Smoothed(InstPPS(now - b.lastTime), b.pps)
<1>1. updateBucket(b) = [pps |-> pps, lastTime |-> now]
  BY DEF updateBucket
<1>2. pps \in Nat /\ Covered(pps, c.gaps)
  <2>1. CASE b.pps = 0
    BY <2>1 DEF Covered, PerSecond
  <2>2. CASE b.pps # 0
    <3>1. pps = Smoothed(InstPPS(now - b.lastTime), b.pps)
      BY <2>2
    <3>2. c.gaps = a.gaps \cup {now - b.lastTime}
      BY <1>0
    <3>3. PICK dt \in Int : dt = now - b.lastTime
      BY <1>0
    <3>4. /\ Smoothed(InstPPS(dt), b.pps) \in Nat
          /\ Covered(Smoothed(InstPPS(dt), b.pps), a.gaps \cup {dt})
      BY <1>0, SmoothedCovered
    <3> HIDE DEF pps
    <3> QED BY <3>1, <3>2, <3>3, <3>4
  <2> QED BY <2>1, <2>2
<1> HIDE DEF pps
<1> QED BY <1>1, <1>2 DEF Rated

\* The first packet of a new bucket.
LEMMA NewIsRated ==
    ASSUME now \in Nat, NEW c, c.last = now
    PROVE  Rated(updateBucket(newBucket), c)
<1>1. updateBucket(newBucket) = [pps |-> PerSecond, lastTime |-> now]
  BY DEF updateBucket, newBucket
<1> QED BY <1>1 DEF Rated, Covered, PerSecond

\* The key of a packet is rated, with at most one bucket evicted (getOrCreateBucket).
LEMMA RecordRates ==
    ASSUME RateInv, GapsInv, NEW key, Record(key)
    PROVE  /\ \A k \in DOMAIN buckets' : k \in DOMAIN arrivals' /\ Rated(buckets'[k], arrivals'[k])
           /\ IsFiniteSet(DOMAIN buckets') /\ Cardinality(DOMAIN buckets') <= MaxEntries
<1>1. PICK kept \in Survivors(key) :
        buckets' = [k \in kept \cup {key} |->
                       IF k # key THEN buckets[k]
                       ELSE updateBucket(IF key \in kept THEN buckets[key] ELSE newBucket)]
  BY DEF Record
<1>2. kept \subseteq DOMAIN buckets
  BY DEF Survivors
<1>3. /\ arrivals' = Arrived(key) /\ DOMAIN arrivals' = DOMAIN arrivals \cup {key}
      /\ \A k \in DOMAIN arrivals : k # key => arrivals'[k] = arrivals[k]
      /\ arrivals'[key].last = now
      /\ key \in DOMAIN arrivals =>
            arrivals'[key].gaps = arrivals[key].gaps \cup {now - arrivals[key].last}
  BY DEF Record, Arrived
<1>4. ASSUME NEW k \in kept, k # key
      PROVE  k \in DOMAIN arrivals' /\ Rated(buckets'[k], arrivals'[k])
  <2>1. k \in DOMAIN arrivals /\ Rated(buckets[k], arrivals[k])
    BY <1>2 DEF RateInv
  <2>2. buckets'[k] = buckets[k] /\ arrivals'[k] = arrivals[k] /\ k \in DOMAIN arrivals'
    BY <1>1, <1>3, <1>4, <2>1
  <2> QED BY <2>1, <2>2
<1>5. Rated(buckets'[key], arrivals'[key])
  <2>0. now \in Nat
    BY DEF RateInv
  <2>1. CASE key \in kept
    <3>1. buckets'[key] = updateBucket(buckets[key])
      BY <1>1, <2>1
    <3>2. key \in DOMAIN arrivals /\ Rated(buckets[key], arrivals[key])
      BY <1>2, <2>1 DEF RateInv
    <3>3. Differences(arrivals[key].gaps)
      BY <3>2 DEF GapsInv
    <3> QED BY <1>3, <2>0, <3>1, <3>2, <3>3, UpdateKeeps
  <2>2. CASE key \notin kept
    <3>1. buckets'[key] = updateBucket(newBucket)
      BY <1>1, <2>2
    <3> QED BY <1>3, <2>0, <3>1, NewIsRated
  <2> QED BY <2>1, <2>2
<1>6. \A k \in DOMAIN buckets' : k \in DOMAIN arrivals' /\ Rated(buckets'[k], arrivals'[k])
  BY <1>1, <1>3, <1>4, <1>5
<1>7. IsFiniteSet(kept \cup {key}) /\ Cardinality(kept \cup {key}) <= MaxEntries
  <2>0. /\ IsFiniteSet(DOMAIN buckets) /\ Cardinality(DOMAIN buckets) \in Nat
        /\ Cardinality(DOMAIN buckets) <= MaxEntries /\ MaxEntries \in Nat
    BY RateNaturals, FS_CardinalityType DEF RateInv
  <2>1. CASE kept = DOMAIN buckets /\ key \in DOMAIN buckets
    <3>1. kept \cup {key} = DOMAIN buckets
      BY <2>1
    <3> QED BY <2>0, <3>1
  <2>2. CASE kept = DOMAIN buckets /\ key \notin DOMAIN buckets
                /\ Cardinality(DOMAIN buckets) < MaxEntries
    <3>1. /\ IsFiniteSet(kept \cup {key})
          /\ Cardinality(kept \cup {key}) = Cardinality(kept) + 1
      BY <2>0, <2>2, FS_AddElement
    <3> QED BY <2>0, <2>2, <3>1
  <2>3. CASE \E k \in DOMAIN buckets : kept = DOMAIN buckets \ {k} /\ key \notin DOMAIN buckets
    <3>1. PICK k \in DOMAIN buckets : kept = DOMAIN buckets \ {k}
      BY <2>3
    <3>2. IsFiniteSet(kept) /\ Cardinality(kept) = Cardinality(DOMAIN buckets) - 1
      BY <2>0, <3>1, FS_RemoveElement
    <3>3. key \notin kept
      BY <2>3
    <3>4. /\ IsFiniteSet(kept \cup {key})
          /\ Cardinality(kept \cup {key}) = Cardinality(kept) + 1
      BY <3>2, <3>3, FS_AddElement
    <3> QED BY <2>0, <3>2, <3>4
  <2> QED BY <2>1, <2>2, <2>3 DEF Survivors, evictOneSampledLocked
<1>8. DOMAIN buckets' = kept \cup {key}
  BY <1>1
<1> QED BY <1>6, <1>7, <1>8

LEMMA GapsKept == GapsInv /\ [RateNext]_<<rateVars, now>> => GapsInv'
<1> SUFFICES ASSUME GapsInv, [RateNext]_<<rateVars, now>> PROVE GapsInv'
  OBVIOUS
<1>1. ASSUME NEW key, Record(key), UNCHANGED now PROVE GapsInv'
  <2>1. arrivals' = Arrived(key) /\ now' = now /\ now \in Nat
    BY <1>1 DEF Record, GapsInv
  <2>2. ASSUME NEW k \in DOMAIN arrivals'
        PROVE  arrivals'[k].last \in Nat /\ Differences(arrivals'[k].gaps)
    <3>1. CASE k # key
      BY <2>1, <2>2, <3>1 DEF Arrived, GapsInv
    <3>2. CASE k = key /\ key \notin DOMAIN arrivals
      BY <2>1, <2>2, <3>2 DEF Arrived, Differences
    <3>3. CASE k = key /\ key \in DOMAIN arrivals
      <4>1. arrivals'[k] = [last |-> now,
                            gaps |-> arrivals[key].gaps \cup {now - arrivals[key].last}]
        BY <2>1, <3>3 DEF Arrived
      <4>2. arrivals[key].gaps \subseteq Int /\ now - arrivals[key].last \in Int
        BY <2>1, <3>3 DEF GapsInv, Differences
      <4> QED BY <2>1, <4>1, <4>2 DEF Differences
    <3> QED BY <3>1, <3>2, <3>3
  <2> QED BY <2>1, <2>2 DEF GapsInv
<1>2. CASE Cleanup /\ UNCHANGED now
  BY <1>2 DEF Cleanup, GapsInv
<1>3. CASE Tick /\ UNCHANGED rateVars
  BY <1>3 DEF Tick, rateVars, GapsInv
<1>4. CASE UNCHANGED <<rateVars, now>>
  BY <1>4 DEF rateVars, GapsInv
<1> QED BY <1>1, <1>2, <1>3, <1>4 DEF RateNext, Allow, AllowPort

LEMMA RateKeeps == RateInv /\ GapsInv /\ [RateNext]_<<rateVars, now>> => RateInv'
<1> SUFFICES ASSUME RateInv, GapsInv, [RateNext]_<<rateVars, now>> PROVE RateInv'
  OBVIOUS
<1>1. ASSUME NEW key, Record(key), UNCHANGED now PROVE RateInv'
  BY <1>1, RecordRates DEF RateInv
<1>2. ASSUME Cleanup, UNCHANGED now PROVE RateInv'
  <2> DEFINE kept == {k \in DOMAIN buckets : now - buckets[k].lastTime <= IdleThreshold}
  <2>1. /\ buckets' = [k \in kept |-> buckets[k]] /\ kept \subseteq DOMAIN buckets
        /\ arrivals' = arrivals /\ now' = now
    BY <1>2 DEF Cleanup, Restrict
  <2> HIDE DEF kept
  <2>2. /\ IsFiniteSet(kept) /\ Cardinality(kept) \in Nat
        /\ Cardinality(DOMAIN buckets) \in Nat
        /\ Cardinality(kept) <= Cardinality(DOMAIN buckets)
    BY <2>1, FS_Subset, FS_CardinalityType DEF RateInv
  <2>3. Cardinality(kept) <= MaxEntries
    BY <2>2, RateNaturals DEF RateInv
  <2> QED BY <2>1, <2>2, <2>3 DEF RateInv
<1>3. ASSUME Tick, UNCHANGED rateVars PROVE RateInv'
  BY <1>3 DEF Tick, rateVars, RateInv
<1>4. CASE UNCHANGED <<rateVars, now>>
  BY <1>4 DEF rateVars, RateInv
<1> QED BY <1>1, <1>2, <1>3, <1>4 DEF RateNext, Allow, AllowPort

LEMMA RateStarts == RateInit /\ now = 0 => RateInv /\ GapsInv
<1>1. IsFiniteSet({}) /\ Cardinality({}) = 0
  BY FS_EmptySet
<1> QED BY <1>1, RateNaturals DEF RateInit, RateInv, GapsInv

\* No source is rated faster than the closest two of its packets, for any timing of
\* the packets, evictions and clean-ups (updateBucket, getOrCreateBucket).
THEOREM LimiterNeverOverrates == RateSpec => []NeverOverrated
<1>1. RateInv => NeverOverrated
  BY DEF RateInv, NeverOverrated, Rated, Covered
<1> QED BY <1>1, RateStarts, RateKeeps, GapsKept, PTL DEF RateSpec

\* Of a full map, only the buckets outside the sample can be older than the one that
\* is evicted (evictOneSampledLocked).
LEMMA EvictedIsOld ==
    ASSUME RateInv, NEW k \in evictOneSampledLocked,
           ~(Cardinality(DOMAIN buckets) < MaxEntries)
    PROVE  Cardinality({j \in DOMAIN buckets : buckets[j].lastTime < buckets[k].lastTime})
              <= Greater(0, MaxEntries - EvictionSampleSize)
<1> DEFINE D == DOMAIN buckets
           older == {j \in D : buckets[j].lastTime < buckets[k].lastTime}
<1>1. PICK s \in Samples :
        k \in s /\ \A j \in s : buckets[k].lastTime <= buckets[j].lastTime
  BY DEF evictOneSampledLocked
<1>2. s \subseteq D /\ Cardinality(s) = Lesser(EvictionSampleSize, Cardinality(D))
  BY DEF Samples
<1>3. k \in D /\ \A j \in D : buckets[j].lastTime \in Nat
  BY DEF evictOneSampledLocked, RateInv, Rated
<1>4. older \subseteq D \ s
  BY <1>1, <1>2, <1>3
<1>5. IsFiniteSet(D) /\ Cardinality(D) \in Nat /\ Cardinality(D) = MaxEntries
  BY RateNaturals, FS_CardinalityType DEF RateInv
<1> HIDE DEF D, older
<1>6. IsFiniteSet(s) /\ Cardinality(s) \in Nat
  BY <1>2, <1>5, FS_Subset, FS_CardinalityType
<1>7. s = D \cap s
  BY <1>2
<1>8. IsFiniteSet(D \ s) /\ Cardinality(D \ s) = Cardinality(D) - Cardinality(s)
  BY <1>5, <1>7, FS_Difference
<1>9. Cardinality(older) \in Nat /\ Cardinality(older) <= Cardinality(D \ s)
  BY <1>4, <1>8, FS_Subset, FS_CardinalityType
<1>10. Cardinality(older) <= Greater(0, MaxEntries - EvictionSampleSize)
  BY <1>2, <1>5, <1>6, <1>8, <1>9, RateNaturals DEF Lesser, Greater
<1> QED BY <1>10 DEF older, D

\* The limiter forgets a source only when it was idle, or from a full map of which at
\* most MaxEntries - EvictionSampleSize buckets were older, for every map size and
\* sample size (Cleanup, getOrCreateBucket, evictOneSampledLocked).
THEOREM LimiterBudgetsKept == RateSpec => BudgetsKept
<1> DEFINE Kept ==
      \A k \in DOMAIN buckets \ DOMAIN buckets' :
         \/ now - buckets[k].lastTime > IdleThreshold
         \/ /\ Cardinality(DOMAIN buckets) >= MaxEntries
            /\ Cardinality({j \in DOMAIN buckets :
                               buckets[j].lastTime < buckets[k].lastTime})
                  <= Greater(0, MaxEntries - EvictionSampleSize)
<1>1. ASSUME RateInv, [RateNext]_<<rateVars, now>> PROVE Kept \/ UNCHANGED rateVars
  <2>1. ASSUME NEW key, Record(key) PROVE Kept
    <3>1. SUFFICES ASSUME NEW k \in DOMAIN buckets \ DOMAIN buckets'
                   PROVE  /\ Cardinality(DOMAIN buckets) >= MaxEntries
                          /\ Cardinality({j \in DOMAIN buckets :
                                             buckets[j].lastTime < buckets[k].lastTime})
                                <= Greater(0, MaxEntries - EvictionSampleSize)
      OBVIOUS
    <3> HIDE DEF Kept
    <3>2. PICK kept \in Survivors(key) : DOMAIN buckets' = kept \cup {key}
      BY <2>1 DEF Record
    <3>3. k \notin kept
      BY <3>1, <3>2
    <3>4. ~(Cardinality(DOMAIN buckets) < MaxEntries) /\ k \in evictOneSampledLocked
      BY <3>1, <3>3 DEF Survivors
    <3>5. Cardinality(DOMAIN buckets) \in Nat
      BY <1>1, FS_CardinalityType DEF RateInv
    <3>6. Cardinality(DOMAIN buckets) >= MaxEntries
      BY <3>4, <3>5, RateNaturals
    <3> QED BY <1>1, <3>4, <3>6, EvictedIsOld
  <2>2. CASE Cleanup
    <3>1. SUFFICES ASSUME NEW k \in DOMAIN buckets \ DOMAIN buckets'
                   PROVE  now - buckets[k].lastTime > IdleThreshold
      OBVIOUS
    <3>2. ~(now - buckets[k].lastTime <= IdleThreshold)
      BY <2>2, <3>1 DEF Cleanup, Restrict
    <3>3. now \in Nat /\ buckets[k].lastTime \in Nat /\ IdleThreshold \in Nat
      BY <1>1, <3>1, RateLimitConstants DEF RateInv, Rated
    <3> QED BY <3>2, <3>3
  <2> QED BY <1>1, <2>1, <2>2 DEF RateNext, Allow, AllowPort
<1>2. RateInv /\ [RateNext]_<<rateVars, now>> => [Kept]_rateVars
  BY <1>1
<1> QED BY <1>2, RateStarts, RateKeeps, GapsKept, PTL DEF RateSpec, BudgetsKept

-----------------------------------------------------------------------------
(* The alert router.                                                        *)

\* The posts under way of one type were started a cool-down apart, none later
\* than lastSent says and none longer ago than the client's timeout.
AlertInv ==
    /\ now \in Nat
    /\ \A t \in DOMAIN lastSent : lastSent[t] \in Nat /\ lastSent[t] <= now
    /\ posts \subseteq [type : AlertTypes, at : Nat]
    /\ \A p \in posts : /\ p.type \in DOMAIN lastSent /\ p.at <= lastSent[p.type]
                        /\ now <= p.at + PostTimeout
    /\ \A p, q \in posts : p.type = q.type /\ p.at < q.at => p.at + Cooldown <= q.at

LEMMA AlertStarts == AlertInit /\ now = 0 => AlertInv
BY DEF AlertInit, AlertInv

LEMMA AlertKeeps == AlertInv /\ [AlertNext]_<<alertVars, now>> => AlertInv'
<1> SUFFICES ASSUME AlertInv, [AlertNext]_<<alertVars, now>> PROVE AlertInv'
  OBVIOUS
<1>0. Cooldown \in Nat \ {0} /\ PostTimeout \in Nat /\ now \in Nat
  BY AlertConstants DEF AlertInv
<1>1. ASSUME NEW t \in AlertTypes, Send(t) PROVE AlertInv'
  <2> DEFINE new == [type |-> t, at |-> now]
  <2>1. /\ now' = now /\ posts' = posts \cup {new}
        /\ lastSent' = [u \in DOMAIN lastSent \cup {t} |-> IF u = t THEN now ELSE lastSent[u]]
    BY <1>1 DEF Send
  <2>2. new \in [type : AlertTypes, at : Nat] /\ new.type = t /\ new.at = now
    BY <1>0
  <2> HIDE DEF new
  <2>3. \A u \in DOMAIN lastSent' : lastSent'[u] \in Nat /\ lastSent'[u] <= now'
    BY <1>0, <2>1 DEF AlertInv
  <2>4. posts' \subseteq [type : AlertTypes, at : Nat]
    BY <2>1, <2>2 DEF AlertInv
  <2>5. ASSUME NEW p \in posts'
        PROVE  /\ p.type \in DOMAIN lastSent' /\ p.at <= lastSent'[p.type]
               /\ now' <= p.at + PostTimeout
    <3>1. CASE p = new
      BY <1>0, <2>1, <2>2, <3>1
    <3>2. CASE p \in posts
      <4>1. /\ p.type \in DOMAIN lastSent /\ p.at <= lastSent[p.type]
            /\ now <= p.at + PostTimeout
            /\ p.at \in Nat /\ lastSent[p.type] \in Nat /\ lastSent[p.type] <= now
        BY <3>2 DEF AlertInv
      <4> QED BY <1>0, <2>1, <4>1
    <3> QED BY <2>1, <3>1, <3>2
  <2>6. ASSUME NEW p \in posts, p.type = t PROVE p.at + Cooldown <= now
    <3>1. /\ t \in DOMAIN lastSent /\ p.at <= lastSent[t]
          /\ p.at \in Nat /\ lastSent[t] \in Nat
      BY <2>6 DEF AlertInv
    <3>2. ~(now - lastSent[t] < Cooldown)
      BY <1>1, <3>1 DEF Send, CoolingDown
    <3> QED BY <1>0, <3>1, <3>2
  <2>7. ASSUME NEW p \in posts', NEW q \in posts', p.type = q.type, p.at < q.at
        PROVE  p.at + Cooldown <= q.at
    <3>1. CASE q = new
      <4>1. p \in posts /\ p.type = t
        BY <1>0, <2>1, <2>2, <2>7, <3>1
      <4> QED BY <2>2, <2>6, <3>1, <4>1
    <3>2. CASE q \in posts /\ p = new
      <4>1. q.at + Cooldown <= now /\ q.at \in Nat /\ p.at = now
        BY <2>2, <2>6, <2>7, <3>2 DEF AlertInv
      <4> QED BY <1>0, <2>7, <4>1
    <3>3. CASE q \in posts /\ p \in posts
      BY <2>7, <3>3 DEF AlertInv
    <3> QED BY <2>1, <3>1, <3>2, <3>3
  <2> QED BY <1>0, <2>1, <2>3, <2>4, <2>5, <2>7 DEF AlertInv
<1>2. ASSUME NEW p \in posts, FireEnds(p) PROVE AlertInv'
  <2>1. posts' \subseteq posts /\ UNCHANGED <<lastSent, now>>
    BY <1>2 DEF FireEnds
  <2> QED BY <2>1 DEF AlertInv
<1>3. CASE AlertTick
  <2>1. /\ now' = now + 1 /\ lastSent' = lastSent /\ posts' = posts
        /\ \A p \in posts : now < p.at + PostTimeout
    BY <1>3 DEF AlertTick, Tick, alertVars
  <2>2. ASSUME NEW p \in posts PROVE now' <= p.at + PostTimeout
    BY <1>0, <2>1 DEF AlertInv
  <2>3. \A t \in DOMAIN lastSent : lastSent[t] \in Nat /\ lastSent[t] <= now'
    BY <1>0, <2>1 DEF AlertInv
  <2>4. now' \in Nat
    BY <1>0, <2>1
  <2> QED BY <2>1, <2>2, <2>3, <2>4 DEF AlertInv
<1>4. CASE UNCHANGED <<alertVars, now>>
  BY <1>4 DEF alertVars, AlertInv
<1> QED BY <1>1, <1>2, <1>3, <1>4 DEF AlertNext

\* Ages a whole unit apart are whole units apart after a division by it, and the
\* greater age has the greater quotient.
LEMMA AgesApart ==
    ASSUME NEW a \in Nat, NEW b \in Nat, NEW c \in Nat \ {0}, a + c <= b
    PROVE  a \div c # b \div c
<1>1. b \div c >= (a \div c) + 1
  BY SMTT(30)
<1>2. a \div c \in Int /\ b \div c \in Int
  OBVIOUS
<1> QED BY <1>1, <1>2

LEMMA AgeInRange ==
    ASSUME NEW a \in Nat, NEW b \in Nat, NEW c \in Nat \ {0}, a <= b
    PROVE  a \div c \in 0..(b \div c) /\ b \div c \in Nat
BY SMTT(30)

\* Their ages in cool-downs are different numbers between 0 and what fits in the
\* timeout, so there are no more of them than that.
LEMMA AgesBoundPosts == AlertInv => PostsBounded
<1> SUFFICES ASSUME AlertInv, NEW t \in AlertTypes
             PROVE  Cardinality({p \in posts : p.type = t}) <= (PostTimeout \div Cooldown) + 1
  BY DEF PostsBounded
<1>0. Cooldown \in Nat \ {0} /\ PostTimeout \in Nat /\ now \in Nat
  BY AlertConstants DEF AlertInv
<1> DEFINE P == {p \in posts : p.type = t}
           m == PostTimeout \div Cooldown
           T == 0..m
           age == [p \in P |-> (now - p.at) \div Cooldown]
<1>1. ASSUME NEW p \in P
      PROVE  /\ p \in posts /\ p.at \in Nat /\ p = [type |-> t, at |-> p.at]
             /\ now - p.at \in Nat /\ now - p.at <= PostTimeout
  <2>1. /\ p \in posts /\ p \in [type : AlertTypes, at : Nat] /\ p.type = t
        /\ p.at <= lastSent[t] /\ lastSent[t] \in Nat /\ lastSent[t] <= now
        /\ now <= p.at + PostTimeout
    BY DEF AlertInv
  <2> QED BY <1>0, <2>1
<1>2. m \in Nat
  BY <1>0, AgeInRange
<1>3. ASSUME NEW p \in P PROVE (now - p.at) \div Cooldown \in T
  <2>1. PICK a \in Nat : a = now - p.at /\ a <= PostTimeout
    BY <1>1
  <2> QED BY <1>0, <2>1, AgeInRange
<1>4. ASSUME NEW p \in P, NEW q \in P, p.at < q.at
      PROVE  (now - p.at) \div Cooldown # (now - q.at) \div Cooldown
  <2>1. p.at + Cooldown <= q.at
    BY <1>1, <1>4 DEF AlertInv
  <2>2. PICK a \in Nat : a = now - q.at
    BY <1>1
  <2>3. PICK b \in Nat : b = now - p.at
    BY <1>1
  <2>4. a + Cooldown <= b
    BY <1>0, <1>1, <2>1, <2>2, <2>3
  <2> QED BY <1>0, <2>2, <2>3, <2>4, AgesApart
<1>5. ASSUME NEW p \in P, NEW q \in P, p # q
      PROVE  (now - p.at) \div Cooldown # (now - q.at) \div Cooldown
  <2>1. p.at # q.at
    BY <1>1, <1>5
  <2>2. p.at \in Nat /\ q.at \in Nat
    BY <1>1
  <2>3. p.at < q.at \/ q.at < p.at
    BY <2>1, <2>2
  <2>4. CASE p.at < q.at
    BY <1>4, <2>4
  <2>5. CASE q.at < p.at
    BY <1>4, <2>5
  <2> QED BY <2>3, <2>4, <2>5
<1>6. age \in Injection(P, T)
  <2>1. age \in [P -> T]
    BY <1>3
  <2>2. \A p, q \in P : age[p] = age[q] => p = q
    BY <1>5
  <2> HIDE DEF age
  <2> QED BY <2>1, <2>2 DEF Injection, IsInjective
<1> HIDE DEF age, P, m
<1>7. IsFiniteSet(T) /\ Cardinality(T) = m + 1
  <2>1. IsFiniteSet(0..m) /\ Cardinality(0..m) = IF 0 > m THEN 0 ELSE m - 0 + 1
    BY <1>2, FS_Interval
  <2> QED BY <1>2, <2>1
<1> HIDE DEF T
<1>8. Cardinality(P) <= Cardinality(T)
  BY <1>6, <1>7, FS_Injection DEF ExistsInjection
<1> QED BY <1>7, <1>8 DEF P, m

\* However slow the webhook, the goroutines posting alerts of one type stay as few
\* as fit in the client's timeout at the pace of the cool-down, for every cool-down
\* and timeout (Send stamps lastSent before it starts the goroutine).
THEOREM AlertPostsBounded == AlertSpec => []PostsBounded
BY AlertStarts, AlertKeeps, AgesBoundPosts, PTL DEF AlertSpec

-----------------------------------------------------------------------------
(* The packet parser.  TLC checks the lengths around each boundary.  The      *)
(* invariant adds to the two properties what the walk keeps: its position is  *)
(* where the headers read so far end, and none of them made the packet a     *)
(* later fragment.                                                         *)

Headers ==
    [version : {0, 4, 6}, end : Nat, offset : {0, 1}]

ParserTypeOK ==
    /\ stage \in {"idle", "walk", "done"}
    /\ pktLen \in Nat /\ off \in Nat /\ readEnd \in Nat
    /\ proto \in Protocols
    /\ report \in {"none", "incomplete", "fields"}
    /\ wire \in Headers

WalkAtHeadersEnd ==
    stage = "walk" => /\ off = wire.end
                      /\ wire.offset = 0 /\ wire.version = 6

ParserInv ==
    /\ ParserTypeOK
    /\ stage = "idle" => readEnd = 0
    /\ ReadsInBounds
    /\ WalkAtHeadersEnd
    /\ TransportReported

-----------------------------------------------------------------------------
\* The minimal headers of populateL4FromBytes are positive lengths.
LEMMA MinHeaderType ==
    /\ DOMAIN MinHeader = {"TCP", "UDP", "ICMP"}
    /\ \A p \in DOMAIN MinHeader : MinHeader[p] \in Nat \ {0}
    /\ DOMAIN MinHeader \subseteq Protocols
    /\ extHeaderTypes \cap DOMAIN MinHeader = {}
  BY DEF MinHeader, Protocols, extHeaderTypes

\* The parser starts in the invariant.
LEMMA ParserStarts == ParserInit => ParserInv
  BY MinHeaderType
  DEF ParserInit, ParserInv, ParserTypeOK, Headers, ReadsInBounds, WalkAtHeadersEnd,
      TransportReported, NoHeaders, Protocols

\* The walk goes on: its position is where the headers end.
LEMMA WalkKeeps ==
    ASSUME ParserTypeOK', readEnd' <= pktLen', stage' = "walk",
           off' = wire'.end, wire'.offset = 0, wire'.version = 6
    PROVE  ParserInv'
  BY DEF ParserInv, ReadsInBounds, WalkAtHeadersEnd, TransportReported

\* The parser is done with a packet and what it reports is right.
LEMMA DoneKeeps ==
    ASSUME ParserTypeOK', readEnd' <= pktLen', stage' = "done", TransportReported'
    PROVE  ParserInv'
  BY DEF ParserInv, ReadsInBounds, WalkAtHeadersEnd

\* It reports nothing of a packet that has no transport header.
LEMMA NoneKeeps ==
    ASSUME ParserTypeOK', readEnd' <= pktLen', stage' = "done", report' = "none",
           ~TransportExpected', WellFormed' \/ wire'.offset = 1
    PROVE  ParserInv'
  <1>1. ~(report' = "fields") /\ ~(report' = "incomplete") /\ ~TransportOnWire'
    BY DEF TransportOnWire
  <1>2. ~(~WellFormed' /\ wire'.offset = 0)
    OBVIOUS
  <1>3. TransportReported'
    BY <1>1, <1>2 DEF TransportReported
  <1> QED BY <1>3, DoneKeeps

\* It looks for the transport header where the headers end (populateL4FromBytes).
LEMMA ReportKeeps ==
    ASSUME NEW l \in Nat, NEW p \in Protocols, NEW len \in Nat,
           populateL4FromBytes(l, p, len),
           proto' = p, pktLen' = len, off' \in Nat, wire' \in Headers,
           readEnd \in Nat, readEnd <= len,
           wire'.end = l, wire'.offset = 0, WellFormed',
           p \in DOMAIN MinHeader => wire'.version = 4 \/ l < len
    PROVE  ParserInv'
  <1>0. stage' = "done"
    BY DEF populateL4FromBytes
  <1>1. CASE p \notin DOMAIN MinHeader
    <2>1. report' = "none" /\ readEnd' = readEnd
      BY <1>1 DEF populateL4FromBytes, Expected
    <2>2. ~TransportExpected'
      BY <1>1 DEF TransportExpected
    <2>3. ParserTypeOK'
      BY <1>0, <2>1 DEF ParserTypeOK
    <2> QED BY <1>0, <2>1, <2>2, <2>3, NoneKeeps
  <1>2. CASE p \in DOMAIN MinHeader
    <2>0. MinHeader[p] \in Nat /\ l >= 0
      BY <1>2, MinHeaderType
    <2>1. TransportExpected'
      BY <1>2 DEF TransportExpected
    <2>2. CASE l + MinHeader[p] <= len
      <3>1. report' = "fields" /\ Reads(l + MinHeader[p])
        BY <1>2, <2>0, <2>2 DEF populateL4FromBytes, Expected
      <3>2. readEnd' \in Nat /\ readEnd' <= pktLen'
        BY <2>0, <2>2, <3>1 DEF Reads
      <3>3. TransportOnWire'
        BY <2>1, <2>2 DEF TransportOnWire
      <3>4. TransportReported'
        BY <2>1, <3>1, <3>3 DEF TransportReported
      <3>5. ParserTypeOK'
        BY <1>0, <3>1, <3>2 DEF ParserTypeOK
      <3> QED BY <1>0, <3>2, <3>4, <3>5, DoneKeeps
    <2>3. CASE ~(l + MinHeader[p] <= len)
      <3>1. report' = "incomplete" /\ readEnd' = readEnd
        BY <1>2, <2>0, <2>3 DEF populateL4FromBytes, Expected
      <3>2. ~TransportOnWire'
        BY <2>3 DEF TransportOnWire
      <3>3. wire'.version = 4 \/ wire'.end < pktLen'
        BY <1>2
      <3>4. TransportReported'
        BY <2>1, <3>1, <3>2, <3>3 DEF TransportReported
      <3>5. ParserTypeOK'
        BY <1>0, <3>1 DEF ParserTypeOK
      <3> QED BY <1>0, <3>1, <3>4, <3>5, DoneKeeps
    <2> QED BY <2>2, <2>3
  <1> QED BY <1>1, <1>2

\* What parseIPv4Packet does keeps the invariant.
LEMMA IPv4Keeps ==
    ASSUME ParserInv,
           NEW len \in Lengths, NEW ihl \in IHLs, NEW frag \in Fragments,
           NEW p \in Protocols, parseIPv4Packet(len, ihl, frag, p)
    PROVE  ParserInv'
  <1> USE ParserConstants
  <1>0. /\ len \in Nat /\ ihl \in Nat /\ ihl * 4 \in Nat /\ 4 * ihl = ihl * 4
        /\ frag.offset \in {0, 1} /\ readEnd = 0 /\ len >= 20
        /\ pktLen' = len /\ proto' = p /\ off' = ihl * 4
    BY DEF Fragments, parseIPv4Packet, ipv4HeaderLen, ParserInv
  <1>w. /\ wire' \in Headers
        /\ wire'.version = 4 /\ wire'.end = ihl * 4 /\ wire'.offset = frag.offset
    BY <1>0 DEF parseIPv4Packet, Headers
  <1>t. readEnd <= len /\ readEnd \in Nat /\ off' \in Nat
    BY <1>0
  <1>1. CASE frag.offset > 0
    <2>1. stage' = "done" /\ report' = "none" /\ readEnd' = 0
      BY <1>0, <1>1 DEF parseIPv4Packet
    <2>2. wire'.offset = 1
      BY <1>0, <1>w, <1>1
    <2>3. ~TransportExpected'
      BY <2>2 DEF TransportExpected
    <2>4. ParserTypeOK' /\ readEnd' <= pktLen'
      BY <1>0, <1>w, <1>t, <2>1 DEF ParserTypeOK
    <2> QED BY <2>1, <2>2, <2>3, <2>4, NoneKeeps
  <1>2. CASE frag.offset = 0 /\ ihl * 4 < ipv4HeaderLen
    <2>1. stage' = "done" /\ report' = "incomplete" /\ readEnd' = 0
      BY <1>0, <1>2 DEF parseIPv4Packet
    <2>2. ~WellFormed' /\ wire'.offset = 0
      BY <1>0, <1>w, <1>2 DEF WellFormed, ipv4HeaderLen
    <2>3. ~TransportOnWire'
      BY <2>2 DEF TransportOnWire, TransportExpected
    <2>4. TransportReported'
      BY <2>1, <2>2, <2>3 DEF TransportReported
    <2>5. ParserTypeOK' /\ readEnd' <= pktLen'
      BY <1>0, <1>w, <1>t, <2>1 DEF ParserTypeOK
    <2> QED BY <2>1, <2>4, <2>5, DoneKeeps
  <1>3. CASE frag.offset = 0 /\ ~(ihl * 4 < ipv4HeaderLen)
    <2>1. populateL4FromBytes(ihl * 4, p, len)
      BY <1>0, <1>3 DEF parseIPv4Packet
    <2>2. WellFormed'
      BY <1>0, <1>w, <1>3 DEF WellFormed, ipv4HeaderLen
    <2> QED BY <1>0, <1>w, <1>t, <1>3, <2>1, <2>2, ReportKeeps
  <1> QED
    BY <1>0, <1>1, <1>2, <1>3

\* What the walk does when it meets something other than an extension header.
LEMMA FindsL4Keeps == ParserInv /\ WalkFindsL4 => ParserInv'
  <1> SUFFICES ASSUME ParserInv, WalkFindsL4 PROVE ParserInv'
    OBVIOUS
  <1>0. UNCHANGED <<pktLen, off, proto, wire>> /\ stage = "walk"
    BY DEF WalkFindsL4
  <1>w. /\ pktLen \in Nat /\ off \in Nat /\ readEnd \in Nat /\ readEnd <= pktLen
        /\ proto \in Protocols /\ wire \in Headers
        /\ off = wire.end /\ wire.offset = 0 /\ wire.version = 6
    BY <1>0 DEF ParserInv, ParserTypeOK, ReadsInBounds, WalkAtHeadersEnd
  <1>f. WellFormed'
    BY <1>0, <1>w DEF WellFormed
  <1>1. CASE off < pktLen
    <2>1. populateL4FromBytes(off, proto, pktLen)
      BY <1>1 DEF WalkFindsL4
    <2> QED BY <1>0, <1>w, <1>f, <1>1, <2>1, ReportKeeps
  <1>2. CASE ~(off < pktLen)
    <2>1. populateL4FromBytes(-1, proto, pktLen)
      BY <1>2 DEF WalkFindsL4
    <2>2. stage' = "done" /\ report' = "none" /\ readEnd' = readEnd
      BY <2>1 DEF populateL4FromBytes, Expected
    <2>3. ~TransportOnWire'
      <3>1. CASE proto \in DOMAIN MinHeader
        <4>1. ~(wire.end + MinHeader[proto] <= pktLen)
          BY <1>w, <1>2, <3>1, MinHeaderType
        <4> QED BY <1>0, <4>1 DEF TransportOnWire
      <3>2. CASE proto \notin DOMAIN MinHeader
        BY <1>0, <3>2 DEF TransportOnWire, TransportExpected
      <3> QED BY <3>1, <3>2
    <2>4. ~(wire'.version = 4 \/ wire'.end < pktLen')
      BY <1>0, <1>w, <1>2
    <2>5. TransportReported'
      BY <1>f, <2>2, <2>3, <2>4 DEF TransportReported
    <2>6. ParserTypeOK' /\ readEnd' <= pktLen'
      BY <1>0, <1>w, <2>2 DEF ParserTypeOK
    <2> QED BY <2>2, <2>5, <2>6, DoneKeeps
  <1> QED
    BY <1>1, <1>2

\* What the walk does when the next extension header is cut short.
LEMMA TruncatedKeeps == ParserInv /\ WalkTruncated => ParserInv'
  <1> SUFFICES ASSUME ParserInv, WalkTruncated PROVE ParserInv'
    OBVIOUS
  <1>0. /\ pktLen \in Nat /\ off \in Nat /\ readEnd \in Nat /\ readEnd <= pktLen
        /\ proto \in Protocols /\ wire \in Headers
        /\ stage = "walk" /\ wire.offset = 0 /\ wire.version = 6
    BY DEF ParserInv, ParserTypeOK, ReadsInBounds, WalkAtHeadersEnd, WalkTruncated
  <1>1. /\ stage' = "done" /\ report' = "none"
        /\ pktLen' = pktLen /\ off' = off /\ proto' = proto /\ wire' = wire
        /\ proto \in {"HopByHop", "Fragment"}
    BY DEF WalkTruncated, WalkStops, extHeaderTypes
  <1>2. readEnd' \in Nat /\ readEnd' <= pktLen
    <2>1. CASE readEnd' = readEnd
      BY <1>0, <2>1
    <2>2. CASE off < pktLen /\ Reads(off + 1)
      BY <1>0, <2>2 DEF Reads
    <2> QED BY <2>1, <2>2 DEF WalkTruncated
  <1>3. ~TransportExpected' /\ WellFormed'
    <2>1. proto' \notin DOMAIN MinHeader
      BY <1>1, MinHeaderType
    <2>2. wire'.version # 4
      BY <1>0, <1>1
    <2> QED BY <2>1, <2>2 DEF TransportExpected, WellFormed
  <1>4. ParserTypeOK' /\ readEnd' <= pktLen'
    BY <1>0, <1>1, <1>2 DEF ParserTypeOK
  <1> QED BY <1>1, <1>3, <1>4, NoneKeeps

\* What the walk does at a fragment header.
LEMMA FragmentKeeps ==
    ASSUME ParserInv, NEW p \in Protocols, NEW frag \in Fragments,
           WalkFragment(p, frag)
    PROVE  ParserInv'
  <1>0. /\ stage = "walk" /\ off + 8 <= pktLen /\ frag.offset \in {0, 1}
        /\ Reads(off + 4) /\ pktLen' = pktLen /\ proto' = p
    BY DEF WalkFragment, WalkStops, FragmentFits, ipv6FragmentHeaderLen, Fragments
  <1>w. /\ wire' \in Headers
        /\ wire'.version = 6 /\ wire'.end = off + 8 /\ wire'.offset = frag.offset
    <2>1. wire' = [wire EXCEPT !.end = @ + 8, !.offset = frag.offset]
      BY DEF WalkFragment
    <2>2. wire \in Headers /\ wire.version = 6 /\ wire.end = off /\ off \in Nat
      BY <1>0 DEF ParserInv, ParserTypeOK, WalkAtHeadersEnd
    <2>3. wire' = [version |-> 6, end |-> off + 8, offset |-> frag.offset]
      BY <2>1, <2>2 DEF Headers
    <2>4. wire'.version = 6 /\ wire'.end = off + 8 /\ wire'.offset = frag.offset
      BY <2>3
    <2>5. off + 8 \in Nat
      BY <2>2
    <2>6. wire' \in Headers
      BY <1>0, <2>3, <2>5 DEF Headers
    <2> QED
      BY <2>4, <2>6
  <1>t. pktLen \in Nat /\ off \in Nat /\ readEnd' \in Nat /\ readEnd' <= pktLen'
    <2>1. pktLen \in Nat /\ off \in Nat /\ readEnd \in Nat /\ readEnd <= pktLen
      BY DEF ParserInv, ParserTypeOK, ReadsInBounds
    <2> QED BY <1>0, <2>1 DEF Reads
  <1>1. CASE frag.offset = 0
    <2>1. stage' = "walk" /\ off' = off + 8 /\ report' = report
      BY <1>0, <1>1 DEF WalkFragment, CarriesHeader, ipv6FragmentHeaderLen
    <2>2. report \in {"none", "incomplete", "fields"}
      BY DEF ParserInv, ParserTypeOK
    <2>3. ParserTypeOK'
      BY <1>0, <1>w, <1>t, <2>1, <2>2 DEF ParserTypeOK
    <2> QED BY <1>w, <1>t, <1>1, <2>1, <2>3, WalkKeeps
  <1>2. CASE frag.offset = 1
    <2>1. stage' = "done" /\ report' = "none" /\ off' = off
      BY <1>2 DEF WalkFragment, CarriesHeader, WalkStops
    <2>2. ParserTypeOK'
      BY <1>0, <1>w, <1>t, <2>1 DEF ParserTypeOK
    <2>3. ~TransportExpected'
      BY <1>w, <1>2 DEF TransportExpected
    <2> QED BY <1>w, <1>t, <1>2, <2>1, <2>2, <2>3, NoneKeeps
  <1> QED
    BY <1>0, <1>1, <1>2

\* What the walk does at an extension header with a length field.
LEMMA ExtensionKeeps ==
    ASSUME ParserInv, NEW p \in Protocols, NEW extLen \in ExtLens,
           WalkExtension(p, extLen)
    PROVE  ParserInv'
  <1>0. extLen \in Nat /\ (extLen + 1) * 8 = 8 + 8 * extLen /\ 8 * extLen \in Nat
    BY ParserConstants
  <1>1. /\ pktLen \in Nat /\ off \in Nat /\ readEnd \in Nat /\ readEnd <= pktLen
        /\ report \in {"none", "incomplete", "fields"} /\ wire \in Headers
        /\ stage = "walk" /\ off = wire.end /\ wire.offset = 0 /\ wire.version = 6
    BY DEF WalkExtension, ParserInv, ParserTypeOK, ReadsInBounds, WalkAtHeadersEnd
  <1>2. /\ off + 2 <= pktLen /\ Reads(off + 2)
        /\ wire' = [wire EXCEPT !.end = @ + 8 + 8 * extLen]
        /\ proto' = p /\ off' = off + (extLen + 1) * 8
        /\ stage' = stage /\ pktLen' = pktLen /\ report' = report
    BY DEF WalkExtension, ExtensionFits
  <1>3. readEnd' \in Nat /\ readEnd' <= pktLen'
    BY <1>1, <1>2 DEF Reads
  <1>w. /\ wire' \in Headers
        /\ wire'.version = 6 /\ wire'.end = off' /\ wire'.offset = 0
    BY <1>0, <1>1, <1>2 DEF Headers
  <1>4. off' \in Nat
    BY <1>0, <1>1, <1>2
  <1>5. ParserTypeOK'
    BY <1>1, <1>2, <1>3, <1>4, <1>w DEF ParserTypeOK
  <1> QED BY <1>1, <1>2, <1>3, <1>5, <1>w, WalkKeeps

\* Every step of the parser keeps the invariant.
LEMMA ParserKeeps == ParserInv /\ [ParserNext]_parserVars => ParserInv'
  <1> SUFFICES ASSUME ParserInv, [ParserNext]_parserVars PROVE ParserInv'
    OBVIOUS
  <1>1. ASSUME NEW len \in Lengths, NEW ihl \in IHLs, NEW frag \in Fragments,
               NEW p \in Protocols, parseIPv4Packet(len, ihl, frag, p)
        PROVE  ParserInv'
    BY <1>1, IPv4Keeps
  <1>2. ASSUME NEW len \in Lengths, NEW p \in Protocols, parseIPv6Packet(len, p)
        PROVE  ParserInv'
    <2>1. wire' = [version |-> 6, end |-> 40, offset |-> 0]
      BY <1>2 DEF parseIPv6Packet, NoHeaders
    <2>2. /\ wire' \in Headers
          /\ wire'.version = 6 /\ wire'.end = 40 /\ wire'.offset = 0
      BY <2>1 DEF Headers
    <2>3. /\ len \in Nat /\ stage' = "walk" /\ pktLen' = len /\ proto' = p
          /\ off' = 40 /\ report' = report /\ readEnd' = 0
      BY <1>2, ParserConstants DEF parseIPv6Packet, ipv6HeaderLen, ParserInv
    <2>4. report \in {"none", "incomplete", "fields"}
      BY DEF ParserInv, ParserTypeOK
    <2>5. ParserTypeOK' /\ readEnd' <= pktLen'
      BY <2>2, <2>3, <2>4 DEF ParserTypeOK
    <2> QED BY <2>2, <2>3, <2>5, WalkKeeps
  <1>3. CASE WalkFindsL4
    BY <1>3, FindsL4Keeps
  <1>4. CASE WalkTruncated
    BY <1>4, TruncatedKeeps
  <1>5. ASSUME NEW p \in Protocols, NEW frag \in Fragments, WalkFragment(p, frag)
        PROVE  ParserInv'
    BY <1>5, FragmentKeeps
  <1>6. ASSUME NEW p \in Protocols, NEW extLen \in ExtLens, WalkExtension(p, extLen)
        PROVE  ParserInv'
    BY <1>6, ExtensionKeeps
  <1>7. CASE UNCHANGED parserVars
    BY <1>7
    DEF parserVars, ParserInv, ParserTypeOK, ReadsInBounds, WalkAtHeadersEnd,
        TransportReported, TransportOnWire, TransportExpected, WellFormed,
          ipv4HeaderLen
  <1> QED
    BY <1>1, <1>2, <1>3, <1>4, <1>5, <1>6, <1>7 DEF ParserNext

-----------------------------------------------------------------------------
\* The parser never reads beyond the packet, for any packet: the bounds checks
\* of populateL4FromBytes and of the walk are enough.
THEOREM ParserReadsInBounds == ParserSpec => []ReadsInBounds
  <1>1. ParserInv => ReadsInBounds
    BY DEF ParserInv
  <1> QED
    BY <1>1, ParserStarts, ParserKeeps, PTL DEF ParserSpec

\* The parser reports the fields of a transport header exactly when all of it
\* is on the wire, and marks the ones that are cut short, for any packet.
THEOREM ParserReportsTransport == ParserSpec => []TransportReported
  <1>1. ParserInv => TransportReported
    BY DEF ParserInv
  <1> QED
    BY <1>1, ParserStarts, ParserKeeps, PTL DEF ParserSpec

=============================================================================
