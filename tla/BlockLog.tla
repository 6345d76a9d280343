------------------------------ MODULE BlockLog ------------------------------
(***************************************************************************)
(* The engine's record of blocked packets (internal/engine): blockStats, the  *)
(* per-reason counters, a function from the reasons seen to their counts;    *)
(* and recentBlocks, the log of the latest blocks, here the sequence of       *)
(* their reasons.                                                           *)
(***************************************************************************)
EXTENDS Naturals, Sequences, FiniteSets

CONSTANTS
    maxBlockStatsReasons,   \* cap on the number of reasons counted
    maxRecentBlocks         \* capacity of the log of recent blocks

ASSUME BlockLogAssumption ==
    /\ maxBlockStatsReasons \in Nat
    /\ maxRecentBlocks \in Nat \ {0}

NoStats == [r \in {} |-> 0]

(* The counters once reason is recorded.  At the cap nothing is counted any   *)
(* more, the reasons already in the map included.                            *)
Counted(stats, reason) ==
    IF Cardinality(DOMAIN stats) < maxBlockStatsReasons
      THEN [r \in DOMAIN stats \cup {reason} |->
              (IF r \in DOMAIN stats THEN stats[r] ELSE 0)
                + (IF r = reason THEN 1 ELSE 0)]
      ELSE stats

(* Mutant: the log grows one entry past its capacity.                        *)
LoggedLate(recent, reason) ==
    Append(IF Len(recent) > maxRecentBlocks THEN Tail(recent) ELSE recent,
           reason)

(* The log once reason is recorded: the oldest entry makes room.             *)
Logged(recent, reason) ==
    Append(IF Len(recent) >= maxRecentBlocks THEN Tail(recent) ELSE recent,
           reason)

(* restoreState copies a saved map into the empty one until it is full; Go    *)
(* iterates a map in any order, so any of its reasons may be the ones kept.   *)
Restored(saved) ==
    LET size == Cardinality(DOMAIN saved)
        kept == IF size < maxBlockStatsReasons THEN size
                ELSE maxBlockStatsReasons
    IN  {[r \in S |-> saved[r]] :
            S \in {T \in SUBSET DOMAIN saved : Cardinality(T) = kept}}

(* Every counter of a is in b, and has not fallen.                           *)
Within(a, b) == \A r \in DOMAIN a : r \in DOMAIN b /\ a[r] <= b[r]

=============================================================================
