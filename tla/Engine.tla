------------------------------- MODULE Engine -------------------------------
(***************************************************************************)
(* The packet path of internal/engine/engine.go.  go-nfqueue's receive        *)
(* goroutine calls handleQueuePacket for one packet after another;            *)
(* packetHandler parses it and evaluatePacket runs the checks, each of which  *)
(* may block it; the decision goes back to the kernel with SetVerdict.  Any   *)
(* step may panic: evaluatePacket and packetHandler each recover.            *)
(*                                                                         *)
(* Beside it runs an admin goroutine, which reads the three counters one      *)
(* after the other (Stats).  A call leaves nothing behind, so one call,       *)
(* started at any time, stands for all.                                     *)
(*                                                                         *)
(* What a check answers is a choice of the packet: the state behind it is in  *)
(* the module of that check.  l2Filter, threatIntel and pcapWriter may be     *)
(* absent, which is the same as a check that always passes.                  *)
(***************************************************************************)
EXTENDS BlockLog

CONSTANTS
    Reasons,      \* reasons for a block, the formatted ones included
    MaxPackets,   \* bound: packets received
    MaxPanics     \* bound: panics

ASSUME EngineAssumption ==
    /\ Reasons # {}
    /\ MaxPackets \in Nat /\ MaxPanics \in Nat

VARIABLES
    config,       \* failClosed, auditOnly, and whether there is an evaluator
    stage,        \* where the receive goroutine is
    ret,          \* packetHandler's ret: 0 accepts, 1 drops
    processed,    \* packetsProcessed
    allowed,      \* packetsAllowed
    blocked,      \* packetsBlocked
    blockStats,   \* blockStats
    recent,       \* recentBlocks
    reader,       \* where the admin goroutine is in Stats
    stats,        \* the Stats it has read
    passed,       \* history: the checks the current packet passed
    decision,     \* history: what the policy said of it
    verdicts,     \* history: how many packets got each outcome
    uninspected,  \* history: packets dropped unparsed
    recorded,     \* history: the reasons of every recordBlock
    panics        \* history: panics recovered

counters == <<processed, allowed, blocked>>
history == <<verdicts, uninspected, recorded, panics>>
packetVars == <<config, stage, ret, counters, blockStats, recent,
                passed, decision, history>>
vars == <<packetVars, reader, stats>>

(* The checks of evaluatePacket, in the order it makes them.                 *)
Checks == <<"track", "mac", "rate", "intel">>
CheckSet == {Checks[i] : i \in 1..Len(Checks)}

EvaluateStages == CheckSet \cup {"decide", "record", "logBlock", "logAllow"}
Stages == EvaluateStages \cup {"idle", "handle", "capture", "verdict", "stopped"}

Decisions == {"pending", "allow", "deny", "error", "none"}
Outcomes == {"accepted", "dropped", "undelivered"}

Init ==
    /\ config \in [failClosed : BOOLEAN, auditOnly : BOOLEAN, eval : BOOLEAN]
    /\ stage = "idle"
    /\ ret = 0
    /\ processed = 0 /\ allowed = 0 /\ blocked = 0
    /\ blockStats = NoStats
    /\ recent = <<>>
    /\ reader = "processed"
    /\ stats = [processed |-> 0, allowed |-> 0, blocked |-> 0]
    /\ passed = {}
    /\ decision = "pending"
    /\ verdicts = [o \in Outcomes |-> 0]
    /\ uninspected = 0
    /\ recorded = <<>>
    /\ panics = 0

-----------------------------------------------------------------------------
(* The receive goroutine.                                                  *)

PacketsIn == verdicts["accepted"] + verdicts["dropped"] + verdicts["undelivered"]

(* The kernel queues a packet: the hook enters packetHandler, whose named     *)
(* result starts at 0.                                                     *)
Receive ==
    /\ stage = "idle"
    /\ PacketsIn < MaxPackets
    /\ stage' = "handle"
    /\ ret' = 0
    /\ UNCHANGED <<config, counters, blockStats, recent, passed, decision, reader,
                   stats, history>>

(* An attribute without a packet id, or a receive error that is not           *)
(* transient: the receive loop ends.                                        *)
StopReceiving ==
    /\ stage = "idle"
    /\ stage' = "stopped"
    /\ UNCHANGED <<config, ret, counters, blockStats, recent, passed,
                   decision, reader, stats, history>>

(* Mutant: the drop is not counted.                                         *)
DropUninspectedUncounted ==
    /\ stage = "handle"
    /\ uninspected' = uninspected + 1
    /\ ret' = 1
    /\ stage' = "verdict"
    /\ UNCHANGED <<config, counters, blockStats, recent, passed, decision,
                   reader, stats, verdicts, recorded, panics>>

(* packetHandler finds no payload, or one that does not parse.               *)
DropUninspected ==
    /\ stage = "handle"
    /\ processed' = processed + 1
    /\ blocked' = blocked + 1
    /\ uninspected' = uninspected + 1
    /\ ret' = 1
    /\ stage' = "verdict"
    /\ UNCHANGED <<config, allowed, blockStats, recent, passed, decision,
                   reader, stats, verdicts, recorded, panics>>

(* The packet parses: evaluatePacket counts it and starts the checks.        *)
StartEvaluation ==
    /\ stage = "handle"
    /\ processed' = processed + 1
    /\ stage' = Checks[1]
    /\ UNCHANGED <<config, ret, allowed, blocked, blockStats, recent,
                   passed, decision, reader, stats, history>>

(* A block is counted first, and recorded and logged after, when its reason   *)
(* is named.                                                               *)
Block ==
    /\ blocked' = blocked + 1
    /\ stage' = "record"
    /\ UNCHANGED allowed

Allow ==
    /\ allowed' = allowed + 1
    /\ stage' = "logAllow"
    /\ UNCHANGED blocked

(* The connection limit, the MAC filter, the rate limits and the threat       *)
(* intelligence list block whatever the mode.                               *)
Check(i) ==
    /\ stage = Checks[i]
    /\ \/ /\ passed' = passed \cup {Checks[i]}
          /\ stage' = IF i = Len(Checks) THEN "decide" ELSE Checks[i + 1]
          /\ UNCHANGED <<allowed, blocked>>
       \/ /\ Block
          /\ UNCHANGED passed
    /\ UNCHANGED <<config, ret, processed, blockStats, recent, decision, reader,
                   stats, history>>

(* The policy decides, or there is no evaluator to decide.                   *)
Decide ==
    /\ stage = "decide"
    /\ \E d \in IF config.eval THEN {"allow", "deny", "error"} ELSE {"none"} :
         /\ decision' = d
         /\ \/ d = "none" /\ config.failClosed /\ Block
            \/ d = "none" /\ ~config.failClosed /\ Allow
            \/ d = "error" /\ Block
            \/ d = "deny" /\ config.auditOnly /\ Allow
            \/ d = "deny" /\ ~config.auditOnly /\ Block
            \/ d = "allow" /\ Allow
    /\ UNCHANGED <<config, ret, processed, blockStats, recent, passed, reader,
                   stats, history>>

recordBlock(reason) ==
    /\ stage = "record"
    /\ recent' = Logged(recent, reason)
    /\ blockStats' = Counted(blockStats, reason)
    /\ recorded' = Append(recorded, reason)
    /\ stage' = "logBlock"
    /\ UNCHANGED <<config, ret, counters, passed, decision, reader, stats,
                   verdicts, uninspected, panics>>

(* logAudit and fireAlert: a blocked packet goes on to the capture, an        *)
(* allowed one to its verdict.                                              *)
logAudit ==
    /\ \/ stage = "logBlock" /\ stage' = "capture" /\ UNCHANGED ret
       \/ stage = "logAllow" /\ stage' = "verdict" /\ ret' = 0
    /\ UNCHANGED <<config, counters, blockStats, recent, passed, decision,
                   reader, stats, history>>

(* A panic in evaluatePacket: its result is a block.                         *)
RecoverEvaluate ==
    /\ stage \in EvaluateStages
    /\ panics < MaxPanics
    /\ processed' = processed + 1
    /\ blocked' = blocked + 1
    /\ panics' = panics + 1
    /\ stage' = "capture"
    /\ UNCHANGED <<config, ret, allowed, blockStats, recent, passed,
                   decision, reader, stats, verdicts, uninspected, recorded>>

(* WriteBlock: an error is only logged.                                     *)
Capture ==
    /\ stage = "capture"
    /\ ret' = 1
    /\ stage' = "verdict"
    /\ UNCHANGED <<config, counters, blockStats, recent, passed, decision,
                   reader, stats, history>>

(* Mutant: the recovered handler returns its zero value.                     *)
RecoverHandlerZero ==
    /\ stage \in {"handle", "capture"}
    /\ panics < MaxPanics
    /\ processed' = processed + 1
    /\ allowed' = allowed + 1
    /\ panics' = panics + 1
    /\ stage' = "verdict"
    /\ UNCHANGED <<config, ret, blocked, blockStats, recent, passed, decision,
                   reader, stats, verdicts, uninspected, recorded>>

(* A panic in packetHandler itself, in the parser or in the capture: the      *)
(* packet is counted as allowed, and dropped.                               *)
RecoverHandler ==
    /\ stage \in {"handle", "capture"}
    /\ panics < MaxPanics
    /\ processed' = processed + 1
    /\ allowed' = allowed + 1
    /\ panics' = panics + 1
    /\ ret' = 1
    /\ stage' = "verdict"
    /\ UNCHANGED <<config, blocked, blockStats, recent, passed, decision,
                   reader, stats, verdicts, uninspected, recorded>>

(* Mutant: the kernel is not told of a drop.                                 *)
SetVerdictAccepts ==
    /\ stage = "verdict" /\ ret = 0
    /\ verdicts' = [verdicts EXCEPT !["accepted"] = @ + 1]
    /\ stage' = "idle"
    /\ passed' = {} /\ decision' = "pending"
    /\ UNCHANGED <<config, ret, counters, blockStats, recent, reader, stats,
                   uninspected, recorded, panics>>

(* handleQueuePacket delivers the verdict; if it cannot, the loop ends.       *)
SetVerdict ==
    /\ stage = "verdict"
    /\ \/ /\ verdicts' = [verdicts EXCEPT
                            ![IF ret = 0 THEN "accepted" ELSE "dropped"] = @ + 1]
          /\ stage' = "idle"
       \/ /\ verdicts' = [verdicts EXCEPT !["undelivered"] = @ + 1]
          /\ stage' = "stopped"
    /\ passed' = {} /\ decision' = "pending"
    /\ UNCHANGED <<config, ret, counters, blockStats, recent, reader, stats, uninspected, recorded, panics>>

-----------------------------------------------------------------------------
(* Stats loads the counters one at a time: processed, allowed, blocked.      *)
LoadProcessed ==
    /\ reader = "processed"
    /\ stats' = [stats EXCEPT !.processed = processed]
    /\ reader' = "allowed"
    /\ UNCHANGED packetVars

LoadAllowed ==
    /\ reader = "allowed"
    /\ stats' = [stats EXCEPT !.allowed = allowed]
    /\ reader' = "blocked"
    /\ UNCHANGED packetVars

(* Mutant: processed is loaded last.                                         *)
LoadProcessedLast ==
    /\ reader = "blocked"
    /\ stats' = [stats EXCEPT !.blocked = blocked, !.processed = processed]
    /\ reader' = "done"
    /\ UNCHANGED packetVars

LoadBlocked ==
    /\ reader = "blocked"
    /\ stats' = [stats EXCEPT !.blocked = blocked]
    /\ reader' = "done"
    /\ UNCHANGED packetVars

-----------------------------------------------------------------------------
Handle ==
    \/ DropUninspected \/ StartEvaluation
    \/ \E i \in 1..Len(Checks) : Check(i)
    \/ Decide \/ (\E r \in Reasons : recordBlock(r)) \/ logAudit \/ RecoverEvaluate
    \/ Capture \/ RecoverHandler \/ SetVerdict

Stats == LoadProcessed \/ LoadAllowed \/ LoadBlocked

Next == Receive \/ StopReceiving \/ Handle \/ Stats

Spec == Init /\ [][Next]_vars

(* The receive goroutine keeps running the packet it has started: every call   *)
(* of the pipeline returns or panics.  No packet need ever arrive and no one   *)
(* need ask for the statistics.                                             *)
FairSpec == Spec /\ WF_vars(Handle)

-----------------------------------------------------------------------------
TypeOK ==
    /\ config \in [failClosed : BOOLEAN, auditOnly : BOOLEAN, eval : BOOLEAN]
    /\ stage \in Stages
    /\ ret \in {0, 1}
    /\ processed \in Nat /\ allowed \in Nat /\ blocked \in Nat
    /\ DOMAIN blockStats \subseteq Reasons
    /\ \A r \in DOMAIN blockStats : blockStats[r] \in Nat
    /\ recent \in Seq(Reasons)
    /\ reader \in {"processed", "allowed", "blocked", "done"}
    /\ stats \in [processed : Nat, allowed : Nat, blocked : Nat]
    /\ passed \subseteq CheckSet
    /\ decision \in Decisions
    /\ verdicts \in [Outcomes -> Nat]
    /\ uninspected \in Nat /\ panics \in Nat
    /\ recorded \in Seq(Reasons)

(* NF_ACCEPT is only ever the verdict of a packet that passed every hard      *)
(* check and that the policy allowed, or denied in audit-only mode, or that   *)
(* met no evaluator in fail-open mode: no panic, error or unparsed packet,    *)
(* and no verdict left over from the packet before, opens the firewall        *)
(* (packetHandler, evaluatePacket).                                         *)
AcceptIsDecided ==
    stage = "verdict" /\ ret = 0 =>
        /\ passed = CheckSet
        /\ \/ decision = "allow"
           \/ decision = "deny" /\ config.auditOnly
           \/ decision = "none" /\ ~config.failClosed

(* Between two packets the counters bracket the verdicts that the kernel got:  *)
(* every accept is counted as allowed, each counter exceeds its verdicts by   *)
(* no more than the panics recovered and the verdict that could not be         *)
(* delivered, and every block is in the block log or was dropped unparsed.    *)
(* With no panic and no failed delivery they agree exactly.                  *)
CountersBracketVerdicts ==
    LET slack == panics + verdicts["undelivered"]
    IN  stage \in {"idle", "stopped"} =>
          /\ PacketsIn <= processed /\ processed <= PacketsIn + panics
          /\ verdicts["accepted"] <= allowed
          /\ allowed <= verdicts["accepted"] + slack
          /\ verdicts["dropped"] <= blocked + panics
          /\ blocked <= verdicts["dropped"] + slack
          /\ Len(recorded) + uninspected <= blocked
          /\ blocked <= Len(recorded) + uninspected + 2 * panics

(* A statistics answer, whose counters were loaded while packets went by,      *)
(* never shows a packet that is neither allowed nor blocked, but for the one  *)
(* in hand and those a panic counted twice (Stats loads processed first).     *)
StatsAccountForPackets ==
    reader = "done" =>
        stats.processed <= stats.allowed + stats.blocked + panics + 1

(* The blocks that recordBlock counted: those recorded while there was room   *)
(* for one more reason.  At the cap the counters of known reasons stop too.   *)
CountedBlocks ==
    {i \in 1..Len(recorded) :
        Cardinality({recorded[j] : j \in 1..(i - 1)}) < maxBlockStatsReasons}

(* The log of recent blocks holds exactly the latest blocks in their order,    *)
(* and the counters are, reason by reason, the numbers of the blocks recorded *)
(* before the cap on reasons was reached, the block that reached it included: *)
(* from then on they stand still (recordBlock).                              *)
BlockLogExact ==
    LET n == Len(recorded)
        kept == IF n < maxRecentBlocks THEN n ELSE maxRecentBlocks
    IN  /\ recent = SubSeq(recorded, n - kept + 1, n)
        /\ DOMAIN blockStats = {recorded[i] : i \in CountedBlocks}
        /\ \A r \in DOMAIN blockStats :
              blockStats[r] = Cardinality({i \in CountedBlocks : recorded[i] = r})

(* Every packet taken from the queue gets its verdict, or the loop ends for   *)
(* want of a way to deliver it (handleQueuePacket).                         *)
PacketsGetVerdicts == stage = "handle" ~> stage \in {"idle", "stopped"}

=============================================================================
