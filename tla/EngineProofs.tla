---------------------------- MODULE EngineProofs ----------------------------
(***************************************************************************)
(* The packet pipeline, for any number of packets, panics and reasons: what   *)
(* is accepted was decided, the counters bracket the verdicts, a statistics   *)
(* answer accounts for the packets it counts, and the block log is exact.     *)
(*                                                                         *)
(* The invariants say for every stage what the one packet in hand has been    *)
(* counted as so far: between two packets that leaves the bracket.           *)
(***************************************************************************)
EXTENDS Engine, FiniteSetTheorems, SequenceTheorems, TLAPS

-----------------------------------------------------------------------------
(* What is accepted was decided.                                            *)

\* The packet in hand passed every check and the mode lets its decision pass.
Decided ==
    /\ passed = CheckSet
    /\ \/ decision = "allow"
       \/ decision = "deny" /\ config.auditOnly
       \/ decision = "none" /\ ~config.failClosed

\* A check is reached with exactly the earlier ones passed, and an accept only
\* through logAllow.
AcceptInv ==
    /\ stage \in {"idle", "handle", "stopped", "track"} => passed = {}
    /\ stage = "mac" => passed = {"track"}
    /\ stage = "rate" => passed = {"track", "mac"}
    /\ stage = "intel" => passed = {"track", "mac", "rate"}
    /\ stage = "decide" => passed = CheckSet
    /\ stage = "logAllow" => Decided
    /\ stage = "verdict" /\ ret = 0 => Decided

\* The four checks by name.
LEMMA ChecksNamed ==
    /\ CheckSet = {"track", "mac", "rate", "intel"}
    /\ Len(Checks) = 4 /\ 1..Len(Checks) = {1, 2, 3, 4}
    /\ Checks[1] = "track" /\ Checks[2] = "mac"
    /\ Checks[3] = "rate" /\ Checks[4] = "intel"
<1>1. Len(Checks) = 4 /\ Checks[1] = "track" /\ Checks[2] = "mac"
      /\ Checks[3] = "rate" /\ Checks[4] = "intel"
  BY DEF Checks
<1>2. 1..Len(Checks) = {1, 2, 3, 4}
  BY <1>1
<1>3. CheckSet = {"track", "mac", "rate", "intel"}
  BY <1>1, <1>2 DEF CheckSet
<1> QED BY <1>1, <1>2, <1>3

\* What a passed check leads to (evaluatePacket's order).
LEMMA CheckSteps ==
    ASSUME NEW i \in 1..Len(Checks), Check(i)
    PROVE  /\ UNCHANGED <<config, ret, processed, blockStats, recent, decision,
                          reader, stats, verdicts, uninspected, recorded, panics>>
           /\ \/ /\ UNCHANGED <<allowed, blocked>>
                 /\ \/ stage = "track" /\ stage' = "mac" /\ passed' = passed \cup {"track"}
                    \/ stage = "mac" /\ stage' = "rate" /\ passed' = passed \cup {"mac"}
                    \/ stage = "rate" /\ stage' = "intel" /\ passed' = passed \cup {"rate"}
                    \/ stage = "intel" /\ stage' = "decide" /\ passed' = passed \cup {"intel"}
              \/ stage \in CheckSet /\ stage' = "record" /\ blocked' = blocked + 1
                 /\ UNCHANGED <<allowed, passed>>
<1>1. i \in {1, 2, 3, 4} /\ stage = Checks[i] /\ stage \in CheckSet
  BY ChecksNamed DEF Check, CheckSet
<1>2. UNCHANGED <<config, ret, processed, blockStats, recent, decision,
                  reader, stats, verdicts, uninspected, recorded, panics>>
  BY DEF Check, history
<1>3. CASE Block /\ UNCHANGED passed
  BY <1>1, <1>2, <1>3 DEF Block
<1>4. CASE /\ passed' = passed \cup {Checks[i]}
           /\ stage' = IF i = Len(Checks) THEN "decide" ELSE Checks[i + 1]
           /\ UNCHANGED <<allowed, blocked>>
  BY <1>1, <1>2, <1>4, ChecksNamed
<1> QED BY <1>3, <1>4 DEF Check

LEMMA AcceptStarts == Init => AcceptInv
  BY DEF Init, AcceptInv

LEMMA AcceptKeeps == AcceptInv /\ [Next]_vars => AcceptInv'
<1> SUFFICES ASSUME AcceptInv, [Next]_vars PROVE AcceptInv'
  OBVIOUS
<1>1. CASE Receive
  BY <1>1 DEF AcceptInv, Receive
<1>2. CASE StopReceiving
  BY <1>2 DEF AcceptInv, StopReceiving
<1>3. CASE DropUninspected
  BY <1>3 DEF AcceptInv, DropUninspected
<1>4. CASE StartEvaluation
  BY <1>4, ChecksNamed DEF AcceptInv, StartEvaluation
<1>5. ASSUME NEW i \in 1..Len(Checks), Check(i) PROVE AcceptInv'
  BY <1>5, CheckSteps, ChecksNamed DEF AcceptInv
<1>6. CASE Decide
  <2>1. passed = CheckSet /\ passed' = passed /\ config' = config
    BY <1>6 DEF AcceptInv, Decide
  <2>2. PICK d \in IF config.eval THEN {"allow", "deny", "error"} ELSE {"none"} :
          /\ decision' = d
          /\ \/ d = "none" /\ config.failClosed /\ Block
             \/ d = "none" /\ ~config.failClosed /\ Allow
             \/ d = "error" /\ Block
             \/ d = "deny" /\ config.auditOnly /\ Allow
             \/ d = "deny" /\ ~config.auditOnly /\ Block
             \/ d = "allow" /\ Allow
    BY <1>6 DEF Decide
  <2>3. CASE Block
    BY <2>3 DEF AcceptInv, Block
  <2>4. CASE Allow
    <3>1. stage' = "logAllow"
      BY <2>4 DEF Allow
    <3>2. stage' # "record"
      BY <3>1
    <3>3. \/ d = "none" /\ ~config.failClosed
          \/ d = "deny" /\ config.auditOnly
          \/ d = "allow"
      BY <2>2, <3>2 DEF Block
    <3>4. Decided'
      BY <2>1, <2>2, <3>3 DEF Decided, CheckSet
    <3> QED BY <3>1, <3>4 DEF AcceptInv
  <2> QED BY <2>2, <2>3, <2>4
<1>7. ASSUME NEW r \in Reasons, recordBlock(r) PROVE AcceptInv'
  BY <1>7 DEF AcceptInv, recordBlock
<1>8. CASE logAudit
  BY <1>8 DEF AcceptInv, logAudit, Decided, CheckSet
<1>9. CASE RecoverEvaluate
  BY <1>9 DEF AcceptInv, RecoverEvaluate
<1>10. CASE Capture
  BY <1>10 DEF AcceptInv, Capture
<1>11. CASE RecoverHandler
  BY <1>11 DEF AcceptInv, RecoverHandler
<1>12. CASE SetVerdict
  BY <1>12 DEF AcceptInv, SetVerdict
<1>13. CASE Stats
  BY <1>13 DEF AcceptInv, Stats, LoadProcessed, LoadAllowed, LoadBlocked,
               packetVars, Decided, CheckSet
<1>14. CASE UNCHANGED vars
  BY <1>14 DEF AcceptInv, vars, packetVars, Decided, CheckSet
<1> QED
  BY <1>1, <1>2, <1>3, <1>4, <1>5, <1>6, <1>7, <1>8, <1>9, <1>10, <1>11, <1>12,
     <1>13, <1>14 DEF Next, Handle

\* The kernel is told to accept only a packet that passed every check and whose
\* decision the mode lets pass, however panics and packets follow one another
\* (packetHandler, evaluatePacket).
THEOREM EngineAcceptIsDecided == Spec => []AcceptIsDecided
<1>1. AcceptInv => AcceptIsDecided
  BY DEF AcceptInv, AcceptIsDecided, Decided
<1> QED BY <1>1, AcceptStarts, AcceptKeeps, PTL DEF Spec

-----------------------------------------------------------------------------
(* The counters bracket the verdicts.                                       *)

\* What the packet in hand has been counted as: processed, allowed, blocked, and
\* blocked but not yet recorded.
Counting == IF stage \in {"idle", "stopped", "handle"} THEN 0 ELSE 1
ToAccept == IF stage = "logAllow" \/ (stage = "verdict" /\ ret = 0) THEN 1 ELSE 0
ToDrop ==
    IF stage \in {"record", "logBlock", "capture"} \/ (stage = "verdict" /\ ret = 1)
      THEN 1 ELSE 0
ToRecord == IF stage = "record" THEN 1 ELSE 0

\* The part of TypeOK that the counting needs.
CountTypes ==
    /\ stage \in Stages /\ ret \in {0, 1}
    /\ processed \in Nat /\ allowed \in Nat /\ blocked \in Nat
    /\ uninspected \in Nat /\ panics \in Nat
    /\ verdicts \in [Outcomes -> Nat]
    /\ recorded \in Seq(Reasons)

\* The verdicts and the recorded blocks, the packet in hand included.
Taken == PacketsIn + Counting
Accepts == verdicts["accepted"] + ToAccept
Drops == verdicts["dropped"] + ToDrop
Logs == Len(recorded) + uninspected + ToRecord

\* p, a and b packets counted as processed, allowed and blocked bracket t taken,
\* acc accepted, d dropped and n logged ones, with und undelivered verdicts and
\* pan panics.
Bracket(t, acc, d, und, p, a, b, n, pan) ==
    /\ t <= p /\ p <= t + pan
    /\ acc <= a /\ a <= acc + pan + und
    /\ d <= b + pan /\ b <= d + pan + und
    /\ n <= b /\ b <= n + 2 * pan

\* CountersBracketVerdicts with the packet in hand taken into account.
CountInv ==
    /\ CountTypes
    /\ Bracket(Taken, Accepts, Drops, verdicts["undelivered"],
               processed, allowed, blocked, Logs, panics)

\* A packet is counted, blocked unparsed, blocked, or allowed.
LEMMA BracketCounts ==
    ASSUME NEW t \in Nat, NEW acc \in Nat, NEW d \in Nat, NEW und \in Nat, NEW p \in Nat,
           NEW a \in Nat, NEW b \in Nat, NEW n \in Nat, NEW pan \in Nat,
           Bracket(t, acc, d, und, p, a, b, n, pan)
    PROVE  /\ Bracket(t + 1, acc, d, und, p + 1, a, b, n, pan)
           /\ Bracket(t + 1, acc, d + 1, und, p + 1, a, b + 1, n + 1, pan)
           /\ Bracket(t, acc, d + 1, und, p, a, b + 1, n + 1, pan)
           /\ Bracket(t, acc + 1, d, und, p, a + 1, b, n, pan)
  BY DEF Bracket

\* A panic in evaluatePacket turns the packet in hand into a blocked one, counted
\* once more; what it was counted as before stays counted.
LEMMA BracketRecoversEvaluate ==
    ASSUME NEW t \in Nat, NEW acc \in Nat, NEW d \in Nat, NEW und \in Nat, NEW p \in Nat,
           NEW a \in Nat, NEW b \in Nat, NEW n \in Nat, NEW pan \in Nat,
           NEW acc2 \in Nat, NEW d2 \in Nat, NEW n2 \in Nat,
           Bracket(t, acc, d, und, p, a, b, n, pan),
           acc2 = acc \/ acc = acc2 + 1, d2 = d \/ d2 = d + 1, n2 = n \/ n = n2 + 1
    PROVE  Bracket(t, acc2, d2, und, p + 1, a, b + 1, n2, pan + 1)
  BY DEF Bracket

\* A panic in packetHandler counts the packet as allowed, and it is dropped.
LEMMA BracketRecoversHandler ==
    ASSUME NEW t \in Nat, NEW acc \in Nat, NEW d \in Nat, NEW und \in Nat, NEW p \in Nat,
           NEW a \in Nat, NEW b \in Nat, NEW n \in Nat, NEW pan \in Nat,
           NEW t2 \in Nat, NEW d2 \in Nat,
           Bracket(t, acc, d, und, p, a, b, n, pan),
           t2 = t \/ t2 = t + 1, d2 = d \/ d2 = d + 1
    PROVE  Bracket(t2, acc, d2, und, p + 1, a + 1, b, n, pan + 1)
  BY DEF Bracket

\* A verdict that cannot be delivered was counted all the same.
LEMMA BracketUndelivered ==
    ASSUME NEW t \in Nat, NEW acc \in Nat, NEW d \in Nat, NEW und \in Nat, NEW p \in Nat,
           NEW a \in Nat, NEW b \in Nat, NEW n \in Nat, NEW pan \in Nat,
           NEW acc2 \in Nat, NEW d2 \in Nat,
           Bracket(t, acc, d, und, p, a, b, n, pan),
           acc2 = acc \/ acc = acc2 + 1, d2 = d \/ d = d2 + 1
    PROVE  Bracket(t, acc2, d2, und + 1, p, a, b, n, pan)
  BY DEF Bracket

\* The sums are natural numbers.
LEMMA SumsAreNat ==
    ASSUME CountTypes
    PROVE  /\ Taken \in Nat /\ Accepts \in Nat /\ Drops \in Nat /\ Logs \in Nat
           /\ verdicts["undelivered"] \in Nat
<1>1. /\ verdicts["accepted"] \in Nat /\ verdicts["dropped"] \in Nat
      /\ verdicts["undelivered"] \in Nat /\ Len(recorded) \in Nat
  BY DEF CountTypes, Outcomes
<1>2. /\ Counting \in Nat /\ ToAccept \in Nat /\ ToDrop \in Nat /\ ToRecord \in Nat
  BY DEF Counting, ToAccept, ToDrop, ToRecord
<1>3. PacketsIn \in Nat /\ uninspected \in Nat
  BY <1>1 DEF CountTypes, PacketsIn
<1> QED BY <1>1, <1>2, <1>3 DEF Taken, Accepts, Drops, Logs

LEMMA CountStarts == Init => CountInv
  BY DEF Init, CountInv, CountTypes, Counting, ToAccept, ToDrop, ToRecord, PacketsIn,
         Stages, Outcomes, Bracket, Taken, Accepts, Drops, Logs

\* Each step adds at most one to a counter, and what it adds it accounts for:
\* as a verdict, as a panic or in the packet in hand.
LEMMA CountKeeps == CountInv /\ [Next]_vars => CountInv'
<1> SUFFICES ASSUME CountInv, [Next]_vars PROVE CountInv'
  OBVIOUS
<1> DEFINE acc == verdicts["accepted"]
           drop == verdicts["dropped"]
           und == verdicts["undelivered"]
           len == Len(recorded)
           Marks(c, a, d, r) == Counting = c /\ ToAccept = a /\ ToDrop = d /\ ToRecord = r
           NextMarks(c, a, d, r) ==
              Counting' = c /\ ToAccept' = a /\ ToDrop' = d /\ ToRecord' = r
<1>0. /\ acc \in Nat /\ drop \in Nat /\ und \in Nat /\ len \in Nat
      /\ processed \in Nat /\ allowed \in Nat /\ blocked \in Nat
      /\ uninspected \in Nat /\ panics \in Nat
  BY DEF CountInv, CountTypes, Outcomes
<1>S. Stages = {"track", "mac", "rate", "intel", "decide", "record", "logBlock",
                "logAllow", "idle", "handle", "capture", "verdict", "stopped"}
  BY ChecksNamed DEF Stages, EvaluateStages
<1>N. /\ Taken \in Nat /\ Accepts \in Nat /\ Drops \in Nat /\ Logs \in Nat
      /\ Bracket(Taken, Accepts, Drops, und, processed, allowed, blocked, Logs, panics)
  BY SumsAreNat DEF CountInv
<1> DEFINE Sums(t, a, d, n) == Taken' = t /\ Accepts' = a /\ Drops' = d /\ Logs' = n
<1>U. ASSUME CountTypes', Sums(Taken, Accepts, Drops, Logs),
             UNCHANGED <<counters, panics>>, und' = und
      PROVE  CountInv'
  BY <1>N, <1>U DEF CountInv, counters
<1>1. CASE Receive
  <2>1. CountTypes'
    BY <1>1, <1>S DEF Receive, CountInv, CountTypes, counters, history
  <2>2. Marks(0, 0, 0, 0) /\ NextMarks(0, 0, 0, 0)
    BY <1>1 DEF Receive, Counting, ToAccept, ToDrop, ToRecord
  <2>3. UNCHANGED <<counters, history>>
    BY <1>1 DEF Receive
  <2>4. Sums(Taken, Accepts, Drops, Logs)
    BY <2>2, <2>3 DEF Taken, Accepts, Drops, Logs, PacketsIn, history
  <2> QED BY <1>U, <2>1, <2>3, <2>4 DEF history
<1>2. CASE StopReceiving
  <2>1. CountTypes'
    BY <1>2, <1>S DEF StopReceiving, CountInv, CountTypes, counters, history
  <2>2. Marks(0, 0, 0, 0) /\ NextMarks(0, 0, 0, 0)
    BY <1>2 DEF StopReceiving, Counting, ToAccept, ToDrop, ToRecord
  <2>3. UNCHANGED <<counters, history>>
    BY <1>2 DEF StopReceiving
  <2>4. Sums(Taken, Accepts, Drops, Logs)
    BY <2>2, <2>3 DEF Taken, Accepts, Drops, Logs, PacketsIn, history
  <2> QED BY <1>U, <2>1, <2>3, <2>4 DEF history
<1>3. CASE DropUninspected
  <2>1. CountTypes'
    BY <1>3, <1>S DEF DropUninspected, CountInv, CountTypes
  <2>2. Marks(0, 0, 0, 0) /\ NextMarks(1, 0, 1, 0)
    BY <1>3 DEF DropUninspected, Counting, ToAccept, ToDrop, ToRecord
  <2>3. /\ processed' = processed + 1 /\ blocked' = blocked + 1
        /\ uninspected' = uninspected + 1
        /\ UNCHANGED <<allowed, verdicts, recorded, panics>>
    BY <1>3 DEF DropUninspected
  <2>4. Sums(Taken + 1, Accepts, Drops + 1, Logs + 1)
    BY <1>0, <2>2, <2>3 DEF Taken, Accepts, Drops, Logs, PacketsIn
  <2> QED BY <1>0, <1>N, <2>1, <2>3, <2>4, BracketCounts DEF CountInv
<1>4. CASE StartEvaluation
  <2>0. stage' = "track"
    BY <1>4, ChecksNamed DEF StartEvaluation
  <2>1. CountTypes'
    BY <1>4, <1>S, <2>0 DEF StartEvaluation, CountInv, CountTypes, history
  <2>2. Marks(0, 0, 0, 0) /\ NextMarks(1, 0, 0, 0)
    BY <1>4, <2>0 DEF StartEvaluation, Counting, ToAccept, ToDrop, ToRecord
  <2>3. processed' = processed + 1 /\ UNCHANGED <<allowed, blocked, history>>
    BY <1>4 DEF StartEvaluation
  <2>4. Sums(Taken + 1, Accepts, Drops, Logs)
    BY <1>0, <2>2, <2>3 DEF Taken, Accepts, Drops, Logs, PacketsIn, history
  <2> QED BY <1>0, <1>N, <2>1, <2>3, <2>4, BracketCounts DEF CountInv, history
<1>5. ASSUME NEW i \in 1..Len(Checks), Check(i) PROVE CountInv'
  <2>0. UNCHANGED <<ret, processed, verdicts, uninspected, recorded, panics>>
    BY <1>5, CheckSteps
  <2>1. CASE /\ stage \in CheckSet /\ stage' = "record" /\ blocked' = blocked + 1
             /\ UNCHANGED allowed
    <3>1. CountTypes'
      BY <1>S, <2>0, <2>1 DEF CountInv, CountTypes
    <3>2. Marks(1, 0, 0, 0) /\ NextMarks(1, 0, 1, 1)
      BY <2>1, ChecksNamed DEF Counting, ToAccept, ToDrop, ToRecord
    <3>3. Sums(Taken, Accepts, Drops + 1, Logs + 1)
      BY <1>0, <2>0, <3>2 DEF Taken, Accepts, Drops, Logs, PacketsIn
    <3> QED BY <1>0, <1>N, <2>0, <2>1, <3>1, <3>3, BracketCounts DEF CountInv
  <2>2. CASE /\ stage \in CheckSet /\ stage' \in {"mac", "rate", "intel", "decide"}
             /\ UNCHANGED <<allowed, blocked>>
    <3>1. CountTypes'
      BY <1>S, <2>0, <2>2 DEF CountInv, CountTypes
    <3>2. Marks(1, 0, 0, 0) /\ NextMarks(1, 0, 0, 0)
      BY <2>2, ChecksNamed DEF Counting, ToAccept, ToDrop, ToRecord
    <3>3. Sums(Taken, Accepts, Drops, Logs)
      BY <2>0, <3>2 DEF Taken, Accepts, Drops, Logs, PacketsIn
    <3> QED BY <1>U, <2>0, <2>2, <3>1, <3>3 DEF counters
  <2> QED BY <1>5, <2>1, <2>2, CheckSteps, ChecksNamed
<1>6. CASE Decide
  <2>0. stage = "decide" /\ UNCHANGED <<ret, processed, history>>
    BY <1>6 DEF Decide
  <2>1. CASE Block
    <3>1. CountTypes'
      BY <1>S, <2>0, <2>1 DEF Block, CountInv, CountTypes, history
    <3>2. Marks(1, 0, 0, 0) /\ NextMarks(1, 0, 1, 1)
      BY <2>0, <2>1 DEF Block, Counting, ToAccept, ToDrop, ToRecord
    <3>3. Sums(Taken, Accepts, Drops + 1, Logs + 1)
      BY <1>0, <2>0, <3>2 DEF Taken, Accepts, Drops, Logs, PacketsIn, history
    <3> QED BY <1>0, <1>N, <2>0, <2>1, <3>1, <3>3, BracketCounts
            DEF Block, CountInv, history
  <2>2. CASE Allow
    <3>1. CountTypes'
      BY <1>S, <2>0, <2>2 DEF Allow, CountInv, CountTypes, history
    <3>2. Marks(1, 0, 0, 0) /\ NextMarks(1, 1, 0, 0)
      BY <2>0, <2>2 DEF Allow, Counting, ToAccept, ToDrop, ToRecord
    <3>3. Sums(Taken, Accepts + 1, Drops, Logs)
      BY <1>0, <2>0, <3>2 DEF Taken, Accepts, Drops, Logs, PacketsIn, history
    <3> QED BY <1>0, <1>N, <2>0, <2>2, <3>1, <3>3, BracketCounts
            DEF Allow, CountInv, history
  <2> QED BY <1>6, <2>1, <2>2 DEF Decide
<1>7. ASSUME NEW r \in Reasons, recordBlock(r) PROVE CountInv'
  <2>0. /\ stage = "record" /\ stage' = "logBlock" /\ recorded' = Append(recorded, r)
        /\ UNCHANGED <<ret, processed, allowed, blocked, verdicts, uninspected, panics>>
    BY <1>7 DEF recordBlock, counters
  <2>1. recorded' \in Seq(Reasons) /\ Len(recorded') = len + 1
    BY <2>0 DEF CountInv, CountTypes
  <2>2. CountTypes'
    BY <1>S, <2>0, <2>1 DEF CountInv, CountTypes
  <2>3. Marks(1, 0, 1, 1) /\ NextMarks(1, 0, 1, 0)
    BY <2>0 DEF Counting, ToAccept, ToDrop, ToRecord
  <2>4. Sums(Taken, Accepts, Drops, Logs)
    BY <1>0, <2>0, <2>1, <2>3 DEF Taken, Accepts, Drops, Logs, PacketsIn
  <2> QED BY <1>U, <2>0, <2>2, <2>4 DEF counters
<1>8. CASE logAudit
  <2>0. UNCHANGED <<counters, history>>
    BY <1>8 DEF logAudit
  <2>1. CountTypes'
    BY <1>8, <1>S DEF logAudit, CountInv, CountTypes, counters, history
  <2>2. \/ Marks(1, 0, 1, 0) /\ NextMarks(1, 0, 1, 0)
        \/ Marks(1, 1, 0, 0) /\ NextMarks(1, 1, 0, 0)
    BY <1>8 DEF logAudit, Counting, ToAccept, ToDrop, ToRecord
  <2>3. Sums(Taken, Accepts, Drops, Logs)
    BY <2>0, <2>2 DEF Taken, Accepts, Drops, Logs, PacketsIn, history
  <2> QED BY <1>U, <2>0, <2>1, <2>3 DEF history
<1>9. CASE RecoverEvaluate
  <2>1. CountTypes'
    BY <1>9, <1>S DEF RecoverEvaluate, CountInv, CountTypes
  <2>2. /\ \/ Marks(1, 0, 0, 0) \/ Marks(1, 1, 0, 0)
           \/ Marks(1, 0, 1, 0) \/ Marks(1, 0, 1, 1)
        /\ NextMarks(1, 0, 1, 0)
    BY <1>9, ChecksNamed
       DEF RecoverEvaluate, EvaluateStages, Counting, ToAccept, ToDrop, ToRecord
  <2>3. /\ processed' = processed + 1 /\ blocked' = blocked + 1 /\ panics' = panics + 1
        /\ UNCHANGED <<allowed, verdicts, uninspected, recorded>>
    BY <1>9 DEF RecoverEvaluate
  <2>4. Taken' = Taken /\ (Accepts' = Accepts \/ Accepts = Accepts' + 1)
    BY <1>0, <2>2, <2>3 DEF Taken, Accepts, PacketsIn
  <2>5. Drops' = Drops \/ Drops' = Drops + 1
    BY <1>0, <2>2, <2>3 DEF Drops
  <2>6. Logs' = Logs \/ Logs = Logs' + 1
    BY <1>0, <2>2, <2>3 DEF Logs
  <2>7. Accepts' \in Nat /\ Drops' \in Nat /\ Logs' \in Nat
    BY <1>0, <2>2, <2>3 DEF Accepts, Drops, Logs
  <2> QED BY <1>0, <1>N, <2>1, <2>3, <2>4, <2>5, <2>6, <2>7, BracketRecoversEvaluate
          DEF CountInv
<1>10. CASE Capture
  <2>1. CountTypes'
    BY <1>10, <1>S DEF Capture, CountInv, CountTypes, counters, history
  <2>2. Marks(1, 0, 1, 0) /\ NextMarks(1, 0, 1, 0)
    BY <1>10 DEF Capture, Counting, ToAccept, ToDrop, ToRecord
  <2>3. UNCHANGED <<counters, history>>
    BY <1>10 DEF Capture
  <2>4. Sums(Taken, Accepts, Drops, Logs)
    BY <2>2, <2>3 DEF Taken, Accepts, Drops, Logs, PacketsIn, history
  <2> QED BY <1>U, <2>1, <2>3, <2>4 DEF history
<1>11. CASE RecoverHandler
  <2>1. CountTypes'
    BY <1>11, <1>S DEF RecoverHandler, CountInv, CountTypes
  <2>2. /\ Marks(0, 0, 0, 0) \/ Marks(1, 0, 1, 0)
        /\ NextMarks(1, 0, 1, 0)
    BY <1>11 DEF RecoverHandler, Counting, ToAccept, ToDrop, ToRecord
  <2>3. /\ processed' = processed + 1 /\ allowed' = allowed + 1 /\ panics' = panics + 1
        /\ UNCHANGED <<blocked, verdicts, uninspected, recorded>>
    BY <1>11 DEF RecoverHandler
  <2>4. Accepts' = Accepts /\ Logs' = Logs
    BY <1>0, <2>2, <2>3 DEF Accepts, Logs
  <2>5. (Taken' = Taken \/ Taken' = Taken + 1) /\ (Drops' = Drops \/ Drops' = Drops + 1)
    BY <1>0, <2>2, <2>3 DEF Taken, Drops, PacketsIn
  <2>6. Taken' \in Nat /\ Drops' \in Nat
    BY <1>N, <2>5
  <2>7. Bracket(Taken', Accepts, Drops', und, processed + 1, allowed + 1, blocked,
                Logs, panics + 1)
    BY <1>0, <1>N, <2>5, <2>6, BracketRecoversHandler, ZenonT(60)
  <2> QED BY <2>1, <2>3, <2>4, <2>7 DEF CountInv
<1>12. CASE SetVerdict
  <2>0. stage = "verdict" /\ UNCHANGED <<ret, counters, uninspected, recorded, panics>>
    BY <1>12 DEF SetVerdict
  <2>1. CountTypes'
    BY <1>12, <1>S DEF SetVerdict, CountInv, CountTypes, counters, Outcomes
  <2>2. NextMarks(0, 0, 0, 0)
    BY <1>12 DEF SetVerdict, Counting, ToAccept, ToDrop, ToRecord
  <2>3. \/ Marks(1, 1, 0, 0) /\ ret = 0
        \/ Marks(1, 0, 1, 0) /\ ret = 1
    BY <2>0 DEF Counting, ToAccept, ToDrop, ToRecord, CountInv, CountTypes
  <2>4. \/ ret = 0 /\ acc' = acc + 1 /\ drop' = drop /\ und' = und
        \/ ret = 1 /\ acc' = acc /\ drop' = drop + 1 /\ und' = und
        \/ acc' = acc /\ drop' = drop /\ und' = und + 1
    BY <1>12 DEF SetVerdict, CountInv, CountTypes, Outcomes
  <2>5. Taken' = Taken /\ Logs' = Logs
    <3>0. PacketsIn = acc + drop + und /\ PacketsIn' = acc' + drop' + und'
      BY DEF PacketsIn
    <3>1. PacketsIn' = PacketsIn + 1 /\ PacketsIn \in Nat
      <4> HIDE DEF acc, drop, und
      <4>1. CASE acc' = acc + 1 /\ drop' = drop /\ und' = und
        BY <1>0, <3>0, <4>1
      <4>2. CASE acc' = acc /\ drop' = drop + 1 /\ und' = und
        BY <1>0, <3>0, <4>2
      <4>3. CASE acc' = acc /\ drop' = drop /\ und' = und + 1
        BY <1>0, <3>0, <4>3
      <4> QED BY <2>4, <4>1, <4>2, <4>3
    <3>2. Counting = 1 /\ Counting' = 0 /\ ToRecord = 0 /\ ToRecord' = 0
      BY <2>2, <2>3
    <3> QED BY <1>0, <2>0, <3>1, <3>2 DEF Taken, Logs
  <2>6. CASE und' = und /\ Accepts' = Accepts /\ Drops' = Drops
    BY <1>U, <2>0, <2>1, <2>5, <2>6
  <2>7. CASE /\ und' = und + 1 /\ Accepts' \in Nat /\ Drops' \in Nat
             /\ Accepts' = Accepts \/ Accepts = Accepts' + 1
             /\ Drops' = Drops \/ Drops = Drops' + 1
    <3>1. Bracket(Taken, Accepts', Drops', und + 1, processed, allowed, blocked,
                  Logs, panics)
      BY <1>0, <1>N, <2>7, BracketUndelivered
    <3> QED BY <2>0, <2>1, <2>5, <2>7, <3>1 DEF CountInv, counters
  <2>8. \/ und' = und /\ Accepts' = Accepts /\ Drops' = Drops
        \/ und' = und + 1 /\ acc' = acc /\ drop' = drop
    BY <1>0, <2>2, <2>3, <2>4 DEF Accepts, Drops
  <2> QED BY <1>0, <2>2, <2>3, <2>6, <2>7, <2>8 DEF Accepts, Drops
<1>13. CASE Stats
  <2>1. UNCHANGED packetVars
    BY <1>13 DEF Stats, LoadProcessed, LoadAllowed, LoadBlocked
  <2> QED
    BY <1>U, <2>1 DEF packetVars, counters, history, CountInv, CountTypes, Counting,
       ToAccept, ToDrop, ToRecord, Taken, Accepts, Drops, Logs, PacketsIn
<1>14. CASE UNCHANGED vars
  BY <1>U, <1>14 DEF vars, packetVars, counters, history, CountInv, CountTypes,
     Counting, ToAccept, ToDrop, ToRecord, Taken, Accepts, Drops, Logs, PacketsIn
<1> QED
  BY <1>1, <1>2, <1>3, <1>4, <1>5, <1>6, <1>7, <1>8, <1>9, <1>10, <1>11, <1>12,
     <1>13, <1>14 DEF Next, Handle

\* Between two packets the counters bracket the verdicts the kernel got, and the
\* blocks those recorded, whatever panics were recovered (evaluatePacket,
\* packetHandler, handleQueuePacket).
THEOREM EngineCountersBracketVerdicts == Spec => []CountersBracketVerdicts
<1>1. ASSUME CountInv, stage \in {"idle", "stopped"} PROVE CountersBracketVerdicts
  <2>1. Counting = 0 /\ ToAccept = 0 /\ ToDrop = 0 /\ ToRecord = 0
    BY <1>1 DEF Counting, ToAccept, ToDrop, ToRecord
  <2>2. /\ verdicts["accepted"] \in Nat /\ verdicts["dropped"] \in Nat
        /\ verdicts["undelivered"] \in Nat /\ Len(recorded) \in Nat
        /\ uninspected \in Nat /\ panics \in Nat
    BY <1>1 DEF CountInv, CountTypes, Outcomes
  <2>3. /\ Taken = PacketsIn /\ Accepts = verdicts["accepted"]
        /\ Drops = verdicts["dropped"] /\ Logs = Len(recorded) + uninspected
    BY <2>1, <2>2 DEF Taken, Accepts, Drops, Logs, PacketsIn
  <2> QED BY <1>1, <2>2, <2>3 DEF CountInv, Bracket, CountersBracketVerdicts
<1>2. CountInv => CountersBracketVerdicts
  BY <1>1 DEF CountersBracketVerdicts
<1> QED BY <1>2, CountStarts, CountKeeps, PTL DEF Spec

-----------------------------------------------------------------------------
(* A statistics answer accounts for the packets it counts.                   *)

\* The packet in hand is counted as processed only.
InHand == IF stage \in CheckSet \cup {"decide"} THEN 1 ELSE 0

\* Whatever is counted as processed is counted as allowed or blocked too, but for
\* the packet in hand and what a panic counted.
Accounted == processed <= allowed + blocked + panics + InHand

\* What Stats has loaded so far, and what it has yet to load, accounts for the
\* packets that it loaded first.
StatsInv ==
    /\ reader \in {"processed", "allowed", "blocked", "done"}
    /\ stats \in [processed : Nat, allowed : Nat, blocked : Nat]
    /\ Accounted
    /\ reader = "allowed" => stats.processed <= allowed + blocked + panics + 1
    /\ reader = "blocked" => stats.processed <= stats.allowed + blocked + panics + 1
    /\ reader = "done" => stats.processed <= stats.allowed + stats.blocked + panics + 1

\* What a step of the receive goroutine does to the counters.
Moves(p, a, b, pan, h, h2) ==
    /\ processed' = processed + p /\ allowed' = allowed + a /\ blocked' = blocked + b
    /\ panics' = panics + pan
    /\ InHand = h /\ InHand' = h2
    /\ UNCHANGED <<reader, stats>>

\* Every kind of step of the receive goroutine.
PacketMoves ==
    \/ Moves(0, 0, 0, 0, 0, 0) \/ Moves(1, 0, 1, 0, 0, 0) \/ Moves(1, 0, 0, 0, 0, 1)
    \/ Moves(0, 0, 0, 0, 1, 1) \/ Moves(0, 0, 1, 0, 1, 0) \/ Moves(0, 1, 0, 0, 1, 0)
    \/ Moves(1, 0, 1, 1, 0, 0) \/ Moves(1, 0, 1, 1, 1, 0) \/ Moves(1, 1, 0, 1, 0, 0)

LEMMA StepMoves ==
    ASSUME CountTypes, Receive \/ StopReceiving \/ Handle
    PROVE  PacketMoves
<1> USE ChecksNamed DEF Moves, InHand, counters, history
<1>0. processed \in Nat /\ allowed \in Nat /\ blocked \in Nat /\ panics \in Nat
  BY DEF CountTypes
<1>1. CASE Receive
  <2>1. Moves(0, 0, 0, 0, 0, 0)
    BY <1>0, <1>1 DEF Receive
  <2> QED BY <2>1 DEF PacketMoves
<1>2. CASE StopReceiving
  <2>1. Moves(0, 0, 0, 0, 0, 0)
    BY <1>0, <1>2 DEF StopReceiving
  <2> QED BY <2>1 DEF PacketMoves
<1>3. CASE DropUninspected
  <2>1. Moves(1, 0, 1, 0, 0, 0)
    BY <1>0, <1>3 DEF DropUninspected
  <2> QED BY <2>1 DEF PacketMoves
<1>4. CASE StartEvaluation
  <2>1. Moves(1, 0, 0, 0, 0, 1)
    BY <1>0, <1>4 DEF StartEvaluation
  <2> QED BY <2>1 DEF PacketMoves
<1>5. ASSUME NEW i \in 1..Len(Checks), Check(i) PROVE PacketMoves
  <2>1. UNCHANGED <<processed, panics, reader, stats>>
    BY <1>5, CheckSteps
  <2>2. Moves(0, 0, 0, 0, 1, 1) \/ Moves(0, 0, 1, 0, 1, 0)
    BY <1>0, <1>5, <2>1, CheckSteps
  <2> QED BY <2>2 DEF PacketMoves
<1>6. CASE Decide
  <2>1. Block \/ Allow
    BY <1>6 DEF Decide
  <2>2. Moves(0, 0, 1, 0, 1, 0) \/ Moves(0, 1, 0, 0, 1, 0)
    BY <1>0, <1>6, <2>1 DEF Decide, Block, Allow
  <2> QED BY <2>2 DEF PacketMoves
<1>7. ASSUME NEW r \in Reasons, recordBlock(r) PROVE PacketMoves
  <2>1. Moves(0, 0, 0, 0, 0, 0)
    BY <1>0, <1>7 DEF recordBlock
  <2> QED BY <2>1 DEF PacketMoves
<1>8. CASE logAudit
  <2>1. Moves(0, 0, 0, 0, 0, 0)
    BY <1>0, <1>8 DEF logAudit
  <2> QED BY <2>1 DEF PacketMoves
<1>9. CASE RecoverEvaluate
  <2>1. Moves(1, 0, 1, 1, 0, 0) \/ Moves(1, 0, 1, 1, 1, 0)
    BY <1>0, <1>9 DEF RecoverEvaluate, EvaluateStages
  <2> QED BY <2>1 DEF PacketMoves
<1>10. CASE Capture
  <2>1. Moves(0, 0, 0, 0, 0, 0)
    BY <1>0, <1>10 DEF Capture
  <2> QED BY <2>1 DEF PacketMoves
<1>11. CASE RecoverHandler
  <2>1. Moves(1, 1, 0, 1, 0, 0)
    BY <1>0, <1>11 DEF RecoverHandler
  <2> QED BY <2>1 DEF PacketMoves
<1>12. CASE SetVerdict
  <2>1. Moves(0, 0, 0, 0, 0, 0)
    BY <1>0, <1>12 DEF SetVerdict
  <2> QED BY <2>1 DEF PacketMoves
<1> QED
  BY <1>1, <1>2, <1>3, <1>4, <1>5, <1>6, <1>7, <1>8, <1>9, <1>10, <1>11, <1>12
  DEF Handle

LEMMA StatsStarts == Init => StatsInv
  BY DEF Init, StatsInv, Accounted, InHand

\* The counters never fall, and a step leaves what is processed accounted for.
LEMMA StatsMoves ==
    ASSUME NEW p \in Nat, NEW a \in Nat, NEW b \in Nat, NEW pan \in Nat,
           NEW h \in {0, 1}, NEW h2 \in {0, 1},
           CountTypes, StatsInv, Moves(p, a, b, pan, h, h2),
           p + h <= a + b + pan + h2
    PROVE  StatsInv'
<1>0. /\ processed \in Nat /\ allowed \in Nat /\ blocked \in Nat /\ panics \in Nat
      /\ stats.processed \in Nat /\ stats.allowed \in Nat /\ stats.blocked \in Nat
  BY DEF CountTypes, StatsInv
<1>1. Accounted'
  BY <1>0 DEF StatsInv, Accounted, Moves
<1>2. reader' = reader /\ stats' = stats
  BY DEF Moves
<1>3. reader = "allowed" => stats.processed <= allowed' + blocked' + panics' + 1
  BY <1>0 DEF StatsInv, Moves
<1>4. reader = "blocked" => stats.processed <= stats.allowed + blocked' + panics' + 1
  BY <1>0 DEF StatsInv, Moves
<1>5. reader = "done" => stats.processed <= stats.allowed + stats.blocked + panics' + 1
  BY <1>0 DEF StatsInv, Moves
<1> QED BY <1>1, <1>2, <1>3, <1>4, <1>5 DEF StatsInv

LEMMA StatsKeeps == CountTypes /\ StatsInv /\ [Next]_vars => StatsInv'
<1> SUFFICES ASSUME CountTypes, StatsInv, [Next]_vars PROVE StatsInv'
  OBVIOUS
<1>0. /\ processed \in Nat /\ allowed \in Nat /\ blocked \in Nat /\ panics \in Nat
      /\ InHand \in {0, 1}
      /\ stats.processed \in Nat /\ stats.allowed \in Nat /\ stats.blocked \in Nat
  BY DEF CountTypes, StatsInv, InHand
<1>1. CASE Receive \/ StopReceiving \/ Handle
  <2>1. PacketMoves
    BY <1>1, StepMoves
  <2> QED BY <2>1, StatsMoves DEF PacketMoves
<1>2. ASSUME UNCHANGED packetVars PROVE /\ Accounted'
                                        /\ UNCHANGED <<allowed, blocked, panics>>
  BY <1>2 DEF packetVars, counters, history, StatsInv, Accounted, InHand, CheckSet
<1>3. CASE LoadProcessed
  <2>1. /\ reader' = "allowed" /\ stats' = [stats EXCEPT !.processed = processed]
        /\ Accounted' /\ UNCHANGED <<allowed, blocked, panics>>
    BY <1>2, <1>3 DEF LoadProcessed
  <2>2. /\ stats' \in [processed : Nat, allowed : Nat, blocked : Nat]
        /\ stats'.processed = processed
    BY <1>0, <2>1 DEF StatsInv
  <2>3. processed <= allowed + blocked + panics + 1
    BY <1>0 DEF StatsInv, Accounted
  <2> QED BY <2>1, <2>2, <2>3 DEF StatsInv
<1>4. CASE LoadAllowed
  <2>1. /\ reader = "allowed" /\ reader' = "blocked"
        /\ stats' = [stats EXCEPT !.allowed = allowed]
        /\ Accounted' /\ UNCHANGED <<allowed, blocked, panics>>
    BY <1>2, <1>4 DEF LoadAllowed
  <2>2. /\ stats' \in [processed : Nat, allowed : Nat, blocked : Nat]
        /\ stats'.processed = stats.processed /\ stats'.allowed = allowed
    BY <1>0, <2>1 DEF StatsInv
  <2> QED BY <2>1, <2>2 DEF StatsInv
<1>5. CASE LoadBlocked
  <2>1. /\ reader = "blocked" /\ reader' = "done"
        /\ stats' = [stats EXCEPT !.blocked = blocked]
        /\ Accounted' /\ UNCHANGED <<allowed, blocked, panics>>
    BY <1>2, <1>5 DEF LoadBlocked
  <2>2. /\ stats' \in [processed : Nat, allowed : Nat, blocked : Nat]
        /\ stats'.processed = stats.processed /\ stats'.allowed = stats.allowed
        /\ stats'.blocked = blocked
    BY <1>0, <2>1 DEF StatsInv
  <2> QED BY <2>1, <2>2 DEF StatsInv
<1>6. CASE UNCHANGED vars
  <2>1. reader' = reader /\ stats' = stats /\ UNCHANGED packetVars
    BY <1>6 DEF vars
  <2> QED BY <1>2, <2>1 DEF StatsInv
<1> QED BY <1>1, <1>3, <1>4, <1>5, <1>6 DEF Next, Stats

\* A statistics answer, its counters loaded one by one while packets go by, never
\* shows a packet that is neither allowed nor blocked, but for the one in hand and
\* those a panic counted (Stats, evaluatePacket).
THEOREM EngineStatsAccountForPackets == Spec => []StatsAccountForPackets
<1>1. CountInv => CountTypes
  BY DEF CountInv
<1>2. StatsInv => StatsAccountForPackets
  BY DEF StatsInv, StatsAccountForPackets
<1> QED
  BY <1>1, <1>2, CountStarts, CountKeeps, StatsStarts, StatsKeeps, PTL DEF Spec

-----------------------------------------------------------------------------
(* Types.                                                                  *)

\* The log of recent blocks stays a sequence of reasons, and the counters one
\* natural number per reason (recordBlock).
LEMMA RecordTypes ==
    ASSUME TypeOK, NEW r \in Reasons
    PROVE  /\ Logged(recent, r) \in Seq(Reasons)
           /\ DOMAIN Counted(blockStats, r) \subseteq Reasons
           /\ \A x \in DOMAIN Counted(blockStats, r) : Counted(blockStats, r)[x] \in Nat
<1>1. Len(recent) >= maxRecentBlocks => recent # <<>>
  BY BlockLogAssumption DEF TypeOK
<1>2. Len(recent) >= maxRecentBlocks => Tail(recent) \in Seq(Reasons)
  BY <1>1 DEF TypeOK
<1>3. Logged(recent, r) \in Seq(Reasons)
  BY <1>2 DEF Logged, TypeOK
<1>4. CASE Cardinality(DOMAIN blockStats) < maxBlockStatsReasons
  <2> DEFINE new == [x \in DOMAIN blockStats \cup {r} |->
                       (IF x \in DOMAIN blockStats THEN blockStats[x] ELSE 0)
                         + (IF x = r THEN 1 ELSE 0)]
  <2>1. Counted(blockStats, r) = new
    BY <1>4 DEF Counted
  <2>2. DOMAIN new \subseteq Reasons /\ \A x \in DOMAIN new : new[x] \in Nat
    BY DEF TypeOK
  <2> QED BY <1>3, <2>1, <2>2
<1>5. CASE ~(Cardinality(DOMAIN blockStats) < maxBlockStatsReasons)
  <2>1. Counted(blockStats, r) = blockStats
    BY <1>5 DEF Counted
  <2> QED BY <1>3, <2>1 DEF TypeOK
<1> QED BY <1>4, <1>5

LEMMA TypesKept == TypeOK /\ [Next]_vars => TypeOK'
<1> SUFFICES ASSUME TypeOK, [Next]_vars PROVE TypeOK'
  OBVIOUS
<1> USE DEF TypeOK, counters, history
<1>S. Stages = {"track", "mac", "rate", "intel", "decide", "record", "logBlock",
                "logAllow", "idle", "handle", "capture", "verdict", "stopped"}
  BY ChecksNamed DEF Stages, EvaluateStages
<1>1. CASE Receive
  BY <1>1, <1>S DEF Receive, CheckSet
<1>2. CASE StopReceiving
  BY <1>2, <1>S DEF StopReceiving, CheckSet
<1>3. CASE DropUninspected
  BY <1>3, <1>S DEF DropUninspected, CheckSet
<1>4. CASE StartEvaluation
  BY <1>4, <1>S, ChecksNamed DEF StartEvaluation
<1>5. ASSUME NEW i \in 1..Len(Checks), Check(i) PROVE TypeOK'
  <2>1. stage' \in Stages /\ passed' \subseteq CheckSet
    <3>1. stage' \in {"mac", "rate", "intel", "decide", "record"}
      BY <1>5, CheckSteps
    <3>2. passed' = passed \/ \E c \in CheckSet : passed' = passed \cup {c}
      BY <1>5, CheckSteps, ChecksNamed
    <3> QED BY <1>S, <3>1, <3>2
  <2>2. allowed' \in Nat /\ blocked' \in Nat
    <3>1. allowed' = allowed /\ (blocked' = blocked \/ blocked' = blocked + 1)
      BY <1>5, CheckSteps
    <3> QED BY <3>1
  <2> QED BY <1>5, <2>1, <2>2, CheckSteps DEF CheckSet
<1>6. CASE Decide
  <2>1. decision' \in Decisions
    BY <1>6 DEF Decide, Decisions
  <2>2. Block \/ Allow
    BY <1>6 DEF Decide
  <2>3. stage' \in Stages /\ allowed' \in Nat /\ blocked' \in Nat
    BY <1>S, <2>2 DEF Block, Allow
  <2> QED BY <1>6, <2>1, <2>3 DEF Decide, CheckSet
<1>7. ASSUME NEW r \in Reasons, recordBlock(r) PROVE TypeOK'
  <2>1. /\ recent' \in Seq(Reasons) /\ DOMAIN blockStats' \subseteq Reasons
        /\ \A x \in DOMAIN blockStats' : blockStats'[x] \in Nat
    BY <1>7, RecordTypes DEF recordBlock
  <2>2. recorded' \in Seq(Reasons) /\ stage' \in Stages
    BY <1>7, <1>S DEF recordBlock
  <2> QED BY <1>7, <2>1, <2>2 DEF recordBlock, CheckSet
<1>8. CASE logAudit
  BY <1>8, <1>S DEF logAudit, CheckSet
<1>9. CASE RecoverEvaluate
  BY <1>9, <1>S DEF RecoverEvaluate, CheckSet
<1>10. CASE Capture
  BY <1>10, <1>S DEF Capture, CheckSet
<1>11. CASE RecoverHandler
  BY <1>11, <1>S DEF RecoverHandler, CheckSet
<1>12. CASE SetVerdict
  BY <1>12, <1>S DEF SetVerdict, Outcomes, Decisions
<1>13. CASE Stats
  BY <1>13 DEF Stats, LoadProcessed, LoadAllowed, LoadBlocked, packetVars, CheckSet
<1>14. CASE UNCHANGED vars
  BY <1>14 DEF vars, packetVars, CheckSet
<1> QED
  BY <1>1, <1>2, <1>3, <1>4, <1>5, <1>6, <1>7, <1>8, <1>9, <1>10, <1>11, <1>12,
     <1>13, <1>14 DEF Next, Handle

\* Type correctness of the packet pipeline.
THEOREM EngineTypeOK == Spec => []TypeOK
<1>1. Init => TypeOK
  BY DEF Init, TypeOK, NoStats, Stages, CheckSet, Decisions, Outcomes
<1> QED BY <1>1, TypesKept, PTL DEF Spec

-----------------------------------------------------------------------------
(* The block log.                                                          *)

\* The reasons among the first n blocks of s, and the blocks of s that are
\* counted: those before which there was room for one more reason.
ReasonsOf(s, n) == {s[j] : j \in 1..n}
CountedOf(s) ==
    {i \in 1..Len(s) : Cardinality(ReasonsOf(s, i - 1)) < maxBlockStatsReasons}

\* The latest blocks, and the counters.  As long as there is room, every reason
\* so far has a counter.
LogInv ==
    /\ TypeOK
    /\ BlockLogExact
    /\ IsFiniteSet(ReasonsOf(recorded, Len(recorded)))
    /\ DOMAIN blockStats \subseteq ReasonsOf(recorded, Len(recorded))
    /\ Cardinality(DOMAIN blockStats) < maxBlockStatsReasons =>
         DOMAIN blockStats = ReasonsOf(recorded, Len(recorded))

\* How many of the blocks of s at the places C have reason x.
Occurrences(s, C, x) == Cardinality({i \in C : s[i] = x})

\* The counters as BlockLogExact has them, and its two parts.
CountersExact(counts, s) ==
    /\ DOMAIN counts = {s[i] : i \in CountedOf(s)}
    /\ \A x \in DOMAIN counts : counts[x] = Occurrences(s, CountedOf(s), x)

\* How many of n blocks the log holds, and that they are the latest ones.
Kept(n) == IF n < maxRecentBlocks THEN n ELSE maxRecentBlocks
LatestKept ==
    recent = SubSeq(recorded, Len(recorded) - Kept(Len(recorded)) + 1, Len(recorded))

\* A stretch of a sequence: its length and its elements.
LEMMA WindowOf ==
    ASSUME NEW S, NEW s \in Seq(S), NEW a \in Nat, NEW b \in Nat,
           1 <= a, a <= b + 1, b <= Len(s)
    PROVE  /\ SubSeq(s, a, b) \in Seq(S)
           /\ Len(SubSeq(s, a, b)) = b + 1 - a
           /\ \A i \in 1..(b + 1 - a) : SubSeq(s, a, b)[i] = s[a - 1 + i]
<1> DEFINE w == SubSeq(s, a, b)
<1>1. \A i \in a..b : s[i] \in S
  OBVIOUS
<1>2. /\ w \in Seq(S) /\ Len(w) = (IF a <= b THEN b - a + 1 ELSE 0)
      /\ \A i \in 1..b - a + 1 : w[i] = s[a + i - 1]
  BY <1>1, SubSeqProperties
<1> HIDE DEF w
<1>3. Len(w) = b + 1 - a
  BY <1>2
<1>4. \A i \in 1..(b + 1 - a) : i \in 1..b - a + 1 /\ a + i - 1 = a - 1 + i
  OBVIOUS
<1>5. \A i \in 1..(b + 1 - a) : w[i] = s[a - 1 + i]
  BY <1>2, <1>4
<1> QED BY <1>2, <1>3, <1>5 DEF w

\* The log of recent blocks before it is full, and once it is: with one more
\* entry it still holds the latest ones (recordBlock drops the oldest).
LEMMA LogGrows ==
    ASSUME NEW s \in Seq(Reasons), NEW r \in Reasons, NEW n \in Nat,
           n = Len(s), n < maxRecentBlocks
    PROVE  Logged(SubSeq(s, 1, n), r) = SubSeq(Append(s, r), 1, n + 1)
<1>1. /\ SubSeq(s, 1, n) = s
      /\ Append(s, r) \in Seq(Reasons) /\ Len(Append(s, r)) = n + 1
  BY SubSeqFull
<1>2. SubSeq(Append(s, r), 1, n + 1) = Append(s, r)
  BY <1>1, SubSeqFull
<1>3. Logged(s, r) = Append(s, r)
  BY BlockLogAssumption DEF Logged
<1> QED BY <1>1, <1>2, <1>3

LEMMA LogSlides ==
    ASSUME NEW s \in Seq(Reasons), NEW r \in Reasons, NEW n \in Nat, NEW a \in Nat,
           n = Len(s), n >= maxRecentBlocks, a = n - maxRecentBlocks + 1
    PROVE  Logged(SubSeq(s, a, n), r) = SubSeq(Append(s, r), a + 1, n + 1)
<1> DEFINE old == SubSeq(s, a, n)
           all == Append(s, r)
           new == SubSeq(all, a + 1, n + 1)
           k == maxRecentBlocks
<1>0. k \in Nat \ {0} /\ 1 <= a /\ a <= n /\ n + 1 - a = k /\ a + k = n + 1
  BY BlockLogAssumption
<1>1. /\ old \in Seq(Reasons) /\ Len(old) = k
      /\ \A i \in 1..k : old[i] = s[a - 1 + i]
  BY <1>0, WindowOf
<1>2. /\ all \in Seq(Reasons) /\ Len(all) = n + 1 /\ all[n + 1] = r
      /\ \A i \in 1..n : all[i] = s[i]
  OBVIOUS
<1>3. /\ new \in Seq(Reasons) /\ Len(new) = k
      /\ \A i \in 1..k : new[i] = all[a + i]
  <2> HIDE DEF all
  <2>1. PICK c \in Nat : c = a + 1
    OBVIOUS
  <2>2. PICK b \in Nat : b = n + 1
    OBVIOUS
  <2>3. /\ SubSeq(all, c, b) \in Seq(Reasons) /\ Len(SubSeq(all, c, b)) = b + 1 - c
        /\ \A i \in 1..(b + 1 - c) : SubSeq(all, c, b)[i] = all[c - 1 + i]
    <3>1. 1 <= c /\ c <= b + 1 /\ b <= Len(all)
      BY <1>0, <1>2, <2>1, <2>2
    <3>2. all \in Seq(Reasons)
      BY <1>2
    <3> HIDE DEF new, old, k
    <3> QED BY <3>1, <3>2, WindowOf
  <2>4. new = SubSeq(all, c, b)
    BY <2>1, <2>2
  <2>5. b + 1 - c = k /\ c - 1 = a
    BY <1>0, <2>1, <2>2
  <2> HIDE DEF new, k
  <2> QED BY <2>3, <2>4, <2>5
<1> HIDE DEF old, all, new, k
<1>4. Tail(old) \in Seq(Reasons) /\ Len(Tail(old)) = k - 1
      /\ \A i \in 1..(k - 1) : Tail(old)[i] = old[i + 1]
  BY <1>0, <1>1
<1> DEFINE got == Append(Tail(old), r)
<1>5. Logged(old, r) = got
  BY <1>0, <1>1 DEF Logged, k
<1>6. got \in Seq(Reasons) /\ Len(got) = k /\ got[k] = r
      /\ \A i \in 1..(k - 1) : got[i] = Tail(old)[i]
  BY <1>0, <1>4
<1> HIDE DEF got
<1>7. ASSUME NEW i \in 1..k PROVE got[i] = new[i]
  <2>1. i = k \/ i \in 1..(k - 1)
    BY <1>0
  <2>2. CASE i = k
    <3>1. k \in 1..k
      BY <1>0
    <3>2. new[k] = all[n + 1]
      BY <1>0, <1>3, <3>1
    <3> QED BY <1>2, <1>6, <2>2, <3>2
  <2>3. CASE i \in 1..(k - 1)
    <3>1. /\ i + 1 \in 1..k /\ a - 1 + (i + 1) = a + i /\ a + i \in 1..n
      BY <1>0, <2>3
    <3>2. got[i] = s[a + i]
      BY <1>1, <1>4, <1>6, <2>3, <3>1
    <3> QED BY <1>2, <1>3, <3>1, <3>2
  <2> QED BY <2>1, <2>2, <2>3
<1>8. got = new
  BY <1>3, <1>6, <1>7, SeqEqual
<1> QED BY <1>5, <1>8 DEF old, all, new

LEMMA ExactIsBoth == BlockLogExact <=> LatestKept /\ CountersExact(blockStats, recorded)
<1>1. CountedBlocks = CountedOf(recorded)
  BY DEF CountedBlocks, CountedOf, ReasonsOf
<1> QED BY <1>1 DEF BlockLogExact, LatestKept, Kept, CountersExact, Occurrences

\* One more block: the reasons so far, and whether the block is counted.
LEMMA CountedAfterAppend ==
    ASSUME NEW s \in Seq(Reasons), NEW r \in Reasons, NEW n \in Nat, n = Len(s)
    PROVE  /\ ReasonsOf(Append(s, r), n + 1) = ReasonsOf(s, n) \cup {r}
           /\ CountedOf(Append(s, r)) =
                CountedOf(s) \cup
                  (IF Cardinality(ReasonsOf(s, n)) < maxBlockStatsReasons
                   THEN {n + 1} ELSE {})
<1> DEFINE t == Append(s, r)
<1>1. Len(t) = n + 1 /\ t[n + 1] = r /\ \A i \in 1..n : t[i] = s[i]
  OBVIOUS
<1> HIDE DEF t
<1>2. ASSUME NEW k \in 0..n PROVE ReasonsOf(t, k) = ReasonsOf(s, k)
  <2>1. \A j \in 1..k : t[j] = s[j]
    BY <1>1
  <2> QED BY <2>1 DEF ReasonsOf
<1>3. ReasonsOf(t, n + 1) = ReasonsOf(s, n) \cup {r}
  <2>1. 1..(n + 1) = 1..n \cup {n + 1}
    OBVIOUS
  <2> QED BY <1>1, <2>1 DEF ReasonsOf
<1>4. ASSUME NEW i PROVE i \in CountedOf(t) <=>
          \/ i \in CountedOf(s)
          \/ i = n + 1 /\ Cardinality(ReasonsOf(s, n)) < maxBlockStatsReasons
  <2>1. CASE i \in 1..n
    <3>1. i - 1 \in 0..n /\ i # n + 1 /\ i \in 1..(n + 1)
      BY <2>1
    <3>2. ReasonsOf(t, i - 1) = ReasonsOf(s, i - 1)
      BY <1>2, <3>1
    <3> QED BY <1>1, <2>1, <3>1, <3>2 DEF CountedOf
  <2>2. CASE i = n + 1
    <3>1. i - 1 = n /\ n \in 0..n /\ i \in 1..(n + 1) /\ i \notin 1..n
      BY <2>2
    <3>2. ReasonsOf(t, i - 1) = ReasonsOf(s, n)
      BY <1>2, <3>1
    <3> QED BY <1>1, <2>2, <3>1, <3>2 DEF CountedOf
  <2>3. CASE i \notin 1..n /\ i # n + 1
    <3>1. i \notin 1..(n + 1)
      BY <2>3
    <3> QED BY <1>1, <2>3, <3>1 DEF CountedOf
  <2> QED BY <2>1, <2>2, <2>3
<1>5. CountedOf(t) = CountedOf(s) \cup
         (IF Cardinality(ReasonsOf(s, n)) < maxBlockStatsReasons THEN {n + 1} ELSE {})
  <2>1. CASE Cardinality(ReasonsOf(s, n)) < maxBlockStatsReasons
    BY <1>4, <2>1
  <2>2. CASE ~(Cardinality(ReasonsOf(s, n)) < maxBlockStatsReasons)
    BY <1>4, <2>2
  <2> QED BY <2>1, <2>2
<1> QED BY <1>3, <1>5 DEF t

LEMMA IndicesFinite == ASSUME NEW n \in Nat PROVE IsFiniteSet(1..n)
BY FS_Interval

\* t goes on from the n blocks of s with reason r, C are places of s, and E are
\* these and the new one.
GoesOn(s, t, n, r, C, E) ==
    /\ C \subseteq 1..n /\ E = C \cup {n + 1}
    /\ t[n + 1] = r /\ \A i \in 1..n : t[i] = s[i]

\* How often a reason occurs among the counted blocks once one more is counted.
LEMMA OccurrencesAfterCount ==
    ASSUME NEW s, NEW t, NEW r, NEW x, NEW n \in Nat, NEW C, NEW E,
           GoesOn(s, t, n, r, C, E)
    PROVE  /\ Occurrences(s, C, x) \in Nat
           /\ x = r => Occurrences(t, E, x) = Occurrences(s, C, x) + 1
           /\ x # r => Occurrences(t, E, x) = Occurrences(s, C, x)
<1> DEFINE before == {i \in C : s[i] = x}
           after == {i \in E : t[i] = x}
<1>0. C \subseteq 1..n /\ E = C \cup {n + 1} /\ t[n + 1] = r /\ \A i \in 1..n : t[i] = s[i]
  BY DEF GoesOn
<1>1. IsFiniteSet(before) /\ Cardinality(before) \in Nat
  <2>1. IsFiniteSet(1..n)
    BY IndicesFinite
  <2>2. before \subseteq 1..n
    BY <1>0
  <2>3. IsFiniteSet(before)
    BY <2>1, <2>2, FS_Subset
  <2> QED BY <2>3, FS_CardinalityType
<1>2. n + 1 \notin before
  BY <1>0
<1>3. ASSUME x = r PROVE Cardinality(after) = Cardinality(before) + 1
  <2>1. after = before \cup {n + 1}
    BY <1>0, <1>3
  <2> HIDE DEF before, after
  <2>2. Cardinality(before \cup {n + 1}) = Cardinality(before) + 1
    BY <1>1, <1>2, FS_AddElement
  <2> QED BY <2>1, <2>2
<1>4. ASSUME x # r PROVE after = before
  BY <1>0, <1>4
<1> QED BY <1>1, <1>3, <1>4 DEF Occurrences

\* A block that is counted, and one that is not, keep the counters exact.
LEMMA CountingStaysExact ==
    ASSUME NEW counts, NEW s \in Seq(Reasons), NEW r \in Reasons, NEW n \in Nat,
           n = Len(s), CountersExact(counts, s), NEW t, t = Append(s, r),
           Cardinality(DOMAIN counts) < maxBlockStatsReasons,
           Cardinality(ReasonsOf(s, n)) < maxBlockStatsReasons
    PROVE  /\ DOMAIN Counted(counts, r) = DOMAIN counts \cup {r}
           /\ CountersExact(Counted(counts, r), t)
<1> DEFINE Old == DOMAIN counts
           new == [x \in Old \cup {r} |-> (IF x \in Old THEN counts[x] ELSE 0)
                                            + (IF x = r THEN 1 ELSE 0)]
<1>0. PICK C : C = CountedOf(s)
  OBVIOUS
<1>1. Counted(counts, r) = new /\ DOMAIN new = Old \cup {r}
  BY DEF Counted
<1>2. CountedOf(t) = C \cup {n + 1} /\ C \subseteq 1..n
  BY <1>0, CountedAfterAppend DEF CountedOf
<1>3. t[n + 1] = r /\ \A i \in 1..n : t[i] = s[i]
  OBVIOUS
<1>4. Old = {s[i] : i \in C}
  BY <1>0 DEF CountersExact
<1>5. \A x \in Old : counts[x] = Occurrences(s, C, x)
  BY <1>0 DEF CountersExact
<1> HIDE DEF Old
<1>6. Old \cup {r} = {t[i] : i \in CountedOf(t)}
  <2>1. {t[i] : i \in C} = {s[i] : i \in C}
    BY <1>2, <1>3
  <2>2. {t[i] : i \in C \cup {n + 1}} = {t[i] : i \in C} \cup {t[n + 1]}
    OBVIOUS
  <2> QED BY <1>2, <1>3, <1>4, <2>1, <2>2
<1>7. ASSUME NEW x \in Old \cup {r}
      PROVE  new[x] = Occurrences(t, CountedOf(t), x)
  <2>1. /\ Occurrences(s, C, x) \in Nat
        /\ x = r => Occurrences(t, CountedOf(t), x) = Occurrences(s, C, x) + 1
        /\ x # r => Occurrences(t, CountedOf(t), x) = Occurrences(s, C, x)
    <3> HIDE DEF new
    <3>1. GoesOn(s, t, n, r, C, CountedOf(t))
      BY <1>2, <1>3 DEF GoesOn
    <3> QED BY <3>1, OccurrencesAfterCount
  <2>2. (IF x \in Old THEN counts[x] ELSE 0) = Occurrences(s, C, x)
    <3>1. CASE x \in Old
      BY <1>5, <3>1
    <3>2. CASE x \notin Old
      <4>1. {i \in C : s[i] = x} = {}
        BY <1>4, <3>2
      <4>2. Cardinality({}) = 0
        BY FS_EmptySet
      <4> QED BY <3>2, <4>1, <4>2 DEF Occurrences
    <3> QED BY <3>1, <3>2
  <2>3. new[x] = (IF x \in Old THEN counts[x] ELSE 0) + (IF x = r THEN 1 ELSE 0)
    OBVIOUS
  <2> HIDE DEF new
  <2> QED BY <2>1, <2>2, <2>3
<1> HIDE DEF new
<1>8. CountersExact(new, t)
  BY <1>1, <1>6, <1>7 DEF CountersExact
<1> QED BY <1>1, <1>8 DEF Old

LEMMA SkippingStaysExact ==
    ASSUME NEW counts, NEW s \in Seq(Reasons), NEW r \in Reasons, NEW n \in Nat,
           n = Len(s), CountersExact(counts, s),
           ~(Cardinality(ReasonsOf(s, n)) < maxBlockStatsReasons)
    PROVE  CountersExact(counts, Append(s, r))
<1> DEFINE t == Append(s, r)
           C == CountedOf(s)
<1>1. CountedOf(t) = C /\ C \subseteq 1..n
  BY CountedAfterAppend DEF CountedOf
<1>2. \A i \in 1..n : t[i] = s[i]
  OBVIOUS
<1>3. DOMAIN counts = {s[i] : i \in C}
      /\ \A x \in DOMAIN counts : counts[x] = Occurrences(s, C, x)
  BY DEF CountersExact
<1> HIDE DEF C, t
<1>4. {t[i] : i \in C} = {s[i] : i \in C}
  BY <1>1, <1>2
<1>5. ASSUME NEW x PROVE {i \in C : t[i] = x} = {i \in C : s[i] = x}
  BY <1>1, <1>2
<1>6. \A x \in DOMAIN counts : counts[x] = Occurrences(t, C, x)
  BY <1>3, <1>5 DEF Occurrences
<1> QED BY <1>1, <1>3, <1>4, <1>6 DEF CountersExact, t

\* The part of LogInv about the counters.
CounterInv(counts, s) ==
    /\ CountersExact(counts, s)
    /\ IsFiniteSet(ReasonsOf(s, Len(s)))
    /\ DOMAIN counts \subseteq ReasonsOf(s, Len(s))
    /\ Cardinality(DOMAIN counts) < maxBlockStatsReasons =>
         DOMAIN counts = ReasonsOf(s, Len(s))

\* recordBlock keeps it: below the cap the block is counted, at the cap it is
\* not, and no later one is.
LEMMA CountersStayExact ==
    ASSUME NEW counts, NEW s \in Seq(Reasons), NEW r \in Reasons, CounterInv(counts, s)
    PROVE  CounterInv(Counted(counts, r), Append(s, r))
<1> DEFINE D == DOMAIN counts
           A == ReasonsOf(s, Len(s))
           t == Append(s, r)
<1>1. PICK n \in Nat : n = Len(s)
  OBVIOUS
<1>2. Len(t) = n + 1 /\ ReasonsOf(t, Len(t)) = A \cup {r}
  BY <1>1, CountedAfterAppend
<1>3. /\ CountersExact(counts, s) /\ IsFiniteSet(A) /\ D \subseteq A
      /\ Cardinality(D) < maxBlockStatsReasons => D = A
  BY DEF CounterInv
<1>4. IsFiniteSet(A \cup {r})
  <2> HIDE DEF A
  <2> QED BY <1>3, FS_AddElement
<1>5. CASE Cardinality(D) < maxBlockStatsReasons
  <2>1. D = A /\ Cardinality(ReasonsOf(s, n)) < maxBlockStatsReasons
    BY <1>1, <1>3, <1>5
  <2>2. DOMAIN Counted(counts, r) = D \cup {r} /\ CountersExact(Counted(counts, r), t)
    BY <1>1, <1>3, <1>5, <2>1, CountingStaysExact
  <2> HIDE DEF A, D, t
  <2> QED BY <1>2, <1>4, <2>1, <2>2 DEF CounterInv, t
<1>6. CASE ~(Cardinality(D) < maxBlockStatsReasons)
  <2>1. Counted(counts, r) = counts
    BY <1>6 DEF Counted
  <2>2. ~(Cardinality(ReasonsOf(s, n)) < maxBlockStatsReasons)
    <3>1. Cardinality(D) <= Cardinality(A)
      <4> HIDE DEF A, D
      <4> QED BY <1>3, FS_Subset
    <3>2. Cardinality(D) \in Nat /\ Cardinality(A) \in Nat
      <4> HIDE DEF A, D
      <4> QED BY <1>3, FS_Subset, FS_CardinalityType
    <3>3. A = ReasonsOf(s, n)
      BY <1>1
    <3> HIDE DEF A, D
    <3> QED BY <1>6, <3>1, <3>2, <3>3, BlockLogAssumption
  <2>3. CountersExact(counts, t)
    BY <1>1, <1>3, <2>2, SkippingStaysExact
  <2> HIDE DEF A, D, t
  <2> QED BY <1>2, <1>3, <1>4, <1>6, <2>1, <2>3 DEF CounterInv, t, D
<1> QED BY <1>5, <1>6

LEMMA LogInvParts ==
    LogInv <=> TypeOK /\ LatestKept /\ CounterInv(blockStats, recorded)
BY ExactIsBoth DEF LogInv, CounterInv

LEMMA LogStarts == Init => LogInv
<1> SUFFICES ASSUME Init PROVE LogInv
  OBVIOUS
<1>1. TypeOK
  BY DEF Init, TypeOK, NoStats, Stages, CheckSet, Decisions, Outcomes
<1>2. DOMAIN blockStats = {} /\ recorded = <<>> /\ recent = <<>>
  BY DEF Init, NoStats
<1>3. recent = SubSeq(recorded, 0 - 0 + 1, 0) /\ Len(recorded) = 0 /\ 1..0 = {}
  BY <1>2
<1>4. LatestKept
  BY <1>2, <1>3, BlockLogAssumption DEF LatestKept, Kept
<1>5. ReasonsOf(recorded, Len(recorded)) = {} /\ CountedOf(recorded) = {}
  BY <1>3 DEF ReasonsOf, CountedOf
<1>6. IsFiniteSet({})
  BY FS_EmptySet
<1>7. CounterInv(blockStats, recorded)
  BY <1>2, <1>5, <1>6 DEF CounterInv, CountersExact
<1> QED BY <1>1, <1>4, <1>7, LogInvParts

\* Only recordBlock touches the block log.
LEMMA OnlyRecordLogs ==
    ASSUME [Next]_vars
    PROVE  \/ UNCHANGED <<recent, blockStats, recorded>>
           \/ \E r \in Reasons : recordBlock(r)
<1> USE DEF counters, history
<1>1. CASE Receive \/ StopReceiving
  BY <1>1 DEF Receive, StopReceiving
<1>2. CASE DropUninspected \/ StartEvaluation
  BY <1>2 DEF DropUninspected, StartEvaluation
<1>3. CASE \E i \in 1..Len(Checks) : Check(i)
  BY <1>3 DEF Check
<1>4. CASE Decide
  BY <1>4 DEF Decide
<1>5. CASE logAudit \/ RecoverEvaluate
  BY <1>5 DEF logAudit, RecoverEvaluate
<1>6. CASE Capture \/ RecoverHandler \/ SetVerdict
  BY <1>6 DEF Capture, RecoverHandler, SetVerdict
<1>7. CASE Stats
  BY <1>7 DEF Stats, LoadProcessed, LoadAllowed, LoadBlocked, packetVars
<1>8. CASE UNCHANGED vars
  BY <1>8 DEF vars, packetVars
<1> QED BY <1>1, <1>2, <1>3, <1>4, <1>5, <1>6, <1>7, <1>8 DEF Next, Handle

LEMMA LogKept == LogInv /\ [Next]_vars => LogInv'
<1> SUFFICES ASSUME LogInv, [Next]_vars PROVE LogInv'
  OBVIOUS
<1>1. TypeOK'
  BY TypesKept DEF LogInv
<1>2. CASE UNCHANGED <<recent, blockStats, recorded>>
  <2>1. TypeOK /\ LatestKept /\ CounterInv(blockStats, recorded)
    BY LogInvParts
  <2>2. LatestKept'
    BY <1>2, <2>1 DEF LatestKept, Kept
  <2>3. CounterInv(blockStats', recorded')
    BY <1>2, <2>1
  <2>4. CounterInv(blockStats, recorded)'
    BY <2>3 DEF CounterInv, CountersExact, Occurrences, ReasonsOf, CountedOf
  <2> QED BY <1>1, <2>2, <2>4, LogInvParts, PTL
<1>3. ASSUME NEW r \in Reasons, recordBlock(r) PROVE LogInv'
  <2>1. /\ recorded \in Seq(Reasons) /\ recorded' = Append(recorded, r)
        /\ recent' = Logged(recent, r) /\ Len(recorded') = Len(recorded) + 1
    <3>1. recorded \in Seq(Reasons)
      BY DEF LogInv, TypeOK
    <3>2. recorded' = Append(recorded, r) /\ recent' = Logged(recent, r)
      BY <1>3 DEF recordBlock
    <3>3. Len(Append(recorded, r)) = Len(recorded) + 1
      BY <3>1
    <3> QED BY <3>1, <3>2, <3>3
  <2>2. PICK n \in Nat : n = Len(recorded)
    BY <2>1
  <2>3. LatestKept'
    <3>1. CASE n < maxRecentBlocks
      <4>1. n - Kept(n) + 1 = 1 /\ n + 1 - Kept(n + 1) + 1 = 1
        BY <3>1, BlockLogAssumption DEF Kept
      <4>2. recent = SubSeq(recorded, 1, n)
        BY <2>2, <4>1 DEF LogInv, BlockLogExact, Kept
      <4>3. recent' = SubSeq(recorded', 1, n + 1)
        BY <2>1, <2>2, <3>1, <4>2, LogGrows
      <4>4. Len(recorded') = n + 1
        BY <2>1, <2>2
      <4>5. Len(recorded') - (IF Len(recorded') < maxRecentBlocks
                            THEN Len(recorded') ELSE maxRecentBlocks) + 1 = 1
        BY <4>1, <4>4, BlockLogAssumption DEF Kept
      <4> QED BY <4>3, <4>4, <4>5, Zenon DEF LatestKept, Kept
    <3>2. CASE ~(n < maxRecentBlocks)
      <4>1. PICK a \in Nat : a = n - maxRecentBlocks + 1
        BY <3>2, BlockLogAssumption
      <4>2. n - Kept(n) + 1 = a /\ n + 1 - Kept(n + 1) + 1 = a + 1 /\ n >= maxRecentBlocks
        BY <3>2, <4>1, BlockLogAssumption DEF Kept
      <4>3. recent = SubSeq(recorded, a, n)
        BY <2>2, <4>2 DEF LogInv, BlockLogExact, Kept
      <4>4. recent' = SubSeq(recorded', a + 1, n + 1)
        BY <2>1, <2>2, <4>1, <4>2, <4>3, LogSlides
      <4>5. Len(recorded') = n + 1
        BY <2>1, <2>2
      <4>6. Len(recorded') - (IF Len(recorded') < maxRecentBlocks
                            THEN Len(recorded') ELSE maxRecentBlocks) + 1 = a + 1
        BY <4>2, <4>5, BlockLogAssumption DEF Kept
      <4> QED BY <4>4, <4>5, <4>6, Zenon DEF LatestKept, Kept
    <3> QED BY <3>1, <3>2
  <2>4. CounterInv(blockStats', recorded')
    <3>1. CounterInv(blockStats, recorded) /\ blockStats' = Counted(blockStats, r)
      BY <1>3, LogInvParts DEF recordBlock
    <3> QED BY <2>1, <3>1, CountersStayExact
  <2>5. CounterInv(blockStats, recorded)'
    BY <2>4 DEF CounterInv, CountersExact, Occurrences, ReasonsOf, CountedOf
  <2> QED BY <1>1, <2>3, <2>5, LogInvParts, PTL
<1> QED BY <1>2, <1>3, OnlyRecordLogs

\* The log of recent blocks holds exactly the latest blocks, and each counter
\* is the number of blocks recorded for its reason until the reasons reached
\* their cap, whatever the two caps are and however long the process runs
\* (recordBlock).
THEOREM EngineBlockLogExact == Spec => []BlockLogExact
<1>1. LogInv => BlockLogExact
  BY DEF LogInv
<1> QED BY <1>1, LogStarts, LogKept, PTL DEF Spec

=============================================================================
