------------------------------ MODULE Periphery ------------------------------
(***************************************************************************)
(* The components around the packet path, each on its own.  They share no  *)
(* state: the engine calls them one after the other and only the verdict   *)
(* depends on what they return.  Interleaving their steps adds nothing to  *)
(* what each can do, so a behaviour here is a behaviour of one of them,    *)
(* chosen at the start, with the others at rest.                           *)
(***************************************************************************)
EXTENDS PacketParser, RateLimit, ThreatIntel, L2Filter, AuditLog, Capture, Alert,
        Evaluator

VARIABLE active

Components == {"parser", "ratelimit", "threatintel", "l2filter", "audit", "capture",
               "alert", "evaluator"}

peripheryVars == <<active, now, parserVars, rateVars, intelVars, l2Vars,
                   auditVars, captureVars, alertVars, vars>>

\* An evaluator at rest holds one and the same policy.
PeripheryInit ==
    /\ active \in Components
    /\ now = 0
    /\ ParserInit /\ RateInit /\ IntelInit /\ L2Init
    /\ AuditInit /\ CaptureInit /\ AlertInit
    /\ Init
    /\ active # "evaluator" => compiler = CHOOSE p \in Loadable : TRUE

ParserSteps ==
    /\ active = "parser" /\ ParserNext
    /\ UNCHANGED <<active, now, rateVars, intelVars, l2Vars, auditVars, captureVars,
                   alertVars, vars>>

RateSteps ==
    /\ active = "ratelimit" /\ RateNext
    /\ UNCHANGED <<active, parserVars, intelVars, l2Vars, auditVars, captureVars,
                   alertVars, vars>>

IntelStep(A) ==
    /\ active = "threatintel" /\ A
    /\ UNCHANGED <<active, now, parserVars, rateVars, l2Vars, auditVars, captureVars,
                   alertVars, vars>>

L2Steps ==
    /\ active = "l2filter" /\ L2Next
    /\ UNCHANGED <<active, now, parserVars, rateVars, intelVars, auditVars, captureVars,
                   alertVars, vars>>

AuditSteps ==
    /\ active = "audit" /\ AuditNext
    /\ UNCHANGED <<active, parserVars, rateVars, intelVars, l2Vars, captureVars,
                   alertVars, vars>>

CaptureSteps ==
    /\ active = "capture" /\ CaptureNext
    /\ UNCHANGED <<active, now, parserVars, rateVars, intelVars, l2Vars, auditVars,
                   alertVars, vars>>

AlertSteps ==
    /\ active = "alert" /\ AlertNext
    /\ UNCHANGED <<active, parserVars, rateVars, intelVars, l2Vars, auditVars,
                   captureVars, vars>>

EvaluatorStep(A) ==
    /\ active = "evaluator" /\ A
    /\ UNCHANGED <<active, now, parserVars, rateVars, intelVars, l2Vars, auditVars,
                   captureVars, alertVars>>

PeripheryNext ==
    \/ ParserSteps \/ RateSteps \/ IntelStep(IntelNext) \/ L2Steps
    \/ AuditSteps \/ CaptureSteps \/ AlertSteps \/ EvaluatorStep(Next)

\* The goroutine that fetches keeps running, its ticker keeps ticking, and
\* the client's timeout ends every response.
RefresherRuns ==
    /\ WF_peripheryVars(IntelStep(FetchBegins \/ FetchFails))
    /\ WF_peripheryVars(IntelStep(FetchEnds))
    /\ WF_peripheryVars(IntelStep(StartRefresher))
    /\ WF_peripheryVars(IntelStep(RefreshTick))

\* The fairness of Evaluator.
LoadersRun ==
    \A l \in Loaders :
        /\ SF_peripheryVars(EvaluatorStep(LockLoadMu(l)))
        /\ WF_peripheryVars(EvaluatorStep(Compile(l) \/ ReadCompiler(l) \/ Prepare(l)
                                          \/ Notify(l)))

\* Nothing else need happen.
PeripherySpec ==
    PeripheryInit /\ [][PeripheryNext]_peripheryVars /\ RefresherRuns /\ LoadersRun

\* Round after round every feed of the list is asked, whatever the feeds before
\* it answer (threatintel.go:325-332), but for those whose URL does not parse
\* as the refresher is given it.
FeedsAskedForever ==
    active = "threatintel" =>
        /\ []<>(asked = {})
        /\ \A i \in DOMAIN Feeds :
              Feeds[i] \notin SpacedFeeds => []<>(Feeds[i] \in asked)

=============================================================================
