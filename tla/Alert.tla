-------------------------------- MODULE Alert --------------------------------
(***************************************************************************)
(* The webhook alert router (src/internal/alert/alert.go).  Send runs in   *)
(* the packet goroutine and starts one goroutine per alert; that goroutine *)
(* posts the alert and ends within the client's timeout, whether the post  *)
(* succeeds or not: a failure is only logged.                              *)
(***************************************************************************)
EXTENDS Clock, FiniteSets

CONSTANTS
    AlertTypes,
    Cooldown,         \* Config.Cooldown, in ticks
    PostTimeout       \* http.Client.Timeout, in ticks

ASSUME AlertConstants == Cooldown \in Nat \ {0} /\ PostTimeout \in Nat

VARIABLES
    lastSent,         \* Router.lastSent: type -> time, for the types sent
    posts             \* the fire goroutines that have not ended

alertVars == <<lastSent, posts>>

AlertInit ==
    /\ lastSent = [t \in {} |-> 0]
    /\ posts = {}

CoolingDown(t) == t \in DOMAIN lastSent /\ now - lastSent[t] < Cooldown

\* Mutant: lastSent is left to the goroutine.
SendStampingLate(t) ==
    /\ ~CoolingDown(t)
    /\ posts' = posts \cup {[type |-> t, at |-> now]}
    /\ UNCHANGED <<lastSent, now>>

\* An alert inside the cool-down of its type is dropped: no step.
Send(t) ==
    /\ ~CoolingDown(t)
    /\ lastSent' = [u \in DOMAIN lastSent \cup {t} |-> IF u = t THEN now ELSE lastSent[u]]
    /\ posts' = posts \cup {[type |-> t, at |-> now]}
    /\ UNCHANGED now

FireEnds(p) ==
    /\ p \in posts
    /\ posts' = posts \ {p}
    /\ UNCHANGED <<lastSent, now>>

AlertTick ==
    /\ \A p \in posts : now < p.at + PostTimeout
    /\ Tick
    /\ UNCHANGED alertVars

AlertNext ==
    \/ \E t \in AlertTypes : Send(t)
    \/ \E p \in posts : FireEnds(p)
    \/ AlertTick

AlertSpec == AlertInit /\ now = 0 /\ [][AlertNext]_<<alertVars, now>>

-----------------------------------------------------------------------------
\* However slow the webhook, the goroutines posting alerts of one type stay
\* as few as fit in the client's timeout at the pace of the cool-down: a
\* packet flood does not pile them up (alert.go:106 stamps before posting).
PostsBounded ==
    \A t \in AlertTypes :
        Cardinality({p \in posts : p.type = t}) <= (PostTimeout \div Cooldown) + 1

=============================================================================
