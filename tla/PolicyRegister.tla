--------------------------- MODULE PolicyRegister ---------------------------
(***************************************************************************)
(* What the embedded evaluator promises to its callers: the governing        *)
(* policy is an atomic register.  A Load takes effect at one instant between  *)
(* its call and its return, or not at all; a packet is decided by the policy  *)
(* that governed at one instant of its evaluation.                          *)
(***************************************************************************)

CONSTANTS Loaders,     \* the goroutines that call Load
          Evaluators,  \* the goroutines that call Evaluate
          Policies,    \* policy sources
          Loadable     \* those that compile in the decision package

VARIABLES register,    \* the governing policy
          status,      \* loader -> "idle", "called" or "applied"
          arg,         \* loader -> the policy of its current or last Load
          view         \* evaluator -> the policy its last packet was decided by

rvars == <<register, status, arg, view>>

RInit ==
    /\ register \in Loadable
    /\ status = [l \in Loaders |-> "idle"]
    /\ arg \in [Loaders -> Policies]
    /\ view \in [Evaluators -> Policies]

Call(l, p) ==
    /\ status[l] = "idle"
    /\ status' = [status EXCEPT ![l] = "called"]
    /\ arg' = [arg EXCEPT ![l] = p]
    /\ UNCHANGED <<register, view>>

Apply(l) ==
    /\ status[l] = "called"
    /\ arg[l] \in Loadable
    /\ register' = arg[l]
    /\ status' = [status EXCEPT ![l] = "applied"]
    /\ UNCHANGED <<arg, view>>

ReturnError(l) ==
    /\ status[l] = "called"
    /\ status' = [status EXCEPT ![l] = "idle"]
    /\ UNCHANGED <<register, arg, view>>

ReturnNil(l) ==
    /\ status[l] = "applied"
    /\ status' = [status EXCEPT ![l] = "idle"]
    /\ UNCHANGED <<register, arg, view>>

Decide(e) ==
    /\ view' = [view EXCEPT ![e] = register]
    /\ UNCHANGED <<register, status, arg>>

RNext ==
    \/ \E l \in Loaders :
          \/ \E p \in Policies : Call(l, p)
          \/ Apply(l)
          \/ ReturnError(l)
          \/ ReturnNil(l)
    \/ \E e \in Evaluators : Decide(e)

RSpec == RInit /\ [][RNext]_rvars

=============================================================================
