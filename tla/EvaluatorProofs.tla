-------------------------- MODULE EvaluatorProofs ---------------------------
(***************************************************************************)
(* Theorems about the evaluator, for any number of loaders, evaluators and    *)
(* policies.                                                               *)
(***************************************************************************)
EXTENDS Evaluator, TLAPS

Holding == {"compile", "rebuild", "prepare", "notify"}

\* The inductive invariant: loadMu is held by exactly the loaders past the
\* lock, of which there is at most one; so what a loader wrote to the compiler,
\* to its local copy and to the prepared query is still there.
IInv ==
    /\ TypeOK
    /\ \A l \in Loaders : pc[l] \in Holding <=> l \in loadMu
    /\ \A l, m \in loadMu : l = m
    /\ \A l \in Loaders :
          /\ pc[l] \in {"rebuild", "prepare", "notify"} =>
                arg[l] \in Loadable /\ compiler = arg[l]
          /\ pc[l] = "prepare" => local[l] = arg[l]
          /\ pc[l] = "notify" => prepared = arg[l]

\* The evaluator of NewEmbedded satisfies the invariant.
LEMMA InitIInv == Init => IInv
<1> SUFFICES ASSUME Init PROVE IInv
  OBVIOUS
<1>1. TypeOK
  BY EvaluatorAssumption DEF Init, TypeOK, Steps
<1> QED BY <1>1 DEF IInv, Init, Holding

\* The invariant is inductive: one case per step of Load and Evaluate.
LEMMA NextIInv == IInv /\ [Next]_vars => IInv'
<1> SUFFICES ASSUME IInv, [Next]_vars PROVE IInv'
  OBVIOUS
<1> USE DEF IInv, TypeOK, Steps, Holding, Goto
<1>1. ASSUME NEW l \in Loaders, NEW p \in Policies, Load(l, p)
      PROVE  IInv'
  BY <1>1 DEF Load
<1>2. ASSUME NEW l \in Loaders, LockLoadMu(l)
      PROVE  IInv'
  BY <1>2 DEF LockLoadMu
<1>3. ASSUME NEW l \in Loaders, Compile(l)
      PROVE  IInv'
  <2>1. CASE arg[l] \in Loadable
    BY <1>3, <2>1 DEF Compile
  <2>2. CASE arg[l] \notin Loadable
    BY <1>3, <2>2 DEF Compile, Return
  <2> QED BY <2>1, <2>2
<1>4. ASSUME NEW l \in Loaders, ReadCompiler(l)
      PROVE  IInv'
  BY <1>4 DEF ReadCompiler
<1>5. ASSUME NEW l \in Loaders, Prepare(l)
      PROVE  IInv'
  <2>1. CASE prepared' = local[l] /\ Goto(l, "notify") /\ UNCHANGED loadMu
    BY <1>5, <2>1 DEF Prepare
  <2>2. CASE Return(l) /\ UNCHANGED prepared
    BY <1>5, <2>2 DEF Prepare, Return
  <2> QED BY <1>5, <2>1, <2>2 DEF Prepare
<1>6. ASSUME NEW l \in Loaders, Notify(l)
      PROVE  IInv'
  BY <1>6 DEF Notify, Return
<1>7. CASE ReceiveReload
  BY <1>7 DEF ReceiveReload
<1>8. ASSUME NEW e \in Evaluators, Snapshot(e)
      PROVE  IInv'
  BY <1>8 DEF Snapshot, loadVars
<1>9. ASSUME NEW e \in Evaluators, Evaluate(e)
      PROVE  IInv'
  BY <1>9 DEF Evaluate, loadVars
<1>10. CASE UNCHANGED vars
  BY <1>10 DEF vars
<1> QED BY <1>1, <1>2, <1>3, <1>4, <1>5, <1>6, <1>7, <1>8, <1>9, <1>10 DEF Next

\* However the loads of any number of goroutines overlap, the inductive
\* invariant holds.
THEOREM EvaluatorInvariant == Spec => []IInv
<1> QED BY InitIInv, NextIInv, PTL DEF Spec

\* A Load that returns nil governs at its return.
THEOREM ReturnedLoadGoverns == Spec => []LoadedGoverns
<1>1. IInv => LoadedGoverns
  BY DEF IInv, LoadedGoverns
<1> QED BY <1>1, EvaluatorInvariant, PTL

\* The governing policy changes only to the policy of the loader that holds
\* loadMu.
THEOREM SerialSwaps == Spec => SwapsAreSerial
<1>1. IInv /\ [Next]_vars =>
        [prepared' # prepared =>
           \E l \in Loaders : loadMu = {l} /\ arg[l] = prepared' /\ compiler = prepared']_vars
  <2> SUFFICES ASSUME IInv, [Next]_vars, prepared' # prepared
               PROVE  \E l \in Loaders :
                         loadMu = {l} /\ arg[l] = prepared' /\ compiler = prepared'
    OBVIOUS
  <2>1. PICK l \in Loaders : Prepare(l)
    BY DEF Next, vars, loadVars, Load, LockLoadMu, Compile, ReadCompiler, Notify,
           ReceiveReload, Snapshot, Evaluate
  <2>2. l \in loadMu /\ compiler = arg[l] /\ local[l] = arg[l]
    BY <2>1 DEF IInv, Holding, Prepare
  <2>3. loadMu = {l}
    BY <2>2 DEF IInv
  <2>4. prepared' = local[l]
    BY <2>1 DEF Prepare
  <2> QED BY <2>2, <2>3, <2>4
<1> QED BY <1>1, EvaluatorInvariant, PTL DEF Spec, SwapsAreSerial

-----------------------------------------------------------------------------
(* The evaluator implements the policy register.                           *)

\* An initial state of the evaluator maps to one of the register.
LEMMA InitRefines == Init => Register!RInit
BY EvaluatorAssumption DEF Init, Register!RInit, status

\* What a step of loader l does to the mapped status.
LEMMA StatusStep ==
    ASSUME IInv, NEW l \in Loaders, NEW step \in Steps, Goto(l, step)
    PROVE  status' = [status EXCEPT ![l] =
                        IF step = "idle" THEN "idle"
                        ELSE IF step = "notify" THEN "applied" ELSE "called"]
BY DEF IInv, TypeOK, Goto, status

\* Every step of the evaluator maps to a step of the register or to a
\* stutter.
LEMMA NextRefines == IInv /\ [Next]_vars => [Register!RNext]_(Register!rvars)
<1> SUFFICES ASSUME IInv, [Next]_vars PROVE Register!RNext \/ UNCHANGED Register!rvars
  OBVIOUS
<1> USE DEF IInv, TypeOK
<1>0. \A step : step \in {"idle", "lock", "compile", "rebuild", "prepare", "notify"}
                  => step \in Steps
  BY DEF Steps
<1>1. ASSUME NEW l \in Loaders, NEW p \in Policies, Load(l, p)
      PROVE  Register!Call(l, p)
  <2>1. status' = [status EXCEPT ![l] = "called"]
    BY <1>0, <1>1, StatusStep DEF Load
  <2> QED BY <1>1, <2>1 DEF Load, Register!Call, status
<1>2. ASSUME NEW l \in Loaders, LockLoadMu(l)
      PROVE  UNCHANGED Register!rvars
  <2>1. status' = [status EXCEPT ![l] = "called"]
    BY <1>0, <1>2, StatusStep DEF LockLoadMu
  <2>2. status' = status
    BY <1>2, <2>1 DEF LockLoadMu, status
  <2> QED BY <1>2, <2>2 DEF LockLoadMu, Register!rvars
<1>3. ASSUME NEW l \in Loaders, Compile(l)
      PROVE  Register!ReturnError(l) \/ UNCHANGED Register!rvars
  <2>1. CASE arg[l] \in Loadable
    <3>1. status' = [status EXCEPT ![l] = "called"]
      BY <1>0, <1>3, <2>1, StatusStep DEF Compile
    <3>2. status' = status
      BY <1>3, <3>1 DEF Compile, status
    <3> QED BY <1>3, <2>1, <3>2 DEF Compile, Register!rvars
  <2>2. CASE arg[l] \notin Loadable
    <3>1. status' = [status EXCEPT ![l] = "idle"]
      BY <1>0, <1>3, <2>2, StatusStep DEF Compile, Return
    <3> QED BY <1>3, <2>2, <3>1 DEF Compile, Register!ReturnError, status
  <2> QED BY <2>1, <2>2
<1>4. ASSUME NEW l \in Loaders, ReadCompiler(l)
      PROVE  UNCHANGED Register!rvars
  <2>1. status' = [status EXCEPT ![l] = "called"]
    BY <1>0, <1>4, StatusStep DEF ReadCompiler
  <2>2. status' = status
    BY <1>4, <2>1 DEF ReadCompiler, status
  <2> QED BY <1>4, <2>2 DEF ReadCompiler, Register!rvars
<1>5. ASSUME NEW l \in Loaders, Prepare(l)
      PROVE  Register!Apply(l) \/ Register!ReturnError(l)
  <2>1. CASE prepared' = local[l] /\ Goto(l, "notify")
    <3>1. status' = [status EXCEPT ![l] = "applied"]
      BY <1>0, <2>1, StatusStep
    <3>2. arg[l] \in Loadable /\ local[l] = arg[l]
      BY <1>5 DEF Prepare
    <3> QED BY <1>5, <2>1, <3>1, <3>2 DEF Prepare, Register!Apply, status
  <2>2. CASE Return(l) /\ UNCHANGED prepared
    <3>1. status' = [status EXCEPT ![l] = "idle"]
      BY <1>0, <2>2, StatusStep DEF Return
    <3> QED BY <1>5, <2>2, <3>1 DEF Prepare, Register!ReturnError, status
  <2> QED BY <1>5, <2>1, <2>2 DEF Prepare
<1>6. ASSUME NEW l \in Loaders, Notify(l)
      PROVE  Register!ReturnNil(l)
  <2>1. status' = [status EXCEPT ![l] = "idle"]
    BY <1>0, <1>6, StatusStep DEF Notify, Return
  <2> QED BY <1>6, <2>1 DEF Notify, Register!ReturnNil, status
<1>7. CASE ReceiveReload
  BY <1>7 DEF ReceiveReload, Register!rvars, status
<1>8. ASSUME NEW e \in Evaluators, Snapshot(e)
      PROVE  Register!Decide(e)
  BY <1>8 DEF Snapshot, loadVars, Register!Decide, status
<1>9. ASSUME NEW e \in Evaluators, Evaluate(e)
      PROVE  UNCHANGED Register!rvars
  BY <1>9 DEF Evaluate, loadVars, Register!rvars, status
<1>10. CASE UNCHANGED vars
  BY <1>10 DEF vars, Register!rvars, status
<1> QED
  BY <1>1, <1>2, <1>3, <1>4, <1>5, <1>6, <1>7, <1>8, <1>9, <1>10
     DEF Next, Register!RNext

\* Seen from outside, policies are loaded and used atomically: the evaluator
\* implements the policy register with the prepared query as the register.
THEOREM EvaluatorRefinesRegister == Spec => ImplementsRegister
<1> QED
  BY InitRefines, NextRefines, EvaluatorInvariant, PTL
     DEF Spec, ImplementsRegister, Register!RSpec

=============================================================================
