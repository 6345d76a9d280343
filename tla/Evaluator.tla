----------------------------- MODULE Evaluator ------------------------------
(***************************************************************************)
(* The embedded policy evaluator of internal/opa/embed.go.  Load compiles a   *)
(* policy, swaps the compiler in one critical section of mu, re-reads it in a *)
(* second one and swaps the prepared query in a third; loadMu is held across  *)
(* all of them.  Evaluate takes the prepared query under mu and evaluates it  *)
(* outside.  Each critical section is one action.                           *)
(*                                                                         *)
(* A compiled or prepared policy is named by its source.  The fields compiler *)
(* and policy are always assigned together and are one variable.             *)
(***************************************************************************)
EXTENDS Naturals

CONSTANTS Loaders,     \* the syncer and the file watcher
          Evaluators,  \* the packet goroutine
          Policies,    \* policy sources, the empty one included
          Loadable,    \* those that compile and declare the decision package
          Empty        \* the empty source

ASSUME EvaluatorAssumption ==
    /\ Loadable \subseteq Policies
    /\ Empty \in Policies \ Loadable

VARIABLES
    pc,         \* loader -> where it is in Load
    arg,        \* loader -> the policy it was given
    loadMu,     \* the loaders that hold loadMu
    compiler,   \* e.compiler and e.policy
    local,      \* loader -> the compiler that rebuild read
    prepared,   \* e.prepared
    reloadCh,   \* number of signals in the reload channel
    snapshot,   \* evaluator -> the prepared query it read
    evaluating  \* the evaluators between reading and using the query

loadVars == <<pc, arg, loadMu, compiler, local, prepared, reloadCh>>
vars == <<pc, arg, loadMu, compiler, local, prepared, reloadCh, snapshot, evaluating>>

Steps == {"idle", "lock", "compile", "rebuild", "prepare", "notify"}

TypeOK ==
    /\ pc \in [Loaders -> Steps]
    /\ arg \in [Loaders -> Policies]
    /\ loadMu \subseteq Loaders
    /\ compiler \in Loadable
    /\ local \in [Loaders -> Loadable]
    /\ prepared \in Loadable
    /\ reloadCh \in {0, 1}
    /\ snapshot \in [Evaluators -> Loadable]
    /\ evaluating \subseteq Evaluators

\* NewEmbedded succeeded on the policy the process started with.  What a local
\* holds before its goroutine first writes it is not read.
Init ==
    /\ compiler \in Loadable
    /\ prepared = compiler
    /\ pc = [l \in Loaders |-> "idle"]
    /\ arg = [l \in Loaders |-> Empty]
    /\ loadMu = {}
    /\ local = [l \in Loaders |-> compiler]
    /\ reloadCh = 0
    /\ snapshot = [e \in Evaluators |-> compiler]
    /\ evaluating = {}

-----------------------------------------------------------------------------
Goto(l, step) == pc' = [pc EXCEPT ![l] = step]

\* Load is called.  The empty source is refused before the lock and changes
\* nothing.
Load(l, p) ==
    /\ pc[l] = "idle"
    /\ p # Empty
    /\ arg' = [arg EXCEPT ![l] = p]
    /\ Goto(l, "lock")
    /\ UNCHANGED <<loadMu, compiler, local, prepared, reloadCh, snapshot, evaluating>>

\* Mutant: the loads are not serialised.
LockNothing(l) ==
    /\ pc[l] = "lock"
    /\ loadMu' = loadMu \cup {l}
    /\ Goto(l, "compile")
    /\ UNCHANGED <<arg, compiler, local, prepared, reloadCh, snapshot, evaluating>>

LockLoadMu(l) ==
    /\ pc[l] = "lock"
    /\ loadMu = {}
    /\ loadMu' = {l}
    /\ Goto(l, "compile")
    /\ UNCHANGED <<arg, compiler, local, prepared, reloadCh, snapshot, evaluating>>

\* Mutant: the unlock is not deferred and an error path misses it.
ReturnLocked(l) ==
    /\ loadMu' = IF pc[l] = "notify" THEN loadMu \ {l} ELSE loadMu
    /\ Goto(l, "idle")

\* Leaving Load, with an error or not, runs the deferred unlock.
Return(l) ==
    /\ loadMu' = loadMu \ {l}
    /\ Goto(l, "idle")

\* CompileModules and verifyPolicyPackage, then the swap under mu.
Compile(l) ==
    /\ pc[l] = "compile"
    /\ \/ /\ arg[l] \in Loadable
          /\ compiler' = arg[l]
          /\ Goto(l, "rebuild")
          /\ UNCHANGED loadMu
       \/ /\ arg[l] \notin Loadable
          /\ Return(l)
          /\ UNCHANGED compiler
    /\ UNCHANGED <<arg, local, prepared, reloadCh, snapshot, evaluating>>

\* rebuild reads the compiler back under mu.
ReadCompiler(l) ==
    /\ pc[l] = "rebuild"
    /\ local' = [local EXCEPT ![l] = compiler]
    /\ Goto(l, "prepare")
    /\ UNCHANGED <<arg, loadMu, compiler, prepared, reloadCh, snapshot, evaluating>>

\* PrepareForEval, which may fail, then the swap of the prepared query.
Prepare(l) ==
    /\ pc[l] = "prepare"
    /\ \/ /\ prepared' = local[l]
          /\ Goto(l, "notify")
          /\ UNCHANGED loadMu
       \/ /\ Return(l)
          /\ UNCHANGED prepared
    /\ UNCHANGED <<arg, compiler, local, reloadCh, snapshot, evaluating>>

\* The non-blocking send on the reload channel, and the return.
Notify(l) ==
    /\ pc[l] = "notify"
    /\ reloadCh' = 1
    /\ Return(l)
    /\ UNCHANGED <<arg, compiler, local, prepared, snapshot, evaluating>>

\* Whoever listens on ReloadCh takes a signal.
ReceiveReload ==
    /\ reloadCh = 1
    /\ reloadCh' = 0
    /\ UNCHANGED <<pc, arg, loadMu, compiler, local, prepared, snapshot, evaluating>>

\* Evaluate takes the prepared query under mu ...
Snapshot(e) ==
    /\ e \notin evaluating
    /\ evaluating' = evaluating \cup {e}
    /\ snapshot' = [snapshot EXCEPT ![e] = prepared]
    /\ UNCHANGED loadVars

\* ... and evaluates it, after any number of loads.
Evaluate(e) ==
    /\ e \in evaluating
    /\ evaluating' = evaluating \ {e}
    /\ UNCHANGED <<loadVars, snapshot>>

Next ==
    \/ \E l \in Loaders :
          \/ \E p \in Policies : Load(l, p)
          \/ LockLoadMu(l)
          \/ Compile(l)
          \/ ReadCompiler(l)
          \/ Prepare(l)
          \/ Notify(l)
    \/ ReceiveReload
    \/ \E e \in Evaluators : Snapshot(e) \/ Evaluate(e)

\* A goroutine inside Load goes on: the mutex is starvation free, and the
\* compiler and PrepareForEval terminate.
Fairness ==
    \A l \in Loaders :
        /\ SF_vars(LockLoadMu(l))
        /\ WF_vars(Compile(l) \/ ReadCompiler(l) \/ Prepare(l) \/ Notify(l))

Spec == Init /\ [][Next]_vars
FairSpec == Spec /\ Fairness

-----------------------------------------------------------------------------
(* Properties.                                                             *)

\* A Load that is about to return nil has installed its own policy, and it is
\* the one that governs, however the loads overlapped (the loadMu comment).
LoadedGoverns ==
    \A l \in Loaders :
        pc[l] = "notify" => prepared = arg[l] /\ compiler = arg[l]

\* The evaluator implements an atomic policy register: the load of a policy is
\* the swap of the prepared query.
status == [l \in Loaders |->
              IF pc[l] = "idle" THEN "idle"
              ELSE IF pc[l] = "notify" THEN "applied" ELSE "called"]
Register == INSTANCE PolicyRegister WITH register <- prepared, view <- snapshot
ImplementsRegister == Register!RSpec

\* Every Load that is called returns: no load waits for ever on loadMu, and an
\* error path does not keep it.
LoadsReturn == \A l \in Loaders : pc[l] # "idle" ~> pc[l] = "idle"

\* The governing policy changes only to the policy of the one loader that holds
\* loadMu: a policy that was swapped in as compiler and then failed to be
\* prepared never comes to govern through a later load.
SwapsAreSerial ==
    [][prepared' # prepared =>
          \E l \in Loaders : loadMu = {l} /\ arg[l] = prepared' /\ compiler = prepared']_vars

=============================================================================
