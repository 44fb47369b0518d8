----------------------------- MODULE MCProject ------------------------------
(***************************************************************************)
(* The project manager, for TLC: the cache of assemblies (AssemblyCache),  *)
(* the change of a session's dependencies (DepTransition) and the          *)
(* publication of a pair of lock files (LockPair).                         *)
(*                                                                         *)
(* The parts are not connected: a behaviour takes steps of one of them.    *)
(* In "cache" commands may be killed, and two projects share a key, one of *)
(* which is edited unless the native inputs change; in "power" the machine *)
(* may lose its power, and one project at a time leaves traces.            *)
(***************************************************************************)
EXTENDS AssemblyCache, DepTransition, LockPair, TLC

VARIABLE part

\* Projects and digests are interchangeable.
MCSymmetry == Permutations(Project) \cup Permutations(Good)

MCInit ==
    /\ part \in {"cache", "power", "dep", "lock"}
    /\ CacheInit /\ DepInit /\ LockInit
    /\ part # "dep" => depMode.scratch

Traced == {p \in Project : pc'[p] # "idle" \/ receipt'[p] # None \/ p \in edited'}

ProjectNext == \E p \in Project : Builds(p) \/ Select(p) \/ Execute(p) \/ EditProject(p)

MCNext ==
    \/ /\ part = "cache"
       /\ ProjectNext \/ ChangeInputs \/ \E r \in Remover : Removes(r)
       /\ Cardinality(edited') <= 1 /\ (changed' => edited' = {})
       /\ UNCHANGED <<part, depVars, lockVars>>
    \/ /\ part = "power"
       /\ ProjectNext \/ ChangeInputs \/ PowerLoss \/ \E r \in Remover : Removes(r) /\ ~Break(r)
       /\ Cardinality(Traced) <= 1
       /\ UNCHANGED <<part, depVars, lockVars>>
    \/ part = "dep" /\ DepNext /\ UNCHANGED <<part, cacheVars, lockVars>>
    \/ part = "lock" /\ LockNext /\ UNCHANGED <<part, cacheVars, depVars>>

MCSpec == MCInit /\ [][MCNext]_<<part, cacheVars, depVars, lockVars>>
=============================================================================
