------------------------------ MODULE LockPair ------------------------------
(***************************************************************************)
(* The pair rnx.Cargo.lock and rnx.lock (tools/project/src/workflow.rs).   *)
(*                                                                         *)
(* `rnx project lock` replaces both files, one rename after the other, and *)
(* puts the old ones back when a step fails.  It may be interrupted, fail  *)
(* again while it restores, or be killed anywhere; readers take the pair   *)
(* only if the hash in rnx.lock is that of the Cargo file.                 *)
(***************************************************************************)
EXTENDS Naturals

CONSTANT MaxLocks   \* bound on runs of lock

ASSUME LockPairAssumption == MaxLocks \in Nat

VARIABLES
    cargo,        \* generation of rnx.Cargo.lock, 0 when there is none
    lockProject,  \* rnx.lock: [generation, native]; generation 0 when there is none
    old,          \* old_cargo and old_project
    making,       \* the lock that is being published
    phase,        \* "idle", "cargo", "project", "removing", "restoring", "restoringCargo"
    interrupted,
    outcome,      \* of the last run: "none", "locked", "failed" (old pair back), "broken", "killed"
    locks         \* runs so far

lockVars == <<cargo, lockProject, old, making, phase, interrupted, outcome, locks>>

Empty == [generation |-> 0, native |-> TRUE]

LockInit ==
    /\ cargo = 0 /\ lockProject = Empty
    /\ old = [cargo |-> 0, project |-> Empty] /\ making = Empty
    /\ phase = "idle" /\ interrupted = FALSE /\ outcome = "none" /\ locks = 0

\* Resolution is over and publish_pair begins; an executable of the user's has no Cargo file.
Begin ==
    /\ phase = "idle" /\ locks < MaxLocks
    /\ locks' = locks + 1 /\ interrupted' = FALSE
    /\ old' = [cargo |-> cargo, project |-> lockProject]
    /\ \E native \in BOOLEAN : making' = [generation |-> locks + 1, native |-> native]
    /\ phase' = IF making'.native THEN "cargo" ELSE "project"
    /\ UNCHANGED <<cargo, lockProject, outcome>>

Interrupt ==
    /\ phase # "idle" /\ ~interrupted
    /\ interrupted' = TRUE
    /\ UNCHANGED <<cargo, lockProject, old, making, phase, outcome, locks>>

\* Project::atomic: refused before the rename, or renamed, with the directory synced or not.
Atomic(file, new, done, failed) ==
    \/ ~interrupted /\ file' = new /\ phase' \in {done, failed}
    \/ UNCHANGED file /\ phase' = failed

\* restore: what was not there is removed.
Restore(file, new, absent, done) ==
    \/ absent /\ file' = new /\ phase' = done
    \/ ~absent /\ Atomic(file, new, done, "giveUp")
    \/ UNCHANGED file /\ phase' = "giveUp"

\* What publish_pair does with an error: nothing, when it was interrupted.
AfterError == IF interrupted THEN "giveUp" ELSE "restoring"

PublishCargo ==
    /\ phase = "cargo"
    /\ Atomic(cargo, making.generation, "project", AfterError)
    /\ UNCHANGED <<lockProject, old, making, interrupted, outcome, locks>>

PublishProject ==
    /\ phase = "project"
    /\ Atomic(lockProject, making, IF making.native THEN "done" ELSE "removing", AfterError)
    /\ UNCHANGED <<cargo, old, making, interrupted, outcome, locks>>

\* A lock without Cargo removes what an earlier one left; the lock stands if that fails.
RemoveCargo ==
    /\ phase = "removing"
    /\ \/ cargo' = 0 /\ phase' = "done"
       \/ UNCHANGED cargo /\ phase' = "giveUp"
    /\ UNCHANGED <<lockProject, old, making, interrupted, outcome, locks>>

\* Mutant: the Cargo file is put back first.
RestoreProjectLast ==
    /\ phase = "restoring"
    /\ Restore(cargo, old.cargo, old.cargo = 0, "restoringCargo")
    /\ UNCHANGED <<lockProject, old, making, interrupted, outcome, locks>>

\* The old commit marker first.
RestoreProject ==
    /\ phase = "restoring"
    /\ Restore(lockProject, old.project, old.project = Empty, "restoringCargo")
    /\ UNCHANGED <<cargo, old, making, interrupted, outcome, locks>>

RestoreCargo ==
    /\ phase = "restoringCargo"
    /\ Restore(cargo, old.cargo, old.cargo = 0, "restored")
    /\ UNCHANGED <<lockProject, old, making, interrupted, outcome, locks>>

Return ==
    /\ phase \in {"done", "restored", "giveUp"}
    /\ outcome' = CASE phase = "done" -> "locked"
                    [] phase = "restored" -> "failed"
                    [] OTHER -> "broken"
    /\ phase' = "idle"
    /\ UNCHANGED <<cargo, lockProject, old, making, interrupted, locks>>

\* The process is killed; the files stay as they are.
Kill ==
    /\ phase # "idle"
    /\ phase' = "idle" /\ outcome' = "killed"
    /\ UNCHANGED <<cargo, lockProject, old, making, interrupted, locks>>

LockRest == phase = "idle" /\ locks = MaxLocks /\ UNCHANGED lockVars

LockNext ==
    \/ Begin \/ Interrupt \/ PublishCargo \/ PublishProject \/ RemoveCargo
    \/ RestoreProject \/ RestoreCargo \/ Return \/ Kill \/ LockRest

LockSpec == LockInit /\ [][LockNext]_lockVars

-----------------------------------------------------------------------------

\* read_lock: whether a reader takes the pair.
Accepted ==
    /\ lockProject.generation # 0
    /\ lockProject.native => lockProject.generation = cargo

LockTypeOK ==
    /\ cargo \in 0..MaxLocks /\ locks \in 0..MaxLocks
    /\ {lockProject, old.project, making} \subseteq [generation : 0..MaxLocks, native : BOOLEAN]
    /\ old.cargo \in 0..MaxLocks
    /\ phase \in {"idle", "cargo", "project", "removing", "restoring", "restoringCargo",
                  "done", "restored", "giveUp"}
    /\ phase = "cargo" => making.native
    /\ interrupted \in BOOLEAN
    /\ outcome \in {"none", "locked", "failed", "broken", "killed"}

\* A lock never lies beside a Cargo file older than itself, at any step, after any
\* failure, interrupt or kill: the pair that a reader could mistake does not come to be.
NoNewWithOld == lockProject.native => cargo >= lockProject.generation

\* A lock that reports plain failure leaves the files, and what readers make of them, as
\* they were; one that reports success leaves a pair that readers take.
OutcomeHonest ==
    phase = "idle" =>
        /\ outcome = "failed" => cargo = old.cargo /\ lockProject = old.project
        /\ outcome = "locked" => Accepted /\ lockProject = making

\* lock: the two lock files agree or can be told apart, and the outcome says which.
LockSound == LockTypeOK /\ NoNewWithOld /\ OutcomeHonest

=============================================================================
