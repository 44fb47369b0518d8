---------------------------- MODULE AssemblyCache ----------------------------
(***************************************************************************)
(* One key of the shared assembly cache (tools/project/src/cache_entry.rs, *)
(* workflow.rs, workflow/shared.rs and maintenance/linux.rs): projects     *)
(* that build or attach its entry and launch what they attached, and the   *)
(* command that removes it.                                                *)
(*                                                                         *)
(* A directory of the entry is a tree; at most one is entries/<key> and    *)
(* one removing/<key>.  Builders and removers hold the lock of the key,    *)
(* which lies outside.  Launches hold none.  A process may be killed at    *)
(* any step, with its Cargo; the machine may lose power, and then each     *)
(* directory is in one of the states it had since it was last synced.      *)
(*                                                                         *)
(* Builds need not be reproducible: Cargo gives any of Good, or any of Bad *)
(* when the native inputs or the tools were changed before it ended.       *)
(***************************************************************************)
EXTENDS Naturals, FiniteSets

CONSTANTS
    Project,  \* projects that share the key
    Remover,  \* maintenance commands
    Good,     \* digests of executables of the locked inputs
    Bad,      \* digests of executables of other inputs
    Faults,   \* of "crash" (a remover is killed or fails) and "power"
    None

ASSUME CacheAssumption ==
    /\ Project \cap Remover = {} /\ Good \cap Bad = {}
    /\ None \notin Project \cup Remover \cup Good \cup Bad
    /\ Faults \subseteq {"crash", "power"}

Digest == Good \cup Bad
Tree == {1, 2}
Place == {"none", "visible", "pending"}

VARIABLES
    place,    \* where a tree is
    art,      \* digests whose executable is in its artifacts/
    ready,    \* the digest ready.json names, or None
    disk,     \* what each of these may be after a loss of power
    lock,     \* who holds locks/<key>.lock
    changed,  \* the native inputs or the tools are not the locked ones
    edited,   \* projects whose lock or sources were edited
    pc,       \* step of each command
    known,    \* the digest a command works with
    start,    \* projects whose command began before the edit
    receipt,  \* receipt.json: [digest, edited], or None
    ran       \* history: executed digests, and whether attached for the lock then in force

cacheVars == <<place, art, ready, disk, lock, changed, edited, pc, known, start, receipt, ran>>
files == <<place, art, ready, disk>>
cacheProject == <<edited, start, receipt, ran>>

Visible == {i \in Tree : place[i] = "visible"}
Pending == {i \in Tree : place[i] = "pending"}
Receipts == [digest : Digest, edited : BOOLEAN]

CacheInit ==
    /\ place = [i \in Tree |-> "none"] /\ art = [i \in Tree |-> {}]
    /\ ready = [i \in Tree |-> None]
    /\ disk = [i \in Tree |-> [place |-> {"none"}, art |-> {{}}, ready |-> {None}]]
    /\ lock = None /\ changed = FALSE /\ edited = {}
    /\ pc = [p \in Project \cup Remover |-> "idle"]
    /\ known = [p \in Project |-> None] /\ start = {}
    /\ receipt = [p \in Project |-> None] /\ ran = {}

Goto(p, l) == pc' = [pc EXCEPT ![p] = l]

----------------------------------------------------------------------------
(* build: Project::build_shared and cache_entry::acquire *)

\* The lock is read and the old receipt removed.
Start(p) ==
    /\ pc[p] = "idle" /\ Goto(p, "waiting")
    /\ start' = IF p \in edited THEN start \ {p} ELSE start \cup {p}
    /\ receipt' = [receipt EXCEPT ![p] = None]
    /\ UNCHANGED <<files, lock, changed, edited, known, ran>>

\* validate(): environment, native inputs and tools are the locked ones.
Valid == ~changed

\* project_check
Current(p) == p \in start => p \notin edited

\* lock(), after which the project is looked at again
Acquire(p) ==
    /\ pc[p] = "waiting" /\ lock = None /\ Current(p)
    /\ lock' = p /\ Goto(p, "locked")
    /\ UNCHANGED <<files, changed, known, cacheProject>>

\* The entry is there or is made, and the inputs are valid.  A ready one is attached.
Hit(p) ==
    /\ pc[p] = "locked" /\ Valid
    /\ \E i \in Visible : ready[i] # None
    /\ Goto(p, "attach")
    /\ UNCHANGED <<files, lock, changed, known, cacheProject>>

\* Mutant of Miss: what another left is built upon without a look at ready.json.
MissBlindly(p) ==
    /\ pc[p] = "locked" /\ Valid /\ Goto(p, "build")
    /\ \E i \in Tree :
        /\ i \in Visible \/ (Visible = {} /\ place[i] = "none")
        /\ place' = [place EXCEPT ![i] = "visible"]
        /\ art' = [art EXCEPT ![i] = {}] /\ ready' = [ready EXCEPT ![i] = None]
        /\ disk' = [disk EXCEPT ![i].place = @ \cup {"visible"}, ![i].art = @ \cup {{}},
                                ![i].ready = @ \cup {None}]
    /\ UNCHANGED <<lock, changed, known, cacheProject>>

\* One that is not ready is cleared, or made, and staged for Cargo.
Miss(p) ==
    /\ pc[p] = "locked" /\ Valid /\ Goto(p, "build")
    /\ \E i \in Tree :
        /\ (i \in Visible /\ ready[i] = None) \/ (Visible = {} /\ place[i] = "none")
        /\ place' = [place EXCEPT ![i] = "visible"]
        /\ art' = [art EXCEPT ![i] = {}]
        /\ disk' = [disk EXCEPT ![i].place = @ \cup {"visible"}, ![i].art = @ \cup {{}}]
    /\ UNCHANGED <<ready, lock, changed, known, cacheProject>>

Cargo(p) ==
    /\ pc[p] = "build" /\ Goto(p, "built")
    /\ \E d \in IF changed THEN Digest ELSE Good : known' = [known EXCEPT ![p] = d]
    /\ UNCHANGED <<files, lock, changed, cacheProject>>

\* The inputs are still valid; the executable is copied, synced, checked and renamed.
Install(p) ==
    /\ pc[p] = "built" /\ Valid /\ Goto(p, "installed")
    /\ \E i \in Visible :
        /\ art' = [art EXCEPT ![i] = @ \cup {known[p]}]
        /\ disk' = [disk EXCEPT ![i].art = @ \cup {art'[i]}]
    /\ UNCHANGED <<place, ready, lock, changed, known, cacheProject>>

SyncArtifacts(p) ==
    /\ pc[p] = "installed" /\ Goto(p, "durable")
    /\ disk' = [i \in Tree |-> IF i \in Visible THEN [disk[i] EXCEPT !.art = {art[i]}] ELSE disk[i]]
    /\ UNCHANGED <<place, art, ready, lock, changed, known, cacheProject>>

\* ready.new is written, synced and renamed, if the inputs are valid to the last.
PublishReady(p) ==
    /\ pc[p] = "durable" /\ Valid /\ Goto(p, "published")
    /\ \E i \in Visible :
        /\ ready' = [ready EXCEPT ![i] = known[p]]
        /\ disk' = [disk EXCEPT ![i].ready = @ \cup {known[p]}]
    /\ UNCHANGED <<place, art, lock, changed, known, cacheProject>>

SyncEntry(p) ==
    /\ pc[p] = "published" /\ Goto(p, "attach")
    /\ disk' = [i \in Tree |->
            IF i \in Visible THEN [disk[i] EXCEPT !.ready = {ready[i]}] ELSE disk[i]]
    /\ UNCHANGED <<place, art, ready, lock, changed, known, cacheProject>>

\* ready.json is read, its artifact hashed, inputs and project looked at again.
Attach(p) ==
    /\ pc[p] = "attach" /\ Valid /\ Current(p) /\ Goto(p, "attached")
    /\ \E i \in Visible :
        /\ ready[i] \in art[i]
        /\ known' = [known EXCEPT ![p] = ready[i]]
    /\ UNCHANGED <<files, lock, changed, cacheProject>>

\* The receipt is published under the lock, which ends with the command.
CacheFinish(p) ==
    /\ pc[p] = "attached" /\ Current(p) /\ Goto(p, "idle")
    /\ receipt' = [receipt EXCEPT ![p] = [digest |-> known[p], edited |-> p \notin start]]
    /\ lock' = None /\ known' = [known EXCEPT ![p] = None]
    /\ UNCHANGED <<files, changed, edited, start, ran>>

\* A check or an operation fails, a signal arrives or the command is killed.
Fail(p) ==
    /\ pc[p] # "idle" /\ Goto(p, "idle")
    /\ lock' = IF lock = p THEN None ELSE lock
    /\ known' = [known EXCEPT ![p] = None]
    /\ UNCHANGED <<files, changed, cacheProject>>

----------------------------------------------------------------------------
(* launch: Project::checked_artifact *)

\* The receipt is the lock's, and ready.json names the same digest.
Select(p) ==
    /\ pc[p] = "idle" /\ receipt[p] # None /\ receipt[p].edited = (p \in edited)
    /\ \E i \in Visible : ready[i] = receipt[p].digest
    /\ known' = [known EXCEPT ![p] = receipt[p].digest]
    /\ start' = IF p \in edited THEN start \ {p} ELSE start \cup {p}
    /\ Goto(p, "selected")
    /\ UNCHANGED <<files, lock, changed, edited, receipt, ran>>

\* The artifact is there as it was stamped or hashed, and is executed.
Execute(p) ==
    /\ pc[p] = "selected" /\ Goto(p, "idle")
    /\ \E i \in Visible : known[p] \in art[i]
    /\ ran' = ran \cup {[digest |-> known[p], current |-> receipt[p].edited = (p \notin start)]}
    /\ known' = [known EXCEPT ![p] = None]
    /\ UNCHANGED <<files, lock, changed, edited, start, receipt>>

----------------------------------------------------------------------------
(* cache remove: maintenance::linux::run *)

\* The lock is free, no removal is pending and the entry was walked.
Remove(r) ==
    /\ pc[r] = "idle" /\ lock = None /\ Pending = {} /\ Visible # {}
    /\ lock' = r /\ Goto(r, "rename")
    /\ UNCHANGED <<files, changed, known, cacheProject>>

\* --resume: only what is pending.
Resume(r) ==
    /\ pc[r] = "idle" /\ lock = None /\ Pending # {}
    /\ lock' = r /\ Goto(r, "erase")
    /\ UNCHANGED <<files, changed, known, cacheProject>>

\* Mutant of Rename: the entry is deleted where it is.
RenameNot(r) ==
    /\ pc[r] = "rename" /\ Goto(r, "syncEntries")
    /\ \E i \in Visible : art' = [art EXCEPT ![i] = {}]
    /\ UNCHANGED <<place, ready, disk, lock, changed, known, cacheProject>>

Rename(r) ==
    /\ pc[r] = "rename" /\ Goto(r, "syncEntries")
    /\ \E i \in Visible :
        /\ place' = [place EXCEPT ![i] = "pending"]
        /\ disk' = [disk EXCEPT ![i].place = @ \cup {"pending", "none"}]
    /\ UNCHANGED <<art, ready, lock, changed, known, cacheProject>>

SyncEntries(r) ==
    /\ pc[r] = "syncEntries" /\ Goto(r, "syncPending")
    /\ disk' = [i \in Tree |->
            IF i \in Pending THEN [disk[i] EXCEPT !.place = @ \ {"visible"}] ELSE disk[i]]
    /\ UNCHANGED <<place, art, ready, lock, changed, known, cacheProject>>

SyncPending(r) ==
    /\ pc[r] = "syncPending" /\ Goto(r, "erase")
    /\ disk' = [i \in Tree |->
            IF i \in Pending THEN [disk[i] EXCEPT !.place = @ \ {"none"}] ELSE disk[i]]
    /\ UNCHANGED <<place, art, ready, lock, changed, known, cacheProject>>

\* walk(): artifacts/ comes before ready.json, and each directory is synced.
EraseArtifacts(r) ==
    /\ pc[r] = "erase" /\ Goto(r, "eraseReady")
    /\ \E i \in Pending :
        /\ art' = [art EXCEPT ![i] = {}]
        /\ disk' = [disk EXCEPT ![i].art = {{}}]
    /\ UNCHANGED <<place, ready, lock, changed, known, cacheProject>>

EraseReady(r) ==
    /\ pc[r] = "eraseReady" /\ Goto(r, "unlink")
    /\ \E i \in Pending :
        /\ ready' = [ready EXCEPT ![i] = None]
        /\ disk' = [disk EXCEPT ![i].ready = {None}]
    /\ UNCHANGED <<place, art, lock, changed, known, cacheProject>>

Unlink(r) ==
    /\ pc[r] = "unlink" /\ Goto(r, "idle") /\ lock' = None
    /\ \E i \in Pending :
        /\ place' = [place EXCEPT ![i] = "none"]
        /\ disk' = [disk EXCEPT ![i].place = {"none"}]
    /\ UNCHANGED <<art, ready, changed, known, cacheProject>>

\* Killed, or an operation failed; what is pending remains.
Break(r) ==
    /\ "crash" \in Faults /\ pc[r] # "idle" /\ Goto(r, "idle") /\ lock' = None
    /\ UNCHANGED <<files, changed, known, cacheProject>>

----------------------------------------------------------------------------
(* The world *)

ChangeInputs ==
    /\ ~changed /\ changed' = TRUE
    /\ UNCHANGED <<files, lock, pc, known, cacheProject>>

EditProject(p) ==
    /\ p \notin edited /\ edited' = edited \cup {p}
    /\ UNCHANGED <<files, lock, changed, pc, known, start, receipt, ran>>

\* Every process ends; entries/ has the key at most once.
PowerLoss ==
    /\ "power" \in Faults /\ pc' = [p \in DOMAIN pc |-> "idle"] /\ lock' = None
    /\ known' = [p \in Project |-> None]
    /\ \E w \in disk[1].place \X disk[2].place, a \in disk[1].art \X disk[2].art,
          d \in disk[1].ready \X disk[2].ready :
        /\ \A l \in {"visible", "pending"} : Cardinality({i \in Tree : w[i] = l}) <= 1
        /\ place' = w
        /\ art' = [i \in Tree |-> IF w[i] = "none" THEN {} ELSE a[i]]
        /\ ready' = [i \in Tree |-> IF w[i] = "none" THEN None ELSE d[i]]
    /\ disk' = [i \in Tree |-> [place |-> {place'[i]}, art |-> {art'[i]}, ready |-> {ready'[i]}]]
    /\ UNCHANGED <<changed, cacheProject>>

Builds(p) ==
    \/ Start(p) \/ Acquire(p) \/ Hit(p) \/ Miss(p) \/ Cargo(p) \/ Install(p)
    \/ SyncArtifacts(p) \/ PublishReady(p) \/ SyncEntry(p) \/ Attach(p) \/ CacheFinish(p) \/ Fail(p)
Removes(r) ==
    \/ Remove(r) \/ Resume(r) \/ Rename(r) \/ SyncEntries(r) \/ SyncPending(r)
    \/ EraseArtifacts(r) \/ EraseReady(r) \/ Unlink(r) \/ Break(r)

CacheNext ==
    \/ \E p \in Project : Builds(p) \/ Select(p) \/ Execute(p) \/ EditProject(p)
    \/ \E r \in Remover : Removes(r)
    \/ ChangeInputs \/ PowerLoss

CacheSpec == CacheInit /\ [][CacheNext]_cacheVars

----------------------------------------------------------------------------
(* Properties *)

CacheTypeOK ==
    /\ place \in [Tree -> Place] /\ art \in [Tree -> SUBSET Digest]
    /\ ready \in [Tree -> Digest \cup {None}]
    /\ \A i \in Tree :
        place[i] \in disk[i].place /\ art[i] \in disk[i].art /\ ready[i] \in disk[i].ready
    /\ lock \in Project \cup Remover \cup {None} /\ changed \in BOOLEAN
    /\ edited \subseteq Project /\ start \subseteq Project
    /\ known \in [Project -> Digest \cup {None}]
    /\ receipt \in [Project -> Receipts \cup {None}]
    /\ Cardinality(Visible) <= 1 /\ Cardinality(Pending) <= 1

\* A ready.json that can be found names an executable that is there, whole, whatever was
\* killed or lost: a hit is never refused for ever, as nothing repairs a ready entry.
ReadyBacked == \A i \in Visible : ready[i] # None => ready[i] \in art[i]

\* cache_entry::build and validate: what is ready, attached or executed was built from inputs
\* that are the locked ones when Cargo has ended.  Outside the model, and of this promise: an
\* input changed and put back while Cargo reads it ("Pre/post checks [...] cannot prove an
\* atomic snapshot against a concurrent editor", plans/0057), and a Cargo that outlives the
\* builder it was started by (plans/0061).
OnlyCleanBuilds ==
    /\ \A i \in Tree : ready[i] \in Good \cup {None}
    /\ \A p \in Project : receipt[p] # None => receipt[p].digest \in Good
    /\ \A x \in ran : x.digest \in Good

\* A launch executes what was attached for the lock it read, never for an earlier one,
\* whatever was edited during the build.
LaunchesCurrent == \A x \in ran : x.current

\* A published entry stays as it is until it is removed as a whole, also when another
\* builder, a resumed removal of an earlier one or a failed command comes along.  A loss
\* of power may take back what was not synced.
PublishedStays ==
    [][\/ PowerLoss
       \/ \A i \in Tree : place[i] = "visible" /\ place'[i] = "visible" /\ ready[i] # None =>
              art'[i] = art[i] /\ ready'[i] = ready[i]]_cacheVars

\* plans/0066, "Sync both parent directories after rename before deleting any child": no
\* removal deletes from a tree that a loss of power could bring back under entries/.
SyncedBeforeDelete ==
    \A r \in Remover, i \in Tree :
        pc[r] \in {"eraseReady", "unlink"} /\ i \in Pending => disk[i].place = {"pending"}

\* The cache: what is ready is there, was built from its inputs and is launched for them.
CacheSound == CacheTypeOK /\ ReadyBacked /\ OnlyCleanBuilds /\ LaunchesCurrent

=============================================================================
