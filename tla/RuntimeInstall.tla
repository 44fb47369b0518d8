--------------------------- MODULE RuntimeInstall ---------------------------
(***************************************************************************)
(* `rnx runtime install` and `select`: tools/project/src/runtime_install.  *)
(*                                                                         *)
(* The store has entries/ID, each a copy of a source tree, and             *)
(* current.json, which names one of them.  A writer holds install.lock,    *)
(* copies the source into a stage of its own, renames it to entries/ID and *)
(* then replaces current.json.  The source may be edited at any time; the  *)
(* writers look at it again and again.                                     *)
(*                                                                         *)
(* An ID is the digest of a tree, here the tree itself.  After a loss of   *)
(* power a directory is in one of its states since its last sync, and a    *)
(* file that was not synced is Torn.  Left out: sources that are entries   *)
(* of the store or come from format 1, the layout a tree must have, what   *)
(* Git administers, and the modes of files.                                *)
(***************************************************************************)
EXTENDS Naturals, FiniteSets

CONSTANTS
    Tool,       \* commands, one process each
    File,       \* of the source
    Version,    \* what a file may contain
    MaxEdits,   \* bound on the edits of the source
    Torn,       \* what a loss of power leaves of an entry that was not synced
    Damaged,    \* what its owner makes of an entry
    NoID

ASSUME RuntimeAssumption == NoID \notin Tool /\ MaxEdits \in Nat

VARIABLES
    source,     \* the working tree
    edits,      \* edits so far
    step,       \* where a command is
    verb,       \* what it was asked for
    want,       \* the tree it installs, or selects
    checked,    \* the files seen by the inventory, or copied
    stage,      \* .stage-PID: the files copied, and whether they are synced
    entries,    \* entries/: from an ID to the tree there
    current,    \* current.json
    writer,     \* who holds install.lock
    told,       \* how the command ended
    found,      \* the entries and the selection when the command had the lock
    durable,    \* entries that a loss of power leaves in place
    loose,      \* entries whose files were not synced
    kept        \* the selections that a loss of power may leave

storeVars == <<entries, current, durable, loose, kept>>
toolVars == <<step, verb, want, checked, told, found>>
runtimeVars == <<source, edits, toolVars, stage, storeVars, writer>>

SourceTree == [File -> Version]
NoStage == [files |-> [f \in File |-> NoID], synced |-> FALSE, there |-> FALSE]
Over == {"idle", "over"}
Scan == {"again", "steady", "last", "before"}

RuntimeInit ==
    /\ source \in SourceTree /\ edits = 0
    /\ step = [t \in Tool |-> "idle"] /\ verb = [t \in Tool |-> "none"]
    /\ want = [t \in Tool |-> source] /\ checked = [t \in Tool |-> {}]
    /\ stage = [t \in Tool |-> NoStage]
    /\ entries = [id \in {} |-> id] /\ durable = {} /\ loose = {}
    /\ current = NoID /\ kept = {NoID}
    /\ writer = NoID
    /\ told = [t \in Tool |-> "nothing"]
    /\ found = [t \in Tool |-> [ids |-> {}, current |-> NoID]]

Goes(t, s) == step' = [step EXCEPT ![t] = s]

(***************************************************************************)
(* A command up to the lock.                                               *)
(***************************************************************************)

InstallRuntime(t) ==
    /\ step[t] = "idle" /\ Goes(t, "first")
    /\ verb' = [verb EXCEPT ![t] = "install"]
    /\ UNCHANGED <<source, edits, want, checked, told, found, stage, storeVars, writer>>

\* "select": an ID without an entry is refused at once.
SelectID(t, id) ==
    /\ step[t] = "idle" /\ id \in DOMAIN entries /\ Goes(t, "queued")
    /\ verb' = [verb EXCEPT ![t] = "select"] /\ want' = [want EXCEPT ![t] = id]
    /\ UNCHANGED <<source, edits, checked, told, found, stage, storeVars, writer>>

\* A file seen by the command; the step is over with the last one.
Sees(t, f, s) ==
    /\ f \notin checked[t]
    /\ IF checked[t] \cup {f} = File
       THEN Goes(t, s) /\ checked' = [checked EXCEPT ![t] = {}]
       ELSE checked' = [checked EXCEPT ![t] = @ \cup {f}] /\ UNCHANGED step

\* The inventory before the lock, file by file.
Inventory(t, f) ==
    /\ step[t] = "first" /\ Sees(t, f, "queued")
    /\ want' = [want EXCEPT ![t][f] = source[f]]
    /\ UNCHANGED <<source, edits, verb, told, found, stage, storeVars, writer>>

LockStore(t) ==
    /\ step[t] = "queued" /\ writer = NoID /\ writer' = t
    /\ Goes(t, IF verb[t] = "install" THEN "again" ELSE "locked")
    /\ found' = [found EXCEPT ![t] = [ids |-> DOMAIN entries, current |-> current]]
    /\ UNCHANGED <<source, edits, verb, want, checked, told, stage, storeVars>>

(***************************************************************************)
(* The writer.                                                             *)
(***************************************************************************)

\* The inventories after the first: a file that changed fails the command.
Rescan(t, f) ==
    /\ step[t] \in Scan /\ source[f] = want[t][f]
    /\ Sees(t, f, CASE step[t] = "again"  -> "locked"
                    [] step[t] = "steady" -> "document"
                    [] step[t] = "last"   -> "publish"
                    [] step[t] = "before" -> "choose")
    /\ UNCHANGED <<source, edits, verb, want, told, found, stage, storeVars, writer>>

\* storage::reclaim, and a stage for a tree that is not there yet.
Reclaim(t) ==
    /\ step[t] = "locked"
    /\ LET copies == verb[t] = "install" /\ want[t] \notin DOMAIN entries IN
       /\ stage' = [u \in Tool |-> [NoStage EXCEPT !.there = copies /\ u = t]]
       /\ Goes(t, IF copies THEN "copy" ELSE IF verb[t] = "install" THEN "verify" ELSE "choose")
    /\ UNCHANGED <<source, edits, verb, want, checked, told, found, storeVars, writer>>

\* copy, and the index and inventory of the copy after its last file.
Copy(t, f) ==
    /\ step[t] = "copy" /\ source[f] = want[t][f] /\ Sees(t, f, "steady")
    /\ stage' = [stage EXCEPT ![t].files[f] = source[f]]
    /\ UNCHANGED <<source, edits, verb, want, told, found, storeVars, writer>>

\* installation.json is written, and the whole stage synced.
Document(t) ==
    /\ step[t] = "document" /\ Goes(t, "last")
    /\ stage' = [stage EXCEPT ![t].synced = TRUE]
    /\ UNCHANGED <<source, edits, verb, want, checked, told, found, storeVars, writer>>

PublishEntry(t) ==
    /\ step[t] = "publish" /\ Goes(t, "published")
    /\ entries' = [id \in DOMAIN entries \cup {want[t]} |->
                      IF id = want[t] THEN stage[t].files ELSE entries[id]]
    /\ loose' = IF stage[t].synced THEN loose ELSE loose \cup {want[t]}
    /\ stage' = [stage EXCEPT ![t] = NoStage]
    /\ UNCHANGED <<source, edits, verb, want, checked, told, found, current, durable, kept, writer>>

\* Mutant of SyncStore: the entry is not synced.
SyncStoreNot(t) ==
    /\ step[t] = "published" /\ Goes(t, "verify")
    /\ UNCHANGED <<source, edits, verb, want, checked, told, found, stage, storeVars, writer>>

SyncStore(t) ==
    /\ step[t] = "published" /\ Goes(t, "verify")
    /\ durable' = DOMAIN entries
    /\ UNCHANGED <<source, edits, verb, want, checked, told, found, stage, entries, current, loose,
                   kept, writer>>

\* validate: the tree of an entry has the digest that is its name.
Validated(id) == id \in DOMAIN entries /\ entries[id] = id

Verify(t) ==
    /\ step[t] = "verify" /\ Validated(want[t]) /\ Goes(t, "before")
    /\ UNCHANGED <<source, edits, verb, want, checked, told, found, stage, storeVars, writer>>

\* select_inner validates, whoever calls it, and writes a temporary document.
Choose(t) ==
    /\ step[t] = "choose" /\ Validated(want[t]) /\ Goes(t, "rename")
    /\ UNCHANGED <<source, edits, verb, want, checked, told, found, stage, storeVars, writer>>

RenameCurrent(t) ==
    /\ step[t] = "rename" /\ Goes(t, "chosen")
    /\ current' = want[t] /\ kept' = kept \cup {want[t]}
    /\ UNCHANGED <<source, edits, verb, want, checked, told, found, stage, entries, durable, loose,
                   writer>>

\* The end of a command: what it tells, and its lock.
EndsTelling(t, what) ==
    /\ Goes(t, "over") /\ told' = [told EXCEPT ![t] = what]
    /\ writer' = IF writer = t THEN NoID ELSE writer
    /\ UNCHANGED <<source, edits, verb, want, checked, found>>

SyncRoot(t) ==
    /\ step[t] = "chosen" /\ EndsTelling(t, "ok")
    /\ kept' = {current}
    /\ UNCHANGED <<stage, entries, current, durable, loose>>

(***************************************************************************)
(* What goes wrong.                                                        *)
(***************************************************************************)

\* Mutant of ErrorText: an entry counts as published once it is synced.
ErrorTextLate(t) ==
    IF step[t] = "chosen" THEN "perhaps selected"
    ELSE IF verb[t] = "install" /\ step[t] \in {"verify", "before", "choose", "rename"}
         THEN "installed" ELSE "failed"

\* install and "select": the error says what the command had done.
ErrorText(t) ==
    IF step[t] = "chosen" THEN "perhaps selected"
    ELSE IF verb[t] = "install" /\ step[t] \in {"published", "verify", "before", "choose", "rename"}
         THEN "installed" ELSE "failed"

\* Any call fails, a check finds a difference or an interrupt; Temp removes the stage.
CommandFails(t) ==
    /\ step[t] \notin Over /\ EndsTelling(t, ErrorText(t))
    /\ stage' = [stage EXCEPT ![t] = NoStage]
    /\ UNCHANGED storeVars

CommandKilled(t) ==
    /\ step[t] \notin Over /\ EndsTelling(t, "nothing")
    /\ UNCHANGED <<stage, storeVars>>

EditFile(f) ==
    /\ edits < MaxEdits /\ edits' = edits + 1
    /\ \E v \in Version \ {source[f]} : source' = [source EXCEPT ![f] = v]
    /\ UNCHANGED <<toolVars, stage, storeVars, writer>>

\* The owner changes an entry, not while the tool works on the store.
Damage(id) ==
    /\ writer = NoID /\ entries[id] = id
    /\ entries' = [entries EXCEPT ![id] = Damaged]
    /\ UNCHANGED <<source, edits, toolVars, stage, current, durable, loose, kept, writer>>

Outage ==
    /\ step' = [t \in Tool |-> IF step[t] = "idle" THEN "idle" ELSE "over"] /\ writer' = NoID
    /\ \E S \in SUBSET DOMAIN entries :
        /\ durable \subseteq S
        /\ entries' = [id \in S |-> IF id \in loose THEN Torn ELSE entries[id]]
        /\ durable' = S
    /\ current' \in kept /\ kept' = {current'} /\ loose' = {}
    /\ UNCHANGED <<source, edits, verb, want, checked, told, found, stage>>

Writes(t) ==
    \/ \E f \in File : Rescan(t, f) \/ Copy(t, f)
    \/ Reclaim(t) \/ Document(t) \/ PublishEntry(t) \/ SyncStore(t) \/ Verify(t)
    \/ Choose(t) \/ RenameCurrent(t) \/ SyncRoot(t)

Commands ==
    \E t \in Tool :
        \/ InstallRuntime(t) \/ LockStore(t) \/ Writes(t)
        \/ \E f \in File : Inventory(t, f)
        \/ \E id \in DOMAIN entries : SelectID(t, id)

Owner == (\E f \in File : EditFile(f)) \/ (\E id \in DOMAIN entries : Damage(id))

Faulty == \E t \in Tool : CommandFails(t) \/ CommandKilled(t)

RuntimeNext == Commands \/ Owner \/ Outage \/ Faulty

RuntimeSpec == RuntimeInit /\ [][RuntimeNext]_runtimeVars

\* A machine that keeps its power, and one whose commands do not fail: one of the two is
\* what SelectedExists needs.
PoweredSpec == RuntimeInit /\ [][Commands \/ Owner \/ Faulty]_runtimeVars
FaultlessSpec == RuntimeInit /\ [][Commands \/ Owner \/ Outage]_runtimeVars

(***************************************************************************)
(* Properties.                                                             *)
(***************************************************************************)

RuntimeTypeOK ==
    /\ source \in SourceTree /\ edits \in 0..MaxEdits
    /\ step \in [Tool -> {"first", "queued", "locked", "copy", "document", "publish", "published",
                          "verify", "choose", "rename", "chosen"} \cup Scan \cup Over]
    /\ verb \in [Tool -> {"none", "install", "select"}]
    /\ want \in [Tool -> SourceTree] /\ checked \in [Tool -> SUBSET File]
    /\ stage \in [Tool -> [files  : [File -> Version \cup {NoID}],
                           synced : BOOLEAN, there : BOOLEAN]]
    /\ DOMAIN entries \subseteq SourceTree /\ durable \subseteq DOMAIN entries
    /\ loose \subseteq DOMAIN entries /\ kept \subseteq SourceTree \cup {NoID} /\ current \in kept
    /\ writer \in Tool \cup {NoID} /\ (writer # NoID => step[writer] \notin Over)
    /\ told \in [Tool -> {"nothing", "ok", "perhaps selected", "installed", "failed"}]

\* install() and copy(): what is under entries/ID is the tree of that ID, or was and was
\* changed by its owner, whatever was edited, killed or lost on the way.
EntriesWhole == \A id \in DOMAIN entries : entries[id] \in {id, Damaged}

\* install(): current.json names an entry that is there.
SelectedExists == current # NoID => current \in DOMAIN entries

\* storage::reclaim under the lock: nobody takes away the stage of a command at work.
LiveWorkKept ==
    \A t \in Tool :
        step[t] \in {"copy", "steady", "document", "last", "publish"} => stage[t].there

\* select_inner: a command never selects an entry that its owner has changed.
ChosenIsWhole ==
    [][current' # current => Outage \/ entries[current'] = current']_runtimeVars

\* The words of install and "select": after "installed" there is an entry and the old
\* selection, after "failed" the store is as it was, otherwise the selection is the new one.
ToldTrue ==
    [][\A t \in Tool : told'[t] # told[t] =>
          LET installed == want[t] \in DOMAIN entries'
              old == current' = found[t].current IN
          CASE told'[t] = "failed"    -> writer = t => old /\ DOMAIN entries' = found[t].ids
            [] told'[t] = "installed" -> old /\ installed
            [] OTHER                  -> current' = want[t] /\ installed]_runtimeVars

\* storage::reclaim: after a command that succeeded no stage is left, of nobody.
NoLitter ==
    [][\A t \in Tool : told'[t] # told[t] /\ told'[t] = "ok" =>
          \A u \in Tool : ~stage'[u].there]_runtimeVars

\* The store of runtimes, at any moment: entries are whole, the selected one is there and
\* nobody's work is taken away.
StoreSound == RuntimeTypeOK /\ EntriesWhole /\ SelectedExists /\ LiveWorkKept

\* The commands on the store: what they select, say and leave behind.
StoreHonest == ChosenIsWhole /\ ToldTrue /\ NoLitter

=============================================================================
