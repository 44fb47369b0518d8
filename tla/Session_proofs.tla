--------------------------- MODULE Session_proofs ---------------------------
(***************************************************************************)
(* Proofs about what one rnx command installs and keeps.                   *)
(*                                                                         *)
(* RuntimeInstall, for every set of commands, files and contents and any   *)
(* number of edits: only the holder of install.lock changes the store, so  *)
(* a step is one of a single command, and what the others know stays true. *)
(* Session, for every set of names, types and handles and any number of    *)
(* inputs: SessionInv ties the names, the values they are bound to, what   *)
(* those values reach and the code that is published.                      *)
(***************************************************************************)
EXTENDS RuntimeInstall, Session, FiniteSetTheorems, TLAPS

\* Nothing is folded here.
Union(S, T) == S \cup T
Data == INSTANCE Data_proofs WITH Op <- Union

(***************************************************************************)
(* RuntimeInstall                                                          *)
(***************************************************************************)

\* The steps under install.lock, those with a stage, and those after it was published.
Copying == {"copy", "steady", "document", "last", "publish"}
After == {"published", "verify", "before", "choose", "rename", "chosen"}
InHand == {"again", "locked"} \cup Copying \cup After

RuntimeTypes ==
    /\ source \in SourceTree /\ edits \in 0..MaxEdits
    /\ step \in [Tool -> {"first", "queued"} \cup InHand \cup Over]
    /\ verb \in [Tool -> {"none", "install", "select"}]
    /\ want \in [Tool -> SourceTree] /\ checked \in [Tool -> SUBSET File]
    /\ stage \in [Tool -> [files  : [File -> Version \cup {NoID}],
                           synced : BOOLEAN, there : BOOLEAN]]
    /\ DOMAIN entries \subseteq SourceTree /\ durable \subseteq DOMAIN entries
    /\ loose = {} /\ kept \subseteq SourceTree \cup {NoID} /\ current \in kept
    /\ writer \in Tool \cup {NoID}
    /\ told \in [Tool -> {"nothing", "ok", "perhaps selected", "installed", "failed"}]
    /\ found \in [Tool -> [ids : SUBSET SourceTree, current : SourceTree \cup {NoID}]]

\* The lock, and the beginnings of the loops over the files.
Locks(t) ==
    /\ writer = t <=> step[t] \in InHand
    /\ step[t] \in {"idle", "queued", "locked"} => checked[t] = {}
    /\ step[t] # "over" => told[t] = "nothing"

\* The stage of a command is what it copied, and there is no other.
Stages(t) ==
    /\ step[t] \in Copying =>
        /\ verb[t] = "install" /\ stage[t].there
        /\ \A u \in Tool \ {t} : ~stage[u].there
    /\ step[t] = "copy" => \A f \in checked[t] : stage[t].files[f] = want[t][f]
    /\ step[t] \in Copying \ {"copy"} => stage[t].files = want[t]
    /\ step[t] \in {"last", "publish"} => stage[t].synced
    /\ step[t] \in After => \A u \in Tool : ~stage[u].there

\* What a command knows of the store while it holds the lock.
Knows(t) ==
    /\ step[t] \in {"published", "verify", "before"} => verb[t] = "install"
    /\ step[t] \in After /\ verb[t] = "install" => want[t] \in DOMAIN entries
    /\ step[t] \in {"rename", "chosen"} => want[t] \in DOMAIN entries
    /\ step[t] = "rename" => entries[want[t]] = want[t]
    /\ step[t] \in InHand \ {"chosen"} => current = found[t].current
    /\ step[t] = "chosen" => current = want[t]
    /\ step[t] \in InHand /\ (verb[t] = "install" => step[t] \notin After) =>
        DOMAIN entries = found[t].ids

ToolAt(t) == Locks(t) /\ Stages(t) /\ Knows(t)

RuntimeInv == RuntimeTypes /\ EntriesWhole /\ \A t \in Tool : ToolAt(t)

\* What is added for a machine that keeps its power...
PoweredInv == RuntimeInv /\ SelectedExists

\* ... and for commands that do not fail: an entry is durable before anybody else has the
\* lock, and only durable entries are selected.
FaultlessInv ==
    /\ RuntimeInv
    /\ (\A t \in Tool : step[t] # "published") => durable = DOMAIN entries
    /\ kept \subseteq durable \cup {NoID}

----------------------------------------------------------------------------
(* A step is one of a single command. *)

\* What ToolAt reads of a command is unchanged.
SameTool(u) ==
    /\ step'[u] = step[u] /\ verb'[u] = verb[u] /\ want'[u] = want[u] /\ checked'[u] = checked[u]
    /\ told'[u] = told[u] /\ found'[u] = found[u]
    /\ writer' = u <=> writer = u

\* The store is only changed by the command that has the lock.
LEMMA OneTool ==
    ASSUME RuntimeInv, NEW t \in Tool, RuntimeTypes', EntriesWhole',
           \A u \in Tool \ {t} : SameTool(u),
           \/ writer = t
           \/ /\ UNCHANGED <<entries, current>>
              /\ \A u \in Tool \ {t} : stage'[u] = stage[u]
              /\ stage'[t].there => stage[t].there,
           ToolAt(t)'
    PROVE  RuntimeInv'
<1>1. ASSUME NEW u \in Tool \ {t} PROVE ToolAt(u)'
  <2>1. ToolAt(u) /\ SameTool(u)
    BY <1>1 DEF RuntimeInv
  <2>2. CASE writer = t
    <3>1. step[u] \notin InHand
      BY <2>1, <2>2, RuntimeAssumption DEF ToolAt, Locks
    <3> QED
      BY <2>1, <3>1 DEF ToolAt, Locks, Stages, Knows, SameTool, InHand, Copying, After
  <2>3. CASE UNCHANGED <<entries, current>> /\ (\A v \in Tool \ {t} : stage'[v] = stage[v])
             /\ (stage'[t].there => stage[t].there)
    <3>1. Locks(u)' /\ Knows(u)'
      BY <2>1, <2>3 DEF ToolAt, Locks, Knows, SameTool
    <3>2. stage'[u] = stage[u] /\ \A v \in Tool : stage'[v].there => stage[v].there
      BY <2>3
    <3>3. Stages(u)'
      BY <2>1, <3>2 DEF ToolAt, Stages, SameTool
    <3> QED
      BY <3>1, <3>3 DEF ToolAt
  <2> QED
    BY <2>2, <2>3
<1> QED
  BY <1>1 DEF RuntimeInv

Steps == {"first", "queued"} \cup InHand \cup Over

\* A command goes on, the others stay.
LEMMA GoesOn ==
    ASSUME RuntimeTypes, NEW t \in Tool, NEW s \in Steps, Goes(t, s)
    PROVE  /\ step' \in [Tool -> Steps] /\ step'[t] = s
           /\ \A u \in Tool \ {t} : step'[u] = step[u]
  BY DEF RuntimeTypes, Goes, Steps

\* A file is seen; the command goes on with the last one.
LEMMA SeesOne ==
    ASSUME RuntimeTypes, NEW t \in Tool, NEW f \in File, NEW s \in Steps, Sees(t, f, s)
    PROVE  /\ step' \in [Tool -> Steps] /\ checked' \in [Tool -> SUBSET File]
           /\ \/ step'[t] = s /\ checked'[t] = {} /\ checked[t] \cup {f} = File
              \/ step'[t] = step[t] /\ checked'[t] = checked[t] \cup {f}
           /\ \A u \in Tool \ {t} : step'[u] = step[u] /\ checked'[u] = checked[u]
<1>1. CASE checked[t] \cup {f} = File
  <2>1. Goes(t, s) /\ checked' = [checked EXCEPT ![t] = {}]
    BY <1>1 DEF Sees
  <2> QED
    BY <1>1, <2>1, GoesOn DEF RuntimeTypes
<1>2. CASE checked[t] \cup {f} # File
  <2>1. checked' = [checked EXCEPT ![t] = @ \cup {f}] /\ step' = step
    BY <1>2 DEF Sees
  <2> QED
    BY <2>1 DEF RuntimeTypes, Steps
<1> QED
  BY <1>1, <1>2

StageType == [files : [File -> Version \cup {NoID}], synced : BOOLEAN, there : BOOLEAN]

\* The stage of one command is replaced.
LEMMA OneStage ==
    ASSUME RuntimeTypes, NEW t \in Tool, NEW r \in StageType, stage' = [stage EXCEPT ![t] = r]
    PROVE  /\ stage' \in [Tool -> StageType] /\ stage'[t] = r
           /\ \A u \in Tool \ {t} : stage'[u] = stage[u]
  BY DEF RuntimeTypes, StageType

----------------------------------------------------------------------------
(* A command up to the lock. *)

\* install starts.
LEMMA InstallRuntimeHolds ==
    ASSUME RuntimeInv, NEW t \in Tool, InstallRuntime(t) PROVE RuntimeInv'
<1> USE DEF InstallRuntime, storeVars
<1>1. step' \in [Tool -> Steps] /\ step'[t] = "first" /\ \A u \in Tool \ {t} : step'[u] = step[u]
  BY GoesOn DEF RuntimeInv, Steps
<1>2. verb' \in [Tool -> {"none", "install", "select"}] /\ \A u \in Tool \ {t} : verb'[u] = verb[u]
  BY DEF RuntimeInv, RuntimeTypes
<1>3. RuntimeTypes'
  BY <1>1, <1>2 DEF RuntimeInv, RuntimeTypes, Steps
<1>4. \A u \in Tool \ {t} : SameTool(u)
  BY <1>1, <1>2 DEF SameTool
<1>5. ToolAt(t)'
  BY <1>1 DEF RuntimeInv, ToolAt, Locks, Stages, Knows, InHand, Copying, After
<1>6. EntriesWhole'
  BY DEF RuntimeInv, EntriesWhole
<1> QED
  BY <1>3, <1>4, <1>5, <1>6, OneTool

\* select starts, with the ID it was given.
LEMMA SelectIDHolds ==
    ASSUME RuntimeInv, NEW t \in Tool, NEW id \in DOMAIN entries, SelectID(t, id) PROVE RuntimeInv'
<1> USE DEF SelectID, storeVars
<1>1. step' \in [Tool -> Steps] /\ step'[t] = "queued" /\ \A u \in Tool \ {t} : step'[u] = step[u]
  BY GoesOn DEF RuntimeInv, Steps
<1>2. /\ verb' \in [Tool -> {"none", "install", "select"}] /\ want' \in [Tool -> SourceTree]
      /\ \A u \in Tool \ {t} : verb'[u] = verb[u] /\ want'[u] = want[u]
  BY DEF RuntimeInv, RuntimeTypes
<1>3. RuntimeTypes'
  BY <1>1, <1>2 DEF RuntimeInv, RuntimeTypes, Steps
<1>4. \A u \in Tool \ {t} : SameTool(u)
  BY <1>1, <1>2 DEF SameTool
<1>5. ToolAt(t)'
  BY <1>1 DEF RuntimeInv, ToolAt, Locks, Stages, Knows, InHand, Copying, After
<1>6. EntriesWhole'
  BY DEF RuntimeInv, EntriesWhole
<1> QED
  BY <1>3, <1>4, <1>5, <1>6, OneTool

\* The inventory before the lock.
LEMMA InventoryHolds ==
    ASSUME RuntimeInv, NEW t \in Tool, NEW f \in File, Inventory(t, f) PROVE RuntimeInv'
<1> USE DEF Inventory, storeVars
<1>1. /\ step' \in [Tool -> Steps] /\ checked' \in [Tool -> SUBSET File]
      /\ \/ step'[t] = "queued" /\ checked'[t] = {}
         \/ step'[t] = step[t] /\ checked'[t] = checked[t] \cup {f}
      /\ \A u \in Tool \ {t} : step'[u] = step[u] /\ checked'[u] = checked[u]
  BY SeesOne DEF RuntimeInv, Steps
<1>2. want' \in [Tool -> SourceTree] /\ \A u \in Tool \ {t} : want'[u] = want[u]
  BY DEF RuntimeInv, RuntimeTypes, SourceTree
<1>3. RuntimeTypes'
  BY <1>1, <1>2 DEF RuntimeInv, RuntimeTypes, Steps
<1>4. \A u \in Tool \ {t} : SameTool(u)
  BY <1>1, <1>2 DEF SameTool
<1>5. ToolAt(t)'
  BY <1>1 DEF RuntimeInv, ToolAt, Locks, Stages, Knows, InHand, Copying, After
<1>6. EntriesWhole'
  BY DEF RuntimeInv, EntriesWhole
<1> QED
  BY <1>3, <1>4, <1>5, <1>6, OneTool

\* It takes the lock of the store.
LEMMA LockStoreHolds ==
    ASSUME RuntimeInv, NEW t \in Tool, LockStore(t) PROVE RuntimeInv'
<1> USE DEF LockStore, storeVars
<1>1. /\ step' \in [Tool -> Steps] /\ \A u \in Tool \ {t} : step'[u] = step[u]
      /\ step'[t] = IF verb[t] = "install" THEN "again" ELSE "locked"
  BY GoesOn DEF RuntimeInv, Steps, InHand
<1>2. /\ found' \in [Tool -> [ids : SUBSET SourceTree, current : SourceTree \cup {NoID}]]
      /\ found'[t].ids = DOMAIN entries /\ found'[t].current = current
      /\ \A u \in Tool \ {t} : found'[u] = found[u]
  BY DEF RuntimeInv, RuntimeTypes
<1>3. RuntimeTypes'
  BY <1>1, <1>2 DEF RuntimeInv, RuntimeTypes, Steps
<1>4. \A u \in Tool \ {t} : SameTool(u)
  BY <1>1, <1>2, RuntimeAssumption DEF SameTool
<1>5. ToolAt(t)'
  BY <1>1, <1>2 DEF RuntimeInv, ToolAt, Locks, Stages, Knows, InHand, Copying, After
<1>6. EntriesWhole'
  BY DEF RuntimeInv, EntriesWhole
<1> QED
  BY <1>3, <1>4, <1>5, <1>6, OneTool

----------------------------------------------------------------------------
(* The writer. *)

\* The inventories after it.
LEMMA RescanHolds ==
    ASSUME RuntimeInv, NEW t \in Tool, NEW f \in File, Rescan(t, f) PROVE RuntimeInv'
<1> USE DEF Rescan, storeVars
<1> DEFINE s == CASE step[t] = "again"  -> "locked"
                  [] step[t] = "steady" -> "document"
                  [] step[t] = "last"   -> "publish"
                  [] step[t] = "before" -> "choose"
<1>1. /\ step[t] \in Scan /\ s \in Steps
      /\ step[t] = "again" => s = "locked"
      /\ step[t] = "steady" => s = "document"
      /\ step[t] = "last" => s = "publish"
      /\ step[t] = "before" => s = "choose"
  BY DEF Scan, Steps, InHand, Copying, After
<1>2. Sees(t, f, s)
  OBVIOUS
<1> HIDE DEF s
<1>3. /\ step' \in [Tool -> Steps] /\ checked' \in [Tool -> SUBSET File]
      /\ \/ step'[t] = s /\ checked'[t] = {}
         \/ step'[t] = step[t] /\ checked'[t] = checked[t] \cup {f}
      /\ \A u \in Tool \ {t} : step'[u] = step[u] /\ checked'[u] = checked[u]
  BY <1>1, <1>2, SeesOne DEF RuntimeInv
<1>4. RuntimeTypes'
  BY <1>3 DEF RuntimeInv, RuntimeTypes, Steps
<1>5. \A u \in Tool \ {t} : SameTool(u)
  BY <1>3 DEF SameTool
<1>6. ToolAt(t)'
  <2>1. Locks(t)'
    BY <1>1, <1>3 DEF RuntimeInv, ToolAt, Locks, InHand, Copying, After, Scan
  <2>2. Stages(t)'
    BY <1>1, <1>3 DEF RuntimeInv, ToolAt, Stages, Copying, After, Scan
  <2>3. Knows(t)'
    BY <1>1, <1>3 DEF RuntimeInv, ToolAt, Knows, InHand, Copying, After, Scan
  <2> QED
    BY <2>1, <2>2, <2>3 DEF ToolAt
<1>7. EntriesWhole'
  BY DEF RuntimeInv, EntriesWhole
<1> QED
  BY <1>4, <1>5, <1>6, <1>7, OneTool

\* The stages of commands that ended are removed.
LEMMA ReclaimHolds ==
    ASSUME RuntimeInv, NEW t \in Tool, Reclaim(t) PROVE RuntimeInv'
<1> USE DEF Reclaim, storeVars
<1> DEFINE copies == verb[t] = "install" /\ want[t] \notin DOMAIN entries
           s == IF copies THEN "copy" ELSE IF verb[t] = "install" THEN "verify" ELSE "choose"
<1>1. /\ step[t] = "locked" /\ Goes(t, s) /\ s \in Steps
      /\ stage' = [u \in Tool |-> [NoStage EXCEPT !.there = copies /\ u = t]]
  BY DEF Steps, InHand, Copying, After
<1>2. /\ stage' \in [Tool -> [files  : [File -> Version \cup {NoID}],
                             synced : BOOLEAN, there : BOOLEAN]]
      /\ stage'[t].there <=> copies
      /\ \A u \in Tool \ {t} : ~stage'[u].there
  <2>1. ASSUME NEW b \in BOOLEAN
        PROVE  /\ [NoStage EXCEPT !.there = b] \in [files  : [File -> Version \cup {NoID}],
                                                   synced : BOOLEAN, there : BOOLEAN]
               /\ [NoStage EXCEPT !.there = b].there = b
    BY <2>1 DEF NoStage
  <2>2. \A u \in Tool : (copies /\ u = t) \in BOOLEAN
    OBVIOUS
  <2> HIDE DEF copies
  <2>3. \A u \in Tool : stage'[u] = [NoStage EXCEPT !.there = copies /\ u = t]
    BY <1>1
  <2>4. \A u \in Tool : stage'[u].there = (copies /\ u = t)
    BY <2>1, <2>2, <2>3
  <2>5. stage' \in [Tool -> [files  : [File -> Version \cup {NoID}],
                           synced : BOOLEAN, there : BOOLEAN]]
    BY <1>1, <2>1, <2>2
  <2> QED
    BY <2>4, <2>5
<1>3. /\ copies => verb[t] = "install" /\ s = "copy"
      /\ ~copies /\ verb[t] = "install" => s = "verify" /\ want[t] \in DOMAIN entries
      /\ ~copies /\ verb[t] # "install" => s = "choose"
  OBVIOUS
<1> HIDE DEF copies, s
<1>4. step' \in [Tool -> Steps] /\ step'[t] = s /\ \A u \in Tool \ {t} : step'[u] = step[u]
  BY <1>1, GoesOn DEF RuntimeInv
<1>5. RuntimeTypes'
  BY <1>2, <1>4 DEF RuntimeInv, RuntimeTypes, Steps
<1>6. \A u \in Tool \ {t} : SameTool(u)
  BY <1>4 DEF SameTool
<1>7. ToolAt(t)'
  <2>1. Locks(t)'
    BY <1>1, <1>3, <1>4 DEF RuntimeInv, ToolAt, Locks, InHand, Copying, After
  <2>2. Stages(t)'
    <3>1. checked'[t] = {}
      BY <1>1 DEF RuntimeInv, ToolAt, Locks
    <3> QED
      BY <1>2, <1>3, <1>4, <3>1 DEF Stages, Copying, After
  <2>3. Knows(t)'
    BY <1>1, <1>3, <1>4 DEF RuntimeInv, ToolAt, Knows, InHand, Copying, After
  <2> QED
    BY <2>1, <2>2, <2>3 DEF ToolAt
<1>8. EntriesWhole'
  BY DEF RuntimeInv, EntriesWhole
<1>9. writer = t
  BY <1>1 DEF RuntimeInv, ToolAt, Locks, InHand
<1> QED
  BY <1>5, <1>6, <1>7, <1>8, <1>9, OneTool

\* The files of the runtime are copied into a stage.
LEMMA CopyHolds ==
    ASSUME RuntimeInv, NEW t \in Tool, NEW f \in File, Copy(t, f) PROVE RuntimeInv'
<1> USE DEF Copy, storeVars
<1>1. /\ step' \in [Tool -> Steps] /\ checked' \in [Tool -> SUBSET File]
      /\ \/ step'[t] = "steady" /\ checked'[t] = {} /\ checked[t] \cup {f} = File
         \/ step'[t] = "copy" /\ checked'[t] = checked[t] \cup {f}
      /\ \A u \in Tool \ {t} : step'[u] = step[u] /\ checked'[u] = checked[u]
  BY SeesOne DEF RuntimeInv, Steps, InHand, Copying
<1>2. /\ stage[t] \in [files : [File -> Version \cup {NoID}], synced : BOOLEAN, there : BOOLEAN]
      /\ source[f] = want[t][f] /\ source[f] \in Version /\ want[t] \in [File -> Version]
  BY DEF RuntimeInv, RuntimeTypes, SourceTree
<1> DEFINE r == [files |-> [stage[t].files EXCEPT ![f] = source[f]],
                 synced |-> stage[t].synced, there |-> stage[t].there]
<1>3. /\ stage' \in [Tool -> StageType]
      /\ stage'[t].files = [stage[t].files EXCEPT ![f] = source[f]]
      /\ stage'[t].there = stage[t].there
      /\ \A u \in Tool \ {t} : stage'[u] = stage[u]
  <2>1. [stage[t].files EXCEPT ![f] = source[f]] \in [File -> Version \cup {NoID}]
    BY <1>2
  <2>2. r \in StageType
    BY <1>2, <2>1 DEF StageType
  <2>3. [stage[t] EXCEPT !.files[f] = source[f]] = r
    BY <1>2
  <2>4. stage' = [stage EXCEPT ![t] = r]
    BY <2>3
  <2>5. stage' \in [Tool -> StageType] /\ stage'[t] = r /\ \A u \in Tool \ {t} : stage'[u] = stage[u]
    BY <2>2, <2>4, OneStage DEF RuntimeInv
  <2> QED
    BY <2>5
<1>4. RuntimeTypes'
  BY <1>1, <1>3 DEF RuntimeInv, RuntimeTypes, Steps, StageType
<1>5. \A u \in Tool \ {t} : SameTool(u)
  BY <1>1 DEF SameTool
<1>6. \A g \in checked[t] \cup {f} : stage'[t].files[g] = want[t][g]
  <2>1. \A g \in checked[t] : stage[t].files[g] = want[t][g] /\ g \in File
    BY DEF RuntimeInv, RuntimeTypes, ToolAt, Stages
  <2> QED
    BY <1>2, <1>3, <2>1
<1>7. ToolAt(t)'
  <2>1. Locks(t)'
    BY <1>1 DEF RuntimeInv, ToolAt, Locks, InHand, Copying, After
  <2>2. Stages(t)'
    <3>1. step'[t] = "steady" => stage'[t].files = want[t]
      <4>1. stage'[t].files \in [File -> Version \cup {NoID}] /\ want[t] \in [File -> Version]
        BY <1>2, <1>3 DEF StageType
      <4> QED
        BY <1>1, <1>6, <4>1
    <3> QED
      BY <1>1, <1>3, <1>6, <3>1 DEF RuntimeInv, ToolAt, Stages, Copying, After
  <2>3. Knows(t)'
    BY <1>1 DEF RuntimeInv, ToolAt, Knows, InHand, Copying, After
  <2> QED
    BY <2>1, <2>2, <2>3 DEF ToolAt
<1>8. EntriesWhole'
  BY DEF RuntimeInv, EntriesWhole
<1>9. writer = t
  BY DEF RuntimeInv, ToolAt, Locks, InHand, Copying
<1> QED
  BY <1>4, <1>5, <1>7, <1>8, <1>9, OneTool

\* The stage is complete when its document is written.
LEMMA DocumentHolds ==
    ASSUME RuntimeInv, NEW t \in Tool, Document(t) PROVE RuntimeInv'
<1> USE DEF Document, storeVars
<1>1. step' \in [Tool -> Steps] /\ step'[t] = "last" /\ \A u \in Tool \ {t} : step'[u] = step[u]
  BY GoesOn DEF RuntimeInv, Steps, InHand, Copying
<1> DEFINE r == [files |-> stage[t].files, synced |-> TRUE, there |-> stage[t].there]
<1>2. /\ stage' \in [Tool -> StageType]
      /\ stage'[t].files = stage[t].files /\ stage'[t].there = stage[t].there /\ stage'[t].synced
      /\ \A u \in Tool \ {t} : stage'[u] = stage[u]
  <2>1. stage[t] \in StageType
    BY DEF RuntimeInv, RuntimeTypes, StageType
  <2>2. r \in StageType
    BY <2>1 DEF StageType
  <2>3. ASSUME NEW b
        PROVE  [stage[t] EXCEPT !.synced = b]
                   = [files |-> stage[t].files, synced |-> b, there |-> stage[t].there]
    BY <2>1 DEF StageType
  <2>4. stage' = [stage EXCEPT ![t] = r]
    BY <2>3
  <2>5. stage' \in [Tool -> StageType] /\ stage'[t] = r /\ \A u \in Tool \ {t} : stage'[u] = stage[u]
    BY <2>2, <2>4, OneStage DEF RuntimeInv
  <2> QED
    BY <2>5
<1>3. RuntimeTypes'
  BY <1>1, <1>2 DEF RuntimeInv, RuntimeTypes, Steps, StageType
<1>4. \A u \in Tool \ {t} : SameTool(u)
  BY <1>1 DEF SameTool
<1>5. ToolAt(t)'
  BY <1>1, <1>2 DEF RuntimeInv, ToolAt, Locks, Stages, Knows, InHand, Copying, After
<1>6. EntriesWhole'
  BY DEF RuntimeInv, EntriesWhole
<1>7. writer = t
  BY DEF RuntimeInv, ToolAt, Locks, InHand, Copying
<1> QED
  BY <1>3, <1>4, <1>5, <1>6, <1>7, OneTool

\* The stage is renamed into entries/.
LEMMA PublishEntryHolds ==
    ASSUME RuntimeInv, NEW t \in Tool, PublishEntry(t) PROVE RuntimeInv'
<1> USE DEF PublishEntry
<1>1. step' \in [Tool -> Steps] /\ step'[t] = "published" /\ \A u \in Tool \ {t} : step'[u] = step[u]
  BY GoesOn DEF RuntimeInv, Steps, InHand, After
<1>2. stage[t].files = want[t] /\ stage[t].synced /\ writer = t /\ want[t] \in SourceTree
  BY DEF RuntimeInv, RuntimeTypes, ToolAt, Locks, Stages, InHand, Copying
<1>3. /\ stage' \in [Tool -> [files  : [File -> Version \cup {NoID}],
                             synced : BOOLEAN, there : BOOLEAN]]
      /\ \A u \in Tool : ~stage'[u].there
  <2>1. NoStage \in [files : [File -> Version \cup {NoID}], synced : BOOLEAN, there : BOOLEAN]
        /\ NoStage.there = FALSE
    BY DEF NoStage
  <2> QED
    BY <2>1 DEF RuntimeInv, RuntimeTypes, ToolAt, Stages, Copying
<1>4. /\ DOMAIN entries' = DOMAIN entries \cup {want[t]} /\ entries'[want[t]] = want[t]
      /\ \A id \in DOMAIN entries \ {want[t]} : entries'[id] = entries[id]
  BY <1>2
<1>5. RuntimeTypes'
  BY <1>1, <1>2, <1>3, <1>4 DEF RuntimeInv, RuntimeTypes, Steps
<1>6. \A u \in Tool \ {t} : SameTool(u)
  BY <1>1 DEF SameTool
<1>7. ToolAt(t)'
  <2>1. Locks(t)' /\ Stages(t)'
    BY <1>1, <1>3 DEF RuntimeInv, ToolAt, Locks, Stages, InHand, Copying, After
  <2>2. Knows(t)'
    BY <1>1, <1>4 DEF RuntimeInv, ToolAt, Stages, Knows, InHand, Copying, After
  <2> QED
    BY <2>1, <2>2 DEF ToolAt
<1>8. EntriesWhole'
  BY <1>4 DEF RuntimeInv, EntriesWhole
<1> QED
  BY <1>2, <1>5, <1>6, <1>7, <1>8, OneTool

\* sync of entries/, validate, and select_inner up to the rename
LEMMA CheckedHolds ==
    ASSUME RuntimeInv, NEW t \in Tool, SyncStore(t) \/ Verify(t) \/ Choose(t) PROVE RuntimeInv'
<1>0. /\ UNCHANGED <<source, edits, verb, want, checked, told, found, stage, entries, current, loose,
                     kept, writer>>
      /\ durable' \in {durable, DOMAIN entries}
  BY DEF SyncStore, Verify, Choose, storeVars
<1> DEFINE s == step'[t]
<1>1. \/ step[t] = "published" /\ Goes(t, "verify")
      \/ step[t] = "verify" /\ Goes(t, "before")
      \/ step[t] = "choose" /\ Goes(t, "rename") /\ Validated(want[t])
  BY DEF SyncStore, Verify, Choose
<1>2. /\ step' \in [Tool -> Steps] /\ \A u \in Tool \ {t} : step'[u] = step[u]
      /\ \/ step[t] = "published" /\ step'[t] = "verify"
         \/ step[t] = "verify" /\ step'[t] = "before"
         \/ step[t] = "choose" /\ step'[t] = "rename" /\ Validated(want[t])
  BY <1>1, GoesOn DEF RuntimeInv, Steps, InHand, After
<1>3. RuntimeTypes'
  BY <1>0, <1>2 DEF RuntimeInv, RuntimeTypes, Steps
<1>4. \A u \in Tool \ {t} : SameTool(u)
  BY <1>0, <1>2 DEF SameTool
<1>5. Locks(t)' /\ Stages(t)'
  BY <1>0, <1>2 DEF RuntimeInv, ToolAt, Locks, Stages, InHand, Copying, After
<1>6. Knows(t)'
  BY <1>0, <1>2 DEF RuntimeInv, ToolAt, Knows, InHand, Copying, After, Validated
<1>7. EntriesWhole'
  BY <1>0 DEF RuntimeInv, EntriesWhole
<1> QED
  BY <1>0, <1>3, <1>4, <1>5, <1>6, <1>7, OneTool DEF ToolAt

\* The selection is renamed into place.
LEMMA RenameCurrentHolds ==
    ASSUME RuntimeInv, NEW t \in Tool, RenameCurrent(t) PROVE RuntimeInv'
<1> USE DEF RenameCurrent
<1>1. step' \in [Tool -> Steps] /\ step'[t] = "chosen" /\ \A u \in Tool \ {t} : step'[u] = step[u]
  BY GoesOn DEF RuntimeInv, Steps, InHand, After
<1>2. writer = t /\ want[t] \in SourceTree
  BY DEF RuntimeInv, RuntimeTypes, ToolAt, Locks, InHand, After
<1>3. RuntimeTypes'
  BY <1>1, <1>2 DEF RuntimeInv, RuntimeTypes, Steps
<1>4. \A u \in Tool \ {t} : SameTool(u)
  BY <1>1 DEF SameTool
<1>5. ToolAt(t)'
  BY <1>1 DEF RuntimeInv, ToolAt, Locks, Stages, Knows, InHand, Copying, After
<1>6. EntriesWhole'
  BY DEF RuntimeInv, EntriesWhole
<1> QED
  BY <1>2, <1>3, <1>4, <1>5, <1>6, OneTool

----------------------------------------------------------------------------
(* The end of a command. *)

\* A command that ends gives up its lock and is asked for nothing more.
LEMMA EndHolds ==
    ASSUME RuntimeInv, NEW t \in Tool,
           NEW what \in {"nothing", "ok", "perhaps selected", "installed", "failed"},
           EndsTelling(t, what), UNCHANGED <<entries, current, durable, loose>>,
           kept' \in {kept, {current}},
           stage' = stage \/ stage' = [stage EXCEPT ![t] = NoStage]
    PROVE  RuntimeInv'
<1> USE DEF EndsTelling
<1>1. step' \in [Tool -> Steps] /\ step'[t] = "over" /\ \A u \in Tool \ {t} : step'[u] = step[u]
  BY GoesOn DEF RuntimeInv, Steps, Over
<1>2. /\ told' \in [Tool -> {"nothing", "ok", "perhaps selected", "installed", "failed"}]
      /\ \A u \in Tool \ {t} : told'[u] = told[u]
  BY DEF RuntimeInv, RuntimeTypes
<1>3. /\ stage' \in [Tool -> StageType]
      /\ \A u \in Tool \ {t} : stage'[u] = stage[u]
      /\ stage'[t].there => stage[t].there
  <2>1. NoStage \in StageType /\ ~NoStage.there
    BY DEF NoStage, StageType
  <2>2. CASE stage' = stage
    BY <2>2 DEF RuntimeInv, RuntimeTypes, StageType
  <2>3. CASE stage' = [stage EXCEPT ![t] = NoStage]
    <3>1. stage' \in [Tool -> StageType] /\ stage'[t] = NoStage
          /\ \A u \in Tool \ {t} : stage'[u] = stage[u]
      BY <2>1, <2>3, OneStage DEF RuntimeInv
    <3> QED
      BY <2>1, <3>1
  <2> QED
    BY <2>2, <2>3
<1>4. RuntimeTypes'
  <2>1. writer' \in Tool \cup {NoID} /\ kept' \subseteq SourceTree \cup {NoID} /\ current' \in kept'
    BY DEF RuntimeInv, RuntimeTypes
  <2> QED
    BY <1>1, <1>2, <1>3, <2>1 DEF RuntimeInv, RuntimeTypes, Steps, StageType
<1>5. \A u \in Tool \ {t} : SameTool(u)
  BY <1>1, <1>2, RuntimeAssumption DEF SameTool
<1>6. ToolAt(t)'
  BY <1>1, RuntimeAssumption DEF RuntimeInv, ToolAt, Locks, Stages, Knows, InHand, Copying, After
<1>7. EntriesWhole'
  BY DEF RuntimeInv, EntriesWhole
<1> QED
  BY <1>3, <1>4, <1>5, <1>6, <1>7, OneTool

\* The root is synced and the command says that it is done.
LEMMA SyncRootHolds ==
    ASSUME RuntimeInv, NEW t \in Tool, SyncRoot(t) PROVE RuntimeInv'
  BY EndHolds DEF SyncRoot

\* The command fails or is killed.
LEMMA FaultyHolds ==
    ASSUME RuntimeInv, NEW t \in Tool, CommandFails(t) \/ CommandKilled(t) PROVE RuntimeInv'
<1>1. ErrorText(t) \in {"perhaps selected", "installed", "failed"}
  BY DEF ErrorText
<1> QED
  BY <1>1, EndHolds DEF CommandFails, CommandKilled, storeVars

----------------------------------------------------------------------------
(* The owner, and the loss of power. *)

\* The owner edits the files that are to be installed.
LEMMA EditFileHolds ==
    ASSUME RuntimeInv, NEW f \in File, EditFile(f) PROVE RuntimeInv'
<1> USE DEF EditFile, toolVars, storeVars
<1>1. source' \in SourceTree
  BY DEF RuntimeInv, RuntimeTypes, SourceTree
<1>2. edits' \in 0..MaxEdits
  <2>1. edits \in 0..MaxEdits /\ MaxEdits \in Nat /\ edits < MaxEdits /\ edits' = edits + 1
    BY RuntimeAssumption DEF RuntimeInv, RuntimeTypes
  <2> QED
    BY ONLY <2>1
<1>3. RuntimeTypes' /\ EntriesWhole'
  BY <1>1, <1>2 DEF RuntimeInv, RuntimeTypes, EntriesWhole
<1>4. ASSUME NEW t \in Tool PROVE ToolAt(t)'
  BY <1>4 DEF RuntimeInv, ToolAt, Locks, Stages, Knows
<1> QED
  BY <1>3, <1>4 DEF RuntimeInv

\* The owner damages an entry while no command is at work.
LEMMA DamageHolds ==
    ASSUME RuntimeInv, NEW id \in DOMAIN entries, Damage(id) PROVE RuntimeInv'
<1> USE DEF Damage, toolVars
<1>1. /\ DOMAIN entries' = DOMAIN entries /\ entries'[id] = Damaged
      /\ \A i \in DOMAIN entries \ {id} : entries'[i] = entries[i]
  OBVIOUS
<1>2. RuntimeTypes' /\ EntriesWhole'
  BY <1>1 DEF RuntimeInv, RuntimeTypes, EntriesWhole
<1>3. ASSUME NEW t \in Tool PROVE ToolAt(t)'
  <2>1. step[t] \notin InHand
    BY RuntimeAssumption DEF RuntimeInv, ToolAt, Locks
  <2> QED
    BY <2>1 DEF RuntimeInv, ToolAt, Locks, Stages, Knows, InHand, Copying, After
<1> QED
  BY <1>2, <1>3 DEF RuntimeInv

\* The power is lost.
LEMMA OutageHolds ==
    ASSUME RuntimeInv, Outage PROVE RuntimeInv'
<1> USE DEF Outage
<1>1. PICK S \in SUBSET DOMAIN entries :
        /\ durable \subseteq S /\ durable' = S
        /\ entries' = [id \in S |-> IF id \in loose THEN Torn ELSE entries[id]]
  OBVIOUS
<1>2. DOMAIN entries' = S /\ \A id \in S : entries'[id] = entries[id]
  BY <1>1 DEF RuntimeInv, RuntimeTypes
<1>3. /\ step' \in [Tool -> Over]
      /\ \A t \in Tool : step'[t] = IF step[t] = "idle" THEN "idle" ELSE "over"
  BY DEF Over
<1>4. RuntimeTypes'
  <2>1. current' \in SourceTree \cup {NoID} /\ kept' = {current'}
    BY DEF RuntimeInv, RuntimeTypes
  <2> QED
    BY <1>1, <1>2, <1>3, <2>1 DEF RuntimeInv, RuntimeTypes
<1>5. EntriesWhole'
  BY <1>1, <1>2 DEF RuntimeInv, EntriesWhole
<1>6. ASSUME NEW t \in Tool PROVE ToolAt(t)'
  <2>1. step'[t] \in Over /\ (step'[t] = "idle" => step[t] = "idle")
    BY <1>3 DEF Over
  <2>2. Locks(t)'
    BY <2>1, RuntimeAssumption DEF RuntimeInv, ToolAt, Locks, Over, InHand, Copying, After
  <2> QED
    BY <2>1, <2>2 DEF ToolAt, Stages, Knows, Over, InHand, Copying, After
<1> QED
  BY <1>4, <1>5, <1>6 DEF RuntimeInv

\* An empty store.
LEMMA RuntimeStarts ==
    ASSUME RuntimeInit PROVE FaultlessInv /\ PoweredInv
<1> USE DEF RuntimeInit
<1>1. DOMAIN entries = {}
  OBVIOUS
<1>2. NoStage \in StageType
  BY DEF NoStage, StageType
<1>3. RuntimeTypes
  <2>1. stage \in [Tool -> StageType]
    BY <1>2
  <2>2. found \in [Tool -> [ids : SUBSET SourceTree, current : SourceTree \cup {NoID}]]
    OBVIOUS
  <2>3. edits \in 0..MaxEdits
    BY RuntimeAssumption
  <2> QED
    BY <1>1, <2>1, <2>2, <2>3 DEF RuntimeTypes, StageType, Over
<1>4. ASSUME NEW t \in Tool PROVE ToolAt(t)
  BY RuntimeAssumption DEF ToolAt, Locks, Stages, Knows, InHand, Copying, After
<1>5. EntriesWhole
  BY <1>1 DEF EntriesWhole
<1>6. RuntimeInv
  BY <1>3, <1>4, <1>5 DEF RuntimeInv
<1> QED
  BY <1>1, <1>6 DEF FaultlessInv, PoweredInv, SelectedExists

\* What an idle moment leaves as it was.
LEMMA RuntimeStutters ==
    ASSUME RuntimeInv, UNCHANGED runtimeVars PROVE RuntimeInv'
<1> USE DEF runtimeVars, toolVars, storeVars
<1>1. RuntimeTypes'
  BY DEF RuntimeInv, RuntimeTypes
<1>2. EntriesWhole'
  BY DEF RuntimeInv, EntriesWhole
<1>3. ASSUME NEW t \in Tool PROVE ToolAt(t)'
  BY DEF RuntimeInv, ToolAt, Locks, Stages, Knows
<1> QED
  BY <1>1, <1>2, <1>3 DEF RuntimeInv

\* Every step keeps the invariant.
LEMMA RuntimeStep ==
    ASSUME RuntimeInv, [RuntimeNext]_runtimeVars PROVE RuntimeInv'
<1>1. CASE Commands
  <2>1. PICK t \in Tool :
            \/ InstallRuntime(t) \/ LockStore(t) \/ Writes(t)
            \/ \E f \in File : Inventory(t, f)
            \/ \E id \in DOMAIN entries : SelectID(t, id)
    BY <1>1 DEF Commands
  <2>2. CASE Writes(t)
    BY <2>2, RescanHolds, CopyHolds, ReclaimHolds, DocumentHolds, PublishEntryHolds, CheckedHolds,
       RenameCurrentHolds, SyncRootHolds DEF Writes
  <2> QED
    BY <2>1, <2>2, InstallRuntimeHolds, LockStoreHolds, InventoryHolds, SelectIDHolds
<1>2. CASE Owner
  BY <1>2, EditFileHolds, DamageHolds DEF Owner
<1>3. CASE Outage
  BY <1>3, OutageHolds
<1>4. CASE Faulty
  BY <1>4, FaultyHolds DEF Faulty
<1>5. CASE UNCHANGED runtimeVars
  BY <1>5, RuntimeStutters
<1> QED
  BY <1>1, <1>2, <1>3, <1>4, <1>5 DEF RuntimeNext

----------------------------------------------------------------------------
(* The selected entry. *)

\* A command at work on the store is the only one.
LEMMA OneHolder ==
    ASSUME RuntimeInv, NEW t \in Tool, step[t] \in InHand, NEW u \in Tool, step[u] \in InHand
    PROVE  t = u
  BY DEF RuntimeInv, ToolAt, Locks

\* What a step of the store may be: publication, the syncs and the rename of current.json.
OnStore == \E t \in Tool : PublishEntry(t) \/ SyncStore(t) \/ RenameCurrent(t) \/ SyncRoot(t)

\* The others leave the names of the entries and the selection alone.
LEMMA StoreKept ==
    ASSUME [Commands \/ Owner \/ Faulty]_runtimeVars
    PROVE  OnStore \/ (DOMAIN entries' = DOMAIN entries /\ UNCHANGED <<durable, current, kept>>)
<1>1. CASE Commands
  BY <1>1 DEF Commands, Writes, InstallRuntime, SelectID, Inventory, LockStore, Rescan, Reclaim, Copy,
              Document, Verify, Choose, storeVars, OnStore
<1>2. CASE Owner
  BY <1>2 DEF Owner, EditFile, Damage, storeVars
<1>3. CASE Faulty
  BY <1>3 DEF Faulty, CommandFails, CommandKilled, storeVars
<1>4. CASE UNCHANGED runtimeVars
  BY <1>4 DEF runtimeVars, storeVars
<1> QED
  BY <1>1, <1>2, <1>3, <1>4

\* A command that does not fail stays at "published" until entries/ is synced.
LEMMA PublishedWaits ==
    ASSUME RuntimeInv, [Commands \/ Owner]_runtimeVars, NEW u \in Tool, step[u] = "published"
    PROVE  step'[u] = "published" \/ SyncStore(u)
<1>1. CASE Commands
  <2>1. PICK t \in Tool :
            \/ InstallRuntime(t) \/ LockStore(t) \/ Writes(t)
            \/ \E f \in File : Inventory(t, f)
            \/ \E id \in DOMAIN entries : SelectID(t, id)
    BY <1>1 DEF Commands
  <2>2. step \in [Tool -> Steps]
    BY DEF RuntimeInv, RuntimeTypes, Steps
  <2>3. CASE t = u
    BY <2>1, <2>3 DEF Writes, InstallRuntime, LockStore, Inventory, SelectID, Rescan, Copy, Reclaim,
                      Document, PublishEntry, Verify, Choose, RenameCurrent, SyncRoot, Scan
  <2>4. CASE t # u
    <3>1. (\E s : Goes(t, s)) \/ step' = step
      BY <2>1 DEF Writes, InstallRuntime, LockStore, Inventory, SelectID, Rescan, Copy, Reclaim,
                  Document, PublishEntry, SyncStore, Verify, Choose, RenameCurrent, SyncRoot,
                  EndsTelling, Sees
    <3> QED
      BY <2>2, <2>4, <3>1 DEF Goes
  <2> QED
    BY <2>3, <2>4
<1>2. CASE Owner
  BY <1>2 DEF Owner, EditFile, Damage, toolVars
<1>3. CASE UNCHANGED runtimeVars
  BY <1>3 DEF runtimeVars, toolVars
<1> QED
  BY <1>1, <1>2, <1>3

\* While the power holds, what is selected stays there.
LEMMA PoweredStep ==
    ASSUME PoweredInv, [Commands \/ Owner \/ Faulty]_runtimeVars PROVE PoweredInv'
<1>0. RuntimeInv /\ [RuntimeNext]_runtimeVars /\ SelectedExists
  BY DEF PoweredInv, RuntimeNext
<1>1. RuntimeInv'
  BY <1>0, RuntimeStep
<1>2. ASSUME NEW t \in Tool, PublishEntry(t) PROVE SelectedExists'
  BY <1>0, <1>2 DEF PublishEntry, SelectedExists
<1>3. ASSUME NEW t \in Tool, SyncStore(t) \/ SyncRoot(t) PROVE SelectedExists'
  BY <1>0, <1>3 DEF SyncStore, SyncRoot, SelectedExists
<1>4. ASSUME NEW t \in Tool, RenameCurrent(t) PROVE SelectedExists'
  BY <1>0, <1>4 DEF RenameCurrent, SelectedExists, RuntimeInv, ToolAt, Knows
<1>5. ASSUME DOMAIN entries' = DOMAIN entries, current' = current PROVE SelectedExists'
  BY <1>0, <1>5 DEF SelectedExists
<1>6. SelectedExists'
  BY <1>2, <1>3, <1>4, <1>5, StoreKept DEF OnStore
<1> QED
  BY <1>1, <1>6 DEF PoweredInv

\* Nobody is between the rename of an entry and the sync of entries/.
Synced == \A t \in Tool : step[t] # "published"

\* While no command fails, what may come back after a loss of power is there.
LEMMA FaultlessStep ==
    ASSUME FaultlessInv, [Commands \/ Owner \/ Outage]_runtimeVars PROVE FaultlessInv'
<1>0. RuntimeInv /\ [RuntimeNext]_runtimeVars /\ (Synced => durable = DOMAIN entries)
      /\ kept \subseteq durable \cup {NoID} /\ durable \subseteq DOMAIN entries /\ current \in kept
  BY DEF FaultlessInv, RuntimeNext, RuntimeInv, RuntimeTypes, Synced
<1>1. RuntimeInv'
  BY <1>0, RuntimeStep
<1> DEFINE Rest == (Synced' => durable' = DOMAIN entries') /\ kept' \subseteq durable' \cup {NoID}
<1>2. ASSUME NEW t \in Tool, PublishEntry(t) PROVE Rest
  <2>1. step'[t] = "published"
    BY <1>0, <1>2, GoesOn DEF PublishEntry, RuntimeInv, Steps, InHand, After
  <2> QED
    BY <1>0, <1>2, <2>1 DEF PublishEntry, Synced
<1>3. ASSUME NEW t \in Tool, SyncStore(t) PROVE Rest
  BY <1>0, <1>3 DEF SyncStore
<1>4. ASSUME NEW t \in Tool, RenameCurrent(t) PROVE Rest
  <2>1. step[t] \in InHand /\ step[t] # "published" /\ want[t] \in DOMAIN entries
    BY <1>0, <1>4 DEF RenameCurrent, RuntimeInv, ToolAt, Knows, InHand, After
  <2>2. Synced
    BY <1>0, <2>1, OneHolder DEF Synced, InHand, After
  <2> QED
    BY <1>0, <1>4, <2>1, <2>2 DEF RenameCurrent
<1>5. ASSUME NEW t \in Tool, SyncRoot(t) PROVE Rest
  <2>1. step[t] \in InHand /\ step[t] # "published"
    BY <1>0, <1>5 DEF SyncRoot, InHand, After
  <2>2. Synced
    BY <1>0, <2>1, OneHolder DEF Synced, InHand, After
  <2> QED
    BY <1>0, <1>5, <2>2 DEF SyncRoot
<1>6. ASSUME Outage PROVE Rest
  <2>1. durable' = DOMAIN entries' /\ durable \subseteq durable' /\ kept' = {current'}
          /\ current' \in kept
    BY <1>6 DEF Outage
  <2> QED
    BY <1>0, <2>1
<1>7. ASSUME [Commands \/ Owner]_runtimeVars, DOMAIN entries' = DOMAIN entries,
             UNCHANGED <<durable, current, kept>>
      PROVE  Rest
  <2>1. Synced' => Synced \/ \E t \in Tool : SyncStore(t)
    BY <1>0, <1>7, PublishedWaits DEF Synced
  <2> QED
    BY <1>0, <1>3, <1>7, <2>1
<1>8. Rest
  <2>1. CASE [Commands \/ Owner]_runtimeVars
    BY <1>2, <1>3, <1>4, <1>5, <1>7, <2>1, StoreKept DEF OnStore
  <2> QED
    BY <1>6, <2>1
<1> QED
  BY <1>1, <1>8 DEF FaultlessInv, Synced

----------------------------------------------------------------------------
(* The theorems. *)

\* What the invariant says of types and of work in progress.
LEMMA RuntimeInvTypes ==
    ASSUME RuntimeInv PROVE RuntimeTypeOK /\ LiveWorkKept
<1>1. writer # NoID => step[writer] \notin Over
  BY DEF RuntimeInv, RuntimeTypes, ToolAt, Locks, InHand, Copying, After, Over
<1>2. RuntimeTypeOK
  BY <1>1 DEF RuntimeInv, RuntimeTypes, RuntimeTypeOK, InHand, Copying, After, Scan
<1>3. LiveWorkKept
  BY DEF RuntimeInv, ToolAt, Stages, LiveWorkKept, Copying
<1> QED
  BY <1>2, <1>3

\* install, reclaim and copy: whatever is edited, fails, is killed or loses its power, an
\* entry is the tree it is named for unless its owner changed it, and the stage of a command
\* at work stays.
THEOREM EntriesAreWhole == RuntimeSpec => [](RuntimeTypeOK /\ EntriesWhole /\ LiveWorkKept)
<1>1. RuntimeInit => RuntimeInv
  BY RuntimeStarts DEF PoweredInv
<1>2. RuntimeInv /\ [RuntimeNext]_runtimeVars => RuntimeInv'
  BY RuntimeStep
<1>3. RuntimeInv => RuntimeTypeOK /\ EntriesWhole /\ LiveWorkKept
  BY RuntimeInvTypes DEF RuntimeInv
<1> QED
  BY <1>1, <1>2, <1>3, PTL DEF RuntimeSpec

\* install: current.json names an entry that is there, on a machine that keeps its power,
\* wherever its commands fail or are killed.
THEOREM PoweredStoreSound == PoweredSpec => []StoreSound
<1>1. RuntimeInit => PoweredInv
  BY RuntimeStarts
<1>2. PoweredInv /\ [Commands \/ Owner \/ Faulty]_runtimeVars => PoweredInv'
  BY PoweredStep
<1>3. PoweredInv => StoreSound
  BY RuntimeInvTypes DEF PoweredInv, StoreSound, RuntimeInv
<1> QED
  BY <1>1, <1>2, <1>3, PTL DEF PoweredSpec

\* install: the same where the power is lost at any moment and no command fails, because
\* entries/ is synced before current.json is replaced.
THEOREM FaultlessStoreSound == FaultlessSpec => []StoreSound
<1>1. RuntimeInit => FaultlessInv
  BY RuntimeStarts
<1>2. FaultlessInv /\ [Commands \/ Owner \/ Outage]_runtimeVars => FaultlessInv'
  BY FaultlessStep
<1>3. FaultlessInv => StoreSound
  <2>1. ASSUME FaultlessInv PROVE SelectedExists
    BY <2>1 DEF FaultlessInv, RuntimeInv, RuntimeTypes, SelectedExists
  <2> QED
    BY <2>1, RuntimeInvTypes DEF FaultlessInv, StoreSound, RuntimeInv
<1> QED
  BY <1>1, <1>2, <1>3, PTL DEF FaultlessSpec

\* What is told: only by a command that ends.
LEMMA WhoTells ==
    ASSUME RuntimeInv, [RuntimeNext]_runtimeVars, NEW t \in Tool, told'[t] # told[t]
    PROVE  \/ SyncRoot(t) /\ told'[t] = "ok"
           \/ CommandFails(t) /\ told'[t] = ErrorText(t)
<1>0. told \in [Tool -> {"nothing", "ok", "perhaps selected", "installed", "failed"}]
  BY DEF RuntimeInv, RuntimeTypes
<1>1. CASE \E u \in Tool : SyncRoot(u)
  BY <1>0, <1>1 DEF SyncRoot, EndsTelling
<1>2. CASE \E u \in Tool : CommandFails(u)
  BY <1>0, <1>2 DEF CommandFails, EndsTelling
<1>3. CASE \E u \in Tool : CommandKilled(u)
  <2>1. PICK u \in Tool : CommandKilled(u)
    BY <1>3
  <2>2. told[u] = "nothing" /\ told' = [told EXCEPT ![u] = "nothing"]
    BY <2>1 DEF CommandKilled, EndsTelling, Over, RuntimeInv, ToolAt, Locks
  <2> QED
    BY <1>0, <2>2
<1>4. \/ (\E u \in Tool : SyncRoot(u) \/ CommandFails(u) \/ CommandKilled(u))
      \/ told' = told
  <2>1. CASE Commands
    BY <2>1 DEF Commands, Writes, InstallRuntime, SelectID, Inventory, LockStore, Rescan, Reclaim, Copy,
                Document, PublishEntry, SyncStore, Verify, Choose, RenameCurrent
  <2>2. CASE Owner \/ Outage \/ UNCHANGED runtimeVars
    BY <2>2 DEF Owner, EditFile, Damage, Outage, runtimeVars, toolVars
  <2>3. CASE Faulty
    BY <2>3 DEF Faulty
  <2> QED
    BY <2>1, <2>2, <2>3 DEF RuntimeNext
<1> QED
  BY <1>1, <1>2, <1>3, <1>4

ToldTruly(t) ==
    told'[t] # told[t] =>
        LET installed == want[t] \in DOMAIN entries'
            old == current' = found[t].current IN
        CASE told'[t] = "failed"    -> writer = t => old /\ DOMAIN entries' = found[t].ids
          [] told'[t] = "installed" -> old /\ installed
          [] OTHER                  -> current' = want[t] /\ installed

\* What a command says at its end is so.
LEMMA TellsTruly ==
    ASSUME RuntimeInv, [RuntimeNext]_runtimeVars, NEW t \in Tool PROVE ToldTruly(t)
<1> SUFFICES ASSUME told'[t] # told[t] PROVE ToldTruly(t)
  BY DEF ToldTruly
<1>0. ToolAt(t)
  BY DEF RuntimeInv
<1>1. CASE SyncRoot(t) /\ told'[t] = "ok"
  BY <1>0, <1>1 DEF SyncRoot, ToldTruly, ToolAt, Knows
<1>2. CASE CommandFails(t) /\ told'[t] = ErrorText(t)
  <2>0. entries' = entries /\ current' = current
    BY <1>2 DEF CommandFails, storeVars
  <2>1. CASE step[t] = "chosen"
    BY <1>0, <1>2, <2>0, <2>1 DEF ErrorText, ToldTruly, ToolAt, Knows
  <2>2. CASE verb[t] = "install" /\ step[t] \in {"published", "verify", "before", "choose", "rename"}
    BY <1>0, <1>2, <2>0, <2>2 DEF ErrorText, ToldTruly, ToolAt, Knows, InHand, After
  <2>3. CASE step[t] # "chosen"
             /\ ~(verb[t] = "install" /\ step[t] \in {"published", "verify", "before", "choose", "rename"})
    BY <1>0, <1>2, <2>0, <2>3 DEF ErrorText, ToldTruly, ToolAt, Locks, Knows, After
  <2> QED
    BY <2>1, <2>2, <2>3
<1> QED
  BY <1>1, <1>2, WhoTells

\* A command selects only what is whole.
LEMMA ChoosesWhole ==
    ASSUME RuntimeInv, [RuntimeNext]_runtimeVars, current' # current
    PROVE  Outage \/ entries[current'] = current'
<1>1. CASE Commands \/ Owner \/ Faulty \/ UNCHANGED runtimeVars
  <2>1. \E t \in Tool : RenameCurrent(t)
    BY <1>1, StoreKept DEF OnStore, PublishEntry, SyncStore, SyncRoot
  <2> QED
    BY <2>1 DEF RenameCurrent, RuntimeInv, ToolAt, Knows
<1> QED
  BY <1>1 DEF RuntimeNext

\* select_inner, the words of a command and reclaim: a command never selects an entry that
\* was changed, says what it has done, and leaves no stage when it succeeds, whatever is
\* edited, fails, is killed or loses its power.
THEOREM CommandsAreHonest == RuntimeSpec => StoreHonest
<1>1. RuntimeInit => RuntimeInv
  BY RuntimeStarts DEF PoweredInv
<1>2. RuntimeInv /\ [RuntimeNext]_runtimeVars => RuntimeInv'
  BY RuntimeStep
<1>3. RuntimeInv /\ [RuntimeNext]_runtimeVars =>
        [current' # current => Outage \/ entries[current'] = current']_runtimeVars
  BY ChoosesWhole
<1>4. RuntimeInv /\ [RuntimeNext]_runtimeVars =>
        [\A t \in Tool : ToldTruly(t)]_runtimeVars
  BY TellsTruly
<1>5. RuntimeInv /\ [RuntimeNext]_runtimeVars =>
        [\A t \in Tool : told'[t] # told[t] /\ told'[t] = "ok" =>
            \A u \in Tool : ~stage'[u].there]_runtimeVars
  <2>1. ASSUME RuntimeInv, [RuntimeNext]_runtimeVars, NEW t \in Tool, told'[t] # told[t],
               told'[t] = "ok", NEW u \in Tool
        PROVE  ~stage'[u].there
    <3>1. ErrorText(t) # "ok"
      BY DEF ErrorText
    <3>2. SyncRoot(t)
      BY <2>1, <3>1, WhoTells
    <3> QED
      BY <2>1, <3>2 DEF SyncRoot, RuntimeInv, ToolAt, Stages, After
  <2> QED
    BY <2>1
<1>6. RuntimeSpec => []RuntimeInv
  BY <1>1, <1>2, PTL DEF RuntimeSpec
<1>7. RuntimeSpec => ChosenIsWhole
  BY <1>3, <1>6, PTL DEF RuntimeSpec, ChosenIsWhole
<1>8. RuntimeSpec => ToldTrue
  BY <1>4, <1>6, PTL DEF RuntimeSpec, ToldTrue, ToldTruly
<1>9. RuntimeSpec => NoLitter
  BY <1>5, <1>6, PTL DEF RuntimeSpec, NoLitter
<1> QED
  BY <1>7, <1>8, <1>9 DEF StoreHonest

(***************************************************************************)
(* Session                                                                 *)
(***************************************************************************)

\* The types of TypeOK, with the functions said by their domains and values.
SessionTypes ==
    /\ declarations \in [DOMAIN declarations -> Sources] /\ DOMAIN declarations \subseteq Names
    /\ names \subseteq Names
    /\ state \in [DOMAIN state -> Handle] /\ DOMAIN state \subseteq Names
    /\ inputs \in 0..MaxInputs
    /\ numberings \in Seq(0..inputs) /\ Len(numberings) <= MaxNumberings
    /\ units \subseteq 1..inputs /\ published \subseteq 1..inputs
    /\ held \in [Handle -> SUBSET Item]
    /\ code \in [1..MaxInputs -> SUBSET (Names \X Types)]
    /\ answer \in {"none", "value", "error", "refused"}
    /\ over \in BOOLEAN /\ ended \in BOOLEAN

\* A type as it is declared.
DeclaredAs(m, s) == m \in DOMAIN declarations /\ declarations[m] = s

\* The code of a published unit that something can still call makes what is declared.
CodeDeclared ==
    \A u \in Live \cap published : \A t \in code[u] : DeclaredAs(t[1], t[2])

\* What a binding reaches was made by an input of this numbering or an older one.
ItemsOld == \A x \in Held(Reachable) : x.unit \in 1..inputs

SessionInv ==
    /\ SessionTypes /\ NamesBound /\ ClosuresMapped
    /\ InstancesOfPublished /\ CodeDeclared /\ ItemsOld

\* A new session.
LEMMA SessionInitially == Init => SessionInv
<1> SUFFICES ASSUME Init PROVE SessionInv
  OBVIOUS
<1> USE SessionAssumption DEF Init, Nothing
<1>1. SessionTypes
  <2>1. declarations \in [DOMAIN declarations -> Sources] /\ DOMAIN declarations \subseteq Names
        /\ state \in [DOMAIN state -> Handle] /\ DOMAIN state \subseteq Names
    OBVIOUS
  <2>2. numberings \in Seq(0..inputs) /\ Len(numberings) <= MaxNumberings
    OBVIOUS
  <2>3. held \in [Handle -> SUBSET Item] /\ code \in [1..MaxInputs -> SUBSET (Names \X Types)]
    BY DEF Empty, NoCode
  <2>4. names \subseteq Names /\ inputs \in 0..MaxInputs /\ units \subseteq 1..inputs
        /\ published \subseteq 1..inputs
    OBVIOUS
  <2>5. answer \in {"none", "value", "error", "refused"} /\ over \in BOOLEAN /\ ended \in BOOLEAN
    OBVIOUS
  <2> HIDE DEF Init
  <2> QED BY <2>1, <2>2, <2>3, <2>4, <2>5 DEF SessionTypes
<1>2. Reachable = {}
  BY DEF Reachable
<1>3. Held(Reachable) = {}
  BY <1>2 DEF Held
<1>4. Live = {}
  BY <1>3 DEF Live, ClosuresOf
<1> QED
  BY <1>1, <1>3, <1>4
  DEF SessionInv, NamesBound, ClosuresMapped, InstancesOfPublished, CodeDeclared, ItemsOld

-----------------------------------------------------------------------------
\* Declarations.

\* What an input is.
LEMMA InputType ==
    ASSUME NEW i \in Input
    PROVE  /\ i.decls \in [1..Len(i.decls) -> Names \X Sources] /\ Len(i.decls) \in Nat
           /\ DOMAIN i.decls = 1..Len(i.decls)
           /\ i.lets \subseteq Names /\ i.mentions \subseteq names
<1>1. PICK k \in 0..MaxDecls : i.decls \in [1..k -> Names \X Sources]
  BY DEF Input
<1>2. Len(i.decls) = k /\ k \in Nat
  BY <1>1, SessionAssumption
<1> QED BY <1>1, <1>2 DEF Input

\* The last declaration of a name among the first k.
LastOf(i, k, m) ==
    CHOOSE j \in 1..k : i.decls[j][1] = m /\ \A l \in (j + 1)..k : i.decls[l][1] # m

\* A name that was declared has a last declaration.
LEMMA LastExists ==
    ASSUME NEW i, NEW k \in Nat, NEW m, \E j \in 1..k : i.decls[j][1] = m
    PROVE  LastOf(i, k, m) \in 1..k /\ i.decls[LastOf(i, k, m)][1] = m
<1> DEFINE T == {d \in Nat : d < k /\ i.decls[k - d][1] = m}
<1>1. PICK j \in 1..k : i.decls[j][1] = m
  OBVIOUS
<1>2. k - j \in T
  <2>1. k - (k - j) = j /\ k - j \in Nat /\ k - j < k
    OBVIOUS
  <2> QED BY <1>1, <2>1
<1>3. PICK d \in T : \A e \in T : d <= e
  BY <1>2, Data!LeastNat
<1>4. ASSUME NEW l \in (k - d + 1)..k PROVE i.decls[l][1] # m
  <2>1. k - (k - l) = l /\ k - l \in Nat /\ k - l < d /\ k - l < k
    OBVIOUS
  <2>2. k - l \notin T
    BY <1>3, <2>1
  <2> QED BY <2>1, <2>2
<1>5. k - d \in 1..k /\ i.decls[k - d][1] = m
  BY <1>3
<1> QED BY <1>4, <1>5 DEF LastOf

\* The declarations after the first k of an input.
LEMMA DeclaredIs ==
    ASSUME NEW i, NEW k \in Nat, NEW m
    PROVE  /\ m \in DOMAIN Declared(i, k) <=>
                 m \in DOMAIN declarations \/ \E j \in 1..k : i.decls[j][1] = m
           /\ (\E j \in 1..k : i.decls[j][1] = m) =>
                 Declared(i, k)[m] = i.decls[LastOf(i, k, m)][2]
           /\ m \in DOMAIN declarations /\ ~(\E j \in 1..k : i.decls[j][1] = m) =>
                 Declared(i, k)[m] = declarations[m]
BY DEF Declared, LastOf

\* What an input declares is a function of names.
LEMMA DeclaredType ==
    ASSUME SessionTypes, NEW i \in Input
    PROVE  LET d == Declared(i, Len(i.decls))
           IN  d \in [DOMAIN d -> Sources] /\ DOMAIN d \subseteq Names
<1> DEFINE n == Len(i.decls)
           d == Declared(i, n)
<1>1. i.decls \in [1..n -> Names \X Sources] /\ n \in Nat
  BY InputType
<1>2. ASSUME NEW m \in DOMAIN d PROVE m \in Names
  <2>1. CASE m \in DOMAIN declarations
    BY <2>1 DEF SessionTypes
  <2>2. CASE \E j \in 1..n : i.decls[j][1] = m
    BY <1>1, <2>2
  <2> QED BY <1>1, <2>1, <2>2, DeclaredIs
<1>3. ASSUME NEW m \in DOMAIN d PROVE d[m] \in Sources
  <2>1. CASE \E j \in 1..n : i.decls[j][1] = m
    <3>1. LastOf(i, n, m) \in 1..n
      BY <1>1, <2>1, LastExists
    <3>2. d[m] = i.decls[LastOf(i, n, m)][2]
      BY <1>1, <2>1, DeclaredIs
    <3> QED BY <1>1, <3>1, <3>2
  <2>2. CASE ~\E j \in 1..n : i.decls[j][1] = m
    <3>1. m \in DOMAIN declarations /\ d[m] = declarations[m]
      BY <1>1, <2>2, DeclaredIs
    <3> QED BY <3>1 DEF SessionTypes
  <2> QED BY <2>1, <2>2
<1>4. d = [m \in DOMAIN d |-> d[m]]
  BY DEF Declared
<1> QED BY <1>2, <1>3, <1>4

\* An input that compiles leaves every declared type as it is.
LEMMA TypesKept ==
    ASSUME SessionTypes, NEW i \in Input, Compiles(i),
           NEW m \in DOMAIN declarations, declarations[m] \in Types
    PROVE  /\ m \in DOMAIN Declared(i, Len(i.decls))
           /\ Declared(i, Len(i.decls))[m] = declarations[m]
<1> DEFINE n == Len(i.decls)
           Again(k) == \A j \in 1..k : i.decls[j][1] = m => i.decls[j][2] = declarations[m]
<1>1. n \in Nat /\ DOMAIN i.decls = 1..n
  BY InputType
<1> HIDE DEF n
<1>2. ASSUME NEW k \in Nat, Again(k)
      PROVE  m \in DOMAIN Declared(i, k) /\ Declared(i, k)[m] = declarations[m]
  <2>1. m \in DOMAIN Declared(i, k)
    BY DeclaredIs
  <2>2. CASE \E j \in 1..k : i.decls[j][1] = m
    <3>1. LastOf(i, k, m) \in 1..k /\ i.decls[LastOf(i, k, m)][1] = m
      BY <2>2, LastExists
    <3>2. Declared(i, k)[m] = i.decls[LastOf(i, k, m)][2]
      BY <2>1, <2>2, DeclaredIs
    <3> QED BY <1>2, <2>1, <3>1, <3>2
  <2>3. CASE ~\E j \in 1..k : i.decls[j][1] = m
    BY <2>1, <2>3, DeclaredIs
  <2> QED BY <2>2, <2>3
<1>3. Again(n)
  <2> DEFINE T == {j \in 1..n : i.decls[j][1] = m /\ i.decls[j][2] # declarations[m]}
  <2> SUFFICES ASSUME T # {} PROVE FALSE
    OBVIOUS
  <2>1. T \in SUBSET Nat
    BY <1>1
  <2>2. PICK j \in T : \A l \in T : j <= l
    BY <2>1, Data!LeastNat
  <2>3. j \in 1..n /\ j - 1 \in Nat
    BY <1>1
  <2>4. Again(j - 1)
    <3> SUFFICES ASSUME NEW l \in 1..(j - 1), i.decls[l][1] = m
                 PROVE  i.decls[l][2] = declarations[m]
      OBVIOUS
    <3>1. l \in 1..n /\ ~(j <= l)
      BY <1>1, <2>3
    <3> QED BY <2>2, <3>1
  <2>5. m \in DOMAIN Declared(i, j - 1) /\ Declared(i, j - 1)[m] = declarations[m]
    BY <1>2, <2>3, <2>4
  <2>6. Changed(i)
    BY <1>1, <2>2, <2>3, <2>5 DEF Changed
  <2> QED BY <2>6 DEF Compiles
<1> QED BY <1>1, <1>2, <1>3 DEF n
-----------------------------------------------------------------------------
\* Values.

\* Closures and instances are told apart.
LEMMA ItemKinds ==
    /\ \A x \in Closure : x.unit \in 1..MaxInputs /\ x = [unit |-> x.unit] /\ x \notin Instance
    /\ \A x \in Instance : /\ x.unit \in 1..MaxInputs /\ x.type \in Names /\ x.source \in Types
                           /\ x \notin Closure
    /\ \A u \in 1..MaxInputs : [unit |-> u] \in Closure
    /\ \A u \in 1..MaxInputs, t \in Names \X Types :
          [unit |-> u, type |-> t[1], source |-> t[2]] \in Instance
<1>1. \A x \in Closure : DOMAIN x = {"unit"}
  BY DEF Closure
<1>2. \A x \in Instance : DOMAIN x = {"unit", "type", "source"}
  BY DEF Instance
<1>3. \A x \in Closure : x \notin Instance
  BY <1>1, <1>2
<1> QED BY <1>3 DEF Closure, Instance

\* What the code of a unit can make, as an item.
LEMMA MadeByIs ==
    ASSUME NEW u \in 1..MaxInputs, NEW types \in SUBSET (Names \X Types), NEW x \in MadeBy(u, types)
    PROVE  /\ x \in Item /\ x.unit = u
           /\ x \in Instance => <<x.type, x.source>> \in types
<1>1. CASE x = [unit |-> u]
  BY <1>1, ItemKinds DEF Item
<1>2. ASSUME NEW t \in types, x = [unit |-> u, type |-> t[1], source |-> t[2]]
      PROVE  x \in Item /\ x.unit = u /\ <<x.type, x.source>> \in types
  <2>1. t = <<t[1], t[2]>>
    OBVIOUS
  <2> QED BY <1>2, <2>1, ItemKinds DEF Item
<1> QED BY <1>1, <1>2 DEF MadeBy

\* The types an input can make are those it declares, or that are declared.
LEMMA TypesOfIs ==
    ASSUME SessionTypes, NEW i \in Input
    PROVE  /\ TypesOf(i) \in SUBSET (Names \X Types)
           /\ \A t \in TypesOf(i) : /\ t[1] \in DOMAIN Declared(i, Len(i.decls))
                                    /\ Declared(i, Len(i.decls))[t[1]] = t[2]
BY DeclaredType DEF TypesOf

\* What an input can reach or make.
LEMMA ValuesAre ==
    ASSUME SessionInv, NEW i \in Input, inputs < MaxInputs, NEW x \in Values(i)
    PROVE  /\ x \in Item
           /\ x.unit \in 1..(inputs + 1)
           /\ x \in Closure => x.unit \in Live \cup {inputs + 1}
           /\ x \in Instance /\ x.unit \in published => DeclaredAs(x.type, x.source)
           /\ x \in Instance /\ x.unit = inputs + 1 => <<x.type, x.source>> \in TypesOf(i)
<1> USE SessionAssumption
<1>1. Handles(i) \subseteq Reachable /\ Reachable \subseteq Handle
  BY DEF Handles, Reachable, Referenced, SessionInv, NamesBound, SessionTypes
<1>2. Held(Handles(i)) \subseteq Held(Reachable) /\ Held(Reachable) \subseteq Item
  BY <1>1 DEF Held, SessionInv, SessionTypes
<1>3. inputs \in Nat /\ inputs + 1 \in 1..MaxInputs /\ inputs + 1 \notin published
      /\ Live \subseteq 1..inputs
  BY DEF SessionInv, SessionTypes, ClosuresMapped
<1>4. CASE x \in Held(Handles(i))
  <2>1. x \in Held(Reachable) /\ x \in Item /\ x.unit \in 1..inputs
    BY <1>2, <1>4 DEF SessionInv, ItemsOld
  <2>2. x \in Closure => x.unit \in Live
    BY <2>1 DEF Live, ClosuresOf
  <2>3. x \in Instance /\ x.unit \in published => DeclaredAs(x.type, x.source)
    BY <2>1 DEF SessionInv, InstancesOfPublished, DeclaredAs
  <2>4. x.unit # inputs + 1
    BY <1>3, <2>1
  <2> QED BY <1>3, <2>1, <2>2, <2>3, <2>4
<1>5. CASE x \in MadeBy(inputs + 1, TypesOf(i))
  <2>1. /\ x \in Item /\ x.unit = inputs + 1
        /\ x \in Instance => <<x.type, x.source>> \in TypesOf(i)
    BY <1>3, <1>5, TypesOfIs, MadeByIs DEF SessionInv
  <2> QED BY <1>3, <2>1
<1>6. ASSUME NEW c \in ClosuresOf(Held(Handles(i))), x \in MadeBy(c.unit, code[c.unit])
      PROVE  /\ x \in Item
             /\ x.unit \in 1..(inputs + 1)
             /\ x \in Closure => x.unit \in Live \cup {inputs + 1}
             /\ x \in Instance /\ x.unit \in published => DeclaredAs(x.type, x.source)
             /\ x \in Instance /\ x.unit = inputs + 1 => <<x.type, x.source>> \in TypesOf(i)
  <2>1. c.unit \in Live /\ c.unit \in 1..inputs
    BY <1>2, <1>3, <1>6 DEF Live, ClosuresOf
  <2>2. c.unit \in 1..MaxInputs /\ code[c.unit] \in SUBSET (Names \X Types)
    BY <1>3, <2>1 DEF SessionInv, SessionTypes
  <2>3. /\ x \in Item /\ x.unit = c.unit
        /\ x \in Instance => <<x.type, x.source>> \in code[c.unit]
    BY <1>6, <2>2, MadeByIs
  <2>4. x \in Instance /\ x.unit \in published => DeclaredAs(x.type, x.source)
    BY <2>1, <2>3 DEF SessionInv, CodeDeclared
  <2> QED BY <1>3, <2>1, <2>3, <2>4
<1> QED BY <1>4, <1>5, <1>6 DEF Values

\* What the code of an input did to the values.
LEMMA MutatedAre ==
    ASSUME SessionInv, NEW i \in Input, inputs < MaxInputs, NEW heap \in Mutated(i)
    PROVE  /\ heap \in [Handle -> SUBSET Item]
           /\ \A h \in Handle : heap[h] \subseteq held[h] \cup Values(i)
<1>1. held \in [Handle -> SUBSET Item]
  BY DEF SessionInv, SessionTypes
<1>2. ASSUME NEW h \in Handles(i), NEW s \in Contents(i), heap = [held EXCEPT ![h] = s]
      PROVE  /\ heap \in [Handle -> SUBSET Item]
             /\ \A g \in Handle : heap[g] \subseteq held[g] \cup Values(i)
  <2>1. s \subseteq Values(i) /\ s \subseteq Item
    BY <1>2, ValuesAre DEF Contents
  <2> QED BY <1>1, <1>2, <2>1
<1> QED BY <1>1, <1>2 DEF Mutated

\* What a run stores is what it could reach before and what it made.
LEMMA FilledAre ==
    ASSUME SessionInv, NEW i \in Input, inputs < MaxInputs, NEW b \in Bound(i),
           NEW heap \in Filled(i, b)
    PROVE  /\ heap \in [Handle -> SUBSET Item]
           /\ \A h \in Handle :
                 heap[h] \subseteq (IF h \in Reachable THEN held[h] ELSE {}) \cup Values(i)
                 \/ h \notin Reachable \cup {b[n] : n \in DOMAIN b}
<1> DEFINE fresh == {b[n] : n \in DOMAIN b} \ Reachable
<1>1. CASE fresh = {}
  BY <1>1, MutatedAre DEF Filled
<1>2. CASE fresh # {}
  <2>1. PICK old \in Mutated(i), s \in Contents(i) :
           heap = [h \in Handle |-> IF h \in fresh THEN s ELSE old[h]]
    BY <1>2 DEF Filled
  <2>2. s \subseteq Values(i) /\ s \subseteq Item
    BY ValuesAre DEF Contents
  <2>3. old \in [Handle -> SUBSET Item] /\ \A h \in Handle : old[h] \subseteq held[h] \cup Values(i)
    BY MutatedAre
  <2> QED BY <2>1, <2>2, <2>3
<1> QED BY <1>1, <1>2

\* The bindings after an input that succeeds.
LEMMA MergedIs ==
    ASSUME SessionInv, NEW i \in Input, inputs < MaxInputs, NEW b \in Bound(i)
    PROVE  /\ Merged(b) \in [DOMAIN Merged(b) -> Handle]
           /\ DOMAIN Merged(b) = names \cup i.lets
           /\ {Merged(b)[n] : n \in DOMAIN Merged(b)} \subseteq
                 Reachable \cup {b[n] : n \in DOMAIN b}
<1> USE SessionAssumption
<1>1. inputs + 1 \in 1..MaxInputs /\ i.lets \subseteq Names /\ i.mentions \subseteq names
      /\ names \subseteq Names /\ names = DOMAIN state
  BY InputType DEF SessionInv, SessionTypes, NamesBound
<1>2. Handles(i) \subseteq Handle /\ Delta(i) \subseteq Names /\ names \cup Delta(i) = names \cup i.lets
  BY <1>1 DEF Handles, Referenced, Delta, SessionInv, SessionTypes
<1>3. b \in [Delta(i) -> Handle]
  <2>1. {<<inputs + 1, n>> : n \in Delta(i)} \subseteq Handle
    BY <1>1, <1>2 DEF Handle
  <2> QED BY <1>2, <2>1 DEF Bound
<1>4. state \in [names -> Handle]
  BY <1>1 DEF SessionInv, SessionTypes
<1>5. DOMAIN Merged(b) = names \cup Delta(i)
  BY <1>1, <1>3 DEF Merged
<1>6. \A n \in DOMAIN Merged(b) : Merged(b)[n] = IF n \in DOMAIN b THEN b[n] ELSE state[n]
  BY DEF Merged
<1>7. \A n \in DOMAIN Merged(b) : n \notin DOMAIN b => n \in DOMAIN state
  BY DEF Merged
<1>8. Merged(b) \in [DOMAIN Merged(b) -> Handle]
  <2>1. \A n \in DOMAIN Merged(b) : Merged(b)[n] \in Handle
    BY <1>3, <1>4, <1>6, <1>7
  <2>2. Merged(b) = [n \in DOMAIN Merged(b) |-> Merged(b)[n]]
    BY DEF Merged
  <2> QED BY <2>1, <2>2
<1> QED BY <1>2, <1>5, <1>6, <1>7, <1>8 DEF Reachable

\* What is reachable after a run was reachable before or was made by it.
Grown(i) == Held(Reachable)' \subseteq Held(Reachable) \cup Values(i)

\* An input that fails while it runs may have stored what it made.
LEMMA FailsGrow ==
    ASSUME SessionInv, NEW i \in Input, RunFails(i)
    PROVE  Grown(i) /\ held' \in [Handle -> SUBSET Item]
<1>1. inputs < MaxInputs /\ held' \in Mutated(i) /\ Reachable' = Reachable
  BY DEF RunFails, Admit, Reachable
<1>2. /\ held' \in [Handle -> SUBSET Item]
      /\ \A h \in Handle : held'[h] \subseteq held[h] \cup Values(i)
  BY <1>1, MutatedAre
<1>3. Reachable \subseteq Handle
  BY DEF Reachable, SessionInv, SessionTypes
<1> QED BY <1>1, <1>2, <1>3 DEF Grown, Held

\* ... and so may one that succeeds, which binds names too.
LEMMA SucceedsGrow ==
    ASSUME SessionInv, NEW i \in Input, RunSucceeds(i)
    PROVE  /\ Grown(i) /\ held' \in [Handle -> SUBSET Item]
           /\ state' \in [DOMAIN state' -> Handle] /\ DOMAIN state' = names'
<1>1. inputs < MaxInputs
  BY DEF RunSucceeds, Admit
<1>2. PICK b \in Bound(i) : state' = Merged(b) /\ held' \in Kept(Filled(i, b), Merged(b))
  BY DEF RunSucceeds
<1>3. PICK heap \in Filled(i, b) :
         held' = [h \in Handle |-> IF \E n \in DOMAIN Merged(b) : Merged(b)[n] = h
                                   THEN heap[h] ELSE {}]
  BY <1>2 DEF Kept
<1>4. /\ heap \in [Handle -> SUBSET Item]
      /\ \A h \in Handle :
            heap[h] \subseteq (IF h \in Reachable THEN held[h] ELSE {}) \cup Values(i)
            \/ h \notin Reachable \cup {b[n] : n \in DOMAIN b}
  BY <1>1, FilledAre
<1>5. /\ Merged(b) \in [DOMAIN Merged(b) -> Handle]
      /\ DOMAIN Merged(b) = names \cup i.lets
      /\ {Merged(b)[n] : n \in DOMAIN Merged(b)} \subseteq
            Reachable \cup {b[n] : n \in DOMAIN b}
  BY <1>1, MergedIs
<1>6. held' \in [Handle -> SUBSET Item]
  BY <1>3, <1>4
<1>7. ASSUME NEW h \in Reachable' PROVE held'[h] \subseteq Held(Reachable) \cup Values(i)
  <2>1. h \in Handle /\ h \in Reachable \cup {b[n] : n \in DOMAIN b}
    BY <1>2, <1>5, <1>7 DEF Reachable
  <2>2. held'[h] \subseteq heap[h]
    BY <1>3, <2>1
  <2>3. heap[h] \subseteq (IF h \in Reachable THEN held[h] ELSE {}) \cup Values(i)
    BY <1>4, <2>1
  <2>4. h \in Reachable => held[h] \subseteq Held(Reachable)
    BY DEF Held
  <2> QED BY <2>2, <2>3, <2>4
<1>8. Grown(i)
  BY <1>7 DEF Grown, Held
<1>9. names' = names \cup i.lets
  BY DEF RunSucceeds
<1> QED BY <1>2, <1>5, <1>6, <1>8, <1>9

\* The units that closures keep after a run.
LEMMA LiveGrows ==
    ASSUME SessionInv, NEW i \in Input, inputs < MaxInputs, Grown(i)
    PROVE  Live' \subseteq Live \cup {inputs + 1}
<1> SUFFICES ASSUME NEW c \in Held(Reachable)', c \in Closure
             PROVE  c.unit \in Live \cup {inputs + 1}
  BY DEF Live, ClosuresOf
<1>1. CASE c \in Held(Reachable)
  BY <1>1 DEF Live, ClosuresOf
<1>2. CASE c \in Values(i)
  BY <1>2, ValuesAre
<1> QED BY <1>1, <1>2 DEF Grown

\* The entries and the code after a run.
LEMMA RunKeepsTables ==
    ASSUME SessionInv, NEW i \in Input, Admit, Register, KeepCode(i), Grown(i)
    PROVE  /\ ClosuresMapped' /\ ItemsOld'
           /\ units' \subseteq 1..inputs'
           /\ code' \in [1..MaxInputs -> SUBSET (Names \X Types)]
           /\ \A u \in Live' : code'[u] = IF u = inputs + 1 THEN TypesOf(i) ELSE code[u]
<1> USE SessionAssumption
<1>1. inputs \in Nat /\ inputs < MaxInputs /\ inputs' = inputs + 1
  BY DEF Admit, SessionInv, SessionTypes
<1>2. Live' \subseteq Live \cup {inputs + 1}
  BY <1>1, LiveGrows
<1>3. ClosuresMapped'
  BY <1>2 DEF ClosuresMapped, Register, SessionInv
<1>4. units' \subseteq 1..inputs'
  BY <1>1 DEF Register, SessionInv, SessionTypes
<1>5. ItemsOld'
  <2> SUFFICES ASSUME NEW x \in Held(Reachable)' PROVE x.unit \in 1..(inputs + 1)
    BY <1>1 DEF ItemsOld
  <2>1. CASE x \in Held(Reachable)
    BY <1>1, <2>1 DEF SessionInv, ItemsOld
  <2>2. CASE x \in Values(i)
    BY <1>1, <2>2, ValuesAre
  <2> QED BY <2>1, <2>2 DEF Grown
<1>6. code' \in [1..MaxInputs -> SUBSET (Names \X Types)]
  BY TypesOfIs DEF KeepCode, SessionInv, SessionTypes
<1>7. \A u \in Live' : u \in 1..MaxInputs
  BY <1>1, <1>2 DEF SessionInv, ClosuresMapped, SessionTypes
<1> QED BY <1>3, <1>4, <1>5, <1>6, <1>7 DEF KeepCode

\* A numbering stays one when there are more inputs.
LEMMA NumberingsLater ==
    ASSUME SessionTypes, inputs' = inputs + 1, numberings' = numberings
    PROVE  numberings' \in Seq(0..inputs') /\ Len(numberings') <= MaxNumberings
<1>1. 0..inputs \subseteq 0..inputs'
  BY SessionAssumption DEF SessionTypes
<1> QED BY <1>1 DEF SessionTypes

-----------------------------------------------------------------------------
\* Steps.

\* eval of an input that fails while it runs.
LEMMA FailsKeeps ==
    ASSUME SessionInv, NEW i \in Input, RunFails(i)
    PROVE  SessionInv'
<1> USE SessionAssumption
<1>1. Grown(i) /\ held' \in [Handle -> SUBSET Item]
  BY FailsGrow
<1>2. Admit /\ Register /\ KeepCode(i) /\ UNCHANGED <<declarations, names, state, published>>
      /\ inputs' = inputs + 1 /\ numberings' = numberings /\ inputs < MaxInputs
  BY DEF RunFails, Admit
<1>3. /\ ClosuresMapped' /\ ItemsOld'
      /\ units' \subseteq 1..inputs'
      /\ code' \in [1..MaxInputs -> SUBSET (Names \X Types)]
      /\ \A u \in Live' : code'[u] = IF u = inputs + 1 THEN TypesOf(i) ELSE code[u]
  BY <1>1, <1>2, RunKeepsTables
<1>4. inputs' \in 0..MaxInputs /\ published' \subseteq 1..inputs' /\ inputs + 1 \notin published
  BY <1>2 DEF SessionInv, SessionTypes
<1>5. SessionTypes'
  <2>1. answer' \in {"none", "value", "error", "refused"} /\ over' \in BOOLEAN /\ ended' \in BOOLEAN
    BY DEF RunFails, Sampled
  <2>2. numberings' \in Seq(0..inputs') /\ Len(numberings') <= MaxNumberings
    BY <1>2, NumberingsLater DEF SessionInv
  <2> QED BY <1>1, <1>2, <1>3, <1>4, <2>1, <2>2 DEF SessionInv, SessionTypes
<1>6. InstancesOfPublished'
  <2> SUFFICES ASSUME NEW x \in Held(Reachable)', x \in Instance, x.unit \in published
               PROVE  DeclaredAs(x.type, x.source)
    BY <1>2 DEF InstancesOfPublished, DeclaredAs
  <2>1. CASE x \in Held(Reachable)
    BY <2>1 DEF SessionInv, InstancesOfPublished, DeclaredAs
  <2>2. CASE x \in Values(i)
    BY <1>2, <2>2, ValuesAre
  <2> QED BY <1>1, <2>1, <2>2 DEF Grown
<1>7. CodeDeclared'
  <2>1. Live' \cap published \subseteq Live /\ \A u \in Live' \cap published : code'[u] = code[u]
    BY <1>1, <1>2, <1>3, <1>4, LiveGrows
  <2> QED BY <1>2, <2>1 DEF SessionInv, CodeDeclared, DeclaredAs
<1>8. NamesBound'
  BY <1>2 DEF SessionInv, NamesBound
<1> QED BY <1>3, <1>5, <1>6, <1>7, <1>8 DEF SessionInv

\* eval of an input that succeeds.
LEMMA SucceedsKeeps ==
    ASSUME SessionInv, NEW i \in Input, RunSucceeds(i)
    PROVE  SessionInv'
<1> USE SessionAssumption
<1>1. /\ Grown(i) /\ held' \in [Handle -> SUBSET Item]
      /\ state' \in [DOMAIN state' -> Handle] /\ DOMAIN state' = names'
  BY SucceedsGrow
<1>2. Admit /\ Register /\ KeepCode(i) /\ Compiles(i)
      /\ inputs' = inputs + 1 /\ numberings' = numberings /\ inputs < MaxInputs
      /\ declarations' = Declared(i, Len(i.decls))
      /\ names' = names \cup i.lets
      /\ published' = published \cup {inputs + 1}
  BY DEF RunSucceeds, Admit
<1>3. /\ ClosuresMapped' /\ ItemsOld'
      /\ units' \subseteq 1..inputs'
      /\ code' \in [1..MaxInputs -> SUBSET (Names \X Types)]
      /\ \A u \in Live' : code'[u] = IF u = inputs + 1 THEN TypesOf(i) ELSE code[u]
  BY <1>1, <1>2, RunKeepsTables
<1>4. inputs' \in 0..MaxInputs /\ published' \subseteq 1..inputs' /\ inputs + 1 \notin published
  BY <1>2 DEF SessionInv, SessionTypes
<1>5. names' \subseteq Names
  BY <1>2, InputType DEF SessionInv, SessionTypes
<1>6. SessionTypes'
  <2>1. answer' \in {"none", "value", "error", "refused"} /\ over' \in BOOLEAN /\ ended' \in BOOLEAN
    BY DEF RunSucceeds, Sampled, SessionInv, SessionTypes
  <2>2. numberings' \in Seq(0..inputs') /\ Len(numberings') <= MaxNumberings
    BY <1>2, NumberingsLater DEF SessionInv
  <2>3. declarations' \in [DOMAIN declarations' -> Sources] /\ DOMAIN declarations' \subseteq Names
    BY <1>2, DeclaredType DEF SessionInv
  <2> QED BY <1>1, <1>3, <1>4, <1>5, <2>1, <2>2, <2>3 DEF SessionTypes
<1>7. ASSUME NEW m, NEW s \in Types, DeclaredAs(m, s) PROVE DeclaredAs(m, s)'
  BY <1>2, <1>7, TypesKept DEF DeclaredAs, SessionInv
<1>8. ASSUME NEW t \in TypesOf(i) PROVE DeclaredAs(t[1], t[2])'
  BY <1>2, TypesOfIs DEF DeclaredAs, SessionInv
<1>9. InstancesOfPublished'
  <2> SUFFICES ASSUME NEW x \in Held(Reachable)', x \in Instance,
                      x.unit \in published \cup {inputs + 1}
               PROVE  DeclaredAs(x.type, x.source)'
    BY <1>2 DEF InstancesOfPublished, DeclaredAs
  <2>1. x.source \in Types
    BY ItemKinds
  <2>2. CASE x \in Held(Reachable)
    <3>1. x.unit # inputs + 1
      BY <1>2, <2>2 DEF SessionInv, SessionTypes, ItemsOld
    <3>2. DeclaredAs(x.type, x.source)
      BY <2>2, <3>1 DEF SessionInv, InstancesOfPublished, DeclaredAs
    <3> QED BY <1>7, <2>1, <3>2
  <2>3. CASE x \in Values(i)
    <3>1. CASE x.unit \in published
      BY <1>2, <1>7, <2>1, <2>3, <3>1, ValuesAre
    <3>2. CASE x.unit = inputs + 1
      <4>1. <<x.type, x.source>> \in TypesOf(i)
        BY <1>2, <2>3, <3>2, ValuesAre
      <4>2. DeclaredAs(<<x.type, x.source>>[1], <<x.type, x.source>>[2])'
        BY <1>8, <4>1
      <4> QED BY <4>2 DEF DeclaredAs
    <3> QED BY <3>1, <3>2
  <2> QED BY <1>1, <2>2, <2>3 DEF Grown
<1>10. CodeDeclared'
  <2> SUFFICES ASSUME NEW u \in Live', u \in published \cup {inputs + 1}, NEW t \in code'[u]
               PROVE  DeclaredAs(t[1], t[2])'
    BY <1>2 DEF CodeDeclared
  <2>1. CASE u = inputs + 1
    BY <1>3, <1>8, <2>1
  <2>2. CASE u # inputs + 1
    <3>1. u \in Live \cap published /\ t \in code[u]
      BY <1>1, <1>2, <1>3, <2>2, LiveGrows
    <3>2. DeclaredAs(t[1], t[2])
      BY <3>1 DEF SessionInv, CodeDeclared
    <3>3. u \in 1..MaxInputs
      BY <1>2, <3>1 DEF SessionInv, SessionTypes
    <3>4. t[2] \in Types
      BY <3>1, <3>3 DEF SessionInv, SessionTypes
    <3> QED BY <1>7, <3>2, <3>4
  <2> QED BY <2>1, <2>2
<1>11. NamesBound'
  BY <1>1 DEF NamesBound
<1> QED BY <1>3, <1>6, <1>9, <1>10, <1>11 DEF SessionInv

\* Every input keeps the invariant.
LEMMA SessionStep == SessionInv /\ [Next]_vars => SessionInv'
<1> SUFFICES ASSUME SessionInv, [Next]_vars PROVE SessionInv'
  OBVIOUS
<1> USE SessionAssumption
<1>1. ASSUME UNCHANGED content, inputs' \in {inputs, inputs + 1}, inputs' <= MaxInputs,
             numberings' \in Seq(0..inputs'), Len(numberings') <= MaxNumberings,
             answer' \in {"none", "value", "error", "refused"},
             over' \in BOOLEAN, ended' \in BOOLEAN
      PROVE  SessionInv'
  <2>1. /\ declarations' = declarations /\ names' = names /\ state' = state
        /\ units' = units /\ held' = held /\ code' = code /\ published' = published
    BY <1>1 DEF content
  <2>2. inputs \in Nat /\ 1..inputs \subseteq 1..inputs' /\ inputs' \in 0..MaxInputs
    BY <1>1 DEF SessionInv, SessionTypes
  <2>3. SessionTypes'
    BY <1>1, <2>1, <2>2 DEF SessionInv, SessionTypes
  <2>4. Reachable' = Reachable
    BY <2>1 DEF Reachable
  <2>5. Held(Reachable)' = Held(Reachable)
    BY <2>1, <2>4 DEF Held
  <2>6. Live' = Live
    BY <2>5 DEF Live
  <2>7. NamesBound' /\ ClosuresMapped' /\ InstancesOfPublished' /\ CodeDeclared' /\ ItemsOld'
    BY <2>1, <2>2, <2>5, <2>6
    DEF SessionInv, NamesBound, ClosuresMapped, InstancesOfPublished, CodeDeclared, DeclaredAs,
        ItemsOld
  <2> QED BY <2>3, <2>7 DEF SessionInv
<1>2. CASE UNCHANGED vars
  BY <1>1, <1>2 DEF vars, content, SessionInv, SessionTypes
<1>3. CASE RefuseInput
  <2>1. inputs' = inputs /\ inputs <= MaxInputs /\ numberings' = numberings
    BY <1>3 DEF RefuseInput, SessionInv, SessionTypes
  <2>2. numberings' \in Seq(0..inputs') /\ Len(numberings') <= MaxNumberings
    BY <2>1 DEF SessionInv, SessionTypes
  <2>3. UNCHANGED content /\ answer' = "refused" /\ over' \in BOOLEAN /\ ended' \in BOOLEAN
    BY <1>3 DEF RefuseInput, Sampled, SessionInv, SessionTypes
  <2> QED BY <1>1, <2>1, <2>2, <2>3
<1>4. CASE RefuseSource
  <2>1. numberings' \in Seq(0..inputs') /\ Len(numberings') <= MaxNumberings
    BY <1>4, NumberingsLater DEF RefuseSource, Admit, SessionInv
  <2>2. inputs' = inputs + 1 /\ inputs' <= MaxInputs
    BY <1>4 DEF RefuseSource, Admit, SessionInv, SessionTypes
  <2>3. UNCHANGED content /\ answer' = "error" /\ over' \in BOOLEAN /\ ended' \in BOOLEAN
    BY <1>4 DEF RefuseSource, Sampled, SessionInv, SessionTypes
  <2> QED BY <1>1, <2>1, <2>2, <2>3
<1>5. CASE Eval
  BY <1>5, FailsKeeps, SucceedsKeeps DEF Eval
<1>6. CASE Renumber
  <2>1. numberings \in Seq(0..inputs) /\ inputs \in 0..inputs /\ inputs' = inputs
    BY <1>6 DEF Renumber, SessionInv, SessionTypes
  <2>2. numberings' \in Seq(0..inputs') /\ Len(numberings') <= MaxNumberings
    BY <1>6, <2>1 DEF Renumber
  <2>3. UNCHANGED content /\ answer' = "none" /\ over' \in BOOLEAN /\ ended' \in BOOLEAN
    BY <1>6 DEF Renumber, Sampled, SessionInv, SessionTypes
  <2>4. inputs <= MaxInputs
    BY DEF SessionInv, SessionTypes
  <2> QED BY <1>1, <2>1, <2>2, <2>3, <2>4
<1>7. CASE Reset
  <2>1. /\ declarations' = Nothing /\ names' = {} /\ state' = Nothing
        /\ inputs' = 0 /\ numberings' = <<>> /\ units' = {}
        /\ held' = Empty /\ code' = NoCode /\ published' = {}
        /\ answer' = "none" /\ ended' \in BOOLEAN /\ over' \in BOOLEAN
    BY <1>7 DEF Reset, Sampled
  <2>2. SessionTypes'
    <3>1. /\ declarations' \in [DOMAIN declarations' -> Sources]
          /\ DOMAIN declarations' \subseteq Names
          /\ state' \in [DOMAIN state' -> Handle] /\ DOMAIN state' \subseteq Names
      BY <2>1 DEF Nothing
    <3>2. numberings' \in Seq(0..inputs') /\ Len(numberings') <= MaxNumberings
      BY <2>1
    <3>3. held' \in [Handle -> SUBSET Item] /\ code' \in [1..MaxInputs -> SUBSET (Names \X Types)]
      BY <2>1 DEF Empty, NoCode
    <3>4. inputs' \in 0..MaxInputs
      BY <2>1
    <3> QED BY <2>1, <3>1, <3>2, <3>3, <3>4 DEF SessionTypes
  <2>3. Reachable' = {}
    BY <2>1 DEF Reachable, Nothing
  <2>4. Held(Reachable)' = {}
    BY <2>3 DEF Held
  <2>5. Live' = {}
    BY <2>4 DEF Live, ClosuresOf
  <2>6. NamesBound'
    BY <2>1 DEF NamesBound, Nothing
  <2> QED
    BY <2>2, <2>4, <2>5, <2>6
    DEF SessionInv, ClosuresMapped, InstancesOfPublished, CodeDeclared, ItemsOld
<1> QED BY <1>2, <1>3, <1>4, <1>5, <1>6, <1>7 DEF Next

-----------------------------------------------------------------------------
\* Numbers.

\* How many numbers 1..n has.
LEMMA IntervalSize ==
    ASSUME NEW n \in Nat
    PROVE  IsFiniteSet(1..n) /\ Cardinality(1..n) = n
<1>1. n \in Int /\ 1 \in Int
  OBVIOUS
<1>2. IsFiniteSet(1..n) /\ Cardinality(1..n) = IF 1 > n THEN 0 ELSE n - 1 + 1
  BY ONLY <1>1, FS_Interval
<1> QED BY <1>2

\* The numbering an input belongs to.
Epoch(index) == Cardinality({k \in DOMAIN numberings : numberings[k] < index})

\* Which numbering an input belongs to.
LEMMA EpochType ==
    ASSUME SessionTypes, NEW index
    PROVE  Epoch(index) \in 0..Len(numberings)
<1> DEFINE D == 1..Len(numberings)
           S == {k \in DOMAIN numberings : numberings[k] < index}
<1>1. Len(numberings) \in Nat /\ DOMAIN numberings = D
  BY DEF SessionTypes
<1>2. IsFiniteSet(D) /\ Cardinality(D) = Len(numberings)
  BY <1>1, IntervalSize
<1>3. IsFiniteSet(S) /\ Cardinality(S) <= Cardinality(D)
  <2>1. S \subseteq D
    BY <1>1
  <2> HIDE DEF S, D
  <2> QED BY <1>2, <2>1, FS_Subset
<1>4. Cardinality(S) \in Nat
  BY <1>3, FS_CardinalityType
<1> QED BY <1>1, <1>2, <1>3, <1>4 DEF Epoch

\* No two inputs of one numbering have one number.
LEMMA NumbersDiffer ==
    ASSUME SessionTypes PROVE NumbersUnique
<1> SUFFICES ASSUME NEW i \in 1..inputs, NEW j \in 1..inputs, InputNumber(i) = InputNumber(j)
             PROVE  i = j
  BY DEF NumbersUnique
<1> USE SessionAssumption
<1> DEFINE n == Len(numberings)
           Since(e) == IF e = 0 THEN 0 ELSE numberings[e]
<1>1. inputs \in Nat /\ n \in Nat /\ \A k \in 1..n : numberings[k] \in 0..inputs
  BY DEF SessionTypes
<1>2. Epoch(i) \in 0..n /\ Epoch(j) \in 0..n
  BY EpochType
<1>3. InputNumber(i).older = InputNumber(j).older /\ InputNumber(i).position = InputNumber(j).position
  OBVIOUS
<1>4. Epoch(i) = Epoch(j)
  BY <1>1, <1>2, <1>3 DEF InputNumber, Epoch
<1>5. i - Since(Epoch(i)) = j - Since(Epoch(j))
  BY <1>3 DEF InputNumber, Epoch
<1>6. Since(Epoch(i)) \in Nat
  BY <1>1, <1>2
<1> QED BY <1>1, <1>4, <1>5, <1>6

\* Session: after every order of inputs that succeed, fail and are refused, the names have
\* their values, a closure that can be called has the map of its unit, an instance that
\* published code made has the declared shape, and no two inputs share a number.
THEOREM SessionTablesAgree == Spec => []TablesAgree
<1>1. SessionInv => TablesAgree
  <2> SUFFICES ASSUME SessionInv PROVE TablesAgree
    OBVIOUS
  <2>1. declarations \in UNION {[d -> Sources] : d \in SUBSET Names}
        /\ state \in UNION {[d -> Handle] : d \in SUBSET Names}
    BY DEF SessionInv, SessionTypes
  <2>2. TypeOK
    BY <2>1 DEF SessionInv, SessionTypes, TypeOK
  <2>3. NumbersUnique
    BY NumbersDiffer DEF SessionInv
  <2> QED BY <2>2, <2>3 DEF SessionInv, TablesAgree
<1> QED BY <1>1, SessionInitially, SessionStep, PTL DEF Spec

\* Session::eval: an input answered with an error leaves names, declarations and bindings as
\* they were unless the session ends with it, and the number on the prompt is the one a
\* diagnostic of that input has.
THEOREM SessionInputsHonest == Spec => InputsHonest
<1>1. SessionInv /\ [Next]_vars =>
        [answer' = "error" /\ ~ended' => UNCHANGED <<declarations, names, state>>]_vars
  <2> SUFFICES ASSUME Next, answer' = "error", ~ended'
               PROVE  UNCHANGED <<declarations, names, state>>
    OBVIOUS
  <2> QED
    BY DEF Next, RefuseInput, RefuseSource, Eval, RunFails, RunSucceeds, Renumber, Reset, content
<1>2. SessionInv /\ [Next]_vars =>
        [inputs' = inputs + 1 => CurrentNumber' = [position |-> NextNumber, older |-> 0]]_vars
  <2> SUFFICES ASSUME SessionInv, Next, inputs' = inputs + 1
               PROVE  CurrentNumber' = [position |-> NextNumber, older |-> 0]
    OBVIOUS
  <2> DEFINE n == Len(numberings)
             S == {k \in DOMAIN numberings : numberings[k] < inputs + 1}
  <2>1. inputs \in Nat /\ n \in Nat /\ DOMAIN numberings = 1..n
        /\ \A k \in 1..n : numberings[k] \in 0..inputs
    BY SessionAssumption DEF SessionInv, SessionTypes
  <2>2. numberings' = numberings
    <3>1. inputs' # inputs /\ inputs' # 0
      BY <2>1
    <3> QED
      BY <3>1 DEF Next, RefuseInput, RefuseSource, Admit, Eval, RunFails, RunSucceeds, Renumber,
                  Reset
  <2>3. S = 1..n
    BY <2>1
  <2>4. Cardinality(S) = n
    BY <2>1, <2>3, IntervalSize
  <2>5. InputNumber(inputs)' = [position |-> inputs + 1 - (IF n = 0 THEN 0 ELSE numberings[n]),
                                older |-> 0]
    <3> DEFINE T == {k \in DOMAIN numberings' : numberings'[k] < inputs'}
    <3>1. T = S
      BY <2>2
    <3>2. Cardinality(T) = n /\ Len(numberings') = n
      BY <2>2, <2>4, <3>1
    <3>3. InputNumber(inputs)'
            = [position |-> inputs' - (IF Cardinality(T) = 0 THEN 0 ELSE numberings'[Cardinality(T)]),
               older |-> IF Cardinality(T) = Len(numberings') THEN 0 ELSE Cardinality(T) + 1]
      BY DEF InputNumber
    <3>4. [position |-> inputs' - (IF Cardinality(T) = 0 THEN 0 ELSE numberings'[Cardinality(T)]),
           older |-> IF Cardinality(T) = Len(numberings') THEN 0 ELSE Cardinality(T) + 1]
            = [position |-> inputs + 1 - (IF n = 0 THEN 0 ELSE numberings[n]), older |-> 0]
      <4> HIDE DEF T, S, n
      <4>1. inputs' - (IF Cardinality(T) = 0 THEN 0 ELSE numberings'[Cardinality(T)])
              = inputs + 1 - (IF n = 0 THEN 0 ELSE numberings[n])
        <5>1. (IF Cardinality(T) = 0 THEN 0 ELSE numberings'[Cardinality(T)])
                = (IF n = 0 THEN 0 ELSE numberings[n])
          BY <2>2, <3>2
        <5> QED BY <2>1, <5>1
      <4>2. (IF Cardinality(T) = Len(numberings') THEN 0 ELSE Cardinality(T) + 1) = 0
        BY <3>2
      <4> QED BY <4>1, <4>2
    <3> HIDE DEF T, S, n
    <3> QED BY <3>3, <3>4
  <2>6. numberings = <<>> <=> n = 0
    BY DEF SessionInv, SessionTypes
  <2> QED BY <2>5, <2>6 DEF CurrentNumber, NextNumber
<1> QED
  BY <1>1, <1>2, SessionInitially, SessionStep, PTL
  DEF Spec, InputsHonest, FailedKeeps, PromptHonest

=============================================================================
