--------------------------- MODULE Project_proofs ---------------------------
(***************************************************************************)
(* Proofs about the project manager: the publication of the lock files     *)
(* (module LockPair), the dependency transition of a session (module       *)
(* DepTransition) and the shared cache of assemblies (AssemblyCache), for  *)
(* every value of their constants.                                         *)
(***************************************************************************)
EXTENDS LockPair, DepTransition, AssemblyCache, FiniteSetTheorems, TLAPS

(***************************************************************************)
(* LockPair                                                                *)
(***************************************************************************)

LockDoc == [generation : 0..MaxLocks, native : BOOLEAN]

LockTypes ==
    /\ cargo \in 0..MaxLocks /\ locks \in 0..MaxLocks
    /\ lockProject \in LockDoc /\ old.project \in LockDoc /\ making \in LockDoc
    /\ old.cargo \in 0..MaxLocks
    /\ phase \in {"idle", "cargo", "project", "removing", "restoring", "restoringCargo",
                  "done", "restored", "giveUp"}
    /\ interrupted \in BOOLEAN
    /\ outcome \in {"none", "locked", "failed", "broken", "killed"}

\* Generations are given out in order: what is being made is the newest, and what was
\* there when the run began is older.
Generations ==
    /\ cargo <= locks /\ lockProject.generation <= locks
    /\ phase # "idle" =>
        /\ making.generation = locks /\ locks > 0
        /\ old.cargo < locks /\ old.project.generation < locks
        /\ old.project.native => old.cargo >= old.project.generation

\* Where each file stands when publish_pair is at a step.
Published ==
    /\ phase = "cargo" => cargo = old.cargo /\ lockProject = old.project /\ making.native
    /\ phase = "project" =>
        /\ lockProject = old.project
        /\ cargo = IF making.native THEN making.generation ELSE old.cargo
    /\ phase = "removing" => lockProject = making /\ ~making.native
    /\ phase = "restoring" => cargo \in {old.cargo, making.generation}
    /\ phase = "restoringCargo" =>
        lockProject = old.project /\ cargo \in {old.cargo, making.generation}
    /\ phase = "done" => lockProject = making /\ (making.native => cargo = making.generation)
    /\ phase = "restored" => lockProject = old.project /\ cargo = old.cargo

LockInv == LockTypes /\ Generations /\ Published /\ NoNewWithOld /\ OutcomeHonest

\* A project without a lock.
LEMMA LockInitHolds == LockInit => LockInv
<1> SUFFICES ASSUME LockInit PROVE LockInv
  OBVIOUS
<1>1. 0 \in 0..MaxLocks
  BY LockPairAssumption
<1>2. Empty \in LockDoc /\ Empty.generation = 0
  BY <1>1 DEF Empty, LockDoc
<1>3. old.cargo = 0 /\ old.project = Empty
  BY DEF LockInit
<1>4. LockTypes
  BY <1>1, <1>2, <1>3 DEF LockInit, LockTypes
<1> QED
  BY <1>2, <1>4 DEF LockInit, LockInv, Generations, Published, NoNewWithOld, OutcomeHonest

\* publish_pair, its failures and its rollback, step by step.
LEMMA LockStepHolds == LockInv /\ [LockNext]_lockVars => LockInv'
<1> SUFFICES ASSUME LockInv, [LockNext]_lockVars PROVE LockInv'
  OBVIOUS
<1> USE LockPairAssumption DEF LockInv, LockTypes, LockDoc
<1>1. CASE Begin
  <2>1. PICK n \in BOOLEAN : making' = [generation |-> locks + 1, native |-> n]
    BY <1>1 DEF Begin
  <2>2. making'.generation = locks + 1 /\ making'.native = n
    BY <2>1
  <2>3. old'.cargo = cargo /\ old'.project = lockProject
    BY <1>1 DEF Begin
  <2>4. locks + 1 \in 0..MaxLocks
    BY <1>1 DEF Begin
  <2>5. making' \in LockDoc
    BY <2>1, <2>4
  <2>6. LockTypes'
    BY <1>1, <2>2, <2>3, <2>4, <2>5 DEF Begin
  <2> QED
    BY <1>1, <2>2, <2>3, <2>6 DEF Begin, Generations, Published, NoNewWithOld, OutcomeHonest
<1>2. CASE Interrupt
  BY <1>2 DEF Interrupt, Generations, Published, NoNewWithOld, OutcomeHonest
<1>3. CASE PublishCargo
  BY <1>3 DEF PublishCargo, Atomic, AfterError, Generations, Published, NoNewWithOld, OutcomeHonest
<1>4. CASE PublishProject
  BY <1>4 DEF PublishProject, Atomic, AfterError, Generations, Published, NoNewWithOld, OutcomeHonest
<1>5. CASE RemoveCargo
  BY <1>5 DEF RemoveCargo, Generations, Published, NoNewWithOld, OutcomeHonest
<1>6. CASE RestoreProject
  BY <1>6 DEF RestoreProject, Restore, Atomic, Generations, Published, NoNewWithOld, OutcomeHonest
<1>7. CASE RestoreCargo
  BY <1>7 DEF RestoreCargo, Restore, Atomic, Generations, Published, NoNewWithOld, OutcomeHonest
<1>8. CASE Return
  BY <1>8 DEF Return, Generations, Published, NoNewWithOld, OutcomeHonest, Accepted
<1>9. CASE Kill
  BY <1>9 DEF Kill, Generations, Published, NoNewWithOld, OutcomeHonest
<1>10. CASE LockRest \/ UNCHANGED lockVars
  BY <1>10 DEF LockRest, lockVars, Generations, Published, NoNewWithOld, OutcomeHonest, Accepted
<1> QED
  BY <1>1, <1>2, <1>3, <1>4, <1>5, <1>6, <1>7, <1>8, <1>9, <1>10 DEF LockNext

\* publish_pair: for any number of runs, failures, interrupts and kills, a lock never lies
\* beside an older Cargo file, and what a run reports is what it left.
THEOREM LockPairSound == LockSpec => []LockSound
<1>1. LockInv => LockSound
  BY DEF LockInv, LockSound, LockTypes, LockDoc, LockTypeOK, Published
<1> QED
  BY <1>1, LockInitHolds, LockStepHolds, PTL DEF LockSpec

(***************************************************************************)
(* DepTransition                                                           *)
(***************************************************************************)

Messages ==
    [kind : {"description"}, added : SUBSET Name] \cup
    [kind : {"ready"}, stamp : Artifact] \cup [kind : {"failed"}]
ProjectState == [manifest : (SUBSET Name) \cup {Absent}, lock : SUBSET Name, receipt : Artifact]

\* The steps of serve between the consent and the message that all is ready.
Acting == {"tail", "redescribe", "open"} \cup (Holding \ {"finish"})

DepTypes ==
    /\ session \in Live \cup {"committed", "retired", "rechecked", "restarted", "ended"}
    /\ helper \in Ended \cup Holding
                  \cup {"request", "answer", "tail", "redescribe", "open", "failing"}
    /\ depMode \in [quiet : BOOLEAN, scratch : BOOLEAN]
    /\ \/ toHelper = <<>> \/ toHelper = <<"describe">>
       \/ toHelper = <<"decline">> \/ toHelper = <<"consent">>
    /\ toSession \in Seq(Messages) /\ Len(toSession) <= 2
    /\ depProject \in ProjectState
    /\ depFiles \in [SUBSET Name -> 0..MaxWorld] /\ raced \subseteq {"rename", "exec"}
    /\ probed \in Artifact \cup {NoArtifact} /\ next \in Artifact \cup {NoArtifact}
    /\ running \in Artifact /\ world \in 0..MaxWorld
    /\ shut \in BOOLEAN /\ term \in BOOLEAN
    /\ approved \in BOOLEAN /\ altered \in BOOLEAN /\ reported \in BOOLEAN

\* What is under way on the socket: the helper tells once what it found, once that it is
\* ready and once that it failed, and the session answers what it was told.
Dialogue ==
    /\ helper = "request" =>
        session \in {"describing", "dropping"} /\ toHelper = <<"describe">>
    /\ helper \in {"request"} \cup Acting => toSession = <<>>
    /\ helper \notin Ended => Len(toSession) <= 1
    /\ helper = "answer" =>
        toHelper # <<"describe">> /\ (toHelper # <<>> \/ session = "asking" => toSession = <<>>)
    /\ session = "asking" => toHelper = <<>>
    /\ \A i \in 1..Len(toSession) : toSession[i].kind = "description" =>
        i = 1 /\ toHelper = <<>> /\ session # "asking"
    /\ \A i \in 1..Len(toSession) : toSession[i].kind = "ready" =>
        toSession[i].stamp = probed /\ helper \in {"finish", "failing"} \cup Ended

\* What is written is agreed to.
Agreed == altered \/ toHelper = <<"consent">> \/ helper \in Acting \cup {"finish"} => approved

\* The manifest is one that was read: a scratch exists once the helper holds its project.
Read ==
    /\ helper \in Holding \/ ~depMode.scratch => depProject.manifest # Absent
    /\ helper \in {"publish", "rename"} => snapshot \in SUBSET Name

\* What the session was told is what was probed, and a failure is not overlooked.
Promised ==
    /\ session = "finishing" => helper \in {"finish", "failing"} \cup Ended
    /\ session \in {"finishing", "committed", "retired", "rechecked"} =>
        next = probed /\ next \in Artifact
    /\ reported => helper \in Ended
    /\ reported /\ session \in {"describing", "asking", "consented", "finishing"} =>
        toSession # <<>> /\ toSession[Len(toSession)].kind = "failed"

\* What was checked for the last time is still so, or somebody was faster.
Windows ==
    /\ helper = "rename" => depProject.manifest = snapshot \/ "rename" \in raced
    /\ session = "rechecked" => InPlace(next.roster) = next \/ "exec" \in raced

DepInv ==
    /\ DepTypes /\ Dialogue /\ Agreed /\ Read /\ Promised /\ Windows
    /\ HelperGone /\ RestartsProbed

\* A missing manifest is not a set of names.
LEMMA AbsentIsNone == Absent \notin SUBSET Name
  BY DepAssumption DEF Absent

\* A session that has asked for nothing yet.
LEMMA DepInitHolds == DepInit => DepInv
<1> SUFFICES ASSUME DepInit PROVE DepInv
  OBVIOUS
<1>1. Launch \in SUBSET Name /\ Launch # Absent
  BY DepAssumption, AbsentIsNone
<1>2. [roster |-> Launch, id |-> 0] \in Artifact
  BY <1>1, DepAssumption DEF Artifact
<1>3. PICK s \in BOOLEAN : depMode = [quiet |-> FALSE, scratch |-> s] /\ depProject = Fresh(s)
  BY DEF DepInit
<1>4. depProject \in ProjectState /\ (~s => depProject.manifest # Absent)
  BY <1>1, <1>2, <1>3 DEF Fresh, ProjectState
<1>5. toSession \in Seq(Messages) /\ Len(toSession) = 0
  BY DEF DepInit
<1>7. 0 \in 0..MaxWorld
  BY DepAssumption
<1>8. depMode \in [quiet : BOOLEAN, scratch : BOOLEAN]
  BY <1>3
<1>9. toHelper = <<>>
  BY DEF DepInit
<1>10. session \in Live /\ helper \in Ended
  BY DEF DepInit, Live, Ended
<1>11. probed \in Artifact \cup {NoArtifact} /\ next \in Artifact \cup {NoArtifact}
  BY DEF DepInit
<1>12. running \in Artifact /\ world \in 0..MaxWorld
  BY <1>2, <1>7 DEF DepInit
<1>13. shut \in BOOLEAN /\ term \in BOOLEAN /\ approved \in BOOLEAN /\ altered \in BOOLEAN
         /\ reported \in BOOLEAN
  BY DEF DepInit
<1>14. depFiles \in [SUBSET Name -> 0..MaxWorld] /\ raced \subseteq {"rename", "exec"}
  BY <1>7 DEF DepInit
<1>6. DepTypes
  BY <1>4, <1>5, <1>8, <1>9, <1>10, <1>11, <1>12, <1>13, <1>14 DEF DepTypes
<1> QED
  BY <1>3, <1>4, <1>5, <1>6 DEF DepInit, DepInv, Dialogue, Agreed, Read, Promised, Windows, HelperGone,
     RestartsProbed,
     Acting, Holding, Ended, Waiting, Live

\* What is left of a sequence once its first element was taken.
LEMMA TailFacts ==
    ASSUME NEW S, NEW q \in Seq(S), q # <<>>
    PROVE  /\ Tail(q) \in Seq(S) /\ Len(q) > 0 /\ Len(Tail(q)) = Len(q) - 1
           /\ Head(q) = q[1] /\ Head(q) \in S
           /\ \A i \in 1..Len(Tail(q)) : i + 1 \in 1..Len(q) /\ Tail(q)[i] = q[i + 1]
  OBVIOUS

\* A sequence with one more element at its end.
LEMMA AppendFacts ==
    ASSUME NEW S, NEW q \in Seq(S), NEW e \in S
    PROVE  /\ Append(q, e) \in Seq(S) /\ Len(Append(q, e)) = Len(q) + 1
           /\ Append(q, e)[Len(q) + 1] = e
           /\ \A i \in 1..Len(q) : Append(q, e)[i] = q[i]
  OBVIOUS

\* One message.
LEMMA OneMessage ==
    ASSUME NEW x
    PROVE  Tail(<<x>>) = <<>> /\ Head(<<x>>) = x /\ <<x>> # <<>> /\ Len(<<x>>) = 1 /\ <<x>>[1] = x
  OBVIOUS

\* A project, or a scratch to be made.
LEMMA FreshFacts ==
    ASSUME NEW s \in BOOLEAN
    PROVE  Fresh(s) \in ProjectState /\ (~s => Fresh(s).manifest # Absent)
<1>1. Launch \in SUBSET Name /\ Launch # Absent
  BY DepAssumption, AbsentIsNone
<1>2. [roster |-> Launch, id |-> 0] \in Artifact
  BY <1>1, DepAssumption DEF Artifact
<1> QED
  BY <1>1, <1>2 DEF Fresh, ProjectState

\* An artifact is attached or built.
LEMMA AttachedFacts ==
    ASSUME NEW roster \in SUBSET Name, NEW built \in 0..MaxWorld, depProject \in ProjectState,
           depFiles \in [SUBSET Name -> 0..MaxWorld], Attached(roster, built)
    PROVE  /\ depProject' \in ProjectState /\ depFiles' \in [SUBSET Name -> 0..MaxWorld]
           /\ depProject'.manifest = depProject.manifest
<1>1. PICK id \in {depFiles[roster], built} :
          /\ depFiles' = [depFiles EXCEPT ![roster] = id]
          /\ depProject' = [depProject EXCEPT !.lock = roster,
                                              !.receipt = [roster |-> roster, id |-> id]]
  BY DEF Attached
<1>2. id \in 0..MaxWorld
  BY <1>1
<1>3. [roster |-> roster, id |-> id] \in Artifact
  BY <1>2 DEF Artifact
<1> QED
  BY <1>1, <1>2, <1>3 DEF ProjectState

\* prepare and finish of the session.
LEMMA DepSessionHolds == DepInv /\ SessionStep => DepInv'
<1> SUFFICES ASSUME DepInv, SessionStep PROVE DepInv'
  OBVIOUS
<1> USE DEF DepInv, DepTypes, Dialogue, Agreed, Read, Promised, Windows, HelperGone, RestartsProbed,
      InPlace, helperVars, socket, onDisk, Acting, Holding, Ended, Waiting, Live
<1>1. CASE DepRequest
  <2>1. depMode' \in [quiet : BOOLEAN, scratch : BOOLEAN] /\ depMode'.scratch = depMode.scratch
    BY <1>1 DEF DepRequest
  <2>2. depProject' \in ProjectState /\ (~depMode.scratch => depProject'.manifest # Absent)
    BY <1>1, FreshFacts DEF DepRequest
  <2>3. toSession' \in Seq(Messages) /\ Len(toSession') = 0
    BY <1>1 DEF DepRequest
  <2>6. /\ shut' \in BOOLEAN /\ term' \in BOOLEAN
        /\ approved' \in BOOLEAN /\ altered' \in BOOLEAN /\ reported' \in BOOLEAN
    BY <1>1 DEF DepRequest
  <2>7. /\ session' \in Live /\ helper' = "request" /\ toHelper' = <<"describe">>
        /\ probed' = NoArtifact /\ next' = NoArtifact /\ UNCHANGED <<depFiles, running, world>>
        /\ raced' = {}
    BY <1>1 DEF DepRequest
  <2>4. DepTypes'
    BY <2>1, <2>2, <2>3, <2>6, <2>7
  <2>5. Dialogue'
    BY <1>1, <2>3 DEF DepRequest
  <2> QED
    BY <1>1, <2>1, <2>2, <2>4, <2>5 DEF DepRequest
<1>2. CASE ReceiveDescription
  <2>1. /\ session = "describing" /\ toSession # <<>> /\ toSession' = Tail(toSession)
        /\ Head(toSession).kind = "description"
        /\ UNCHANGED <<helper, depMode, term, onDisk, next, running, requests, world, helperVars>>
    BY <1>2 DEF ReceiveDescription, DepReceive
  <2>2. /\ toSession' \in Seq(Messages) /\ Len(toSession) > 0 /\ Len(toSession') = Len(toSession) - 1
        /\ toSession[1].kind = "description"
        /\ \A i \in 1..Len(toSession') : i + 1 \in 1..Len(toSession) /\ toSession'[i] = toSession[i + 1]
    BY <2>1, TailFacts
  <2>3. toHelper = <<>>
    BY <2>2
  <2>4. \/ session' = "declining" /\ toHelper' = <<"decline">> /\ shut' = TRUE /\ approved' = approved
        \/ session' = "consented" /\ toHelper' = <<"consent">> /\ shut' = TRUE /\ approved' = TRUE
        \/ session' = "asking" /\ toHelper' = <<>> /\ shut' = shut /\ approved' = approved
    <3>1. Append(<<>>, "decline") = <<"decline">> /\ Append(<<>>, "consent") = <<"consent">>
      OBVIOUS
    <3> QED
      BY <1>2, <2>3, <3>1 DEF ReceiveDescription, Consent, Decline, ToHelper
  <2>7. shut' \in BOOLEAN /\ approved' \in BOOLEAN
          /\ (toHelper' = <<"consent">> \/ approved => approved')
    BY <2>4, OneMessage
  <2>5. DepTypes'
    BY <2>1, <2>2, <2>4, <2>7
  <2>6. Dialogue'
    BY <2>1, <2>2, <2>4
  <2>8. Agreed'
    BY <2>1, <2>7
  <2>10. ASSUME reported
         PROVE  toSession' # <<>> /\ toSession'[Len(toSession')].kind = "failed"
    <3>1. toSession[Len(toSession)].kind = "failed" /\ Len(toSession) = 2
      BY <2>1, <2>2, <2>10
    <3>2. Len(toSession') = 1 /\ toSession'[1] = toSession[2]
      BY <2>2, <3>1
    <3> QED
      BY <2>2, <3>1, <3>2
  <2>9. Promised'
    BY <2>1, <2>4, <2>10
  <2> QED
    BY <2>1, <2>4, <2>5, <2>6, <2>8, <2>9
<1>3. CASE DepAnswer
  <2>1. /\ session = "asking"
        /\ UNCHANGED <<helper, depMode, toSession, term, onDisk, next, running, requests, world, helperVars>>
    BY <1>3 DEF DepAnswer
  <2>2. \/ session' = "declining" /\ toHelper' = <<"decline">> /\ shut' = TRUE /\ approved' = approved
        \/ session' = "consented" /\ toHelper' = <<"consent">> /\ shut' = TRUE /\ approved' = TRUE
    <3>1. Append(<<>>, "decline") = <<"decline">> /\ Append(<<>>, "consent") = <<"consent">>
      OBVIOUS
    <3> QED
      BY <1>3, <2>1, <3>1 DEF DepAnswer, Consent, Decline, ToHelper
  <2>3. shut' \in BOOLEAN /\ approved' \in BOOLEAN
          /\ (toHelper' = <<"consent">> \/ approved => approved')
    BY <2>2, OneMessage
  <2>4. Dialogue'
    BY <2>1, <2>2, OneMessage
  <2> QED
    BY <2>1, <2>2, <2>3, <2>4
<1>4. CASE ReceiveFailure
  BY <1>4 DEF ReceiveFailure, DepReceive
<1>5. CASE ReceiveReady
  <2>1. /\ session = "consented" /\ toSession # <<>> /\ toSession' = Tail(toSession)
        /\ Head(toSession).kind = "ready" /\ next' = Head(toSession).stamp /\ session' = "finishing"
        /\ UNCHANGED <<helper, depMode, toHelper, shut, term, onDisk, running, approved,
                       requests, world, helperVars>>
    BY <1>5 DEF ReceiveReady, DepReceive
  <2>2. /\ toSession' \in Seq(Messages) /\ Len(toSession) > 0 /\ Len(toSession') = Len(toSession) - 1
        /\ toSession[1].kind = "ready" /\ next' = toSession[1].stamp
        /\ \A i \in 1..Len(toSession') : i + 1 \in 1..Len(toSession) /\ toSession'[i] = toSession[i + 1]
    BY <2>1, TailFacts
  <2>3. next' = probed /\ helper \in {"finish", "failing"} \cup Ended
    BY <2>2
  <2>4. next' \in Artifact
    <3>1. toSession[1] \in Messages
      BY <2>2
    <3> QED BY <2>2, <3>1 DEF Messages
  <2> QED
    BY <2>1, <2>2, <2>3, <2>4
<1>6. CASE DepFinish
  BY <1>6 DEF DepFinish, DepFinished
<1>7. CASE Commit
  BY <1>7 DEF Commit, DepFinished
<1>8. CASE DepGiveUp
  BY <1>8 DEF DepGiveUp
<1>9. CASE Terminate
  BY <1>9 DEF Terminate
<1>10. CASE Dropped
  BY <1>10 DEF Dropped
<1>11. CASE Close
  BY <1>11 DEF Close
<1>12. CASE Restart
  BY <1>12 DEF Restart
<1>13. CASE DepExec
  <2>1. next = probed /\ next \in Artifact /\ next.roster \in SUBSET Name
    BY <1>13 DEF DepExec, Artifact
  <2>2. InPlace(next.roster) \in Artifact /\ InPlace(next.roster).roster = next.roster
    BY <2>1 DEF Artifact
  <2>3. running' \in Artifact
    BY <1>13, <2>2 DEF DepExec
  <2> QED
    BY <1>13, <2>1, <2>2, <2>3 DEF DepExec
<1> QED
  BY <1>1, <1>2, <1>3, <1>4, <1>5, <1>6, <1>7, <1>8, <1>9, <1>10, <1>11, <1>12, <1>13
  DEF SessionStep

\* serve in the helper.
LEMMA DepHelperHolds == DepInv /\ HelperStep => DepInv'
<1> SUFFICES ASSUME DepInv, HelperStep PROVE DepInv'
  OBVIOUS
<1> USE DEF DepInv, DepTypes, Dialogue, Agreed, Read, Promised, Windows, HelperGone, RestartsProbed,
      InPlace, helperVars, socket, onDisk, Acting, Holding, Ended, Waiting, Live, DepStep, Quietly
<1>1. CASE Describe
  <2> DEFINE m == [kind |-> "description", added |-> Description.added]
  <2>1. Description.added \in SUBSET Name
    BY DepAssumption DEF Description
  <2>2. m \in Messages /\ m.kind = "description"
    BY <2>1 DEF Messages
  <2> HIDE DEF m
  <2>3. toSession = <<>> /\ toSession' = Append(toSession, m) /\ Len(toSession) = 0
    BY <1>1 DEF Describe, Tell, m
  <2>4. toSession' \in Seq(Messages) /\ Len(toSession') = 1 /\ toSession'[1] = m
    BY <2>2, <2>3
  <2>5. toHelper' = <<>>
    BY <1>1, OneMessage DEF Describe
  <2>6. DepTypes'
    BY <1>1, <2>2, <2>4, <2>5 DEF Describe
  <2>8. session' = session /\ session \in {"describing", "dropping"} /\ helper' = "answer"
          /\ probed' = probed
    BY <1>1 DEF Describe
  <2>7. Dialogue'
    BY <2>2, <2>4, <2>5, <2>8
  <2> QED
    BY <1>1, <2>2, <2>4, <2>5, <2>6, <2>7, OneMessage DEF Describe
<1>2. CASE ReadAnswer
  <2>1. toHelper' = <<>> /\ (Head(toHelper) = "decline" \/ toHelper = <<"consent">>)
    BY <1>2, OneMessage DEF ReadAnswer
  <2> QED
    BY <1>2, <2>1, OneMessage DEF ReadAnswer
<1>3. CASE ReadTail \/ Redescribe \/ Probe \/ Conclude
  BY <1>3 DEF ReadTail, Redescribe, Probe, Conclude
<1>4. CASE DepOpen
  <2>1. depProject' \in ProjectState /\ depProject'.manifest # Absent
    BY <1>4 DEF DepOpen, ProjectState, Absent
  <2>2. altered' \in BOOLEAN
    BY <1>4 DEF DepOpen
  <2> QED
    BY <1>4, <2>1, <2>2 DEF DepOpen
<1>5. CASE Recheck
  BY <1>5 DEF Recheck
<1>6. CASE Author
  BY <1>6 DEF Author, ProjectState
<1>7. CASE Publish
  BY <1>7 DEF Publish
<1>14. CASE DepRename
  BY <1>14, DepAssumption, AbsentIsNone DEF DepRename, ProjectState
<1>8. CASE Lock
  BY <1>8, AbsentIsNone DEF Lock, ProjectState
<1>9. CASE Build
  <2>1. depProject.lock \in SUBSET Name /\ helper = "build" /\ helper' = "prepare"
        /\ UNCHANGED <<socket, helperVars>> /\ Quietly
    BY <1>9 DEF Build, ProjectState
  <2>2. depProject' \in ProjectState /\ depFiles' \in [SUBSET Name -> 0..MaxWorld]
        /\ depProject'.manifest = depProject.manifest
    BY <1>9, <2>1, AttachedFacts DEF Build
  <2> QED
    BY <2>1, <2>2
<1>10. CASE Prepare
  BY <1>10 DEF Prepare, ProjectState
<1>11. CASE DepAgain
  <2> DEFINE m == [kind |-> "ready", stamp |-> InPlace(probed.roster)]
  <2>4. probed = depProject.receipt /\ depProject.receipt = InPlace(depProject.lock)
        /\ depProject.receipt \in Artifact
    BY <1>11 DEF DepAgain, Prepared, ProjectState
  <2>5. InPlace(probed.roster) = probed
    BY <2>4
  <2>1. m \in Messages /\ m.kind = "ready" /\ m.stamp = probed
    BY <2>4, <2>5 DEF Messages
  <2> HIDE DEF m
  <2>2. toSession = <<>> /\ toSession' = Append(toSession, m) /\ Len(toSession) = 0
    BY <1>11 DEF DepAgain, Tell, m
  <2>3. toSession' \in Seq(Messages) /\ Len(toSession') = 1 /\ toSession'[1] = m
    BY <2>1, <2>2
  <2> QED
    BY <1>11, <2>1, <2>3 DEF DepAgain
<1>12. CASE Fails
  BY <1>12 DEF Fails
<1>13. CASE Report
  <2> DEFINE m == [kind |-> "failed"]
  <2>1. m \in Messages /\ m.kind = "failed"
    BY DEF Messages
  <2> HIDE DEF m
  <2>2. CASE helper' = "exit0" /\ toSession' = Append(toSession, m) /\ reported' = TRUE
    <3>1. /\ toSession' \in Seq(Messages) /\ Len(toSession') = Len(toSession) + 1
          /\ toSession'[Len(toSession')] = m
          /\ \A i \in 1..Len(toSession) : toSession'[i] = toSession[i]
      BY <2>1, <2>2, AppendFacts
    <3>2. \A i \in 1..Len(toSession') : i \in 1..Len(toSession) \/ toSession'[i] = m
      BY <3>1
    <3> QED
      BY <1>13, <2>1, <2>2, <3>1, <3>2 DEF Report
  <2>3. CASE helper' = "exit1" /\ UNCHANGED <<toSession, reported>>
    BY <1>13, <2>3 DEF Report
  <2> QED
    BY <1>13, <2>2, <2>3 DEF Report, Tell, m
<1> QED
  BY <1>1, <1>2, <1>3, <1>4, <1>5, <1>6, <1>7, <1>8, <1>9, <1>10, <1>11, <1>12, <1>13, <1>14
  DEF HelperStep

\* The world around the two: the editor, other commands, and a step of nobody.
LEMMA DepOthersHold == DepInv
  /\ (EditManifest \/ ReplaceArtifact \/ OtherCommand \/ DepRest \/ UNCHANGED depVars) => DepInv'
<1> SUFFICES ASSUME DepInv, EditManifest \/ ReplaceArtifact \/ OtherCommand \/ DepRest
      \/ UNCHANGED depVars PROVE DepInv'
  OBVIOUS
<1> USE DEF DepInv, DepTypes, Dialogue, Agreed, Read, Promised, Windows, HelperGone, RestartsProbed,
      InPlace, helperVars, socket
<1>0. ASSUME DepWorld
      PROVE  /\ world + 1 \in 0..MaxWorld /\ world' \in 0..MaxWorld
             /\ raced \subseteq raced' /\ raced' \subseteq {"rename", "exec"}
             /\ helper = "rename" /\ depProject'.manifest # depProject.manifest => "rename" \in raced'
             /\ session = "rechecked" /\ depFiles'[next.roster] # depFiles[next.roster] =>
                    "exec" \in raced'
             /\ UNCHANGED <<session, helper, depMode, socket, shut, term, helperVars, next, running,
                            approved, requests>>
  BY <1>0, DepAssumption DEF DepWorld
<1>5. ASSUME DepWorld, depProject' \in ProjectState, depFiles' \in [SUBSET Name -> 0..MaxWorld],
             depProject.manifest # Absent => depProject'.manifest # Absent
      PROVE  DepInv'
  <2>1. DepTypes' /\ Dialogue' /\ Agreed' /\ Read' /\ Promised' /\ HelperGone'
    BY <1>0, <1>5
  <2>2. Windows' /\ RestartsProbed'
    BY <1>0, <1>5
  <2> QED
    BY <2>1, <2>2
<1>1. CASE EditManifest
  <2>1. depProject' \in ProjectState /\ depProject'.manifest # Absent
    BY <1>1, AbsentIsNone DEF EditManifest, ProjectState
  <2> QED
    BY <1>1, <1>5, <2>1 DEF EditManifest
<1>2. CASE ReplaceArtifact
  <2>1. DepWorld /\ world + 1 \in 0..MaxWorld
    BY <1>0, <1>2 DEF ReplaceArtifact
  <2>2. depFiles' \in [SUBSET Name -> 0..MaxWorld] /\ depProject' = depProject
    BY <1>2, <2>1 DEF ReplaceArtifact
  <2> QED
    BY <1>5, <2>1, <2>2
<1>3. CASE OtherCommand
  <2>1. DepWorld /\ world + 1 \in 0..MaxWorld
    BY <1>0, <1>3 DEF OtherCommand
  <2>2. depProject.manifest \in SUBSET Name
    BY <1>3 DEF OtherCommand, ProjectState
  <2>3. /\ depProject' \in ProjectState /\ depFiles' \in [SUBSET Name -> 0..MaxWorld]
        /\ depProject'.manifest = depProject.manifest
    BY <1>3, <2>1, <2>2, AttachedFacts DEF OtherCommand
  <2> QED
    BY <1>5, <2>1, <2>3
<1>4. CASE DepRest \/ UNCHANGED depVars
  BY <1>4 DEF DepRest, depVars, onDisk
<1> QED
  BY <1>1, <1>2, <1>3, <1>4

\* The invariant of the transition.
LEMMA DepInvariance == DepSpec => []DepInv
<1>1. DepInv /\ [DepNext]_depVars => DepInv'
  BY DepSessionHolds, DepHelperHolds, DepOthersHold DEF DepNext
<1> QED
  BY <1>1, DepInitHolds, PTL DEF DepSpec

\* dep_transition.rs and transition.rs: for any manifests, requests and edits by others nothing
\* is written without consent, no helper outlives its request, and a session is restarted
\* only into the file that passed the startup check, or what replaced it after the last
\* recheck of its path.
THEOREM TransitionSound == DepSpec => []DepSound
<1>1. DepInv => DepSound
  <2> SUFFICES ASSUME DepInv PROVE DepSound
    OBVIOUS
  <2>3. \A x \in {"describe", "decline", "consent"} :
            <<x>> \in Seq({"describe", "decline", "consent"}) /\ Len(<<x>>) = 1
    OBVIOUS
  <2>4. <<>> \in Seq({"describe", "decline", "consent"}) /\ Len(<<>>) = 0
    OBVIOUS
  <2>5. \/ toHelper = <<>> \/ toHelper = <<"describe">>
        \/ toHelper = <<"decline">> \/ toHelper = <<"consent">>
    BY DEF DepInv, DepTypes
  <2>1. toHelper \in Seq({"describe", "decline", "consent"}) /\ Len(toHelper) <= 1
    <3>1. CASE toHelper = <<>>
      BY <3>1, <2>4
    <3>2. CASE toHelper # <<>>
      <4>1. PICK x \in {"describe", "decline", "consent"} : toHelper = <<x>>
        BY <3>2, <2>5
      <4> QED
        BY <4>1, <2>3
    <3> QED
      BY <3>1, <3>2
  <2>2. DepTypeOK
    BY <2>1 DEF DepInv, DepTypes, DepTypeOK, ProjectState
  <2> QED
    BY <2>2 DEF DepInv, DepSound, Agreed, NothingBeforeConsent
<1> QED
  BY <1>1, DepInvariance, PTL

\* add and finish: what the user wrote is kept, unless it was written between the last look at
\* the manifest and the rename, and the session is given up only for an artifact that was
\* probed by a helper that ended well.
THEOREM TransitionKeepsUser == DepSpec => UserKept
<1> DEFINE E == helper = "rename" /\ helper' = "lock" =>
                    depProject.manifest \subseteq depProject'.manifest \/ "rename" \in raced
           G == (session \in Live /\ session' \notin Live) =>
                    /\ helper = "exit0" /\ ~reported
                    /\ next = probed /\ InPlace(probed.roster) = probed
<1>1. DepInv /\ [DepNext]_depVars => E
  <2> SUFFICES ASSUME DepInv, [DepNext]_depVars, helper = "rename", helper' = "lock"
               PROVE  depProject.manifest \subseteq depProject'.manifest \/ "rename" \in raced
    OBVIOUS
  <2>1. DepRename
    <3>1. ~SessionStep /\ ~EditManifest /\ ~ReplaceArtifact /\ ~OtherCommand /\ ~DepRest
      BY DEF SessionStep, DepRequest, ReceiveDescription, DepAnswer, ReceiveFailure, ReceiveReady,
         DepFinish, Commit, DepGiveUp, Terminate, Dropped, Close, Restart, DepExec, Ended,
         EditManifest, ReplaceArtifact, OtherCommand, DepWorld, DepRest, depVars
    <3>2. HelperStep
      BY <3>1 DEF DepNext, depVars
    <3> QED
      BY <3>2 DEF HelperStep, DepStep, Describe, ReadAnswer, ReadTail, Redescribe, DepOpen, Recheck,
         Author, Publish, Lock, Build, Prepare, Probe, DepAgain, Conclude, Fails, Report
  <2>2. depProject'.manifest = snapshot \cup Want
    BY <2>1 DEF DepRename, DepInv, DepTypes, ProjectState
  <2>3. depProject.manifest = snapshot \/ "rename" \in raced
    BY DEF DepInv, Windows
  <2> QED
    BY <2>2, <2>3
<1>2. DepInv /\ [DepNext]_depVars => G
  <2> SUFFICES ASSUME DepInv, [DepNext]_depVars, session \in Live, session' \notin Live
               PROVE  /\ helper = "exit0" /\ ~reported
                      /\ next = probed /\ InPlace(probed.roster) = probed
    OBVIOUS
  <2>1. Commit /\ session' = "committed"
    <3>1. ~HelperStep /\ ~EditManifest /\ ~ReplaceArtifact /\ ~OtherCommand /\ ~DepRest
      BY DEF HelperStep, Describe, ReadAnswer, ReadTail, Redescribe, DepOpen, Recheck, Author, Publish,
         DepRename, Lock, Build, Prepare, Probe, DepAgain, Conclude, Fails, Report, Quietly,
         EditManifest, ReplaceArtifact, OtherCommand, DepWorld, DepRest, depVars
    <3>2. SessionStep
      BY <3>1 DEF DepNext, depVars
    <3> QED
      BY <3>2 DEF SessionStep, DepRequest, ReceiveDescription, DepAnswer, Consent, Decline,
         ReceiveFailure, ReceiveReady, DepFinish, Commit, DepGiveUp, Terminate, Dropped, Close,
         Restart, DepExec, Live, Waiting
  <2> QED
    BY <2>1 DEF Commit, DepFinished, DepInv, Promised
<1> QED
  BY <1>1, <1>2, DepInvariance, PTL DEF UserKept, EditsKept, GivenUpForReady, DepSpec

(***************************************************************************)
(* AssemblyCache                                                           *)
(*                                                                         *)
(* The invariant says what each command knows while it holds the lock of   *)
(* the key (Works, Removal) and what a loss of power may leave of a tree   *)
(* (Trees); Backed is kept apart, for it holds only where removers are not *)
(* killed or the power is not lost.                                        *)
(***************************************************************************)

Building == {"locked", "build", "built", "installed", "durable", "published", "attach", "attached"}
Erasing == {"rename", "syncEntries", "syncPending", "erase", "eraseReady", "unlink"}
DiskType == [place : SUBSET Place, art : SUBSET SUBSET Digest, ready : SUBSET (Digest \cup {None})]

CacheTypes ==
    /\ place \in [Tree -> Place] /\ art \in [Tree -> SUBSET Digest]
    /\ ready \in [Tree -> Digest \cup {None}] /\ disk \in [Tree -> DiskType]
    /\ \A i \in Tree :
        place[i] \in disk[i].place /\ art[i] \in disk[i].art /\ ready[i] \in disk[i].ready
    /\ lock \in Project \cup Remover \cup {None} /\ changed \in BOOLEAN
    /\ edited \subseteq Project /\ start \subseteq Project
    /\ known \in [Project -> Digest \cup {None}]
    /\ receipt \in [Project -> Receipts \cup {None}]
    /\ pc \in [Project \cup Remover -> {"idle", "waiting", "selected"} \cup Building \cup Erasing]
    /\ \A x \in ran : x.digest \in Good /\ x.current

\* The lock of the key is held from Acquire to the receipt, and from Remove or Resume on.
LockHeld(a) ==
    /\ lock = a <=> pc[a] \in Building \cup Erasing
    /\ a \in Project => pc[a] \notin Erasing
    /\ a \in Remover => pc[a] \in {"idle"} \cup Erasing

\* The key is under entries/ and removing/ at most once each; what is not ready was never.
Trees ==
    /\ \A i, j \in Tree : place[i] = place[j] /\ place[i] # "none" => i = j
    /\ \A i \in Tree : place[i] = "none" => ready[i] = None
    /\ \A i \in Tree : place[i] # "pending" /\ ready[i] = None => disk[i].ready = {None}
    /\ \A i \in Tree : disk[i].ready \subseteq Good \cup {None}

\* What a builder, and a launch, knows.
Works(p) ==
    /\ changed \/ known[p] \in Good \cup {None}
    /\ receipt[p] # None => receipt[p].digest \in Good
    /\ pc[p] \in {"attached", "selected"} => known[p] \in Good
    /\ pc[p] \in {"build", "built", "installed", "durable"} => \A i \in Visible : ready[i] = None
    /\ pc[p] = "built" => known[p] \in Digest
    /\ pc[p] \in {"installed", "durable"} => \A i \in Visible : known[p] \in art[i]
    /\ pc[p] = "durable" => \A i \in Visible : disk[i].art = {art[i]}
    /\ pc[p] = "selected" => receipt[p] # None /\ (receipt[p].edited <=> p \notin start)

\* What a remover knows.
Removal(r) ==
    /\ pc[r] = "rename" => Pending = {}
    /\ pc[r] = "unlink" => \A i \in Pending : ready[i] = None /\ disk[i].ready = {None}

CacheInv ==
    /\ CacheTypes /\ Trees
    /\ \A a \in Project \cup Remover : LockHeld(a)
    /\ \A p \in Project : Works(p)
    /\ \A r \in Remover : Removal(r)

\* Removers are not killed, or the power is not lost.
OneFault == "crash" \notin Faults \/ "power" \notin Faults

\* An entry that a loss of power may leave under entries/ is backed, whatever it leaves of
\* its files, and what is pending cannot come back once entries/ was synced.
Backed ==
    /\ ReadyBacked
    /\ "power" \in Faults =>
        \A i \in Tree :
            /\ "visible" \in disk[i].place =>
                \A a \in disk[i].art, d \in disk[i].ready : d # None => d \in a
            /\ i \in Pending /\ "visible" \in disk[i].place =>
                \E r \in Remover : pc[r] = "syncEntries"

\* A step that keeps it.
KeepsBacked == OneFault /\ Backed => Backed'

----------------------------------------------------------------------------

\* The files of one tree change on the disk, those of the others stay.
LEMMA OneDisk ==
    ASSUME disk \in [Tree -> DiskType], NEW i \in Tree, NEW x \in DiskType,
           disk' = [disk EXCEPT ![i] = x]
    PROVE  disk' \in [Tree -> DiskType] /\ disk'[i] = x /\ \A j \in Tree \ {i} : disk'[j] = disk[j]
  OBVIOUS

\* One field of a tree on the disk.
LEMMA DiskFields ==
    ASSUME NEW d \in DiskType, NEW x
    PROVE  /\ [d EXCEPT !.place = x] = [place |-> x, art |-> d.art, ready |-> d.ready]
           /\ [d EXCEPT !.art = x] = [place |-> d.place, art |-> x, ready |-> d.ready]
           /\ [d EXCEPT !.ready = x] = [place |-> d.place, art |-> d.art, ready |-> x]
  BY DEF DiskType

\* A change of where a tree may be.
LEMMA DiskPlace ==
    ASSUME disk \in [Tree -> DiskType], NEW i \in Tree, NEW x \in SUBSET Place,
           disk' = [disk EXCEPT ![i].place = x]
    PROVE  /\ disk' \in [Tree -> DiskType] /\ \A j \in Tree \ {i} : disk'[j] = disk[j]
           /\ disk'[i].place = x /\ disk'[i].art = disk[i].art /\ disk'[i].ready = disk[i].ready
<1> DEFINE d == [place |-> x, art |-> disk[i].art, ready |-> disk[i].ready]
<1>1. d \in DiskType /\ disk[i] \in DiskType
  BY DEF DiskType
<1>2. disk' = [disk EXCEPT ![i] = d]
  BY <1>1, DiskFields
<1>3. disk' \in [Tree -> DiskType] /\ disk'[i] = d /\ \A j \in Tree \ {i} : disk'[j] = disk[j]
  BY <1>1, <1>2, OneDisk
<1> QED
  BY <1>3

\* A change of what may be in its artifacts/.
LEMMA DiskArt ==
    ASSUME disk \in [Tree -> DiskType], NEW i \in Tree, NEW x \in SUBSET SUBSET Digest,
           disk' = [disk EXCEPT ![i].art = x]
    PROVE  /\ disk' \in [Tree -> DiskType] /\ \A j \in Tree \ {i} : disk'[j] = disk[j]
           /\ disk'[i].place = disk[i].place /\ disk'[i].art = x /\ disk'[i].ready = disk[i].ready
<1> DEFINE d == [place |-> disk[i].place, art |-> x, ready |-> disk[i].ready]
<1>1. d \in DiskType /\ disk[i] \in DiskType
  BY DEF DiskType
<1>2. disk' = [disk EXCEPT ![i] = d]
  BY <1>1, DiskFields
<1>3. disk' \in [Tree -> DiskType] /\ disk'[i] = d /\ \A j \in Tree \ {i} : disk'[j] = disk[j]
  BY <1>1, <1>2, OneDisk
<1> QED
  BY <1>3

\* A change of what its ready.json may say.
LEMMA DiskReady ==
    ASSUME disk \in [Tree -> DiskType], NEW i \in Tree, NEW x \in SUBSET (Digest \cup {None}),
           disk' = [disk EXCEPT ![i].ready = x]
    PROVE  /\ disk' \in [Tree -> DiskType] /\ \A j \in Tree \ {i} : disk'[j] = disk[j]
           /\ disk'[i].place = disk[i].place /\ disk'[i].art = disk[i].art /\ disk'[i].ready = x
<1> DEFINE d == [place |-> disk[i].place, art |-> disk[i].art, ready |-> x]
<1>1. d \in DiskType /\ disk[i] \in DiskType
  BY DEF DiskType
<1>2. disk' = [disk EXCEPT ![i] = d]
  BY <1>1, DiskFields
<1>3. disk' \in [Tree -> DiskType] /\ disk'[i] = d /\ \A j \in Tree \ {i} : disk'[j] = disk[j]
  BY <1>1, <1>2, OneDisk
<1> QED
  BY <1>3

\* create_dir of an entry: its place and an empty artifacts/ are not synced yet.
LEMMA DiskTwo ==
    ASSUME disk \in [Tree -> DiskType], NEW i \in Tree, NEW X \in SUBSET Place,
           NEW Y \in SUBSET SUBSET Digest,
           disk' = [disk EXCEPT ![i].place = @ \cup X, ![i].art = @ \cup Y]
    PROVE  /\ disk' \in [Tree -> DiskType] /\ \A j \in Tree \ {i} : disk'[j] = disk[j]
           /\ disk'[i].place = disk[i].place \cup X /\ disk'[i].art = disk[i].art \cup Y
           /\ disk'[i].ready = disk[i].ready
<1> DEFINE d == [place |-> disk[i].place \cup X, art |-> disk[i].art, ready |-> disk[i].ready]
           e == [place |-> disk[i].place \cup X, art |-> disk[i].art \cup Y, ready |-> disk[i].ready]
<1>1. d \in DiskType /\ e \in DiskType /\ disk[i] \in DiskType /\ d.art = disk[i].art
  BY DEF DiskType
<1>2. [disk[i] EXCEPT !.place = @ \cup X] = d
  BY <1>1, DiskFields
<1>3. [d EXCEPT !.art = d.art \cup Y] = e
  BY <1>1, DiskFields
<1>4. disk'[i] = [[disk[i] EXCEPT !.place = @ \cup X] EXCEPT !.art = @ \cup Y]
  OBVIOUS
<1>5. disk' = [j \in Tree |-> disk'[j]] /\ \A j \in Tree \ {i} : disk'[j] = disk[j]
  OBVIOUS
<1>6. disk'[i] = e
  BY <1>2, <1>3, <1>4
<1>7. disk' \in [Tree -> DiskType]
  BY <1>1, <1>5, <1>6
<1> QED
  BY <1>5, <1>6, <1>7

Commands == Project \cup Remover
Labels == {"idle", "waiting", "selected"} \cup Building \cup Erasing

\* One command goes on, and nothing that another one knows is changed.
LEMMA OneCommand ==
    ASSUME CacheInv, NEW a \in Commands, CacheTypes', Trees', UNCHANGED changed,
           \A b \in Commands \ {a} : pc'[b] = pc[b] /\ (lock' = b <=> lock = b),
           \A p \in Project \ {a} :
                known'[p] = known[p] /\ receipt'[p] = receipt[p] /\ (p \in start' <=> p \in start),
           lock = a \/ UNCHANGED files,
           LockHeld(a)', a \in Project => Works(a)', a \in Remover => Removal(a)'
    PROVE  CacheInv'
<1>1. ASSUME NEW b \in Commands \ {a} PROVE LockHeld(b)'
  BY <1>1 DEF CacheInv, LockHeld, Commands
<1>2. ASSUME NEW p \in Project \ {a} PROVE Works(p)'
  <2>0. Works(p) /\ LockHeld(p) /\ pc'[p] = pc[p] /\ known'[p] = known[p] /\ receipt'[p] = receipt[p]
        /\ (p \in start' <=> p \in start)
    BY <1>2 DEF CacheInv, Commands
  <2>1. CASE lock = a
    <3>1. pc[p] \notin Building
      BY <1>2, <2>0, <2>1 DEF LockHeld
    <3> QED
      BY <2>0, <3>1 DEF Works, Building
  <2>2. CASE UNCHANGED files
    <3>1. Visible' = Visible
      BY <2>2 DEF Visible, files
    <3> QED
      BY <2>0, <2>2, <3>1 DEF Works, files
  <2> QED
    BY <2>1, <2>2
<1>3. ASSUME NEW r \in Remover \ {a} PROVE Removal(r)'
  <2>0. Removal(r) /\ LockHeld(r) /\ pc'[r] = pc[r]
    BY <1>3 DEF CacheInv, Commands
  <2>1. CASE lock = a
    <3>1. pc[r] \notin Erasing
      BY <1>3, <2>0, <2>1 DEF LockHeld
    <3> QED
      BY <2>0, <3>1 DEF Removal, Erasing
  <2>2. CASE UNCHANGED files
    <3>1. Pending' = Pending
      BY <2>2 DEF Pending, files
    <3> QED
      BY <2>0, <2>2, <3>1 DEF Removal, files
  <2> QED
    BY <2>1, <2>2
<1> QED
  BY <1>1, <1>2, <1>3 DEF CacheInv, Commands

\* A command takes its next label, the others keep theirs.
LEMMA CommandGoes ==
    ASSUME CacheTypes, NEW a \in Commands, NEW l \in Labels, Goto(a, l)
    PROVE  /\ pc' \in [Commands -> Labels] /\ pc'[a] = l
           /\ \A b \in Commands \ {a} : pc'[b] = pc[b]
  BY DEF CacheTypes, Goto, Commands, Labels

\* A command that leaves the files alone.
LEMMA FilesKept ==
    ASSUME CacheInv, UNCHANGED files
    PROVE  /\ Trees' /\ Visible' = Visible /\ Pending' = Pending
           /\ UNCHANGED <<place, art, ready, disk>>
  BY DEF files, CacheInv, Trees, Visible, Pending

----------------------------------------------------------------------------
(* build, up to a miss *)

\* The build reads the lock and removes the old receipt.
LEMMA StartHolds ==
    ASSUME CacheInv, NEW p \in Project, Start(p) PROVE CacheInv'
<1> USE DEF Start
<1>0. /\ Trees' /\ Visible' = Visible /\ Pending' = Pending /\ UNCHANGED <<place, art, ready, disk>>
      /\ p \in Commands /\ p \notin Remover
  BY FilesKept, CacheAssumption DEF Commands
<1>1. pc' \in [Commands -> Labels] /\ pc'[p] = "waiting" /\ \A b \in Commands \ {p} : pc'[b] = pc[b]
  BY <1>0, CommandGoes DEF CacheInv, Labels
<1>2. /\ receipt' \in [Project -> Receipts \cup {None}] /\ receipt'[p] = None
      /\ \A q \in Project \ {p} : receipt'[q] = receipt[q]
  BY DEF CacheInv, CacheTypes
<1>3. start' \subseteq Project /\ \A q \in Project \ {p} : q \in start' <=> q \in start
  BY DEF CacheInv, CacheTypes
<1>4. CacheTypes'
  BY <1>0, <1>1, <1>2, <1>3 DEF CacheInv, CacheTypes, Commands, Labels
<1>5. LockHeld(p)'
  BY <1>0, <1>1 DEF CacheInv, LockHeld, Building, Erasing, Commands
<1>6. Works(p)'
  BY <1>1, <1>2 DEF CacheInv, Works
<1> QED
  BY <1>0, <1>1, <1>2, <1>3, <1>4, <1>5, <1>6, OneCommand

\* acquire takes the lock of the key.
LEMMA AcquireHolds ==
    ASSUME CacheInv, NEW p \in Project, Acquire(p) PROVE CacheInv'
<1> USE DEF Acquire, cacheProject
<1>0. /\ Trees' /\ Visible' = Visible /\ Pending' = Pending /\ UNCHANGED <<place, art, ready, disk>>
      /\ p \in Commands /\ p \notin Remover
  BY FilesKept, CacheAssumption DEF Commands
<1>1. pc' \in [Commands -> Labels] /\ pc'[p] = "locked" /\ \A b \in Commands \ {p} : pc'[b] = pc[b]
  BY <1>0, CommandGoes DEF CacheInv, Labels, Building
<1>2. \A b \in Commands \ {p} : lock' # b /\ lock # b
  BY CacheAssumption DEF Commands
<1>4. CacheTypes'
  BY <1>0, <1>1 DEF CacheInv, CacheTypes, Commands, Labels
<1>5. LockHeld(p)'
  BY <1>0, <1>1 DEF LockHeld, Building, Erasing
<1>6. Works(p)'
  BY <1>1 DEF CacheInv, Works
<1> QED
  BY <1>0, <1>1, <1>2, <1>4, <1>5, <1>6, OneCommand

\* The entry is there and ready.
LEMMA HitHolds ==
    ASSUME CacheInv, NEW p \in Project, Hit(p) PROVE CacheInv'
<1> USE DEF Hit, cacheProject
<1>0. /\ Trees' /\ Visible' = Visible /\ Pending' = Pending /\ UNCHANGED <<place, art, ready, disk>>
      /\ p \in Commands /\ p \notin Remover
  BY FilesKept, CacheAssumption DEF Commands
<1>1. pc' \in [Commands -> Labels] /\ pc'[p] = "attach" /\ \A b \in Commands \ {p} : pc'[b] = pc[b]
  BY <1>0, CommandGoes DEF CacheInv, Labels, Building
<1>4. CacheTypes'
  BY <1>0, <1>1 DEF CacheInv, CacheTypes, Commands, Labels
<1>5. LockHeld(p)'
  BY <1>0, <1>1 DEF CacheInv, LockHeld, Building, Erasing, Commands
<1>6. Works(p)'
  BY <1>1 DEF CacheInv, Works
<1> QED
  BY <1>0, <1>1, <1>4, <1>5, <1>6, OneCommand

\* Cargo builds, from the inputs as they are.
LEMMA CargoHolds ==
    ASSUME CacheInv, NEW p \in Project, Cargo(p) PROVE CacheInv'
<1> USE DEF Cargo, cacheProject
<1>0. /\ Trees' /\ Visible' = Visible /\ Pending' = Pending /\ UNCHANGED <<place, art, ready, disk>>
      /\ p \in Commands /\ p \notin Remover
  BY FilesKept, CacheAssumption DEF Commands
<1>1. pc' \in [Commands -> Labels] /\ pc'[p] = "built" /\ \A b \in Commands \ {p} : pc'[b] = pc[b]
  BY <1>0, CommandGoes DEF CacheInv, Labels, Building
<1>2. PICK d \in (IF changed THEN Digest ELSE Good) : known' = [known EXCEPT ![p] = d]
  OBVIOUS
<1>3. d \in Digest /\ (changed \/ d \in Good)
  BY <1>2 DEF Digest
<1>4. /\ known' \in [Project -> Digest \cup {None}] /\ known'[p] = d
      /\ \A q \in Project \ {p} : known'[q] = known[q]
  BY <1>2, <1>3 DEF CacheInv, CacheTypes
<1>5. CacheTypes'
  BY <1>0, <1>1, <1>4 DEF CacheInv, CacheTypes, Commands, Labels
<1>6. LockHeld(p)'
  BY <1>0, <1>1 DEF CacheInv, LockHeld, Building, Erasing, Commands
<1>7. Works(p)'
  BY <1>0, <1>1, <1>3, <1>4 DEF CacheInv, Works
<1> QED
  BY <1>0, <1>1, <1>4, <1>5, <1>6, <1>7, OneCommand

\* The digest of ready.json is attached once its artifact is hashed.
LEMMA AttachHolds ==
    ASSUME CacheInv, NEW p \in Project, Attach(p) PROVE CacheInv'
<1> USE DEF Attach, cacheProject
<1>0. /\ Trees' /\ Visible' = Visible /\ Pending' = Pending /\ UNCHANGED <<place, art, ready, disk>>
      /\ p \in Commands /\ p \notin Remover
  BY FilesKept, CacheAssumption DEF Commands
<1>1. pc' \in [Commands -> Labels] /\ pc'[p] = "attached" /\ \A b \in Commands \ {p} : pc'[b] = pc[b]
  BY <1>0, CommandGoes DEF CacheInv, Labels, Building
<1>2. PICK i \in Visible : ready[i] \in art[i] /\ known' = [known EXCEPT ![p] = ready[i]]
  OBVIOUS
<1>3. ready[i] \in Good
  <2>1. i \in Tree /\ ready[i] \in disk[i].ready /\ disk[i].ready \subseteq Good \cup {None}
    BY DEF Visible, CacheInv, CacheTypes, Trees
  <2>2. art[i] \subseteq Digest /\ None \notin Digest
    BY <2>1, CacheAssumption DEF CacheInv, CacheTypes, Digest
  <2> QED
    BY <1>2, <2>1, <2>2
<1>4. /\ known' \in [Project -> Digest \cup {None}] /\ known'[p] = ready[i]
      /\ \A q \in Project \ {p} : known'[q] = known[q]
  BY <1>2, <1>3 DEF CacheInv, CacheTypes, Digest
<1>5. CacheTypes'
  BY <1>0, <1>1, <1>4 DEF CacheInv, CacheTypes, Commands, Labels
<1>6. LockHeld(p)'
  BY <1>0, <1>1 DEF CacheInv, LockHeld, Building, Erasing, Commands
<1>7. Works(p)'
  BY <1>0, <1>1, <1>3, <1>4 DEF CacheInv, Works
<1> QED
  BY <1>0, <1>1, <1>4, <1>5, <1>6, <1>7, OneCommand

\* A project that ends gives up its lock, if it has it.
LEMMA ProjectEnds ==
    ASSUME CacheInv, NEW p \in Project, Goto(p, "idle"), UNCHANGED <<files, changed, edited, start>>,
           lock' = IF lock = p THEN None ELSE lock, known' = [known EXCEPT ![p] = None],
           receipt' \in [Project -> Receipts \cup {None}],
           \A q \in Project \ {p} : receipt'[q] = receipt[q],
           receipt'[p] # None => receipt'[p].digest \in Good,
           \A x \in ran' : x.digest \in Good /\ x.current
    PROVE  CacheInv'
<1>0. /\ Trees' /\ Visible' = Visible /\ Pending' = Pending /\ UNCHANGED <<place, art, ready, disk>>
      /\ p \in Commands /\ p \notin Remover
  BY FilesKept, CacheAssumption DEF Commands
<1>1. pc' \in [Commands -> Labels] /\ pc'[p] = "idle" /\ \A b \in Commands \ {p} : pc'[b] = pc[b]
  BY <1>0, CommandGoes DEF CacheInv, Labels
<1>2. /\ known' \in [Project -> Digest \cup {None}] /\ known'[p] = None
      /\ \A q \in Project \ {p} : known'[q] = known[q]
  BY DEF CacheInv, CacheTypes
<1>3. lock' \in Project \cup Remover \cup {None} /\ \A b \in Commands \ {p} : lock' = b <=> lock = b
  BY CacheAssumption DEF CacheInv, CacheTypes, Commands
<1>4. CacheTypes'
  BY <1>0, <1>1, <1>2, <1>3 DEF CacheInv, CacheTypes, Commands, Labels
<1>5. LockHeld(p)'
  BY <1>0, <1>1, CacheAssumption DEF LockHeld, Building, Erasing
<1>6. Works(p)'
  BY <1>1, <1>2 DEF Works
<1> QED
  BY <1>0, <1>1, <1>2, <1>3, <1>4, <1>5, <1>6, OneCommand

\* The receipt is written and the lock given up.
LEMMA CacheFinishHolds ==
    ASSUME CacheInv, NEW p \in Project, CacheFinish(p) PROVE CacheInv'
<1> USE DEF CacheFinish
<1>1. lock = p /\ known[p] \in Good
  BY DEF CacheInv, LockHeld, Works, Building
<1> DEFINE x == [digest |-> known[p], edited |-> p \notin start]
<1>2. x \in Receipts /\ x.digest \in Good
  <2>1. (p \notin start) \in BOOLEAN
    OBVIOUS
  <2> QED
    BY <1>1, <2>1 DEF Receipts, Digest
<1>3. receipt' = [receipt EXCEPT ![p] = x]
  OBVIOUS
<1> HIDE DEF x
<1>4. /\ receipt' \in [Project -> Receipts \cup {None}] /\ receipt'[p] = x
      /\ \A q \in Project \ {p} : receipt'[q] = receipt[q]
  BY <1>2, <1>3 DEF CacheInv, CacheTypes
<1>5. \A y \in ran' : y.digest \in Good /\ y.current
  BY DEF CacheInv, CacheTypes
<1> QED
  BY <1>1, <1>2, <1>4, <1>5, ProjectEnds

\* The build ends with an error, or its process is killed.
LEMMA FailHolds ==
    ASSUME CacheInv, NEW p \in Project, Fail(p) PROVE CacheInv'
<1> USE DEF Fail, cacheProject
<1>1. receipt' \in [Project -> Receipts \cup {None}]
        /\ (receipt'[p] # None => receipt'[p].digest \in Good)
  BY DEF CacheInv, CacheTypes, Works
<1>2. \A y \in ran' : y.digest \in Good /\ y.current
  BY DEF CacheInv, CacheTypes
<1> QED
  BY <1>1, <1>2, ProjectEnds

----------------------------------------------------------------------------
(* launch *)

\* A launch reads its receipt.
LEMMA SelectHolds ==
    ASSUME CacheInv, NEW p \in Project, Select(p) PROVE CacheInv'
<1> USE DEF Select
<1>0. /\ Trees' /\ Visible' = Visible /\ Pending' = Pending /\ UNCHANGED <<place, art, ready, disk>>
      /\ p \in Commands /\ p \notin Remover
  BY FilesKept, CacheAssumption DEF Commands
<1>1. pc' \in [Commands -> Labels] /\ pc'[p] = "selected" /\ \A b \in Commands \ {p} : pc'[b] = pc[b]
  BY <1>0, CommandGoes DEF CacheInv, Labels
<1>2. receipt[p] # None /\ receipt[p].digest \in Good
  BY DEF CacheInv, Works
<1>3. /\ known' \in [Project -> Digest \cup {None}] /\ known'[p] \in Good
      /\ \A q \in Project \ {p} : known'[q] = known[q]
  BY <1>2 DEF CacheInv, CacheTypes, Digest
<1>4. /\ start' \subseteq Project /\ \A q \in Project \ {p} : q \in start' <=> q \in start
      /\ p \in start' <=> p \notin edited
  BY DEF CacheInv, CacheTypes
<1>5. CacheTypes'
  BY <1>0, <1>1, <1>3, <1>4 DEF CacheInv, CacheTypes, Commands, Labels
<1>6. LockHeld(p)'
  BY <1>0, <1>1 DEF CacheInv, LockHeld, Building, Erasing, Commands
<1>7. Works(p)'
  <2>1. receipt'[p].edited <=> p \notin start'
    BY <1>4
  <2> QED
    BY <1>1, <1>2, <1>3, <2>1 DEF Works
<1> QED
  BY <1>0, <1>1, <1>3, <1>4, <1>5, <1>6, <1>7, OneCommand

\* A launch executes what it checked.
LEMMA ExecuteHolds ==
    ASSUME CacheInv, NEW p \in Project, Execute(p) PROVE CacheInv'
<1> USE DEF Execute
<1> DEFINE x == [digest |-> known[p], current |-> receipt[p].edited = (p \notin start)]
<1>1. known[p] \in Good /\ receipt[p] # None /\ (receipt[p].edited <=> p \notin start)
  BY DEF CacheInv, Works
<1>2. receipt[p].edited \in BOOLEAN
  BY <1>1 DEF CacheInv, CacheTypes, Receipts
<1>3. receipt[p].edited = (p \notin start)
  BY <1>1, <1>2
<1>4. x.digest \in Good /\ x.current
  BY <1>1, <1>3
<1>5. ran' = ran \cup {x}
  OBVIOUS
<1> HIDE DEF x
<1>6. \A y \in ran' : y.digest \in Good /\ y.current
  BY <1>4, <1>5 DEF CacheInv, CacheTypes
<1>7. receipt' \in [Project -> Receipts \cup {None}]
        /\ (receipt'[p] # None => receipt'[p].digest \in Good)
  BY DEF CacheInv, CacheTypes, Works
<1>8. lock # p
  BY CacheAssumption DEF CacheInv, LockHeld, Building, Erasing
<1> QED
  BY <1>6, <1>7, <1>8, ProjectEnds

\* Backed, tree by tree, in the new state.
LEMMA BackedAgain ==
    ASSUME \A i \in Tree : i \in Visible' => (ready'[i] # None => ready'[i] \in art'[i]),
           "power" \in Faults => \A i \in Tree :
                /\ "visible" \in disk'[i].place =>
                    \A a \in disk'[i].art, d \in disk'[i].ready : d # None => d \in a
                /\ i \in Pending' /\ "visible" \in disk'[i].place =>
                    \E r \in Remover : pc'[r] = "syncEntries"
    PROVE  Backed'
<1>1. ReadyBacked'
  BY DEF ReadyBacked, Visible
<1> QED
  BY <1>1 DEF Backed

----------------------------------------------------------------------------
(* A miss: the entry is built. *)

\* What is in entries/ or removing/ for the key.
LEMMA OnePlace ==
    ASSUME CacheInv, NEW i \in Tree, NEW j \in Tree
    PROVE  (i \in Visible /\ j \in Visible) \/ (i \in Pending /\ j \in Pending) => i = j
  BY DEF CacheInv, Trees, Visible, Pending

\* The entry is not there or not ready: it is made anew.
LEMMA MissHolds ==
    ASSUME CacheInv, NEW p \in Project, Miss(p) PROVE CacheInv' /\ KeepsBacked
<1> USE DEF Miss, cacheProject
<1>0. p \in Commands /\ p \notin Remover /\ lock = p
  BY CacheAssumption DEF Commands, CacheInv, LockHeld, Building
<1>1. pc' \in [Commands -> Labels] /\ pc'[p] = "build" /\ \A b \in Commands \ {p} : pc'[b] = pc[b]
  BY <1>0, CommandGoes DEF CacheInv, Labels, Building
<1>2. PICK i \in Tree :
        /\ (i \in Visible /\ ready[i] = None) \/ (Visible = {} /\ place[i] = "none")
        /\ place' = [place EXCEPT ![i] = "visible"]
        /\ art' = [art EXCEPT ![i] = {}]
        /\ disk' = [disk EXCEPT ![i].place = @ \cup {"visible"}, ![i].art = @ \cup {{}}]
  OBVIOUS
<1>3. /\ place \in [Tree -> Place] /\ art \in [Tree -> SUBSET Digest] /\ disk \in [Tree -> DiskType]
      /\ disk[i] \in DiskType /\ ready[i] = None /\ place[i] # "pending" /\ disk[i].ready = {None}
  BY <1>2 DEF CacheInv, CacheTypes, Trees, Visible
<1>4. /\ place' \in [Tree -> Place] /\ place'[i] = "visible"
           /\ \A j \in Tree \ {i} : place'[j] = place[j]
      /\ art' \in [Tree -> SUBSET Digest] /\ art'[i] = {} /\ \A j \in Tree \ {i} : art'[j] = art[j]
  BY <1>2, <1>3 DEF Place
<1>5. /\ disk' \in [Tree -> DiskType] /\ \A j \in Tree \ {i} : disk'[j] = disk[j]
      /\ disk'[i].place = disk[i].place \cup {"visible"} /\ disk'[i].art = disk[i].art \cup {{}}
      /\ disk'[i].ready = disk[i].ready
  <2>1. {"visible"} \in SUBSET Place /\ {{}} \in SUBSET SUBSET Digest
    BY DEF Place
  <2> QED
    BY <1>2, <1>3, <2>1, DiskTwo
<1>6. \A j \in Tree : place'[j] = "visible" <=> j = i
  BY <1>2, <1>4 DEF Visible, CacheInv, Trees
<1>7. Trees'
  <2>1. \A j, k \in Tree : place'[j] = place'[k] /\ place'[j] # "none" => j = k
    BY <1>4, <1>6 DEF CacheInv, Trees
  <2> QED
    BY <1>3, <1>4, <1>5, <2>1 DEF CacheInv, Trees
<1>8. CacheTypes'
  <2>1. \A j \in Tree : place'[j] \in disk'[j].place /\ art'[j] \in disk'[j].art
          /\ ready'[j] \in disk'[j].ready
    BY <1>4, <1>5 DEF CacheInv, CacheTypes
  <2> QED
    BY <1>1, <1>4, <1>5, <2>1 DEF CacheInv, CacheTypes, Commands, Labels
<1>9. LockHeld(p)'
  BY <1>0, <1>1 DEF CacheInv, LockHeld, Building, Erasing, Commands
<1>10. Works(p)'
  BY <1>1, <1>3, <1>6 DEF CacheInv, Works, Visible
<1>11. CacheInv'
  BY <1>0, <1>1, <1>7, <1>8, <1>9, <1>10, OneCommand
<1>12. ASSUME OneFault, Backed PROVE Backed'
  <2>0. \A r \in Remover : pc'[r] = pc[r]
    BY <1>0, <1>1 DEF Commands
  <2>1. \A j \in Tree : j \in Visible' => (ready'[j] # None => ready'[j] \in art'[j])
    BY <1>3, <1>6 DEF Visible
  <2>2. ASSUME "power" \in Faults, NEW j \in Tree
        PROVE  /\ "visible" \in disk'[j].place =>
                    \A a \in disk'[j].art, d \in disk'[j].ready : d # None => d \in a
               /\ j \in Pending' /\ "visible" \in disk'[j].place =>
                    \E r \in Remover : pc'[r] = "syncEntries"
    <3>1. CASE j = i
      BY <1>3, <1>4, <1>5, <3>1 DEF Pending
    <3>2. CASE j # i
      BY <1>4, <1>5, <1>12, <2>0, <2>2, <3>2 DEF Backed, Pending
    <3> QED
      BY <3>1, <3>2
  <2> QED
    BY <2>1, <2>2, BackedAgain
<1> QED
  BY <1>11, <1>12 DEF KeepsBacked

\* The executable is put in artifacts/.
LEMMA InstallHolds ==
    ASSUME CacheInv, NEW p \in Project, Install(p) PROVE CacheInv' /\ KeepsBacked
<1> USE DEF Install, cacheProject
<1>0. p \in Commands /\ p \notin Remover /\ lock = p
  BY CacheAssumption DEF Commands, CacheInv, LockHeld, Building
<1>1. pc' \in [Commands -> Labels] /\ pc'[p] = "installed" /\ \A b \in Commands \ {p} : pc'[b] = pc[b]
  BY <1>0, CommandGoes DEF CacheInv, Labels, Building
<1>2. PICK i \in Visible :
        /\ art' = [art EXCEPT ![i] = @ \cup {known[p]}]
        /\ disk' = [disk EXCEPT ![i].art = @ \cup {art'[i]}]
  OBVIOUS
<1>3. /\ art \in [Tree -> SUBSET Digest] /\ disk \in [Tree -> DiskType] /\ known[p] \in Digest
      /\ i \in Tree /\ disk[i].art \subseteq SUBSET Digest
  BY DEF CacheInv, CacheTypes, Visible, Works, DiskType
<1>4. art' \in [Tree -> SUBSET Digest] /\ art'[i] = art[i] \cup {known[p]}
      /\ \A j \in Tree \ {i} : art'[j] = art[j]
  BY <1>2, <1>3
<1>5. /\ disk' \in [Tree -> DiskType] /\ \A j \in Tree \ {i} : disk'[j] = disk[j]
      /\ disk'[i].place = disk[i].place /\ disk'[i].art = disk[i].art \cup {art'[i]}
      /\ disk'[i].ready = disk[i].ready
  <2>1. disk[i].art \cup {art'[i]} \in SUBSET SUBSET Digest
    BY <1>3, <1>4
  <2>2. disk' = [disk EXCEPT ![i].art = disk[i].art \cup {art'[i]}]
    BY <1>2
  <2> DEFINE x == disk[i].art \cup {art'[i]}
  <2>3. disk \in [Tree -> DiskType] /\ i \in Tree
    BY <1>3
  <2> HIDE DEF x
  <2>4. /\ disk' \in [Tree -> DiskType] /\ \A j \in Tree \ {i} : disk'[j] = disk[j]
        /\ disk'[i].place = disk[i].place /\ disk'[i].art = x /\ disk'[i].ready = disk[i].ready
    <3>1. x \in SUBSET SUBSET Digest /\ disk' = [disk EXCEPT ![i].art = x]
      BY <2>1, <2>2 DEF x
    <3> QED
      BY <2>3, <3>1, DiskArt
  <2> QED
    BY <2>4 DEF x
<1>6. Visible' = Visible
  BY DEF Visible
<1>7. Trees'
  BY <1>5 DEF CacheInv, Trees
<1>8. CacheTypes'
  <2>1. \A j \in Tree : place'[j] \in disk'[j].place /\ art'[j] \in disk'[j].art
          /\ ready'[j] \in disk'[j].ready
    BY <1>4, <1>5 DEF CacheInv, CacheTypes
  <2> QED
    BY <1>1, <1>4, <1>5, <2>1 DEF CacheInv, CacheTypes, Commands, Labels
<1>9. LockHeld(p)'
  BY <1>0, <1>1 DEF CacheInv, LockHeld, Building, Erasing, Commands
<1>10. Works(p)'
  <2>1. \A j \in Visible : j = i
    BY DEF CacheInv, Trees, Visible
  <2> QED
    BY <1>1, <1>4, <1>6, <2>1 DEF CacheInv, Works
<1>11. CacheInv'
  BY <1>0, <1>1, <1>7, <1>8, <1>9, <1>10, OneCommand
<1>12. ASSUME OneFault, Backed PROVE Backed'
  <2>0. \A r \in Remover : pc'[r] = pc[r]
    BY <1>0, <1>1 DEF Commands
  <2>a. ready[i] = None /\ disk[i].ready = {None} /\ place[i] = "visible"
    BY DEF CacheInv, Trees, Works, Visible
  <2>1. \A j \in Tree : j \in Visible' => (ready'[j] # None => ready'[j] \in art'[j])
    BY <1>4, <1>6, <1>12, <2>a DEF Backed, ReadyBacked
  <2>2. ASSUME "power" \in Faults, NEW j \in Tree
        PROVE  /\ "visible" \in disk'[j].place =>
                    \A a \in disk'[j].art, d \in disk'[j].ready : d # None => d \in a
               /\ j \in Pending' /\ "visible" \in disk'[j].place =>
                    \E r \in Remover : pc'[r] = "syncEntries"
    <3>1. CASE j = i
      BY <1>5, <2>a, <3>1 DEF Pending
    <3>2. CASE j # i
      BY <1>5, <1>12, <2>0, <2>2, <3>2 DEF Backed, Pending
    <3> QED
      BY <3>1, <3>2
  <2> QED
    BY <2>1, <2>2, BackedAgain
<1> QED
  BY <1>11, <1>12 DEF KeepsBacked

\* A sync of every visible tree.
LEMMA SyncArtifactsHolds ==
    ASSUME CacheInv, NEW p \in Project, SyncArtifacts(p) PROVE CacheInv' /\ KeepsBacked
<1> USE DEF SyncArtifacts, cacheProject
<1>0. p \in Commands /\ p \notin Remover /\ lock = p
  BY CacheAssumption DEF Commands, CacheInv, LockHeld, Building
<1>1. pc' \in [Commands -> Labels] /\ pc'[p] = "durable" /\ \A b \in Commands \ {p} : pc'[b] = pc[b]
  BY <1>0, CommandGoes DEF CacheInv, Labels, Building
<1>2. art \in [Tree -> SUBSET Digest] /\ disk \in [Tree -> DiskType]
  BY DEF CacheInv, CacheTypes
<1>3. ASSUME NEW i \in Tree
      PROVE  /\ disk'[i] \in DiskType
             /\ disk'[i].place = disk[i].place /\ disk'[i].ready = disk[i].ready
             /\ disk'[i].art = IF i \in Visible THEN {art[i]} ELSE disk[i].art
  <2>1. [disk[i] EXCEPT !.art = {art[i]}] = [place |-> disk[i].place, art |-> {art[i]}, ready |-> disk[i].ready]
    BY <1>2, DiskFields
  <2>2. [place |-> disk[i].place, art |-> {art[i]}, ready |-> disk[i].ready] \in DiskType
    BY <1>2 DEF DiskType
  <2> QED
    BY <1>2, <2>1, <2>2
<1>4. disk' \in [Tree -> DiskType]
  BY <1>3
<1>6. Visible' = Visible
  BY DEF Visible
<1>7. Trees'
  BY <1>3 DEF CacheInv, Trees
<1>8. CacheTypes'
  <2>1. \A j \in Tree : place'[j] \in disk'[j].place /\ art'[j] \in disk'[j].art
          /\ ready'[j] \in disk'[j].ready
    BY <1>3 DEF CacheInv, CacheTypes
  <2> QED
    BY <1>1, <1>4, <2>1 DEF CacheInv, CacheTypes, Commands, Labels
<1>9. LockHeld(p)'
  BY <1>0, <1>1 DEF CacheInv, LockHeld, Building, Erasing, Commands
<1>10. Works(p)'
  <2>1. \A i \in Visible : i \in Tree
    BY DEF Visible
  <2> QED
    BY <1>1, <1>3, <1>6, <2>1 DEF CacheInv, Works
<1>11. CacheInv'
  BY <1>0, <1>1, <1>7, <1>8, <1>9, <1>10, OneCommand
<1>12. ASSUME OneFault, Backed PROVE Backed'
  <2>0. \A r \in Remover : pc'[r] = pc[r]
    BY <1>0, <1>1 DEF Commands
  <2>1. \A j \in Tree : j \in Visible' => (ready'[j] # None => ready'[j] \in art'[j])
    BY <1>12 DEF Backed, ReadyBacked, Visible
  <2>2. ASSUME "power" \in Faults, NEW j \in Tree
        PROVE  /\ "visible" \in disk'[j].place =>
                    \A a \in disk'[j].art, d \in disk'[j].ready : d # None => d \in a
               /\ j \in Pending' /\ "visible" \in disk'[j].place =>
                    \E r \in Remover : pc'[r] = "syncEntries"
    <3>1. disk'[j].place = disk[j].place /\ disk'[j].art \subseteq disk[j].art
            /\ disk'[j].ready \subseteq disk[j].ready
      BY <1>3 DEF CacheInv, CacheTypes
    <3>2. Pending' = Pending
      BY DEF Pending
    <3> QED
      BY <1>12, <2>0, <2>2, <3>1, <3>2 DEF Backed
  <2> QED
    BY <2>1, <2>2, BackedAgain
<1> QED
  BY <1>11, <1>12 DEF KeepsBacked

\* ready.json is renamed into place.
LEMMA PublishReadyHolds ==
    ASSUME CacheInv, NEW p \in Project, PublishReady(p) PROVE CacheInv' /\ KeepsBacked
<1> USE DEF PublishReady, cacheProject
<1>0. p \in Commands /\ p \notin Remover /\ lock = p
  BY CacheAssumption DEF Commands, CacheInv, LockHeld, Building
<1>1. pc' \in [Commands -> Labels] /\ pc'[p] = "published" /\ \A b \in Commands \ {p} : pc'[b] = pc[b]
  BY <1>0, CommandGoes DEF CacheInv, Labels, Building
<1>2. PICK i \in Visible :
        /\ ready' = [ready EXCEPT ![i] = known[p]]
        /\ disk' = [disk EXCEPT ![i].ready = @ \cup {known[p]}]
  OBVIOUS
<1>3. /\ ready \in [Tree -> Digest \cup {None}] /\ disk \in [Tree -> DiskType] /\ i \in Tree
      /\ disk[i].ready \subseteq Digest \cup {None} /\ art[i] \subseteq Digest /\ place[i] = "visible"
  BY DEF CacheInv, CacheTypes, Visible, DiskType
<1>a. known[p] \in Good /\ known[p] # None /\ known[p] \in Digest
  BY <1>3, CacheAssumption DEF CacheInv, Works, Valid, Digest
<1>4. /\ ready' \in [Tree -> Digest \cup {None}] /\ ready'[i] = known[p]
      /\ \A j \in Tree \ {i} : ready'[j] = ready[j]
  BY <1>2, <1>3, <1>a
<1>5. /\ disk' \in [Tree -> DiskType] /\ \A j \in Tree \ {i} : disk'[j] = disk[j]
      /\ disk'[i].place = disk[i].place /\ disk'[i].art = disk[i].art
      /\ disk'[i].ready = disk[i].ready \cup {known[p]}
  <2>1. disk[i].ready \cup {known[p]} \in SUBSET (Digest \cup {None})
    BY <1>3, <1>a
  <2> QED
    BY <1>2, <1>3, <2>1, DiskReady
<1>7. Trees'
  BY <1>3, <1>4, <1>5, <1>a DEF CacheInv, Trees
<1>8. CacheTypes'
  <2>1. \A j \in Tree : place'[j] \in disk'[j].place /\ art'[j] \in disk'[j].art
          /\ ready'[j] \in disk'[j].ready
    BY <1>4, <1>5 DEF CacheInv, CacheTypes
  <2> QED
    BY <1>1, <1>4, <1>5, <2>1 DEF CacheInv, CacheTypes, Commands, Labels
<1>9. LockHeld(p)'
  BY <1>0, <1>1 DEF CacheInv, LockHeld, Building, Erasing, Commands
<1>10. Works(p)'
  BY <1>1 DEF CacheInv, Works
<1>11. CacheInv'
  BY <1>0, <1>1, <1>7, <1>8, <1>9, <1>10, OneCommand
<1>12. ASSUME OneFault, Backed PROVE Backed'
  <2>0. \A r \in Remover : pc'[r] = pc[r]
    BY <1>0, <1>1 DEF Commands
  <2>a. disk[i].ready = {None} /\ disk[i].art = {art[i]} /\ known[p] \in art[i]
    BY <1>3 DEF CacheInv, Trees, Works
  <2>1. \A j \in Tree : j \in Visible' => (ready'[j] # None => ready'[j] \in art'[j])
    BY <1>4, <1>12, <2>a DEF Backed, ReadyBacked, Visible
  <2>2. ASSUME "power" \in Faults, NEW j \in Tree
        PROVE  /\ "visible" \in disk'[j].place =>
                    \A a \in disk'[j].art, d \in disk'[j].ready : d # None => d \in a
               /\ j \in Pending' /\ "visible" \in disk'[j].place =>
                    \E r \in Remover : pc'[r] = "syncEntries"
    <3>1. CASE j = i
      BY <1>3, <1>5, <2>a, <3>1 DEF Pending
    <3>2. CASE j # i
      BY <1>5, <1>12, <2>0, <2>2, <3>2 DEF Backed, Pending
    <3> QED
      BY <3>1, <3>2
  <2> QED
    BY <2>1, <2>2, BackedAgain
<1> QED
  BY <1>11, <1>12 DEF KeepsBacked

\* The entry is synced, with its ready.json.
LEMMA SyncEntryHolds ==
    ASSUME CacheInv, NEW p \in Project, SyncEntry(p) PROVE CacheInv' /\ KeepsBacked
<1> USE DEF SyncEntry, cacheProject
<1>0. p \in Commands /\ p \notin Remover /\ lock = p
  BY CacheAssumption DEF Commands, CacheInv, LockHeld, Building
<1>1. pc' \in [Commands -> Labels] /\ pc'[p] = "attach" /\ \A b \in Commands \ {p} : pc'[b] = pc[b]
  BY <1>0, CommandGoes DEF CacheInv, Labels, Building
<1>2. ready \in [Tree -> Digest \cup {None}] /\ disk \in [Tree -> DiskType]
  BY DEF CacheInv, CacheTypes
<1>3. ASSUME NEW i \in Tree
      PROVE  /\ disk'[i] \in DiskType
             /\ disk'[i].place = disk[i].place /\ disk'[i].art = disk[i].art
             /\ disk'[i].ready = IF i \in Visible THEN {ready[i]} ELSE disk[i].ready
  <2>1. [disk[i] EXCEPT !.ready = {ready[i]}] = [place |-> disk[i].place, art |-> disk[i].art, ready |-> {ready[i]}]
    BY <1>2, DiskFields
  <2>2. [place |-> disk[i].place, art |-> disk[i].art, ready |-> {ready[i]}] \in DiskType
    BY <1>2 DEF DiskType
  <2> QED
    BY <1>2, <2>1, <2>2
<1>4. disk' \in [Tree -> DiskType]
  BY <1>3
<1>7. Trees'
  <2>1. ASSUME NEW i \in Tree
        PROVE  /\ place'[i] # "pending" /\ ready'[i] = None => disk'[i].ready = {None}
               /\ disk'[i].ready \subseteq Good \cup {None}
    BY <1>3 DEF CacheInv, CacheTypes, Trees
  <2> QED
    BY <2>1 DEF CacheInv, Trees
<1>8. CacheTypes'
  <2>1. \A j \in Tree : place'[j] \in disk'[j].place /\ art'[j] \in disk'[j].art
          /\ ready'[j] \in disk'[j].ready
    BY <1>3 DEF CacheInv, CacheTypes
  <2> QED
    BY <1>1, <1>4, <2>1 DEF CacheInv, CacheTypes, Commands, Labels
<1>9. LockHeld(p)'
  BY <1>0, <1>1 DEF CacheInv, LockHeld, Building, Erasing, Commands
<1>10. Works(p)'
  BY <1>1 DEF CacheInv, Works
<1>11. CacheInv'
  BY <1>0, <1>1, <1>7, <1>8, <1>9, <1>10, OneCommand
<1>12. ASSUME OneFault, Backed PROVE Backed'
  <2>0. \A r \in Remover : pc'[r] = pc[r]
    BY <1>0, <1>1 DEF Commands
  <2>1. \A j \in Tree : j \in Visible' => (ready'[j] # None => ready'[j] \in art'[j])
    BY <1>12 DEF Backed, ReadyBacked, Visible
  <2>2. ASSUME "power" \in Faults, NEW j \in Tree
        PROVE  /\ "visible" \in disk'[j].place =>
                    \A a \in disk'[j].art, d \in disk'[j].ready : d # None => d \in a
               /\ j \in Pending' /\ "visible" \in disk'[j].place =>
                    \E r \in Remover : pc'[r] = "syncEntries"
    <3>1. disk'[j].place = disk[j].place /\ disk'[j].art \subseteq disk[j].art
            /\ disk'[j].ready \subseteq disk[j].ready
      BY <1>3 DEF CacheInv, CacheTypes
    <3>2. Pending' = Pending
      BY DEF Pending
    <3> QED
      BY <1>12, <2>0, <2>2, <3>1, <3>2 DEF Backed
  <2> QED
    BY <2>1, <2>2, BackedAgain
<1> QED
  BY <1>11, <1>12 DEF KeepsBacked

----------------------------------------------------------------------------
(* cache remove *)

\* Remove and Resume take the lock.
LEMMA RemoverLocks ==
    ASSUME CacheInv, NEW r \in Remover, Remove(r) \/ Resume(r) PROVE CacheInv'
<1>a. /\ pc[r] = "idle" /\ lock = None /\ lock' = r /\ UNCHANGED <<files, changed, known, cacheProject>>
      /\ \/ Goto(r, "rename") /\ Pending = {}
         \/ Goto(r, "erase")
  BY DEF Remove, Resume
<1> USE DEF cacheProject
<1>0. /\ Trees' /\ Visible' = Visible /\ Pending' = Pending /\ UNCHANGED <<place, art, ready, disk>>
      /\ r \in Commands /\ r \notin Project
  BY <1>a, FilesKept, CacheAssumption DEF Commands
<1>1. /\ pc' \in [Commands -> Labels] /\ \A b \in Commands \ {r} : pc'[b] = pc[b]
      /\ (pc'[r] = "rename" /\ Pending = {}) \/ pc'[r] = "erase"
  BY <1>0, <1>a, CommandGoes DEF CacheInv, Labels, Erasing
<1>2. \A b \in Commands \ {r} : lock' # b /\ lock # b
  BY <1>a, CacheAssumption DEF Commands
<1>4. CacheTypes'
  BY <1>0, <1>1, <1>a DEF CacheInv, CacheTypes, Commands, Labels
<1>5. LockHeld(r)'
  BY <1>0, <1>1, <1>a DEF LockHeld, Building, Erasing
<1>6. Removal(r)'
  BY <1>0, <1>1 DEF Removal
<1> QED
  BY <1>0, <1>1, <1>2, <1>4, <1>5, <1>6, <1>a, OneCommand

\* The entry is moved from entries/ to removing/.
LEMMA RenameHolds ==
    ASSUME CacheInv, NEW r \in Remover, Rename(r) PROVE CacheInv' /\ KeepsBacked
<1> USE DEF Rename, cacheProject
<1>0. r \in Commands /\ r \notin Project /\ lock = r
  BY CacheAssumption DEF Commands, CacheInv, LockHeld, Erasing
<1>1. pc' \in [Commands -> Labels] /\ pc'[r] = "syncEntries" /\ \A b \in Commands \ {r} : pc'[b] = pc[b]
  BY <1>0, CommandGoes DEF CacheInv, Labels, Erasing
<1>2. PICK i \in Visible :
        /\ place' = [place EXCEPT ![i] = "pending"]
        /\ disk' = [disk EXCEPT ![i].place = @ \cup {"pending", "none"}]
  OBVIOUS
<1>3. /\ place \in [Tree -> Place] /\ disk \in [Tree -> DiskType] /\ i \in Tree /\ Pending = {}
      /\ disk[i].place \cup {"pending", "none"} \in SUBSET Place
  BY DEF CacheInv, CacheTypes, Visible, DiskType, Place, Removal
<1>4. place' \in [Tree -> Place] /\ place'[i] = "pending" /\ \A j \in Tree \ {i} : place'[j] = place[j]
  BY <1>2, <1>3 DEF Place
<1>5. /\ disk' \in [Tree -> DiskType] /\ \A j \in Tree \ {i} : disk'[j] = disk[j]
      /\ disk'[i].place = disk[i].place \cup {"pending", "none"} /\ disk'[i].art = disk[i].art
      /\ disk'[i].ready = disk[i].ready
  BY <1>2, <1>3, DiskPlace
<1>7. Trees'
  <2>1. \A j \in Tree : place[j] # "pending"
    BY <1>3 DEF Pending
  <2> QED
    BY <1>4, <1>5, <2>1 DEF CacheInv, Trees
<1>8. CacheTypes'
  <2>1. \A j \in Tree : place'[j] \in disk'[j].place /\ art'[j] \in disk'[j].art
          /\ ready'[j] \in disk'[j].ready
    BY <1>4, <1>5 DEF CacheInv, CacheTypes
  <2> QED
    BY <1>1, <1>4, <1>5, <2>1 DEF CacheInv, CacheTypes, Commands, Labels
<1>9. LockHeld(r)'
  BY <1>0, <1>1 DEF CacheInv, LockHeld, Building, Erasing, Commands
<1>10. Removal(r)'
  BY <1>1 DEF Removal
<1>11. CacheInv'
  BY <1>0, <1>1, <1>7, <1>8, <1>9, <1>10, OneCommand
<1>12. ASSUME OneFault, Backed PROVE Backed'
  <2>1. \A j \in Tree : j \in Visible' => (ready'[j] # None => ready'[j] \in art'[j])
    BY <1>4, <1>12 DEF Backed, ReadyBacked, Visible
  <2>2. ASSUME "power" \in Faults, NEW j \in Tree
        PROVE  /\ "visible" \in disk'[j].place =>
                    \A a \in disk'[j].art, d \in disk'[j].ready : d # None => d \in a
               /\ j \in Pending' /\ "visible" \in disk'[j].place =>
                    \E u \in Remover : pc'[u] = "syncEntries"
    <3>1. "visible" \in disk[i].place
      BY <1>3 DEF CacheInv, CacheTypes, Visible
    <3>2. \A a \in disk'[j].art, d \in disk'[j].ready :
                "visible" \in disk'[j].place => (d # None => d \in a)
      BY <1>5, <1>12, <2>2, <3>1 DEF Backed
    <3> QED
      BY <1>1, <3>2
  <2> QED
    BY <2>1, <2>2, BackedAgain
<1> QED
  BY <1>11, <1>12 DEF KeepsBacked

\* The syncs of the two parents: of what is pending, one place less may come back.
LEMMA ParentSynced ==
    ASSUME CacheInv, NEW i \in Tree, NEW l \in {"visible", "none"},
           disk'[i] = IF i \in Pending THEN [disk[i] EXCEPT !.place = @ \ {l}] ELSE disk[i]
    PROVE  /\ disk'[i] \in DiskType /\ disk'[i].art = disk[i].art /\ disk'[i].ready = disk[i].ready
           /\ disk'[i].place = IF i \in Pending THEN disk[i].place \ {l} ELSE disk[i].place
           /\ place[i] \in disk'[i].place
<1>1. disk[i] \in DiskType /\ place[i] \in disk[i].place
  BY DEF CacheInv, CacheTypes
<1>2. [disk[i] EXCEPT !.place = @ \ {l}] = [place |-> disk[i].place \ {l}, art |-> disk[i].art, ready |-> disk[i].ready]
  BY <1>1, DiskFields
<1>3. [place |-> disk[i].place \ {l}, art |-> disk[i].art, ready |-> disk[i].ready] \in DiskType
  BY <1>1 DEF DiskType
<1>4. i \in Pending => place[i] # l
  BY DEF Pending
<1> QED
  BY <1>1, <1>2, <1>3, <1>4

\* entries/ and removing/ are synced after the move.
LEMMA SyncParentHolds ==
    ASSUME CacheInv, NEW r \in Remover, SyncEntries(r) \/ SyncPending(r)
    PROVE  CacheInv' /\ KeepsBacked
<1>a. /\ UNCHANGED <<place, art, ready, lock, changed, known, cacheProject>>
      /\ \/ pc[r] = "syncEntries" /\ Goto(r, "syncPending")
         \/ pc[r] = "syncPending" /\ Goto(r, "erase")
  BY DEF SyncEntries, SyncPending
<1> USE DEF cacheProject
<1>0. r \in Commands /\ r \notin Project /\ lock = r
  BY <1>a, CacheAssumption DEF Commands, CacheInv, LockHeld, Erasing
<1>1. /\ pc' \in [Commands -> Labels] /\ \A b \in Commands \ {r} : pc'[b] = pc[b]
      /\ pc'[r] \in {"syncPending", "erase"}
  BY <1>0, <1>a, CommandGoes DEF CacheInv, Labels, Erasing
<1>2. PICK l \in {"visible", "none"} :
        /\ disk' = [i \in Tree |-> IF i \in Pending THEN [disk[i] EXCEPT !.place = @ \ {l}] ELSE disk[i]]
        /\ l = "visible" \/ pc[r] = "syncPending"
  <2>1. CASE SyncEntries(r)
    <3>1. disk' = [i \in Tree |->
                IF i \in Pending THEN [disk[i] EXCEPT !.place = @ \ {"visible"}] ELSE disk[i]]
      BY <2>1 DEF SyncEntries
    <3> QED
      BY <3>1
  <2>2. CASE SyncPending(r)
    <3>1. disk' = [i \in Tree |->
                IF i \in Pending THEN [disk[i] EXCEPT !.place = @ \ {"none"}] ELSE disk[i]]
          /\ pc[r] = "syncPending"
      BY <2>2 DEF SyncPending
    <3> QED
      BY <3>1
  <2> QED
    BY <2>1, <2>2
<1>3. \A i \in Tree : disk'[i] = IF i \in Pending THEN [disk[i] EXCEPT !.place = @ \ {l}] ELSE disk[i]
  BY <1>2
<1>4. \A i \in Tree : /\ disk'[i] \in DiskType /\ disk'[i].art = disk[i].art
                      /\ disk'[i].ready = disk[i].ready /\ place[i] \in disk'[i].place
                      /\ disk'[i].place = IF i \in Pending THEN disk[i].place \ {l} ELSE disk[i].place
  BY <1>3, ParentSynced
<1>5. disk' \in [Tree -> DiskType]
  BY <1>2, <1>4
<1>7. Trees'
  BY <1>4, <1>a DEF CacheInv, Trees
<1>8. CacheTypes'
  <2>1. \A j \in Tree : place'[j] \in disk'[j].place /\ art'[j] \in disk'[j].art
          /\ ready'[j] \in disk'[j].ready
    BY <1>4, <1>a DEF CacheInv, CacheTypes
  <2> QED
    BY <1>1, <1>5, <1>a, <2>1 DEF CacheInv, CacheTypes, Commands, Labels
<1>9. LockHeld(r)'
  BY <1>0, <1>1, <1>a DEF LockHeld, Building, Erasing
<1>10. Removal(r)'
  BY <1>1 DEF Removal
<1>11. CacheInv'
  BY <1>0, <1>1, <1>7, <1>8, <1>9, <1>10, <1>a, OneCommand
<1>12. ASSUME OneFault, Backed PROVE Backed'
  <2>1. \A j \in Tree : j \in Visible' => (ready'[j] # None => ready'[j] \in art'[j])
    BY <1>12, <1>a DEF Backed, ReadyBacked, Visible
  <2>2. ASSUME "power" \in Faults, NEW j \in Tree
        PROVE  /\ "visible" \in disk'[j].place =>
                    \A a \in disk'[j].art, d \in disk'[j].ready : d # None => d \in a
               /\ j \in Pending' /\ "visible" \in disk'[j].place =>
                    \E u \in Remover : pc'[u] = "syncEntries"
    <3>1. Pending' = Pending
      BY <1>a DEF Pending
    <3>2. j \in Pending => "visible" \notin disk'[j].place
      <4>1. CASE l = "visible"
        BY <1>4, <4>1
      <4>2. CASE pc[r] = "syncPending"
        <5>1. \A u \in Remover : pc[u] # "syncEntries"
          <6>1. ASSUME NEW u \in Remover, pc[u] = "syncEntries" PROVE FALSE
            <7>1. lock = u
              BY <6>1 DEF CacheInv, LockHeld, Erasing
            <7> QED
              BY <1>0, <4>2, <6>1, <7>1
          <6> QED
            BY <6>1
        <5> QED
          BY <1>4, <1>12, <2>2, <5>1 DEF Backed
      <4> QED
        BY <1>2, <4>1, <4>2
    <3> QED
      BY <1>4, <1>12, <2>2, <3>1, <3>2 DEF Backed
  <2> QED
    BY <2>1, <2>2, BackedAgain
<1> QED
  BY <1>11, <1>12 DEF KeepsBacked

\* The artifacts of what is pending are erased.
LEMMA EraseArtifactsHolds ==
    ASSUME CacheInv, NEW r \in Remover, EraseArtifacts(r) PROVE CacheInv' /\ KeepsBacked
<1> USE DEF EraseArtifacts, cacheProject
<1>0. r \in Commands /\ r \notin Project /\ lock = r
  BY CacheAssumption DEF Commands, CacheInv, LockHeld, Erasing
<1>1. pc' \in [Commands -> Labels] /\ pc'[r] = "eraseReady" /\ \A b \in Commands \ {r} : pc'[b] = pc[b]
  BY <1>0, CommandGoes DEF CacheInv, Labels, Erasing
<1>2. PICK i \in Pending : art' = [art EXCEPT ![i] = {}] /\ disk' = [disk EXCEPT ![i].art = {{}}]
  OBVIOUS
<1>3. /\ art \in [Tree -> SUBSET Digest] /\ disk \in [Tree -> DiskType] /\ i \in Tree
      /\ {{}} \in SUBSET SUBSET Digest
  BY DEF CacheInv, CacheTypes, Pending
<1>4. art' \in [Tree -> SUBSET Digest] /\ art'[i] = {} /\ \A j \in Tree \ {i} : art'[j] = art[j]
  BY <1>2, <1>3
<1>5. /\ disk' \in [Tree -> DiskType] /\ \A j \in Tree \ {i} : disk'[j] = disk[j]
      /\ disk'[i].place = disk[i].place /\ disk'[i].art = {{}} /\ disk'[i].ready = disk[i].ready
  BY <1>2, <1>3, DiskArt
<1>7. Trees'
  BY <1>5 DEF CacheInv, Trees
<1>8. CacheTypes'
  <2>1. \A j \in Tree : place'[j] \in disk'[j].place /\ art'[j] \in disk'[j].art
          /\ ready'[j] \in disk'[j].ready
    BY <1>4, <1>5 DEF CacheInv, CacheTypes
  <2> QED
    BY <1>1, <1>4, <1>5, <2>1 DEF CacheInv, CacheTypes, Commands, Labels
<1>9. LockHeld(r)'
  BY <1>0, <1>1 DEF CacheInv, LockHeld, Building, Erasing, Commands
<1>10. Removal(r)'
  BY <1>1 DEF Removal
<1>11. CacheInv'
  BY <1>0, <1>1, <1>7, <1>8, <1>9, <1>10, OneCommand
<1>12. ASSUME OneFault, Backed PROVE Backed'
  <2>b. \A u \in Remover : pc[u] # "syncEntries"
    <3>1. ASSUME NEW u \in Remover, pc[u] = "syncEntries" PROVE FALSE
      <4>1. lock = u
        BY <3>1 DEF CacheInv, LockHeld, Erasing
      <4> QED
        BY <1>0, <3>1, <4>1
    <3> QED
      BY <3>1
  <2>1. \A j \in Tree : j \in Visible' => (ready'[j] # None => ready'[j] \in art'[j])
    BY <1>3, <1>4, <1>12 DEF Backed, ReadyBacked, Visible, Pending
  <2>2. ASSUME "power" \in Faults, NEW j \in Tree
        PROVE  /\ "visible" \in disk'[j].place =>
                    \A a \in disk'[j].art, d \in disk'[j].ready : d # None => d \in a
               /\ j \in Pending' /\ "visible" \in disk'[j].place =>
                    \E u \in Remover : pc'[u] = "syncEntries"
    <3>0. Pending' = Pending /\ \A k \in Pending : "visible" \notin disk[k].place
      BY <1>12, <2>2, <2>b DEF Backed, Pending
    <3>1. CASE j = i
      BY <1>5, <3>0, <3>1
    <3>2. CASE j # i
      BY <1>5, <1>12, <2>2, <3>0, <3>2 DEF Backed
    <3> QED
      BY <3>1, <3>2
  <2> QED
    BY <2>1, <2>2, BackedAgain
<1> QED
  BY <1>11, <1>12 DEF KeepsBacked

\* Its ready.json is erased.
LEMMA EraseReadyHolds ==
    ASSUME CacheInv, NEW r \in Remover, EraseReady(r) PROVE CacheInv' /\ KeepsBacked
<1> USE DEF EraseReady, cacheProject
<1>0. r \in Commands /\ r \notin Project /\ lock = r
  BY CacheAssumption DEF Commands, CacheInv, LockHeld, Erasing
<1>1. pc' \in [Commands -> Labels] /\ pc'[r] = "unlink" /\ \A b \in Commands \ {r} : pc'[b] = pc[b]
  BY <1>0, CommandGoes DEF CacheInv, Labels, Erasing
<1>2. PICK i \in Pending : ready' = [ready EXCEPT ![i] = None]
        /\ disk' = [disk EXCEPT ![i].ready = {None}]
  OBVIOUS
<1>3. /\ ready \in [Tree -> Digest \cup {None}] /\ disk \in [Tree -> DiskType] /\ i \in Tree
      /\ {None} \in SUBSET (Digest \cup {None}) /\ place[i] = "pending"
  BY DEF CacheInv, CacheTypes, Pending
<1>4. ready' \in [Tree -> Digest \cup {None}] /\ ready'[i] = None
        /\ \A j \in Tree \ {i} : ready'[j] = ready[j]
  BY <1>2, <1>3
<1>5. /\ disk' \in [Tree -> DiskType] /\ \A j \in Tree \ {i} : disk'[j] = disk[j]
      /\ disk'[i].place = disk[i].place /\ disk'[i].art = disk[i].art /\ disk'[i].ready = {None}
  BY <1>2, <1>3, DiskReady
<1>7. Trees'
  BY <1>3, <1>4, <1>5 DEF CacheInv, Trees
<1>8. CacheTypes'
  <2>1. \A j \in Tree : place'[j] \in disk'[j].place /\ art'[j] \in disk'[j].art
          /\ ready'[j] \in disk'[j].ready
    BY <1>4, <1>5 DEF CacheInv, CacheTypes
  <2> QED
    BY <1>1, <1>4, <1>5, <2>1 DEF CacheInv, CacheTypes, Commands, Labels
<1>9. LockHeld(r)'
  BY <1>0, <1>1 DEF CacheInv, LockHeld, Building, Erasing, Commands
<1>10. Removal(r)'
  <2>1. Pending' = Pending /\ \A j \in Pending : j \in Tree
    BY DEF Pending
  <2>2. \A j \in Pending : j = i
    BY <1>3, <2>1, OnePlace
  <2> QED
    BY <1>1, <1>4, <1>5, <2>1, <2>2 DEF Removal
<1>11. CacheInv'
  BY <1>0, <1>1, <1>7, <1>8, <1>9, <1>10, OneCommand
<1>12. ASSUME OneFault, Backed PROVE Backed'
  <2>b. \A u \in Remover : pc[u] # "syncEntries"
    <3>1. ASSUME NEW u \in Remover, pc[u] = "syncEntries" PROVE FALSE
      <4>1. lock = u
        BY <3>1 DEF CacheInv, LockHeld, Erasing
      <4> QED
        BY <1>0, <3>1, <4>1
    <3> QED
      BY <3>1
  <2>1. \A j \in Tree : j \in Visible' => (ready'[j] # None => ready'[j] \in art'[j])
    BY <1>3, <1>4, <1>12 DEF Backed, ReadyBacked, Visible, Pending
  <2>2. ASSUME "power" \in Faults, NEW j \in Tree
        PROVE  /\ "visible" \in disk'[j].place =>
                    \A a \in disk'[j].art, d \in disk'[j].ready : d # None => d \in a
               /\ j \in Pending' /\ "visible" \in disk'[j].place =>
                    \E u \in Remover : pc'[u] = "syncEntries"
    <3>0. Pending' = Pending /\ \A k \in Pending : "visible" \notin disk[k].place
      BY <1>12, <2>2, <2>b DEF Backed, Pending
    <3>1. CASE j = i
      BY <1>5, <3>0, <3>1
    <3>2. CASE j # i
      BY <1>5, <1>12, <2>2, <3>0, <3>2 DEF Backed
    <3> QED
      BY <3>1, <3>2
  <2> QED
    BY <2>1, <2>2, BackedAgain
<1> QED
  BY <1>11, <1>12 DEF KeepsBacked

\* Its directory is removed.
LEMMA UnlinkHolds ==
    ASSUME CacheInv, NEW r \in Remover, Unlink(r) PROVE CacheInv' /\ KeepsBacked
<1> USE DEF Unlink, cacheProject
<1>0. r \in Commands /\ r \notin Project /\ lock = r
  BY CacheAssumption DEF Commands, CacheInv, LockHeld, Erasing
<1>1. pc' \in [Commands -> Labels] /\ pc'[r] = "idle" /\ \A b \in Commands \ {r} : pc'[b] = pc[b]
  BY <1>0, CommandGoes DEF CacheInv, Labels
<1>2. PICK i \in Pending : place' = [place EXCEPT ![i] = "none"]
        /\ disk' = [disk EXCEPT ![i].place = {"none"}]
  OBVIOUS
<1>3. /\ place \in [Tree -> Place] /\ disk \in [Tree -> DiskType] /\ i \in Tree
      /\ {"none"} \in SUBSET Place /\ ready[i] = None /\ disk[i].ready = {None}
  BY DEF CacheInv, CacheTypes, Pending, Place, Removal
<1>4. place' \in [Tree -> Place] /\ place'[i] = "none" /\ \A j \in Tree \ {i} : place'[j] = place[j]
  BY <1>2, <1>3 DEF Place
<1>5. /\ disk' \in [Tree -> DiskType] /\ \A j \in Tree \ {i} : disk'[j] = disk[j]
      /\ disk'[i].place = {"none"} /\ disk'[i].art = disk[i].art /\ disk'[i].ready = disk[i].ready
  BY <1>2, <1>3, DiskPlace
<1>6. \A b \in Commands \ {r} : lock' # b /\ lock # b
  BY <1>0, CacheAssumption DEF Commands
<1>7. Trees'
  BY <1>3, <1>4, <1>5 DEF CacheInv, Trees
<1>8. CacheTypes'
  <2>1. \A j \in Tree : place'[j] \in disk'[j].place /\ art'[j] \in disk'[j].art
          /\ ready'[j] \in disk'[j].ready
    BY <1>4, <1>5 DEF CacheInv, CacheTypes
  <2> QED
    BY <1>1, <1>4, <1>5, <2>1 DEF CacheInv, CacheTypes, Commands, Labels
<1>9. LockHeld(r)'
  BY <1>0, <1>1, CacheAssumption DEF LockHeld, Building, Erasing
<1>10. Removal(r)'
  BY <1>1 DEF Removal
<1>11. CacheInv'
  BY <1>0, <1>1, <1>6, <1>7, <1>8, <1>9, <1>10, OneCommand
<1>12. ASSUME OneFault, Backed PROVE Backed'
  <2>b. \A u \in Remover : pc[u] # "syncEntries"
    <3>1. ASSUME NEW u \in Remover, pc[u] = "syncEntries" PROVE FALSE
      <4>1. lock = u
        BY <3>1 DEF CacheInv, LockHeld, Erasing
      <4> QED
        BY <1>0, <3>1, <4>1
    <3> QED
      BY <3>1
  <2>1. \A j \in Tree : j \in Visible' => (ready'[j] # None => ready'[j] \in art'[j])
    BY <1>4, <1>12 DEF Backed, ReadyBacked, Visible
  <2>2. ASSUME "power" \in Faults, NEW j \in Tree
        PROVE  /\ "visible" \in disk'[j].place =>
                    \A a \in disk'[j].art, d \in disk'[j].ready : d # None => d \in a
               /\ j \in Pending' /\ "visible" \in disk'[j].place =>
                    \E u \in Remover : pc'[u] = "syncEntries"
    <3>1. CASE j = i
      BY <1>5, <3>1
    <3>2. CASE j # i
      BY <1>4, <1>5, <1>12, <2>2, <2>b, <3>2 DEF Backed, Pending
    <3> QED
      BY <3>1, <3>2
  <2> QED
    BY <2>1, <2>2, BackedAgain
<1> QED
  BY <1>11, <1>12 DEF KeepsBacked

\* A remover is killed, or fails, between two of its steps.
LEMMA BreakHolds ==
    ASSUME CacheInv, NEW r \in Remover, Break(r) PROVE CacheInv'
<1> USE DEF Break, cacheProject
<1>0. /\ Trees' /\ Visible' = Visible /\ Pending' = Pending /\ UNCHANGED <<place, art, ready, disk>>
      /\ r \in Commands /\ r \notin Project /\ lock = r
  BY FilesKept, CacheAssumption DEF Commands, CacheInv, LockHeld
<1>1. pc' \in [Commands -> Labels] /\ pc'[r] = "idle" /\ \A b \in Commands \ {r} : pc'[b] = pc[b]
  BY <1>0, CommandGoes DEF CacheInv, Labels
<1>2. \A b \in Commands \ {r} : lock' # b /\ lock # b
  BY <1>0, CacheAssumption DEF Commands
<1>4. CacheTypes'
  BY <1>0, <1>1 DEF CacheInv, CacheTypes, Commands, Labels
<1>5. LockHeld(r)'
  BY <1>0, <1>1, CacheAssumption DEF LockHeld, Building, Erasing
<1>6. Removal(r)'
  BY <1>1 DEF Removal
<1> QED
  BY <1>0, <1>1, <1>2, <1>4, <1>5, <1>6, OneCommand

----------------------------------------------------------------------------
(* The world *)

\* The inputs change, a project is edited, or nothing happens.
LEMMA WorldHolds ==
    ASSUME CacheInv, ChangeInputs \/ (\E p \in Project : EditProject(p)) \/ UNCHANGED cacheVars
    PROVE  CacheInv'
<1>0. UNCHANGED <<files, lock, pc, known, start, receipt, ran>>
  BY DEF ChangeInputs, EditProject, cacheProject, cacheVars, files
<1>1. changed' \in BOOLEAN /\ (changed => changed') /\ edited' \subseteq Project
  BY DEF ChangeInputs, EditProject, cacheProject, cacheVars, CacheInv, CacheTypes
<1>2. Trees' /\ Visible' = Visible /\ Pending' = Pending /\ UNCHANGED <<place, art, ready, disk>>
  BY <1>0, FilesKept
<1>3. CacheTypes'
  BY <1>0, <1>1, <1>2 DEF CacheInv, CacheTypes
<1>4. ASSUME NEW a \in Project \cup Remover PROVE LockHeld(a)'
  BY <1>0 DEF CacheInv, LockHeld
<1>5. ASSUME NEW p \in Project PROVE Works(p)'
  <2>1. Works(p)
    BY DEF CacheInv
  <2> QED
    BY <1>0, <1>1, <1>2, <2>1 DEF Works
<1>6. ASSUME NEW r \in Remover PROVE Removal(r)'
  BY <1>0, <1>2 DEF CacheInv, Removal
<1> QED
  BY <1>2, <1>3, <1>4, <1>5, <1>6 DEF CacheInv

\* For two trees, "at most one" is "not both".
LEMMA AtMostOne ==
    ASSUME NEW S \in SUBSET Tree PROVE Cardinality(S) <= 1 <=> ~(1 \in S /\ 2 \in S)
<1>1. CASE 1 \in S /\ 2 \in S
  <2>1. IsFiniteSet({1}) /\ Cardinality({1}) = 1
    BY FS_Singleton
  <2>2. S = {1} \cup {2}
    BY <1>1 DEF Tree
  <2>3. 2 \notin {1}
    OBVIOUS
  <2>4. Cardinality(S) = 2
    BY <2>1, <2>2, <2>3, FS_AddElement
  <2> QED
    BY <1>1, <2>4
<1>2. CASE ~(1 \in S /\ 2 \in S)
  <2>1. S = {} \/ S = {1} \/ S = {2}
    BY <1>2 DEF Tree
  <2> QED
    BY <1>2, <2>1, FS_Singleton, FS_EmptySet
<1> QED
  BY <1>1, <1>2

\* What a loss of power leaves of each tree.
LEMMA PowerLossLeaves ==
    ASSUME CacheInv, PowerLoss
    PROVE  /\ place' \in [Tree -> Place] /\ art' \in [Tree -> SUBSET Digest]
           /\ ready' \in [Tree -> Digest \cup {None}] /\ disk' \in [Tree -> DiskType]
           /\ \A i \in Tree :
                /\ place'[i] \in disk[i].place
                /\ place'[i] = "none" => ready'[i] = None
                /\ place'[i] # "none" => art'[i] \in disk[i].art /\ ready'[i] \in disk[i].ready
                /\ disk'[i].place = {place'[i]} /\ disk'[i].art = {art'[i]}
                     /\ disk'[i].ready = {ready'[i]}
           /\ \A l \in {"visible", "pending"} : ~(place'[1] = l /\ place'[2] = l)
<1> USE DEF PowerLoss
<1>0. disk \in [Tree -> DiskType] /\ 1 \in Tree /\ 2 \in Tree /\ \A i \in Tree : i = 1 \/ i = 2
  BY DEF CacheInv, CacheTypes, Tree
<1>1. PICK w \in disk[1].place \X disk[2].place, a \in disk[1].art \X disk[2].art,
           d \in disk[1].ready \X disk[2].ready :
        /\ \A l \in {"visible", "pending"} : Cardinality({i \in Tree : w[i] = l}) <= 1
        /\ place' = w
        /\ art' = [i \in Tree |-> IF w[i] = "none" THEN {} ELSE a[i]]
        /\ ready' = [i \in Tree |-> IF w[i] = "none" THEN None ELSE d[i]]
  OBVIOUS
<1>2. \A i \in Tree : w[i] \in disk[i].place /\ a[i] \in disk[i].art /\ d[i] \in disk[i].ready
  BY <1>0
<1>3. /\ disk[1].place \subseteq Place /\ disk[2].place \subseteq Place
      /\ \A i \in Tree : disk[i].art \subseteq SUBSET Digest
           /\ disk[i].ready \subseteq Digest \cup {None}
  BY <1>0 DEF DiskType
<1>4. place' \in [Tree -> Place]
  BY <1>1, <1>3 DEF Tree
<1>5. art' \in [Tree -> SUBSET Digest] /\ ready' \in [Tree -> Digest \cup {None}]
  BY <1>1, <1>2, <1>3
<1>6. ASSUME NEW i \in Tree
      PROVE  /\ disk'[i] = [place |-> {place'[i]}, art |-> {art'[i]}, ready |-> {ready'[i]}]
             /\ disk'[i] \in DiskType
  BY <1>4, <1>5 DEF DiskType
<1>7. disk' \in [Tree -> DiskType]
  BY <1>6
<1>8. ASSUME NEW l \in {"visible", "pending"} PROVE ~(place'[1] = l /\ place'[2] = l)
  <2>1. {i \in Tree : w[i] = l} \in SUBSET Tree /\ Cardinality({i \in Tree : w[i] = l}) <= 1
    BY <1>1
  <2>2. ~(1 \in {i \in Tree : w[i] = l} /\ 2 \in {i \in Tree : w[i] = l})
    BY <2>1, AtMostOne
  <2> QED
    BY <1>0, <1>1, <2>2
<1>9. \A i \in Tree :
        /\ place'[i] \in disk[i].place
        /\ place'[i] = "none" => ready'[i] = None
        /\ place'[i] # "none" => art'[i] \in disk[i].art /\ ready'[i] \in disk[i].ready
  BY <1>1, <1>2
<1> QED
  BY <1>4, <1>5, <1>6, <1>7, <1>8, <1>9

\* After a loss of power the invariant holds of what came back.
LEMMA PowerLossHolds ==
    ASSUME CacheInv, PowerLoss PROVE CacheInv' /\ KeepsBacked
<1>0. /\ place' \in [Tree -> Place] /\ art' \in [Tree -> SUBSET Digest]
      /\ ready' \in [Tree -> Digest \cup {None}] /\ disk' \in [Tree -> DiskType]
      /\ \A i \in Tree :
           /\ place'[i] \in disk[i].place
           /\ place'[i] = "none" => ready'[i] = None
           /\ place'[i] # "none" => art'[i] \in disk[i].art /\ ready'[i] \in disk[i].ready
           /\ disk'[i].place = {place'[i]} /\ disk'[i].art = {art'[i]} /\ disk'[i].ready = {ready'[i]}
      /\ \A l \in {"visible", "pending"} : ~(place'[1] = l /\ place'[2] = l)
  BY PowerLossLeaves
<1>1. /\ lock' = None /\ UNCHANGED <<changed, edited, start, receipt, ran>>
      /\ known' = [p \in Project |-> None]
      /\ pc' \in [Commands -> Labels] /\ \A b \in Commands : pc'[b] = "idle"
  BY DEF PowerLoss, cacheProject, CacheInv, CacheTypes, Commands, Labels
<1>2. CacheTypes'
  BY <1>0, <1>1 DEF CacheInv, CacheTypes, Commands, Labels
<1>3. Trees'
  <2>1. \A i, j \in Tree : place'[i] = place'[j] /\ place'[i] # "none" => i = j
    BY <1>0 DEF Tree, Place
  <2>2. \A i \in Tree : ready'[i] \in Good \cup {None}
    BY <1>0 DEF CacheInv, Trees
  <2> QED
    BY <1>0, <2>1, <2>2 DEF Trees
<1>4. ASSUME NEW a \in Project \cup Remover PROVE LockHeld(a)'
  BY <1>1, CacheAssumption DEF LockHeld, Building, Erasing, Commands
<1>5. ASSUME NEW p \in Project PROVE Works(p)'
  <2>1. Works(p) /\ pc'[p] = "idle" /\ known'[p] = None
    BY <1>1 DEF CacheInv, Commands
  <2> QED
    BY <1>1, <2>1 DEF Works
<1>6. ASSUME NEW r \in Remover PROVE Removal(r)'
  BY <1>1 DEF Removal, Commands
<1>7. CacheInv'
  BY <1>2, <1>3, <1>4, <1>5, <1>6 DEF CacheInv
<1>8. ASSUME OneFault, Backed PROVE Backed'
  <2>0. "power" \in Faults
    BY DEF PowerLoss
  <2>1. \A j \in Tree : j \in Visible' => (ready'[j] # None => ready'[j] \in art'[j])
    BY <1>0, <1>8, <2>0 DEF Backed, Visible
  <2>2. \A j \in Tree :
            /\ "visible" \in disk'[j].place =>
                 \A a \in disk'[j].art, d \in disk'[j].ready : d # None => d \in a
            /\ j \in Pending' /\ "visible" \in disk'[j].place =>
                 \E u \in Remover : pc'[u] = "syncEntries"
    BY <1>0, <2>1 DEF Visible, Pending
  <2> QED
    BY <2>1, <2>2, BackedAgain
<1> QED
  BY <1>7, <1>8 DEF KeepsBacked

\* Every step keeps the invariant.
LEMMA CacheStep ==
    ASSUME CacheInv, [CacheNext]_cacheVars PROVE CacheInv'
<1>1. ASSUME NEW p \in Project, Builds(p) \/ Select(p) \/ Execute(p) PROVE CacheInv'
  BY <1>1, StartHolds, AcquireHolds, HitHolds, MissHolds, CargoHolds, InstallHolds, SyncArtifactsHolds,
     PublishReadyHolds, SyncEntryHolds, AttachHolds, CacheFinishHolds, FailHolds, SelectHolds,
       ExecuteHolds
     DEF Builds
<1>2. ASSUME NEW r \in Remover, Removes(r) PROVE CacheInv'
  BY <1>2, RemoverLocks, RenameHolds, SyncParentHolds, EraseArtifactsHolds, EraseReadyHolds,
     UnlinkHolds,
     BreakHolds DEF Removes
<1> QED
  BY <1>1, <1>2, WorldHolds, PowerLossHolds DEF CacheNext

\* An empty cache.
LEMMA CacheStarts ==
    ASSUME CacheInit PROVE CacheInv
<1> USE DEF CacheInit
<1>1. [place |-> {"none"}, art |-> {{}}, ready |-> {None}] \in DiskType
  BY DEF DiskType, Place
<1>2. CacheTypes
  <2>1. disk \in [Tree -> DiskType]
    BY <1>1
  <2>2. place \in [Tree -> Place]
    BY DEF Place
  <2> QED
    BY <2>1, <2>2 DEF CacheTypes
<1>3. Trees
  BY DEF Trees
<1>4. ASSUME NEW a \in Project \cup Remover PROVE LockHeld(a)
  BY CacheAssumption DEF LockHeld, Building, Erasing
<1>5. ASSUME NEW p \in Project PROVE Works(p)
  BY DEF Works
<1>6. ASSUME NEW r \in Remover PROVE Removal(r)
  BY DEF Removal
<1> QED
  BY <1>2, <1>3, <1>4, <1>5, <1>6 DEF CacheInv

----------------------------------------------------------------------------
(* The theorems about the cache *)

\* What the invariant says of builds and launches.
LEMMA CacheInvTypes ==
    ASSUME CacheInv PROVE CacheTypeOK /\ OnlyCleanBuilds /\ LaunchesCurrent
<1>1. Cardinality(Visible) <= 1 /\ Cardinality(Pending) <= 1
  <2>1. Visible \in SUBSET Tree /\ Pending \in SUBSET Tree
    BY DEF Visible, Pending
  <2>2. ~(1 \in Visible /\ 2 \in Visible) /\ ~(1 \in Pending /\ 2 \in Pending)
    BY DEF CacheInv, Trees, Visible, Pending, Tree
  <2> QED
    BY <2>1, <2>2, AtMostOne
<1>2. CacheTypeOK
  BY <1>1 DEF CacheInv, CacheTypes, CacheTypeOK
<1>3. OnlyCleanBuilds
  <2>1. \A i \in Tree : ready[i] \in Good \cup {None}
    BY DEF CacheInv, CacheTypes, Trees
  <2> QED
    BY <2>1 DEF CacheInv, CacheTypes, Works, OnlyCleanBuilds
<1>4. LaunchesCurrent
  BY DEF CacheInv, CacheTypes, LaunchesCurrent
<1> QED
  BY <1>2, <1>3, <1>4

\* acquire and checked_artifact: whatever is killed or loses its power, and whenever the
\* inputs change or a project is edited, what is ready, attached or launched was built from
\* the locked inputs, for the lock the launch has read.
THEOREM OnlyCleanAreLaunched == CacheSpec => [](CacheTypeOK /\ OnlyCleanBuilds /\ LaunchesCurrent)
<1>1. CacheInit => CacheInv
  BY CacheStarts
<1>2. CacheInv /\ [CacheNext]_cacheVars => CacheInv'
  BY CacheStep
<1>3. CacheInv => CacheTypeOK /\ OnlyCleanBuilds /\ LaunchesCurrent
  BY CacheInvTypes
<1> QED
  BY <1>1, <1>2, <1>3, PTL DEF CacheSpec

\* The steps that leave every file of the cache alone, and the others.
LEMMA WhoWrites ==
    ASSUME [CacheNext]_cacheVars
    PROVE  \/ UNCHANGED files
           \/ PowerLoss
           \/ \E p \in Project : Miss(p) \/ Install(p) \/ SyncArtifacts(p) \/ PublishReady(p)
                \/ SyncEntry(p)
           \/ \E r \in Remover : \/ Rename(r) \/ SyncEntries(r) \/ SyncPending(r)
                                 \/ EraseArtifacts(r) \/ EraseReady(r) \/ Unlink(r)
<1>1. ASSUME NEW p \in Project, Builds(p) \/ Select(p) \/ Execute(p) \/ EditProject(p)
      PROVE  \/ UNCHANGED files
             \/ Miss(p) \/ Install(p) \/ SyncArtifacts(p) \/ PublishReady(p) \/ SyncEntry(p)
  BY <1>1 DEF Builds, Start, Acquire, Hit, Cargo, Attach, CacheFinish, Fail, Select, Execute,
     EditProject
<1>2. ASSUME NEW r \in Remover, Removes(r)
      PROVE  \/ UNCHANGED files
             \/ Rename(r) \/ SyncEntries(r) \/ SyncPending(r)
             \/ EraseArtifacts(r) \/ EraseReady(r) \/ Unlink(r)
  BY <1>2 DEF Removes, Remove, Resume, Break
<1>3. ASSUME ChangeInputs \/ UNCHANGED cacheVars PROVE UNCHANGED files
  BY <1>3 DEF ChangeInputs, cacheVars, files
<1> QED
  BY <1>1, <1>2, <1>3 DEF CacheNext

StaysPublished ==
    \/ PowerLoss
    \/ \A i \in Tree : place[i] = "visible" /\ place'[i] = "visible" /\ ready[i] # None =>
           art'[i] = art[i] /\ ready'[i] = ready[i]

\* Every step leaves a published entry as it is, or moves it as a whole.
LEMMA PublishedStep ==
    ASSUME CacheInv, [CacheNext]_cacheVars PROVE StaysPublished
<1>0. /\ place \in [Tree -> Place] /\ art \in [Tree -> SUBSET Digest]
      /\ ready \in [Tree -> Digest \cup {None}]
      /\ \A i \in Tree : (i \in Visible <=> place[i] = "visible")
           /\ (i \in Pending <=> place[i] = "pending")
  BY DEF CacheInv, CacheTypes, Visible, Pending
<1>1. CASE UNCHANGED files
  BY <1>1 DEF files, StaysPublished
<1>2. ASSUME NEW p \in Project, Miss(p) PROVE StaysPublished
  BY <1>0, <1>2 DEF Miss, StaysPublished
<1>3. ASSUME NEW p \in Project, Install(p) PROVE StaysPublished
  BY <1>0, <1>3 DEF Install, StaysPublished, CacheInv, Works
<1>4. ASSUME NEW p \in Project, PublishReady(p) PROVE StaysPublished
  BY <1>0, <1>4 DEF PublishReady, StaysPublished, CacheInv, Works
<1>5. ASSUME NEW p \in Project, SyncArtifacts(p) \/ SyncEntry(p) PROVE StaysPublished
  BY <1>5 DEF SyncArtifacts, SyncEntry, StaysPublished
<1>6. ASSUME NEW r \in Remover, EraseArtifacts(r) PROVE StaysPublished
  BY <1>0, <1>6 DEF EraseArtifacts, StaysPublished
<1>7. ASSUME NEW r \in Remover, EraseReady(r) PROVE StaysPublished
  BY <1>0, <1>7 DEF EraseReady, StaysPublished
<1>8. ASSUME NEW r \in Remover, Rename(r) \/ SyncEntries(r) \/ SyncPending(r) \/ Unlink(r)
      PROVE  StaysPublished
  BY <1>8 DEF Rename, SyncEntries, SyncPending, Unlink, StaysPublished
<1> QED
  BY <1>1, <1>2, <1>3, <1>4, <1>5, <1>6, <1>7, <1>8, WhoWrites DEF StaysPublished

\* acquire and maintenance::run: a published entry stays as it is until it is removed as a
\* whole, whoever builds, resumes a removal, fails or is killed.
THEOREM PublishedEntriesStay == CacheSpec => PublishedStays
<1>1. CacheInit => CacheInv
  BY CacheStarts
<1>2. CacheInv /\ [CacheNext]_cacheVars => CacheInv'
  BY CacheStep
<1>3. CacheInv /\ [CacheNext]_cacheVars => [StaysPublished]_cacheVars
  BY PublishedStep
<1> QED
  BY <1>1, <1>2, <1>3, PTL DEF CacheSpec, PublishedStays, StaysPublished

\* The steps that write nothing.
LEMMA BackedStep ==
    ASSUME CacheInv, [CacheNext]_cacheVars, OneFault, Backed PROVE Backed'
<1>1. ASSUME UNCHANGED files,
             "crash" \in Faults \/ \A r \in Remover : pc[r] = "syncEntries" => pc'[r] = "syncEntries"
      PROVE  Backed'
  <2>0. Visible' = Visible /\ Pending' = Pending /\ UNCHANGED <<place, art, ready, disk>>
    BY <1>1, FilesKept
  <2>1. \A j \in Tree : j \in Visible' => (ready'[j] # None => ready'[j] \in art'[j])
    BY <2>0 DEF Backed, ReadyBacked
  <2>2. ASSUME "power" \in Faults, NEW j \in Tree
        PROVE  /\ "visible" \in disk'[j].place =>
                    \A a \in disk'[j].art, d \in disk'[j].ready : d # None => d \in a
               /\ j \in Pending' /\ "visible" \in disk'[j].place =>
                    \E r \in Remover : pc'[r] = "syncEntries"
    BY <1>1, <2>0, <2>2 DEF Backed, OneFault
  <2> QED
    BY <2>1, <2>2, BackedAgain
<1>2. ASSUME NEW p \in Project, Builds(p) \/ Select(p) \/ Execute(p) \/ EditProject(p) PROVE Backed'
  <2>1. ASSUME pc' = pc \/ \E l : Goto(p, l), UNCHANGED files PROVE Backed'
    <3>1. \A r \in Remover : pc'[r] = pc[r]
      BY <2>1, CacheAssumption DEF Goto, CacheInv, CacheTypes
    <3> QED
      BY <1>1, <2>1, <3>1
  <2>2. CASE Start(p) \/ Acquire(p) \/ Hit(p) \/ Cargo(p) \/ Attach(p) \/ CacheFinish(p) \/ Fail(p)
             \/ Select(p) \/ Execute(p) \/ EditProject(p)
    BY <2>1, <2>2 DEF Start, Acquire, Hit, Cargo, Attach, CacheFinish, Fail, Select, Execute,
       EditProject
  <2>3. CASE Miss(p) \/ Install(p) \/ SyncArtifacts(p) \/ PublishReady(p) \/ SyncEntry(p)
    BY <2>3, MissHolds, InstallHolds, SyncArtifactsHolds, PublishReadyHolds, SyncEntryHolds
       DEF KeepsBacked
  <2> QED
    BY <1>2, <2>2, <2>3 DEF Builds
<1>3. ASSUME NEW r \in Remover, Removes(r) PROVE Backed'
  <2>1. CASE Remove(r) \/ Resume(r)
    <3>1. pc[r] = "idle" /\ (\E l : Goto(r, l)) /\ UNCHANGED files
      BY <2>1 DEF Remove, Resume
    <3>2. \A u \in Remover : pc[u] = "syncEntries" => pc'[u] = "syncEntries"
      BY <3>1 DEF Goto, CacheInv, CacheTypes
    <3> QED
      BY <1>1, <3>1, <3>2
  <2>2. CASE Break(r)
    BY <1>1, <2>2 DEF Break
  <2>3. CASE \/ Rename(r) \/ SyncEntries(r) \/ SyncPending(r)
             \/ EraseArtifacts(r) \/ EraseReady(r) \/ Unlink(r)
    BY <2>3, RenameHolds, SyncParentHolds, EraseArtifactsHolds, EraseReadyHolds, UnlinkHolds
       DEF KeepsBacked
  <2> QED
    BY <1>3, <2>1, <2>2, <2>3 DEF Removes
<1>4. ASSUME ChangeInputs \/ UNCHANGED cacheVars PROVE Backed'
  <2>1. UNCHANGED files /\ pc' = pc
    BY <1>4 DEF ChangeInputs, cacheVars, files
  <2> QED
    BY <1>1, <2>1
<1>5. ASSUME PowerLoss PROVE Backed'
  BY <1>5, PowerLossHolds DEF KeepsBacked
<1> QED
  BY <1>2, <1>3, <1>4, <1>5 DEF CacheNext

\* acquire and maintenance::run: a ready entry has its executable, whatever a builder or the
\* power fails at; where removers are killed as well, a loss of power may undo it.
THEOREM CacheIsSound == OneFault => (CacheSpec => []CacheSound)
<1> SUFFICES ASSUME OneFault PROVE CacheSpec => []CacheSound
  OBVIOUS
<1>1. CacheInit => CacheInv /\ Backed
  <2>1. CacheInit => ReadyBacked
    BY DEF CacheInit, ReadyBacked, Visible
  <2>2. CacheInit => \A i \in Tree : "visible" \notin disk[i].place
    BY DEF CacheInit
  <2> QED
    BY <2>1, <2>2, CacheStarts DEF Backed
<1>2. CacheInv /\ Backed /\ [CacheNext]_cacheVars => CacheInv' /\ Backed'
  BY CacheStep, BackedStep
<1>3. CacheInv /\ Backed => CacheSound
  BY CacheInvTypes DEF CacheSound, Backed
<1> QED
  BY <1>1, <1>2, <1>3, PTL DEF CacheSpec
=============================================================================
