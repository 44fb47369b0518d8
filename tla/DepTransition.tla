--------------------------- MODULE DepTransition ----------------------------
(***************************************************************************)
(* `:dep`: a session asks the project tool for its next executable         *)
(* (src/dep_transition.rs, tools/project/src/workflow/transition.rs).      *)
(*                                                                         *)
(* The session describes its wish to a helper process over a socket, asks  *)
(* for consent, lets the helper author, lock, build and probe, waits for   *)
(* its end, and only then closes itself and execs the new artifact.  The   *)
(* user edits the manifest meanwhile, artifacts are replaced, other        *)
(* project commands run, Ctrl-C and deadlines strike, and the helper may   *)
(* fail at any step or hang.                                               *)
(*                                                                         *)
(* An artifact has a path of its own for what it is built from: its roster *)
(* names the path, its id the file that is found there.                    *)
(***************************************************************************)
EXTENDS Naturals, Sequences

CONSTANTS
    Name,         \* dependencies a manifest may declare
    Want,         \* those that the session asks for
    Launch,       \* those of the executable the session runs
    MaxRequests,  \* bound on :dep
    MaxWorld      \* bound on what others do to the project

ASSUME DepAssumption ==
    /\ Want \subseteq Name /\ Launch \subseteq Name
    /\ "absent" \notin Name
    /\ {MaxRequests, MaxWorld} \subseteq Nat

VARIABLES
    session,                    \* where prepare and finish are in the session
    helper,                     \* where serve is in the helper; "exit0", "exit1" when it ended
    depMode,                    \* of the request: [quiet, scratch]
    toHelper, toSession,        \* the socket
    shut,                       \* the session's write side is shut down
    term,                       \* the helper has its SIGTERM
    depProject,                 \* [manifest, lock, receipt]: receipt names an artifact
    depFiles,                   \* the file at the path of each roster's artifact
    described,                  \* the helper's Description, [original, added]
    snapshot,                   \* the manifest that add read
    probed,                     \* the artifact that passed the startup check
    next,                       \* NEXT, the artifact the session was told of
    running,                    \* the artifact that the session's process executes
    approved, altered, reported,  \* history: consent given, project altered, failure told
    raced,                      \* history: what was replaced after it was checked for the last time
    requests, world             \* counters

helperVars == <<described, snapshot, probed, altered, reported>>
socket == <<toHelper, toSession>>
onDisk == <<depProject, depFiles, raced>>
depVars == <<session, helper, depMode, socket, shut, term, onDisk, helperVars, next,
             running, approved, requests, world>>

Absent == {"absent"}        \* no manifest, none read
NoArtifact == [roster |-> Absent, id |-> 0]
NoPlan == [original |-> Absent, added |-> {}]
Artifact == [roster : SUBSET Name, id : 0..MaxWorld]
Waiting == {"describing", "asking", "consented", "finishing", "refused", "declining"}
Live == {"prompt", "dropping"} \cup Waiting
Ended == {"off", "exit0", "exit1"}
Holding == {"recheck", "author", "publish", "rename", "lock", "build", "prepare", "probe", "again",
            "finish"}

\* What is at the path of a roster's artifact.
InPlace(roster) == [roster |-> roster, id |-> depFiles[roster]]

\* The project of a session: the one it was launched from, or a scratch to be made.
Fresh(scratch) ==
    [manifest |-> IF scratch THEN Absent ELSE Launch, lock |-> Launch,
     receipt |-> [roster |-> Launch, id |-> 0]]

DepInit ==
    /\ session = "prompt" /\ helper = "off"
    /\ \E s \in BOOLEAN :
          /\ depMode = [quiet |-> FALSE, scratch |-> s]
          /\ s => Launch = {}
          /\ depProject = Fresh(s)
    /\ depFiles = [roster \in SUBSET Name |-> 0]
    /\ toHelper = <<>> /\ toSession = <<>> /\ shut = FALSE /\ term = FALSE
    /\ described = NoPlan /\ snapshot = Absent /\ probed = NoArtifact /\ next = NoArtifact
    /\ running = [roster |-> Launch, id |-> 0]
    /\ approved = FALSE /\ altered = FALSE /\ reported = FALSE /\ raced = {}
    /\ requests = 0 /\ world = 0

-----------------------------------------------------------------------------
\* The session.

ToHelper(message) == toHelper' = Append(toHelper, message)

DepRequest ==
    /\ session = "prompt" /\ requests < MaxRequests
    /\ \E q \in BOOLEAN : depMode' = [depMode EXCEPT !.quiet = q]
    /\ session' = "describing" /\ helper' = "request"
    /\ toHelper' = <<"describe">> /\ toSession' = <<>> /\ shut' = FALSE /\ term' = FALSE
    /\ described' = NoPlan /\ snapshot' = Absent /\ probed' = NoArtifact /\ next' = NoArtifact
    /\ approved' = FALSE /\ altered' = FALSE /\ reported' = FALSE /\ raced' = {}
    /\ requests' = requests + 1
    \* another scratch path
    /\ depProject' = IF depMode.scratch THEN Fresh(TRUE) ELSE depProject
    /\ UNCHANGED <<depFiles, running, world>>

\* The helper's next message, if it is of this kind.
DepReceive(kind) ==
    /\ toSession # <<>> /\ Head(toSession).kind = kind
    /\ toSession' = Tail(toSession)

Decline ==
    /\ ToHelper("decline") /\ shut' = TRUE
    /\ session' = "declining"
    /\ UNCHANGED approved

Consent ==
    /\ ToHelper("consent") /\ shut' = TRUE
    /\ session' = "consented"
    /\ approved' = TRUE

\* Nothing to add is declined unasked; a quiet request is its own consent.
ReceiveDescription ==
    /\ session = "describing" /\ DepReceive("description")
    /\ IF Head(toSession).added = {} THEN Decline
       ELSE IF depMode.quiet THEN Consent
       ELSE session' = "asking" /\ UNCHANGED <<toHelper, shut, approved>>
    /\ UNCHANGED <<helper, depMode, term, onDisk, next, running, requests, world, helperVars>>

DepAnswer ==
    /\ session = "asking"
    /\ Consent \/ Decline
    /\ UNCHANGED <<helper, depMode, toSession, term, onDisk, next, running, requests, world,
                   helperVars>>

ReceiveFailure ==
    /\ session \in {"describing", "consented"} /\ DepReceive("failed")
    /\ session' = "refused"
    /\ UNCHANGED <<helper, depMode, toHelper, shut, term, onDisk, next, running, approved,
                   requests, world, helperVars>>

ReceiveReady ==
    /\ session = "consented" /\ DepReceive("ready")
    /\ next' = Head(toSession).stamp
    /\ session' = "finishing"
    /\ UNCHANGED <<helper, depMode, toHelper, shut, term, onDisk, running, approved,
                   requests, world, helperVars>>

\* Helper::finish: no message is left, the socket is at its end and the helper was reaped.
DepFinished == helper \in {"exit0", "exit1"} /\ toSession = <<>>

DepFinish ==
    /\ session \in {"refused", "declining"} /\ DepFinished
    /\ session' = "prompt"
    /\ UNCHANGED <<helper, depMode, socket, shut, term, onDisk, next, running, approved,
                   requests, world, helperVars>>

\* The last check for Ctrl-C may still refuse; then recheck, and the restart is decided.
Commit ==
    /\ session = "finishing" /\ DepFinished
    /\ session' \in {"prompt"} \cup
           (IF helper = "exit0" /\ InPlace(next.roster) = next THEN {"committed"} ELSE {})
    /\ UNCHANGED <<helper, depMode, socket, shut, term, onDisk, next, running, approved,
                   requests, world, helperVars>>

\* Ctrl-C, the deadline, too much output, an unexpected or trailing message, the end of
\* the socket: prepare returns an error and the helper is dropped.
DepGiveUp ==
    /\ session \in Waiting \ {"asking"}
    /\ session' = "dropping"
    /\ UNCHANGED <<helper, depMode, socket, shut, term, onDisk, next, running, approved,
                   requests, world, helperVars>>

\* Helper::drop.
Terminate ==
    /\ session = "dropping" /\ ~term /\ helper \notin Ended
    /\ term' = TRUE
    /\ UNCHANGED <<session, helper, depMode, socket, shut, onDisk, next, running, approved,
                   requests, world, helperVars>>

\* Mutant: a helper that does not end is left.
DroppedOnly ==
    /\ session = "dropping" /\ term
    /\ session' = "prompt"
    /\ UNCHANGED <<helper, depMode, socket, shut, term, onDisk, next, running, approved,
                   requests, world, helperVars>>

\* The helper ended, or is killed after five seconds.
Dropped ==
    /\ session = "dropping" /\ (term \/ helper \in Ended)
    /\ session' = "prompt"
    /\ helper' = IF helper \in Ended THEN helper ELSE "exit1"
    /\ UNCHANGED <<depMode, socket, shut, term, onDisk, next, running, approved, requests,
                   world, helperVars>>

\* The session is closed: its values are gone.  A failed close starts nothing.
Close ==
    /\ session = "committed"
    /\ session' \in {"retired", "ended"}
    /\ UNCHANGED <<helper, depMode, socket, shut, term, onDisk, next, running, approved,
                   requests, world, helperVars>>

\* Mutant: the file is not looked at again.
RestartBlind ==
    /\ session = "retired"
    /\ session' = "rechecked"
    /\ UNCHANGED <<helper, depMode, socket, shut, term, onDisk, next, running, approved,
                   requests, world, helperVars>>

\* unix::finish: the file at the path still has the stamp, or the process ends.
Restart ==
    /\ session = "retired"
    /\ session' \in {"ended"} \cup (IF InPlace(next.roster) = next THEN {"rechecked"} ELSE {})
    /\ UNCHANGED <<helper, depMode, socket, shut, term, onDisk, next, running, approved,
                   requests, world, helperVars>>

\* exec by the path, of whatever is there now.
DepExec ==
    /\ session = "rechecked"
    /\ \/ session' = "restarted" /\ running' = InPlace(next.roster)
       \/ session' = "ended" /\ UNCHANGED running
    /\ UNCHANGED <<helper, depMode, socket, shut, term, onDisk, next, approved, requests,
                   world, helperVars>>

-----------------------------------------------------------------------------
\* The helper.

\* One step of serve, with what it leaves alone unless it says otherwise.
DepStep(from, to) == helper = from /\ helper' = to
Quietly == UNCHANGED <<session, depMode, shut, term, raced, next, running, approved, requests,
                       world>>
Tell(message) == toSession' = Append(toSession, message)

\* validate_association: declarations, lock and artifact are those the session was launched with.
Associated ==
    /\ depProject.manifest = Launch /\ depProject.lock = Launch
    /\ depProject.receipt = running /\ InPlace(running.roster) = running

\* describe, given what the project holds: a scratch project must not exist yet.
Description ==
    IF depMode.scratch THEN [original |-> {}, added |-> Want]
    ELSE [original |-> depProject.manifest, added |-> Want \ depProject.manifest]
Describable == IF depMode.scratch THEN depProject.manifest = Absent ELSE Associated

Describe ==
    /\ DepStep("request", "answer") /\ Describable
    /\ described' = Description
    /\ Tell([kind |-> "description", added |-> Description.added])
    /\ toHelper' = Tail(toHelper)
    /\ UNCHANGED <<depProject, depFiles, snapshot, probed, altered, reported>> /\ Quietly

ReadAnswer ==
    /\ helper = "answer" /\ toHelper # <<>>
    /\ toHelper' = Tail(toHelper)
    /\ helper' = IF Head(toHelper) = "decline" THEN "exit0" ELSE "tail"
    /\ UNCHANGED <<toSession, depProject, depFiles, helperVars>> /\ Quietly

\* Confirmation is one message: the session must have shut its side down.
ReadTail ==
    /\ DepStep("tail", "redescribe") /\ shut /\ toHelper = <<>>
    /\ UNCHANGED <<socket, depProject, depFiles, helperVars>> /\ Quietly

Redescribe ==
    /\ DepStep("redescribe", "open")
    /\ Describable /\ Description = described
    /\ UNCHANGED <<socket, depProject, depFiles, helperVars>> /\ Quietly

\* create_scratch, and the command lock of the project.
DepOpen ==
    /\ DepStep("open", "recheck")
    /\ IF depMode.scratch
       THEN /\ depProject.manifest = Absent
            /\ depProject' = [depProject EXCEPT !.manifest = {}] /\ altered' = TRUE
       ELSE UNCHANGED <<depProject, altered>>
    /\ UNCHANGED <<socket, depFiles, described, snapshot, probed, reported>> /\ Quietly

Recheck ==
    /\ DepStep("recheck", "author")
    /\ depProject.manifest = described.original
    /\ ~depMode.scratch => Associated
    /\ UNCHANGED <<socket, depProject, depFiles, helperVars>> /\ Quietly

Author ==
    /\ DepStep("author", "publish")
    /\ snapshot' = depProject.manifest
    /\ UNCHANGED <<socket, depProject, depFiles, described, probed, altered, reported>> /\ Quietly

\* Mutant: the manifest is not looked at again.
PublishBlind ==
    /\ DepStep("publish", IF Want \subseteq snapshot THEN "lock" ELSE "rename") /\ ~term
    /\ UNCHANGED <<socket, depProject, depFiles, helperVars>> /\ Quietly

\* The manifest is still the one that was read, and no signal came.  One that by now has
\* all names is left as it is.
Publish ==
    /\ DepStep("publish", IF Want \subseteq snapshot THEN "lock" ELSE "rename") /\ ~term
    /\ depProject.manifest = snapshot
    /\ UNCHANGED <<socket, depProject, depFiles, helperVars>> /\ Quietly

\* The candidate is renamed over the manifest, whatever that is by now.
DepRename ==
    /\ DepStep("rename", "lock")
    /\ depProject' = [depProject EXCEPT !.manifest = snapshot \cup Want] /\ altered' = TRUE
    /\ UNCHANGED <<socket, depFiles, described, snapshot, probed, reported>> /\ Quietly

\* Declarations are read anew, resolved, verified and published.
Lock ==
    /\ DepStep("lock", "build") /\ ~term
    /\ depProject' = [depProject EXCEPT !.lock = depProject.manifest]
    /\ UNCHANGED <<socket, depFiles, helperVars>> /\ Quietly

\* An artifact of these declarations is attached as it is, or built.
Attached(roster, built) ==
    \E id \in {depFiles[roster], built} :
        /\ depFiles' = [depFiles EXCEPT ![roster] = id]
        /\ depProject' = [depProject EXCEPT !.lock = roster,
                                            !.receipt = [roster |-> roster, id |-> id]]

\* verify_inputs, then the artifact of the lock.
Build ==
    /\ DepStep("build", "prepare") /\ ~term
    /\ depProject.lock = depProject.manifest
    /\ Attached(depProject.lock, world)
    /\ UNCHANGED <<socket, helperVars>> /\ Quietly

Prepared ==
    /\ depProject.lock = depProject.manifest
    /\ depProject.receipt = InPlace(depProject.lock)

\* prepared_session, and the artifact that the startup check is to run.
Prepare ==
    /\ DepStep("prepare", "probe") /\ Prepared
    /\ probed' = depProject.receipt
    /\ UNCHANGED <<socket, depProject, depFiles, described, snapshot, altered, reported>> /\ Quietly

\* startup::check runs the very file.
Probe ==
    /\ DepStep("probe", "again") /\ ~term
    /\ InPlace(probed.roster) = probed
    /\ UNCHANGED <<socket, depProject, depFiles, helperVars>> /\ Quietly

\* Everything once more; the stamp is taken between two rechecks.
DepAgain ==
    /\ DepStep("again", "finish")
    /\ Prepared /\ depProject.receipt = probed
    /\ Tell([kind |-> "ready", stamp |-> InPlace(probed.roster)])
    /\ UNCHANGED <<toHelper, depProject, depFiles, helperVars>> /\ Quietly

\* Capture::finish of a quiet preparation, and the end.
Conclude ==
    /\ DepStep("finish", "exit0")
    /\ UNCHANGED <<socket, depProject, depFiles, helperVars>> /\ Quietly

\* Any step may fail: a check that does not hold, Cargo, the disk, a signal, the deadline.
Fails ==
    /\ helper \notin Ended \cup {"failing"}
    /\ helper = "finish" => depMode.quiet
    /\ helper' = "failing"
    /\ UNCHANGED <<socket, depProject, depFiles, helperVars>> /\ Quietly

\* The failure is told, or cannot be.
Report ==
    /\ helper = "failing"
    /\ \/ helper' = "exit0" /\ Tell([kind |-> "failed"]) /\ reported' = TRUE
       \/ helper' = "exit1" /\ UNCHANGED <<toSession, reported>>
    /\ UNCHANGED <<toHelper, depProject, depFiles, described, snapshot, probed, altered>> /\ Quietly

-----------------------------------------------------------------------------
\* The others.

\* What they do is a race when it strikes between a last check and what relies on it.
DepWorld ==
    /\ world < MaxWorld /\ world' = world + 1
    /\ raced' = raced
         \cup {w \in {"rename"} : helper = "rename" /\ depProject'.manifest # depProject.manifest}
         \cup {w \in {"exec"} : session = "rechecked"
                                /\ depFiles'[next.roster] # depFiles[next.roster]}
    /\ UNCHANGED <<session, helper, depMode, socket, shut, term, described, snapshot, probed,
                   next, running, approved, altered, reported, requests>>

\* A user edits the manifest, or makes one where the scratch was to be.
EditManifest ==
    /\ \E m \in (SUBSET Name) \ {depProject.manifest} :
          depProject' = [depProject EXCEPT !.manifest = m]
    /\ UNCHANGED depFiles
    /\ DepWorld

\* A file is put where an artifact is.
ReplaceArtifact ==
    /\ \E roster \in SUBSET Name : depFiles' = [depFiles EXCEPT ![roster] = world + 1]
    /\ UNCHANGED depProject
    /\ DepWorld

\* Another project command, which takes the command lock.
OtherCommand ==
    /\ helper \notin Holding /\ depProject.manifest # Absent
    /\ Attached(depProject.manifest, world + 1)
    /\ DepWorld

DepRest ==
    /\ session \in {"restarted", "ended"} \/ (session = "prompt" /\ requests = MaxRequests)
    /\ UNCHANGED depVars

SessionStep ==
    \/ DepRequest \/ ReceiveDescription \/ DepAnswer \/ ReceiveFailure \/ ReceiveReady
    \/ DepFinish \/ Commit
    \/ DepGiveUp \/ Terminate \/ Dropped \/ Close \/ Restart \/ DepExec

HelperStep ==
    \/ Describe \/ ReadAnswer \/ ReadTail \/ Redescribe \/ DepOpen \/ Recheck \/ Author \/ Publish
    \/ DepRename \/ Lock \/ Build \/ Prepare \/ Probe \/ DepAgain \/ Conclude \/ Fails \/ Report

DepNext == SessionStep \/ HelperStep \/ EditManifest \/ ReplaceArtifact \/ OtherCommand \/ DepRest

DepSpec == DepInit /\ [][DepNext]_depVars

\* The session runs, its deadlines come and the user answers.  The helper need not go on.
DepFairness ==
    /\ WF_depVars(DepGiveUp) /\ WF_depVars(DepAnswer)
    /\ WF_depVars(Terminate) /\ WF_depVars(Dropped)
    /\ WF_depVars(Commit) /\ WF_depVars(Close) /\ WF_depVars(Restart) /\ WF_depVars(DepExec)
DepFairSpec == DepSpec /\ DepFairness

-----------------------------------------------------------------------------

DepTypeOK ==
    /\ session \in Live \cup {"committed", "retired", "rechecked", "restarted", "ended"}
    /\ helper \in Ended \cup Holding
                  \cup {"request", "answer", "tail", "redescribe", "open", "failing"}
    /\ depMode \in [quiet : BOOLEAN, scratch : BOOLEAN]
    /\ toHelper \in Seq({"describe", "decline", "consent"}) /\ Len(toHelper) <= 1
    /\ Len(toSession) <= 2
    /\ depProject.manifest \in (SUBSET Name) \cup {Absent}
    /\ depProject.lock \in SUBSET Name /\ depProject.receipt \in Artifact
    /\ depFiles \in [SUBSET Name -> 0..MaxWorld] /\ raced \subseteq {"rename", "exec"}
    /\ probed \in Artifact \cup {NoArtifact} /\ next \in Artifact \cup {NoArtifact}
    /\ running \in Artifact
    /\ {shut, term, approved, altered, reported} \subseteq BOOLEAN

\* Nothing of the project is written before the user agreed to the plan that was shown.
NothingBeforeConsent == altered => approved

\* Once :dep is over, whichever way, no helper is left that could still write.
HelperGone == session \notin Waiting \cup {"dropping"} => helper \in Ended

\* A session that restarts executes the file at the path that passed the startup check, and
\* the very file unless it was replaced between the last recheck and exec, which nothing
\* can rule out: a replacement at any earlier moment, with the session closed or not, ends
\* in a refusal.
RestartsProbed ==
    session = "restarted" =>
        running.roster = probed.roster /\ (running = probed \/ "exec" \in raced)

\* What the user wrote is not overwritten by a plan that was made of another manifest: what
\* is renamed over it has what it declares, and the names that were asked for.  Only an
\* edit between the recheck and the rename may be lost; one at any other moment is kept or
\* ends the preparation.
EditsKept ==
    [][helper = "rename" /\ helper' = "lock" =>
          depProject.manifest \subseteq depProject'.manifest \/ "rename" \in raced]_depVars

\* The old session is given up for a helper that reported no failure, ended well and
\* left the artifact it promised; every other end of :dep leaves it alone.
GivenUpForReady ==
    [][(session \in Live /\ session' \notin Live) =>
          /\ helper = "exit0" /\ ~reported
          /\ next = probed /\ InPlace(probed.roster) = probed]_depVars

\* :dep ends: the prompt returns, or the new session starts, or the process ends.
PrepareReturns == session \in Waiting ~> session \in {"prompt", "restarted", "ended"}

\* The new session has what was declared and described when the user agreed, no more.
ApprovedOnly ==
    session = "restarted" => running.roster = described.original \cup described.added

\* :dep, at any moment: nothing is touched without consent, no helper outlives its request,
\* and only an artifact that was probed, and found unchanged last thing, is restarted into.
DepSound == DepTypeOK /\ NothingBeforeConsent /\ HelperGone /\ RestartsProbed

\* :dep, step by step: what the user wrote before the last look at it is kept, and the
\* session is given up only for one that is ready.
UserKept == EditsKept /\ GivenUpForReady

=============================================================================
