----------------------------- MODULE Containment ----------------------------
(***************************************************************************)
(* The end of a worker and of what it left behind: terminate and Interrupt *)
(* of jupyter/src/worker.rs, sweep of jupyter/src/containment.rs.          *)
(*                                                                         *)
(* The kernel is the subreaper of its descendants: when a process exits    *)
(* its children become the kernel's.  It knows processes by their numbers, *)
(* and a number is free again once its process was waited for.  Processes  *)
(* fork, leave their group and exit at any time, and strangers come and    *)
(* take free numbers.                                                      *)
(***************************************************************************)
EXTENDS Naturals, FiniteSets

CONSTANTS
    Process,    \* the worker and its possible descendants
    Leader,     \* the worker
    Stranger,   \* processes of others
    Pid         \* the numbers of processes and groups

ASSUME ContainAssumption ==
    /\ Leader \in Process /\ Process \cap Stranger = {}
    /\ (Process \cup Stranger) \cap {"kernel", "other", "nobody"} = {}

VARIABLES
    life,       \* "unborn", "alive", "zombie" or "gone"
    parent,     \* a process, "kernel" or, of a stranger, "other"
    pid,        \* the number of a process
    pgrp,       \* the number of its group
    killed,     \* has SIGKILL pending
    disabled,   \* Interrupt is off
    sweep,      \* where terminate is
    listed,     \* the children still to be looked at, by number
    child,      \* the number looked at
    pidfd,      \* the process that is open
    struck      \* history: the processes that got a signal from the kernel

sweepVars == <<disabled, sweep, listed, child, pidfd>>
processVars == <<life, parent, pid, pgrp>>
containVars == <<processVars, killed, sweepVars, struck>>

Everyone == Process \cup Stranger
Present == {p \in Everyone : life[p] \in {"alive", "zombie"}}
FreePid == Pid \ ({pid[p] : p \in Present} \cup {pgrp[p] : p \in Present})
ChildrenOf(q) == {p \in Present : parent[p] = q}
Nobody == "nobody"

ContainInit ==
    /\ life = [p \in Everyone |-> IF p = Leader THEN "alive" ELSE "unborn"]
    /\ parent = [p \in Everyone |-> IF p \in Stranger THEN "other" ELSE "kernel"]
    /\ \E n \in Pid : pid = [p \in Everyone |-> n] /\ pgrp = pid
    /\ killed = {} /\ disabled = FALSE
    /\ sweep = "serving" /\ listed = {} /\ child \in {pid[Leader]} /\ pidfd = Nobody
    /\ struck = {}

(***************************************************************************)
(* The processes.                                                          *)
(***************************************************************************)

Starts(p, n, group) ==
    /\ life' = [life EXCEPT ![p] = "alive"]
    /\ pid' = [pid EXCEPT ![p] = n] /\ pgrp' = [pgrp EXCEPT ![p] = group]
    /\ UNCHANGED <<killed, sweepVars, struck>>

Fork(p, q) ==
    /\ life[p] = "alive" /\ p \notin killed /\ life[q] = "unborn"
    /\ \E n \in FreePid : Starts(q, n, pgrp[p])
    /\ parent' = [parent EXCEPT ![q] = p]

StrangerStarts(q) ==
    /\ life[q] = "unborn"
    /\ \E n \in FreePid : Starts(q, n, n)
    /\ UNCHANGED parent

\* setsid
LeavesGroup(p) ==
    /\ life[p] = "alive" /\ p \notin killed /\ pgrp[p] # pid[p]
    /\ pgrp' = [pgrp EXCEPT ![p] = pid[p]]
    /\ UNCHANGED <<life, parent, pid, killed, sweepVars, struck>>

\* Its children, zombies too, are the kernel's.
Exits(p) ==
    /\ life[p] = "alive"
    /\ life' = [life EXCEPT ![p] = "zombie"]
    /\ parent' = [q \in Everyone |-> IF q \in ChildrenOf(p) THEN "kernel" ELSE parent[q]]
    /\ UNCHANGED <<pid, pgrp, killed, sweepVars, struck>>

\* A parent other than the kernel waits for a child.
Waited(p) ==
    /\ life[p] = "zombie"
    /\ \/ parent[p] = "other"
       \/ parent[p] \in Process /\ life[parent[p]] = "alive" /\ parent[p] \notin killed
    /\ life' = [life EXCEPT ![p] = "gone"]
    /\ UNCHANGED <<parent, pid, pgrp, killed, sweepVars, struck>>

(***************************************************************************)
(* The kernel.                                                             *)
(***************************************************************************)

\* Interrupt::request and armed: SIGINT for the number of the worker.
SignalWorker ==
    /\ ~disabled
    /\ struck' = struck \cup {p \in Present : pid[p] = pid[Leader]}
    /\ UNCHANGED <<processVars, killed, sweepVars>>

\* Mutant of TerminateWorker: interrupts stay on.
TerminateOpen ==
    /\ sweep = "serving" /\ sweep' = "group"
    /\ UNCHANGED <<processVars, killed, disabled, listed, child, pidfd, struck>>

\* Worker::terminate: no interrupt from here on.
TerminateWorker ==
    /\ sweep = "serving" /\ sweep' = "group" /\ disabled' = TRUE
    /\ UNCHANGED <<processVars, killed, listed, child, pidfd, struck>>

KillGroup ==
    /\ sweep = "group" /\ sweep' = "list"
    /\ LET members == {p \in Present : pgrp[p] = pid[Leader]} IN
       killed' = killed \cup members /\ struck' = struck \cup members
    /\ UNCHANGED <<processVars, disabled, listed, child, pidfd>>

\* children(): the sweep is over when there are none, or too late.
ListChildren ==
    /\ sweep = "list"
    /\ listed' = {pid[p] : p \in ChildrenOf("kernel")}
    /\ sweep' = IF listed' = {} THEN "clean" ELSE "open"
    /\ UNCHANGED <<processVars, killed, disabled, child, pidfd, struck>>

SweepLate ==
    /\ sweep = "list" /\ sweep' = "late"
    /\ UNCHANGED <<processVars, killed, disabled, listed, child, pidfd, struck>>

\* The loop goes on with the next number, or sleeps and lists again.
NextChild(rest) == listed' = rest /\ sweep' = IF rest = {} THEN "list" ELSE "open"

\* pidfd_open.  The number has a process: only the kernel waits for its children.
OpenChild(n) ==
    /\ sweep = "open" /\ n \in listed /\ child' = n
    /\ \/ /\ \A p \in Present : pid[p] # n
          /\ NextChild(listed \ {n}) /\ UNCHANGED pidfd
       \/ /\ \E p \in Present : pid[p] = n /\ pidfd' = p
          /\ sweep' = "strike" /\ listed' = listed \ {n}
    /\ UNCHANGED <<processVars, killed, disabled, struck>>

\* The number is still one of a child: the process that is open gets SIGKILL.
StrikeChild ==
    /\ sweep = "strike" /\ sweep' = "reap"
    /\ IF \E p \in ChildrenOf("kernel") : pid[p] = child
       THEN killed' = killed \cup {pidfd} /\ struck' = struck \cup {pidfd}
       ELSE UNCHANGED <<killed, struck>>
    /\ UNCHANGED <<processVars, disabled, listed, child, pidfd>>

\* waitpid with WNOHANG
ReapChild ==
    /\ sweep = "reap"
    /\ life' = [p \in Everyone |->
                   IF p \in ChildrenOf("kernel") /\ pid[p] = child /\ life[p] = "zombie"
                   THEN "gone" ELSE life[p]]
    /\ NextChild(listed) /\ pidfd' = Nobody
    /\ UNCHANGED <<parent, pid, pgrp, killed, disabled, child, struck>>

ContainOver == sweep \in {"clean", "late"} /\ UNCHANGED containVars

Processes ==
    \/ \E p \in Everyone : Exits(p) \/ Waited(p)
    \/ \E p \in Process : LeavesGroup(p) \/ \E q \in Process : Fork(p, q)
    \/ \E q \in Stranger : StrangerStarts(q)

Sweeps ==
    \/ SignalWorker \/ TerminateWorker \/ KillGroup \/ ListChildren \/ SweepLate
    \/ (\E n \in listed : OpenChild(n)) \/ StrikeChild \/ ReapChild

ContainNext == Processes \/ Sweeps \/ ContainOver

ContainSpec == ContainInit /\ [][ContainNext]_containVars

(***************************************************************************)
(* Properties.                                                             *)
(***************************************************************************)

ContainTypeOK ==
    /\ life \in [Everyone -> {"unborn", "alive", "zombie", "gone"}]
    /\ parent \in [Everyone -> Process \cup {"kernel", "other"}]
    /\ pid \in [Everyone -> Pid] /\ pgrp \in [Everyone -> Pid]
    /\ killed \subseteq struck /\ struck \subseteq Everyone /\ disabled \in BOOLEAN
    /\ sweep \in {"serving", "group", "list", "open", "strike", "reap", "clean", "late"}
    /\ listed \subseteq Pid /\ child \in Pid
    /\ pidfd \in Process \cup {Nobody} /\ (pidfd # Nobody <=> sweep \in {"strike", "reap"})

\* sweep, terminate and Interrupt: a signal of the kernel reaches the worker and its
\* descendants only, although it is sent to numbers that are used again.
StrangersSpared == struck \cap Stranger = {}

\* sweep: when it returns without an error there is no descendant left, not even a zombie.
SweptClean == sweep = "clean" => Process \cap Present = {}

\* sweep: it ends all descendants of the kernel and touches no other process.
SweepSound == ContainTypeOK /\ StrangersSpared /\ SweptClean

=============================================================================
