---------------------------- MODULE MCProgress ------------------------------
(***************************************************************************)
(* What must end, for TLC: an operation of the worker (WorkerLink), a call *)
(* of a child process (ChildRun), an execution (Execution), a change of    *)
(* dependencies (DepTransition), the HTTP server (HttpServer) and its log  *)
(* (HttpLog), each under the fairness its module states.                   *)
(*                                                                         *)
(* The parts are not connected: a behaviour takes steps of one of them.    *)
(***************************************************************************)
EXTENDS WorkerLink, ChildRun, Execution, DepTransition, HttpServer, HttpLog

VARIABLE part

\* Windows, with an input that fills the pipe and a process that keeps it open.
MCCase == {[blocking |-> TRUE, procs |-> {"stray"}, input |-> 2, output |-> 0]}

MCInit ==
    /\ part \in {"link", "child", "execution", "dep", "http", "log"}
    /\ Init /\ ChildInit /\ ExecInit /\ DepInit /\ HttpInit /\ LogInit
    /\ part # "execution" => /\ execMode = "file" /\ total = 0 /\ ~flag
                             /\ program = <<[kind |-> "inst", cost |-> 0]>>
    /\ part # "dep" => ~depMode.scratch

\* No read fails by itself, as an error ends a reader early, and an interrupt comes
\* between reads; the writer may be anywhere.
ReadersWork ==
    /\ \A w \in Reader : childOutcome'[w] \notin {"failed", "panicked"}
    /\ interrupt' => interrupt \/ \A w \in Reader : op[w] = "check"

MCNext ==
    \/ /\ part = "link" /\ Next
       /\ UNCHANGED <<part, how, childVars, execVars, depVars, httpVars, logVars>>
    \/ /\ part = "child" /\ ChildNext /\ ReadersWork
       /\ UNCHANGED <<part, vars, execVars, depVars, httpVars, logVars>>
    \/ /\ part = "execution" /\ ExecNext
       /\ UNCHANGED <<part, vars, how, childVars, depVars, httpVars, logVars>>
    \/ /\ part = "dep" /\ DepNext
       /\ UNCHANGED <<part, vars, how, childVars, execVars, httpVars, logVars>>
    \/ /\ part = "http" /\ HttpNext
       /\ UNCHANGED <<part, vars, how, childVars, execVars, depVars, logVars>>
    \/ /\ part = "log" /\ LogNext
       /\ UNCHANGED <<part, vars, how, childVars, execVars, depVars, httpVars>>

\* The fairness of each module, while it is the one that takes the steps.
LinkFairness ==
    LET On == part = "link" IN
    /\ WF_vars(On /\ Progress) /\ WF_vars(On /\ ReadControl)
    /\ WF_vars(On /\ ReadersFail) /\ WF_vars(On /\ WorkerReceive)
    /\ WF_vars(On /\ (WorkerArm \/ WorkerRefuse \/ WorkerSettle \/ WorkerAck))
    /\ WF_vars(On /\ \E lost \in BOOLEAN : WorkerEnd(lost))
    /\ \A s \in Stream :
        /\ WF_vars(On /\ ReadStream(s)) /\ WF_vars(On /\ Drain(s))
        /\ WF_vars(On /\ WorkerMark(s))

CallFairness ==
    LET On == part = "child" IN
    /\ WF_childVars(On /\ DeadlinePasses) /\ WF_childVars(On /\ AllowancePasses)
    /\ WF_childVars(On /\ Calls)
    /\ \A w \in ChildWorker :
        /\ WF_childVars(On /\ ChildLook(w)) /\ WF_childVars(On /\ ChildBegin(w))
        /\ WF_childVars(On /\ Submit(w)) /\ WF_childVars(On /\ Returns(w))

ProgramFairness ==
    LET On == part = "execution" IN
    /\ WF_execVars(On /\ (Admit \/ Instruction \/ Inner \/ InnerHalts \/ Limited \/ ExecExit))
    /\ WF_execVars(On /\ execAt = "between" /\ Resume)
    /\ WF_execVars(On /\ Tick)

PrepareFairness ==
    LET On == part = "dep" IN
    /\ WF_depVars(On /\ DepGiveUp) /\ WF_depVars(On /\ DepAnswer)
    /\ WF_depVars(On /\ Terminate) /\ WF_depVars(On /\ Dropped)
    /\ WF_depVars(On /\ Commit) /\ WF_depVars(On /\ Close)
    /\ WF_depVars(On /\ Restart) /\ WF_depVars(On /\ DepExec)

ServerFairness ==
    LET On == part = "http" /\ httpMain # "exited" IN
    /\ \A r \in HttpRequest :
        /\ WF_httpVars(On /\ (TurnAway(r) \/ HttpReceive(r) \/ HttpSent(r)))
        /\ WF_httpVars(On /\ (HttpLook(r) \/ Run(r) \/ HttpGiveUp(r)))
        /\ WF_httpVars(On /\ Leave(r) /\ grace)
    /\ \A w \in HttpWorker : WF_httpVars(On /\ Loop(w)) /\ WF_httpVars(On /\ SeeStop(w))
    /\ WF_httpVars(On /\ Serve) /\ WF_httpVars(On /\ AbortStart) /\ WF_httpVars(On /\ Fatal)
    /\ WF_httpVars(On /\ GraceOver) /\ WF_httpVars(On /\ HttpExit)

ReportFairness ==
    LET On == part = "log" IN
    /\ \A p \in Producer : WF_logVars(On /\ CountSent(p)) /\ SF_logVars(On /\ DropLog(p))
    /\ WF_logVars(On /\ (LogReceive \/ CountWritten))
    /\ WF_logVars(On /\ (Shutdown \/ Waited \/ LogRead))

MCFairSpec ==
    /\ MCInit
    /\ [][MCNext]_<<part, vars, how, childVars, execVars, depVars, httpVars, logVars>>
    /\ LinkFairness /\ CallFairness /\ ProgramFairness
    /\ PrepareFairness /\ ServerFairness /\ ReportFairness

\* Operations of the worker, child processes, executions and :dep requests end.
CallsEnd == OperationEnds /\ CallReturns /\ SlicedEnds /\ InterruptEnds /\ PrepareReturns

\* The HTTP server ends when it is stopped or fails, and so does its log.
ServersEnd == ServerStops /\ FatalStops /\ ShutdownReturns

=============================================================================
