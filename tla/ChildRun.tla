------------------------------ MODULE ChildRun ------------------------------
(***************************************************************************)
(* Running a child process: run_child_with(), capture() and deliver() of   *)
(* src/host.rs over the Pipe protocol of src/platform.rs.                  *)
(*                                                                         *)
(* The call waits for the child, the deadline or an interrupt, while a     *)
(* writer delivers the input and two readers collect the output on their   *)
(* own threads.  Then it ends the group, stops and joins the writer, gives *)
(* the readers an allowance, stops those still reading and joins them.     *)
(*                                                                         *)
(* A worker publishes its handle in its Pipe while it is inside an         *)
(* operation.  Where writes block (Windows) a write into a full pipe blocks in  *)
(* the kernel, where only a cancellation of an operation that has been     *)
(* submitted reaches it; without (Unix) it returns WouldBlock.             *)
(*                                                                         *)
(* A stray is a descendant that left the group: it holds the pipes as long *)
(* as it likes.  Bytes are counted in chunks.                              *)
(***************************************************************************)
EXTENDS Naturals, FiniteSets

CONSTANTS
    Case,       \* calls to be looked at: a platform, a family of processes, an input
    Room,       \* chunks a pipe holds
    CaptureCap         \* CAPTURE_CAP

\* blocking: writes block in the kernel.  procs: what there is beside the child.
\* input: chunks to deliver, 0 when there is no writer.  output: a bound on the chunks
\* written to each of stdout and stderr.
ASSUME ChildAssumption ==
    /\ Case \subseteq [blocking : BOOLEAN, procs : SUBSET {"group", "stray"},
                      input : Nat, output : Nat]
    /\ CaptureCap \in Nat /\ Room \in Nat \ {0}

Reader == {"out", "err"}
ChildWorker == Reader \cup {"in"}

VARIABLES
    how,              \* the case of this call; it does not change
    call,             \* where run_child_with() stands
    childRan,         \* what it knows: [status, timedOut, cancelled, writer]
    alive,            \* processes that live, each holding the other end of every pipe
    timeUp,         \* the deadline has passed
    interrupt,        \* the process was interrupted
    until,            \* "unset", "set", "over": the instant the readers may read until
    stop,             \* the writer's stop flag
    stopped, inCall,  \* Progress of each Pipe
    op,               \* of each worker: "check", "ready", "declared", "inside", "done"
    aborted,          \* workers whose submitted operation was cancelled
    childOutcome,     \* how a worker ended
    childSent,        \* chunks put into each pipe
    taken,            \* chunks taken out of it
    kept              \* chunks a reader kept

childCallVars == <<call, childRan, until, stop>>
worldVars == <<alive, timeUp, interrupt>>
childVars == <<childCallVars, worldVars, stopped, inCall, op, aborted, childOutcome, childSent,
               taken, kept>>

ChildOutcome == {"none", "complete", "cut", "broken", "failed", "panicked"}

ChildTypeOK ==
    /\ how \in Case
    /\ call \in {"wait", "look", "reap", "clean", "endgroup", "stopin", "joinin", "drain",
                 "stopout", "stoperr", "join", "returned", "error"}
    /\ childRan \in [status : {"none", "some", "failed"}, timedOut : BOOLEAN, cancelled : BOOLEAN,
                writer : {"fine", "failed"}]
    /\ alive \subseteq {"child", "group", "stray"}
    /\ timeUp \in BOOLEAN /\ interrupt \in BOOLEAN /\ stop \in BOOLEAN
    /\ until \in {"unset", "set", "over"}
    /\ stopped \in [ChildWorker -> BOOLEAN] /\ inCall \in [ChildWorker -> BOOLEAN]
    /\ op \in [ChildWorker -> {"check", "ready", "declared", "inside", "done"}]
    /\ aborted \subseteq ChildWorker /\ childOutcome \in [ChildWorker -> ChildOutcome]
    /\ childSent \in [ChildWorker -> 0 .. (how.input + how.output)]
    /\ kept \in [Reader -> 0 .. CaptureCap]
    /\ \A w \in ChildWorker : taken[w] \in 0 .. childSent[w] /\ childSent[w] - taken[w] <= Room

ChildInit ==
    /\ how \in Case
    /\ call = "wait"
    /\ childRan = [status |-> "none", timedOut |-> FALSE, cancelled |-> FALSE, writer |-> "fine"]
    /\ alive = {"child"} \cup how.procs
    /\ timeUp = FALSE /\ interrupt = FALSE /\ until = "unset" /\ stop = FALSE
    /\ stopped = [w \in ChildWorker |-> FALSE] /\ inCall = [w \in ChildWorker |-> FALSE]
    /\ op = [w \in ChildWorker |-> IF w = "in" /\ how.input = 0 THEN "done" ELSE "check"]
    /\ aborted = {} /\ childOutcome = [w \in ChildWorker |-> "none"]
    /\ childSent = [w \in ChildWorker |-> 0] /\ taken = [w \in ChildWorker |-> 0]
    /\ kept = [w \in Reader |-> 0]

Held(w) == childSent[w] - taken[w]

----------------------------------------------------------------------------
(* The processes, the clock and the person at the keyboard *)

\* Somebody writes to stdout or stderr, or reads stdin.
Produce(w) ==
    /\ w \in Reader /\ alive # {} /\ childSent[w] < how.output /\ Held(w) < Room
    /\ childSent' = [childSent EXCEPT ![w] = @ + 1]
    /\ UNCHANGED <<childCallVars, worldVars, stopped, inCall, op, aborted, childOutcome, taken,
                   kept>>

Consume ==
    /\ alive # {} /\ Held("in") > 0
    /\ taken' = [taken EXCEPT !["in"] = @ + 1]
    /\ UNCHANGED <<childCallVars, worldVars, stopped, inCall, op, aborted, childOutcome,
                   childSent, kept>>

ProcessExits(p) ==
    /\ p \in alive
    /\ alive' = alive \ {p}
    /\ UNCHANGED <<childCallVars, timeUp, interrupt, stopped, inCall, op, aborted, childOutcome,
                   childSent, taken, kept>>

DeadlinePasses ==
    /\ ~timeUp /\ timeUp' = TRUE
    /\ UNCHANGED <<childCallVars, alive, interrupt, stopped, inCall, op, aborted, childOutcome,
                   childSent, taken, kept>>

ChildInterrupt ==
    /\ ~interrupt /\ interrupt' = TRUE
    /\ UNCHANGED <<childCallVars, alive, timeUp, stopped, inCall, op, aborted, childOutcome,
                   childSent, taken, kept>>

AllowancePasses ==
    /\ until = "set" /\ until' = "over"
    /\ UNCHANGED <<call, childRan, stop, worldVars, stopped, inCall, op, aborted, childOutcome,
                   childSent, taken, kept>>

----------------------------------------------------------------------------
(* The workers: capture() and deliver() *)

\* The function returns, and its stream is closed.
ChildEnds(w, o) ==
    /\ op' = [op EXCEPT ![w] = "done"]
    /\ childOutcome' = [childOutcome EXCEPT ![w] = o]

\* What a worker looks at before every attempt.
Unwanted(w) ==
    \/ interrupt
    \/ IF w = "in" THEN stop \/ timeUp ELSE stopped[w] \/ until = "over"

\* A read is attempted when it would not block.
Ready(w) == w = "in" \/ ~how.blocking \/ Held(w) > 0 \/ alive = {}

\* prepare_stream() fails, before anything has moved.
Unprepared(w) ==
    /\ op[w] = "check" /\ ~how.blocking
    /\ IF w = "in" THEN childSent[w] = 0 ELSE taken[w] = 0
    /\ ChildEnds(w, "failed")
    /\ UNCHANGED <<childCallVars, worldVars, stopped, inCall, aborted, childSent, taken, kept>>

ChildLook(w) ==
    /\ op[w] = "check"
    /\ \/ Unwanted(w) /\ ChildEnds(w, "cut")
       \/ ~Unwanted(w) /\ Ready(w) /\ op' = [op EXCEPT ![w] = "ready"] /\ UNCHANGED childOutcome
    /\ UNCHANGED <<childCallVars, worldVars, stopped, inCall, aborted, childSent, taken, kept>>

\* Mutant of ChildBegin: the declaration does not look at the stop.
ChildBeginUnchecked(w) ==
    /\ op[w] = "ready"
    /\ op' = [op EXCEPT ![w] = "declared"]
    /\ inCall' = [inCall EXCEPT ![w] = TRUE]
    /\ UNCHANGED <<childCallVars, worldVars, stopped, aborted, childOutcome, childSent, taken,
                   kept>>

\* Pipe::begin: the question and the declaration are one step.
ChildBegin(w) ==
    /\ op[w] = "ready"
    /\ IF stopped[w]
       THEN ChildEnds(w, "cut") /\ UNCHANGED inCall
       ELSE /\ op' = [op EXCEPT ![w] = "declared"]
            /\ inCall' = [inCall EXCEPT ![w] = TRUE]
            /\ UNCHANGED childOutcome
    /\ UNCHANGED <<childCallVars, worldVars, stopped, aborted, childSent, taken, kept>>

Submit(w) ==
    /\ op[w] = "declared"
    /\ op' = [op EXCEPT ![w] = "inside"]
    /\ UNCHANGED <<childCallVars, worldVars, stopped, inCall, aborted, childOutcome, childSent,
                   taken, kept>>

\* The guard dies with the operation.
Withdraw(w) == inCall' = [inCall EXCEPT ![w] = FALSE] /\ aborted' = aborted \ {w}

\* The operation comes back without an end: WouldBlock, or Interrupted.
ChildAgain(w) ==
    /\ op[w] = "inside" /\ ~how.blocking
    /\ Withdraw(w)
    /\ op' = [op EXCEPT ![w] = "check"]
    /\ UNCHANGED <<childCallVars, worldVars, stopped, childOutcome, childSent, taken, kept>>

\* The operation comes back with bytes.
ChildRead(w) ==
    /\ w \in Reader /\ op[w] = "inside" /\ Held(w) > 0
    /\ Withdraw(w)
    /\ taken' = [taken EXCEPT ![w] = @ + 1]
    /\ kept' = [kept EXCEPT ![w] = IF @ < CaptureCap THEN @ + 1 ELSE @]
    /\ op' = [op EXCEPT ![w] = "check"]
    /\ UNCHANGED <<childCallVars, worldVars, stopped, childOutcome, childSent>>

ChildWrite ==
    /\ op["in"] = "inside" /\ Held("in") < Room /\ alive # {}
    /\ Withdraw("in")
    /\ childSent' = [childSent EXCEPT !["in"] = @ + 1]
    /\ IF childSent["in"] + 1 = how.input
       THEN ChildEnds("in", "complete")
       ELSE op' = [op EXCEPT !["in"] = "check"] /\ UNCHANGED childOutcome
    /\ UNCHANGED <<childCallVars, worldVars, stopped, taken, kept>>

\* Nothing is left and nobody can write any more.
AtEnd(w) == Held(w) = 0 /\ alive = {}

\* The operation comes back for the last time: the end of the stream, a broken pipe, an
\* error, a cancellation, or a panic on the way.
LastCall(w) ==
    /\ op[w] = "inside"
    /\ Withdraw(w)
    /\ \/ w \in Reader /\ AtEnd(w) /\ ChildEnds(w, "complete")
       \/ w = "in" /\ alive = {} /\ ChildEnds(w, "broken")
       \/ w \in aborted /\ ChildEnds(w, "cut")
       \/ \E o \in {"failed", "panicked"} : ChildEnds(w, o)
    /\ UNCHANGED <<childCallVars, worldVars, stopped, childSent, taken, kept>>

----------------------------------------------------------------------------
(* The call *)

Pass(l) == call' = l

CallOnly == UNCHANGED <<timeUp, interrupt, op, inCall, childOutcome, childSent, taken, kept>>

\* The child has exited, is still running, or cannot be asked.
TryWait ==
    /\ call = "wait"
    /\ \/ /\ "child" \notin alive
          /\ childRan' = [childRan EXCEPT !.status = "some"] /\ Pass("clean")
       \/ "child" \in alive /\ Pass("look") /\ UNCHANGED childRan
       \/ childRan' = [childRan EXCEPT !.status = "failed"] /\ Pass("clean")
    /\ UNCHANGED <<until, stop, alive, stopped, aborted>> /\ CallOnly

\* Mutant of EndGroup: only the child itself is killed.
EndGroupShallow == alive \ {"child"}

\* Group::end
EndGroup == alive \ {"child", "group"}

\* Then the interrupt and the deadline; either ends the group.
LookAround ==
    /\ call = "look"
    /\ childRan' = [childRan EXCEPT !.cancelled = interrupt, !.timedOut = timeUp]
    /\ IF interrupt \/ timeUp
       THEN Pass("reap") /\ alive' = EndGroup
       ELSE Pass("wait") /\ UNCHANGED alive
    /\ UNCHANGED <<until, stop, stopped, aborted>> /\ CallOnly

ChildReap ==
    /\ call = "reap" /\ "child" \notin alive
    /\ \E s \in {"some", "failed"} : childRan' = [childRan EXCEPT !.status = s]
    /\ Pass("clean")
    /\ UNCHANGED <<until, stop, alive, stopped, aborted>> /\ CallOnly

\* The readers' instant is set; an interrupted call gives them no allowance.
SetUntil ==
    /\ call = "clean"
    /\ until' = IF childRan.cancelled THEN "over" ELSE "set"
    /\ Pass("endgroup")
    /\ UNCHANGED <<childRan, stop, alive, stopped, aborted>> /\ CallOnly

KillGroup ==
    /\ call = "endgroup"
    /\ alive' = EndGroup
    /\ stop' = TRUE
    /\ Pass("stopin")
    /\ UNCHANGED <<childRan, until, stopped, aborted>> /\ CallOnly

\* Mutant of Ask: the call asks once, and goes on.
AskOnce(w, next) ==
    /\ stopped' = [stopped EXCEPT ![w] = TRUE]
    /\ aborted' = IF inCall[w] /\ op[w] = "inside" THEN aborted \cup {w} ELSE aborted
    /\ Pass(next)

\* One round of Pipe::stop: a cancellation reaches what has been submitted, and the
\* call asks again while an operation is declared.
Ask(w, next) ==
    /\ stopped' = [stopped EXCEPT ![w] = TRUE]
    /\ IF inCall[w]
       THEN /\ aborted' = IF op[w] = "inside" THEN aborted \cup {w} ELSE aborted
            /\ UNCHANGED call
       ELSE Pass(next) /\ UNCHANGED aborted

StopWriter ==
    /\ call = "stopin"
    /\ Ask("in", "joinin")
    /\ UNCHANGED <<childRan, until, stop, alive>> /\ CallOnly

JoinWriter ==
    /\ call = "joinin" /\ op["in"] = "done"
    /\ childRan' = [childRan EXCEPT !.writer =
            IF childOutcome["in"] \in {"failed", "panicked"} THEN "failed" ELSE @]
    /\ Pass("drain")
    /\ UNCHANGED <<until, stop, alive, stopped, aborted>> /\ CallOnly

\* Both readers have ended, or the instant has passed.
ChildDrain ==
    /\ call = "drain" /\ (until = "over" \/ \A w \in Reader : op[w] = "done")
    /\ Pass("stopout")
    /\ UNCHANGED <<childRan, until, stop, alive, stopped, aborted>> /\ CallOnly

StopReader(w, here, next) ==
    /\ call = here
    /\ IF op[w] = "done"
       THEN Pass(next) /\ UNCHANGED <<stopped, aborted>>
       ELSE Ask(w, next)
    /\ UNCHANGED <<childRan, until, stop, alive>> /\ CallOnly

\* An interrupt during the cleanup counts as well.
Interrupted == childRan.cancelled \/ interrupt

\* Both readers are joined before any failure is returned.
ChildReturn ==
    /\ call = "join" /\ \A w \in Reader : op[w] = "done"
    /\ IF \/ \E w \in Reader : childOutcome[w] = "panicked"
          \/ childRan.status = "failed" \/ childRan.writer = "failed"
       THEN Pass("error") /\ UNCHANGED childRan
       ELSE Pass("returned") /\ childRan' = [childRan EXCEPT !.cancelled = Interrupted]
    /\ UNCHANGED <<until, stop, alive, stopped, aborted>> /\ CallOnly

Over == call \in {"returned", "error"}

ChildWorld ==
    \/ \E w \in Reader : Produce(w)
    \/ Consume \/ (\E p \in alive : ProcessExits(p))
    \/ DeadlinePasses \/ ChildInterrupt \/ AllowancePasses
Works(w) == ChildLook(w) \/ ChildBegin(w) \/ Submit(w) \/ LastCall(w)
Calls ==
    \/ TryWait \/ LookAround \/ ChildReap \/ SetUntil \/ KillGroup \/ StopWriter \/ JoinWriter
    \/ ChildDrain \/ StopReader("out", "stopout", "stoperr") \/ StopReader("err", "stoperr", "join")
    \/ ChildReturn

ChildNext ==
    /\ \/ ~Over /\ ChildWorld
       \/ \E w \in ChildWorker : Works(w) \/ Unprepared(w) \/ ChildAgain(w) \/ ChildRead(w)
       \/ ChildWrite
       \/ Calls
    /\ UNCHANGED how

ChildSpec == ChildInit /\ [][ChildNext]_<<how, childVars>>

\* Threads and the clock go on.  An operation that can come back does; processes need
\* not exit, read or write.  Errors and panics are never relied on.
Returns(w) ==
    \/ ChildAgain(w) \/ ChildRead(w) \/ (w = "in" /\ ChildWrite)
    \/ (AtEnd(w) \/ w \in aborted \/ alive = {}) /\ LastCall(w)

ChildFairness ==
    /\ WF_childVars(DeadlinePasses) /\ WF_childVars(AllowancePasses) /\ WF_childVars(Calls)
    /\ \A w \in ChildWorker : /\ WF_childVars(ChildLook(w)) /\ WF_childVars(ChildBegin(w))
                             /\ WF_childVars(Submit(w)) /\ WF_childVars(Returns(w))

ChildFairSpec == ChildSpec /\ ChildFairness

----------------------------------------------------------------------------
(* Properties *)

\* A published handle belongs to a stream whose owner is inside an operation on it: the
\* call never cancels by a handle that was closed, whatever panicked.
HandlesLive == \A w \in ChildWorker : inCall[w] => op[w] \in {"declared", "inside"}

\* When Pipe::stop has returned, its worker is in no operation and enters none.
StopIsFinal ==
    \A w \in ChildWorker :
        stopped[w] /\ call \notin {"stopin", "stopout", "stoperr"} =>
            ~inCall[w] /\ op[w] \notin {"declared", "inside"}

\* Nothing is lost silently: when the call returns, every chunk of a stream was kept,
\* or the stream is reported as truncated, cut short or unreadable.
CaptureAccounted ==
    call = "returned" =>
        \A w \in Reader :
            \/ kept[w] = childSent[w]
            \/ childOutcome[w] \in {"cut", "failed"}
            \/ kept[w] = CaptureCap /\ taken[w] > CaptureCap

\* A capture cut short has a reason the caller can see: the call was cancelled, or the
\* allowance of the readers was over.
CutExplained ==
    call = "returned" /\ (\E w \in Reader : childOutcome[w] = "cut") =>
        childRan.cancelled \/ until = "over"

\* However the call ends, its threads are collected and nothing of the child's group
\* is left alive.
NothingLeftBehind ==
    Over => /\ \A w \in ChildWorker : op[w] = "done"
            /\ alive \subseteq {"stray"}

\* The call returns once the child has exited, the deadline has passed or an interrupt
\* came, though strays hold its pipes and a write is blocked in the kernel.
CallReturns == ("child" \notin alive \/ timeUp \/ interrupt) ~> Over

\* Pipe: a cancellation only meets handles that are open, and is final.
PipesSafe == ChildTypeOK /\ HandlesLive /\ StopIsFinal

\* run_child: the result tells what was lost and why, and nothing is left running.
ResultHonest == CaptureAccounted /\ CutExplained /\ NothingLeftBehind

=============================================================================
