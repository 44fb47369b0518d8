------------------------------- MODULE Kernel -------------------------------
(***************************************************************************)
(* The Jupyter kernel's scheduler, jupyter/src/kernel.rs, with the         *)
(* interrupt state of jupyter/src/worker.rs and the worker reduced to what *)
(* the scheduler sees of it: it takes one request, arms it or refuses it,  *)
(* settles it, waits for the acknowledgement, and may die at any time.     *)
(*                                                                         *)
(* Four kinds of actors interleave: the handlers of the transport (one     *)
(* task per connection), the main loop of run(), the task that reads the   *)
(* worker's pipes, and the worker process.  The pipes, the barriers and    *)
(* the acknowledgement are in module WorkerLink.                           *)
(***************************************************************************)
EXTENDS Naturals, Sequences, FiniteSets, FiniteSetsExt, Functions

CONSTANTS
    Cell,       \* execute requests; each is sent once
    NoCell,     \* no job
    Option,     \* what a request may ask for: records of OptionType
    Runaway,    \* cells whose source only ends when it is interrupted
    Fragile,    \* cells whose connection may end, or refuse a reply
    Chokes,     \* whether the 16 MiB of publication credit may run out
    QueueCap,   \* 64, the longest Queue.pending
    Credits     \* 4 MiB of payload, in requests: pending, aborting and running

OptionType == [size : {"empty", "fits", "oversized", "invalid"},
               silent : BOOLEAN, store : BOOLEAN, stop : BOOLEAN]

ASSUME KernelAssumption ==
    /\ NoCell \notin Cell
    /\ Option \subseteq {o \in OptionType : o.silent => ~o.store}
    /\ Runaway \subseteq Cell
    /\ Fragile \subseteq Cell
    /\ Chokes \in BOOLEAN
    /\ QueueCap \in Nat \ {0}
    /\ Credits \in Nat \ {0}

VARIABLES
    \* the frontend
    option,     \* what each cell sent so far asks for
    log,        \* per cell, what was published and replied under its header
    status,     \* the last status message of all, and who published it
    \* the queue and the flags of App
    pending,    \* Queue.pending
    retiring,   \* Queue.retiring
    permit,     \* App.notify holds a permit
    stop,       \* App.stop is Some
    idle,       \* Output.idle
    count,      \* App.count
    closed,     \* cells whose Route is closed
    interrupt,  \* worker.rs SignalState
    \* the main loop
    pc,         \* where it stands
    cur,        \* the job it popped; kept after the loop ended with it
    reply,      \* the settlement it works on
    aborted,    \* jobs taken from the queue and not yet answered
    grace,      \* stopped.changed() was seen while the job ran
    failure,    \* run()'s failure is Some
    boundary,   \* Collected.active is Some: no acknowledgement yet
    error,      \* Collected.error is Some
    wire,       \* control frames from the worker not yet received
    \* the worker
    worker,     \* "ready", "got", "run", "settled" or "dead"
    flag,       \* its INTERRUPTED flag
    \* history
    target,     \* cells an interrupt was meant for
    ran,        \* cells the worker armed, in order
    admitted,   \* cells that entered the queue, in order
    before,     \* cells sent before the latest reply of the main loop
    choked      \* a publication was refused for lack of credit

frontVars == <<option, log, status>>
appVars == <<pending, permit, retiring, stop, idle, count, closed>>
loopVars == <<pc, cur, reply, aborted, grace, failure, boundary>>
linkVars == <<error, wire>>
workVars == <<worker, flag>>
histVars == <<target, ran, admitted, before, choked>>
vars == <<frontVars, appVars, interrupt, loopVars, linkVars, workVars, histVars>>

Event == {"busy", "input", "result", "error", "reply", "idle"}
Reply == [failed : BOOLEAN, shown : BOOLEAN, lost : BOOLEAN, remote : BOOLEAN]
Frame == [type : {"armed"}] \cup [type : {"settled"}, reply : Reply]
NoOption == [size |-> "none", silent |-> FALSE, store |-> FALSE, stop |-> FALSE]
Place == {"top", "pop", "sleep", "begin", "send", "wait", "take", "publish", "idle",
          "abort", "ack", "finish", "lost", "drain", "shutdown", "kill", "collect",
          "fail", "close", "exit"}

TypeOK ==
    /\ option \in [Cell -> Option \cup {NoOption}]
    /\ log \in [Cell -> Seq(Event)]
    /\ status \in [state : {"busy", "idle"}, by : {"cell", "info", "refusal", "start"}]
    /\ pending \in Seq(Cell) /\ Len(pending) <= QueueCap
    /\ permit \in BOOLEAN /\ retiring \in BOOLEAN /\ stop \in BOOLEAN /\ idle \in BOOLEAN
    /\ count \in Nat
    /\ closed \in SUBSET Cell
    /\ interrupt \in [active : BOOLEAN, armed : BOOLEAN, pending : BOOLEAN, disabled : BOOLEAN]
    /\ pc \in Place
    /\ cur \in Cell \cup {NoCell}
    /\ reply \in Reply
    /\ aborted \in Seq(Cell)
    /\ grace \in BOOLEAN /\ failure \in BOOLEAN /\ boundary \in BOOLEAN /\ error \in BOOLEAN
    /\ wire \in Seq(Frame)
    /\ worker \in {"ready", "got", "run", "settled", "dead"}
    /\ flag \in BOOLEAN
    /\ target \in SUBSET Cell
    /\ ran \in Seq(Cell)
    /\ admitted \in Seq(Cell)
    /\ before \in SUBSET Cell
    /\ choked \in BOOLEAN

NoReply == [failed |-> FALSE, shown |-> FALSE, lost |-> FALSE, remote |-> FALSE]

Init ==
    /\ option = [c \in Cell |-> NoOption]
    /\ log = [c \in Cell |-> << >>]
    /\ status = [state |-> "idle", by |-> "start"]
    /\ pending = << >>
    /\ permit = FALSE
    /\ retiring = FALSE
    /\ stop = FALSE
    /\ idle = TRUE
    /\ count = 0
    /\ closed = {}
    /\ interrupt = [active |-> FALSE, armed |-> FALSE, pending |-> FALSE, disabled |-> FALSE]
    /\ pc = "top"
    /\ cur = NoCell
    /\ reply = NoReply
    /\ aborted = << >>
    /\ grace = FALSE
    /\ failure = FALSE
    /\ boundary = FALSE
    /\ error = FALSE
    /\ wire = << >>
    /\ worker = "ready"
    /\ flag = FALSE
    /\ target = {}
    /\ ran = << >>
    /\ admitted = << >>
    /\ before = {}
    /\ choked = FALSE

----------------------------------------------------------------------------
(* What the frontend sees *)

Sent == {c \in Cell : option[c] # NoOption}
Answered(c) == "reply" \in Range(log[c])

Unless(condition, event) == IF condition THEN << >> ELSE <<event>>

\* Output::reply, which is silent on a closed route.
ReplyEvents(c) == Unless(c \in closed, "reply")

\* Output::publish, status and reply under the header of c: the first n of the
\* events are out.  The next one failed, because the publication has no credit or
\* because the route refuses the reply and is closed.
Publish(c, by, events, n) ==
    LET stuck == IF n = Len(events) THEN "no" ELSE events[n + 1]
        states == {i \in 1 .. n : events[i] \in {"busy", "idle"}}
    IN  /\ n \in 0 .. Len(events)
        /\ stuck = "reply" => c \in Fragile
        /\ stuck \notin {"no", "reply"} => Chokes
        /\ log' = [log EXCEPT ![c] = @ \o SubSeq(events, 1, n)]
        /\ status' = IF states = {} THEN status ELSE [state |-> events[Max(states)], by |-> by]
        /\ closed' = IF stuck = "reply" THEN closed \cup {c} ELSE closed
        /\ choked' = (choked \/ stuck \notin {"no", "reply"})

\* Output::refusal, under the order lock: busy, error unless silent, the reply
\* and idle.  The idle watch is not touched: it tells whether a cell executes.
RefusalEvents(c, o) ==
    <<"busy">> \o Unless(o.silent, "error") \o ReplyEvents(c) \o <<"idle">>

\* The jobs whose byte credit is taken.
Executing ==
    pc \in {"begin", "send", "wait", "take", "publish", "idle", "abort", "ack", "finish", "lost"}
Alive == Range(pending) \cup Range(aborted) \cup {c \in {cur} : Executing}

----------------------------------------------------------------------------
(* Interrupt, the state shared with the worker's supervisor *)

\* Interrupt::request, and the signal it sends at once to an armed worker.
Request(queued) ==
    LET due == ~interrupt.disabled /\ (interrupt.active \/ queued)
    IN  /\ interrupt' = IF due THEN [interrupt EXCEPT !.pending = ~interrupt.armed]
                               ELSE interrupt
        /\ flag' = (flag \/ (due /\ interrupt.armed /\ worker # "dead"))

\* Interrupt::armed: a signal that waited for the arming is sent now.
Armed ==
    LET due == interrupt.pending /\ ~interrupt.disabled
    IN  /\ interrupt' = [interrupt EXCEPT !.armed = TRUE, !.pending = @ /\ ~due]
        /\ flag' = (flag \/ (due /\ worker # "dead"))

\* Mutant of BeginInterrupt: an interrupt that came before the job was popped is lost.
BeginInterruptClears ==
    interrupt' = [interrupt EXCEPT !.active = TRUE, !.armed = FALSE, !.pending = FALSE]

\* Interrupt::begin keeps a pending interrupt: it was meant for this job.
BeginInterrupt == interrupt' = [interrupt EXCEPT !.active = TRUE, !.armed = FALSE]

\* Mutant of FinishInterrupt: an interrupt that never met an armed worker stays.
FinishInterruptKeeps ==
    interrupt' = [interrupt EXCEPT !.active = FALSE, !.armed = FALSE]

\* Interrupt::finish
FinishInterrupt ==
    interrupt' = [interrupt EXCEPT !.active = FALSE, !.armed = FALSE, !.pending = FALSE]

\* Interrupt::disable
DisableInterrupt ==
    interrupt' = [active |-> FALSE, armed |-> FALSE, pending |-> FALSE, disabled |-> TRUE]

----------------------------------------------------------------------------
(* Handlers of the transport *)

\* Mutant of Full: admission stays open.
FullOpen == Len(pending) = QueueCap \/ Cardinality(Alive) >= Credits

\* No room: admission is closed, the queue is full, or the byte credit is taken.
Full == retiring \/ Len(pending) = QueueCap \/ Cardinality(Alive) >= Credits

\* execute_request on shell: options() and the admission under the queue lock.
Admit(c, o) ==
    /\ pc # "exit"
    /\ c \notin Sent
    /\ o.size # "invalid"
    /\ ~Full
    /\ option' = [option EXCEPT ![c] = o]
    /\ pending' = Append(pending, c)
    /\ permit' = TRUE
    /\ admitted' = Append(admitted, c)
    /\ UNCHANGED <<log, status, retiring, stop, idle, count, closed, interrupt,
                   loopVars, linkVars, workVars, target, ran, before, choked>>

\* KernelBusy or InvalidRequest.
Refuse(c, o, n) ==
    /\ pc # "exit"
    /\ c \notin Sent
    /\ o.size = "invalid" \/ Full
    /\ option' = [option EXCEPT ![c] = o]
    /\ Publish(c, "refusal", RefusalEvents(c, o), n)
    /\ UNCHANGED <<pending, permit, retiring, stop, idle, count, interrupt,
                   loopVars, linkVars, workVars, target, ran, admitted, before>>

\* The connection a request came on ends: its Route is closed.
Disconnect(c) ==
    /\ pc # "exit"
    /\ c \in (Sent \cap Fragile) \ closed
    /\ closed' = closed \cup {c}
    /\ UNCHANGED <<frontVars, pending, permit, retiring, stop, idle, count, interrupt,
                   loopVars, linkVars, workVars, histVars>>

\* interrupt_request on control, with the queue lock held.
InterruptRequest ==
    /\ pc # "exit"
    /\ Request(pending # << >>)
    /\ target' = IF interrupt.disabled THEN target
                 ELSE IF interrupt.active THEN target \cup {cur}
                 ELSE IF pending # << >> THEN target \cup {Head(pending)}
                 ELSE target
    /\ UNCHANGED <<frontVars, appVars, loopVars, linkVars, worker, ran, admitted, before, choked>>

\* shutdown_request: admission closes, the first one sets the deadline.  Its reply,
\* App.replied, only shortens the wait at the end, which the deadline bounds.
ShutdownRequest ==
    /\ pc # "exit"
    /\ ~stop
    /\ retiring' = TRUE
    /\ stop' = TRUE
    /\ UNCHANGED <<frontVars, pending, permit, idle, count, closed, interrupt,
                   loopVars, linkVars, workVars, histVars>>

\* kernel_info_request on shell: Output::shell_info waits for the idle watch and
\* publishes busy, the reply and idle under the order lock; it ends after busy
\* when the reply or the idle message fails.
ShellInfo(state) ==
    /\ pc # "exit"
    /\ idle
    /\ status' = [state |-> state, by |-> "info"]
    /\ UNCHANGED <<option, log, appVars, interrupt, loopVars, linkVars, workVars, histVars>>

\* kernel_info_request on control: the status pair only when idle.
ControlInfo(state) ==
    /\ pc # "exit"
    /\ status' = IF idle THEN [state |-> state, by |-> "info"] ELSE status
    /\ UNCHANGED <<option, log, appVars, interrupt, loopVars, linkVars, workVars, histVars>>

\* How many events one step publishes at most.
Events == 0 .. 4

Handler ==
    \/ \E c \in Cell, o \in Option :
          \/ Admit(c, o)
          \/ \E n \in Events : Refuse(c, o, n)
    \/ \E c \in Cell : Disconnect(c)
    \/ InterruptRequest
    \/ ShutdownRequest
    \/ \E state \in {"busy", "idle"} : ShellInfo(state) \/ ControlInfo(state)

----------------------------------------------------------------------------
(* The main loop of run() *)

\* The tail of every step that fails the job: run() reports it, unless the job
\* ran on the grace of a shutdown, whose outcome run() does not look at.
Err == pc' = IF grace THEN "drain" ELSE "lost"

Top ==
    /\ pc = "top"
    /\ pc' = IF stop \/ error THEN "drain" ELSE "pop"
    /\ failure' = (~stop /\ error)
    /\ UNCHANGED <<frontVars, appVars, interrupt, cur, reply, aborted, grace, boundary,
                   linkVars, workVars, histVars>>

\* App::pop, under the queue lock.
Pop ==
    /\ pc = "pop"
    /\ pending # << >>
    /\ cur' = Head(pending)
    /\ pending' = Tail(pending)
    /\ BeginInterrupt
    /\ pc' = "begin"
    /\ UNCHANGED <<frontVars, permit, retiring, stop, idle, count, closed, reply, aborted,
                   grace, failure, boundary, linkVars, workVars, histVars>>

\* No job: wait for a request, a shutdown or the worker.
Sleep ==
    /\ pc = "pop" /\ pending = << >>
    /\ pc' = "sleep"
    /\ UNCHANGED <<frontVars, appVars, interrupt, cur, reply, aborted, grace, failure, boundary,
                   linkVars, workVars, histVars>>

\* notified() or stopped.changed(); both remember what came before the wait.
Wake ==
    /\ pc = "sleep"
    /\ permit \/ stop \/ error
    /\ permit' = (permit /\ (stop \/ error))
    /\ pc' = "top"
    /\ UNCHANGED <<frontVars, pending, retiring, stop, idle, count, closed, interrupt, cur, reply,
                   aborted, grace, failure, boundary, linkVars, workVars, histVars>>

\* App::execute up to the worker: count and history, busy, execute_input.  An
\* oversized source and the silent empty query settle without the worker.
Begin(n) ==
    LET o == option[cur]
        oversized == o.size = "oversized"
        query == o.silent /\ o.size = "empty"
        events == <<"busy">> \o Unless(oversized \/ o.silent, "input")
    IN  /\ pc = "begin"
        /\ count' = count + (IF o.store THEN 1 ELSE 0)
        /\ Publish(cur, "cell", events, n)
        /\ idle' = FALSE
        /\ reply' = [NoReply EXCEPT !.failed = oversized]
        /\ IF n < Len(events) THEN Err ELSE pc' = IF oversized \/ query THEN "take" ELSE "send"
        /\ UNCHANGED <<option, pending, permit, retiring, stop, interrupt, cur, aborted,
                       grace, failure, boundary, linkVars, workVars, target, ran, admitted, before>>

\* Worker::operation up to the request: health, the boundary, the write.
Send ==
    /\ pc = "send"
    /\ ~error /\ ~boundary
    /\ boundary' = TRUE
    /\ IF worker = "dead" THEN Err /\ UNCHANGED worker
                          ELSE worker' = "got" /\ pc' = "wait"
    /\ UNCHANGED <<frontVars, appVars, interrupt, cur, reply, aborted, grace, failure,
                   linkVars, flag, histVars>>

SendRefused ==
    /\ pc = "send"
    /\ error \/ boundary
    /\ Err
    /\ UNCHANGED <<frontVars, appVars, interrupt, cur, reply, aborted, grace, failure, boundary,
                   linkVars, workVars, histVars>>

\* A control frame arrives: armed forwards a waiting interrupt ...
ReceiveArmed ==
    /\ pc = "wait"
    /\ wire # << >> /\ Head(wire).type = "armed"
    /\ wire' = Tail(wire)
    /\ Armed
    /\ UNCHANGED <<frontVars, appVars, loopVars, error, worker, histVars>>

\* ... and settled, with both barriers, completes the operation.
ReceiveSettled ==
    /\ pc = "wait" /\ ~error
    /\ wire # << >> /\ Head(wire).type = "settled"
    /\ wire' = Tail(wire)
    /\ reply' = Head(wire).reply
    /\ pc' = "take"
    /\ UNCHANGED <<frontVars, appVars, interrupt, cur, aborted, grace, failure, boundary,
                   error, workVars, histVars>>

\* The worker's streams failed, or the five seconds that began with the settled
\* frame or that failure are over.
OperationFails ==
    /\ pc = "wait"
    /\ error \/ \E i \in DOMAIN wire : wire[i].type = "settled"
    /\ Err
    /\ UNCHANGED <<frontVars, appVars, interrupt, cur, reply, aborted, grace, failure, boundary,
                   linkVars, workVars, histVars>>

\* Output of the cell, or late output between cells, that the publication has no
\* credit for.
StreamRefused ==
    /\ Chokes /\ choked' = TRUE
    /\ \/ pc = "wait" /\ Err /\ UNCHANGED failure
       \/ pc = "pop" /\ pending = << >> /\ pc' = "drain" /\ failure' = TRUE
    /\ UNCHANGED <<frontVars, appVars, interrupt, cur, reply, aborted, grace, boundary,
                   linkVars, workVars, target, ran, admitted, before>>

\* Mutant of SettleTake: the jobs to abort stay in the queue.
SettleTakeCopies ==
    /\ pc = "take"
    /\ aborted' = IF reply.failed /\ option[cur].stop THEN pending ELSE << >>
    /\ pc' = "publish"
    /\ UNCHANGED <<frontVars, appVars, interrupt, cur, reply, grace, failure, boundary,
                   linkVars, workVars, histVars>>

\* App::settle takes the jobs to abort before anything is published ...
SettleTake ==
    LET aborts == reply.failed /\ option[cur].stop
    IN  /\ pc = "take"
        /\ aborted' = IF aborts THEN pending ELSE << >>
        /\ pending' = IF aborts THEN << >> ELSE pending
        /\ pc' = "publish"
        /\ UNCHANGED <<frontVars, permit, retiring, stop, idle, count, closed, interrupt, cur,
                       reply, grace, failure, boundary, linkVars, workVars, histVars>>

\* ... then the error or the result, unless silent, and the execute_reply.  When
\* one of them fails, settle returns there and drops the jobs it took.
SettleReply(n) ==
    LET shown == IF reply.failed THEN <<"error">> ELSE IF reply.shown THEN <<"result">> ELSE << >>
        events == (IF option[cur].silent THEN << >> ELSE shown) \o ReplyEvents(cur)
        failed == n < Len(events)
    IN  /\ pc = "publish"
        /\ Publish(cur, "cell", events, n)
        /\ before' = IF failed THEN before ELSE Sent
        /\ aborted' = IF failed THEN << >> ELSE aborted
        /\ IF failed THEN Err ELSE pc' = "idle"
        /\ UNCHANGED <<option, pending, permit, retiring, stop, idle, count, interrupt, cur,
                       reply, grace, failure, boundary, linkVars, workVars, target, ran, admitted>>

\* Mutant of SettleIdle: the queue is taken again after the reply is out.
SettleIdleTakes(n) ==
    LET aborts == reply.failed /\ option[cur].stop
    IN  /\ pc = "idle"
        /\ Publish(cur, "cell", <<"idle">>, n)
        /\ idle' = TRUE
        /\ pc' = "abort"
        /\ aborted' = IF aborts THEN aborted \o pending ELSE aborted
        /\ pending' = IF aborts THEN << >> ELSE pending
        /\ UNCHANGED <<option, permit, retiring, stop, count, interrupt, cur, reply,
                       grace, failure, boundary, linkVars, workVars, target, ran, admitted, before>>

\* Output::status("idle")
SettleIdle(n) ==
    /\ pc = "idle"
    /\ Publish(cur, "cell", <<"idle">>, n)
    /\ idle' = TRUE
    /\ aborted' = IF n = 0 THEN << >> ELSE aborted
    /\ IF n = 0 THEN Err ELSE pc' = "abort"
    /\ UNCHANGED <<option, pending, permit, retiring, stop, count, interrupt, cur, reply,
                   grace, failure, boundary, linkVars, workVars, target, ran, admitted, before>>

\* fail_pending, one job: the jobs after one that cannot be answered are dropped.
FailOne(n) ==
    LET c == Head(aborted)
        events == RefusalEvents(c, option[c])
    IN  /\ aborted # << >>
        /\ Publish(c, "refusal", events, n)
        /\ aborted' = IF n < Len(events) THEN << >> ELSE Tail(aborted)
        /\ IF n < Len(events) /\ pc = "abort" THEN Err ELSE UNCHANGED pc

SettleAbort(n) ==
    /\ pc = "abort"
    /\ FailOne(n)
    /\ UNCHANGED <<option, pending, permit, retiring, stop, idle, count, interrupt, cur, reply,
                   grace, failure, boundary, linkVars, workVars, target, ran, admitted, before>>

SettleDone ==
    /\ pc = "abort" /\ aborted = << >>
    /\ pc' = IF reply.remote THEN "ack" ELSE "finish"
    /\ UNCHANGED <<frontVars, appVars, interrupt, cur, reply, aborted, grace, failure, boundary,
                   linkVars, workVars, histVars>>

\* The acknowledgement.  A worker that lost its state exits on it.
Acknowledge ==
    /\ pc = "ack"
    /\ worker = "settled"
    /\ worker' = IF reply.lost THEN "dead" ELSE "ready"
    /\ pc' = "finish"
    /\ UNCHANGED <<frontVars, appVars, interrupt, cur, reply, aborted, grace, failure, boundary,
                   linkVars, flag, histVars>>

\* The write fails because the worker is gone, or the five seconds are over.
AcknowledgeFails ==
    /\ pc = "ack"
    /\ Err
    /\ UNCHANGED <<frontVars, appVars, interrupt, cur, reply, aborted, grace, failure, boundary,
                   linkVars, workVars, histVars>>

\* The end of Worker::operation and of App::execute.  The job is dropped; one
\* that lost the worker's state is an error although it was answered.
Finish ==
    /\ pc = "finish"
    /\ FinishInterrupt
    /\ boundary' = IF reply.remote THEN FALSE ELSE boundary
    /\ IF reply.lost THEN Err /\ UNCHANGED cur
       ELSE pc' = (IF grace THEN "drain" ELSE "top") /\ cur' = NoCell
    /\ UNCHANGED <<frontVars, appVars, reply, aborted, grace, failure, linkVars, workVars,
                   histVars>>

\* run() answers for the job that failed, whatever was answered before, and
\* ignores what of it fails.
ReportLost(shown, delivered) ==
    LET loud == ~option[cur].silent
    IN  /\ pc = "lost"
        /\ ~shown => loud /\ Chokes
        /\ delivered => cur \notin closed
        /\ ~delivered => cur \in Fragile
        /\ log' = [log EXCEPT ![cur] = @ \o Unless(~loud \/ ~shown, "error")
                                         \o Unless(~delivered, "reply")]
        /\ closed' = IF delivered THEN closed ELSE closed \cup {cur}
        /\ choked' = (choked \/ ~shown)
        /\ failure' = TRUE
        /\ pc' = "drain"
        /\ UNCHANGED <<option, status, pending, permit, retiring, stop, idle, count, interrupt,
                       cur, reply, aborted, grace, boundary, linkVars, workVars, target, ran,
                       admitted, before>>

\* stopped.changed() while the job runs: it is interrupted and has a second more.
NoticeStop ==
    /\ pc \in {"begin", "send", "wait", "ack"}
    /\ stop /\ ~grace
    /\ grace' = TRUE
    /\ Request(TRUE)
    /\ target' = target \cup {cur}
    /\ UNCHANGED <<frontVars, appVars, pc, cur, reply, aborted, failure, boundary, linkVars,
                   worker, ran, admitted, before, choked>>

\* The second is over: the job is abandoned where it waits.
GraceExpires ==
    /\ pc \in {"send", "wait", "ack"}
    /\ grace
    /\ pc' = "drain"
    /\ UNCHANGED <<frontVars, appVars, interrupt, cur, reply, aborted, grace, failure, boundary,
                   linkVars, workVars, histVars>>

\* After the loop: admission closes; a healthy worker is asked to shut down, for
\* at most a second; terminate kills what is left and disables interrupts.
Drain ==
    /\ pc = "drain"
    /\ retiring' = TRUE
    /\ pc' = IF failure THEN "kill" ELSE "shutdown"
    /\ UNCHANGED <<frontVars, pending, permit, stop, idle, count, closed, interrupt, cur, reply,
                   aborted, grace, failure, boundary, linkVars, workVars, histVars>>

ShutdownWorker ==
    /\ pc = "shutdown"
    /\ pc' = "kill"
    /\ \/ /\ ~error /\ ~boundary /\ worker = "ready"
          /\ worker' = "dead"
          /\ FinishInterrupt
       \/ UNCHANGED <<worker, interrupt>>
    /\ UNCHANGED <<frontVars, appVars, cur, reply, aborted, grace, failure, boundary,
                   linkVars, flag, histVars>>

Terminate ==
    /\ pc = "kill"
    /\ DisableInterrupt
    /\ worker' = "dead"
    /\ pc' = "collect"
    /\ UNCHANGED <<frontVars, appVars, cur, reply, aborted, grace, failure, boundary, linkVars,
                   flag, histVars>>

\* fail_pending(take_pending(true), ...)
Collect ==
    /\ pc = "collect"
    /\ retiring' = TRUE
    /\ aborted' = pending
    /\ pending' = << >>
    /\ pc' = "fail"
    /\ UNCHANGED <<frontVars, permit, stop, idle, count, closed, interrupt, cur, reply,
                   grace, failure, boundary, linkVars, workVars, histVars>>

FailPending(n) ==
    /\ pc = "fail"
    /\ FailOne(n)
    /\ UNCHANGED <<option, pending, permit, retiring, stop, idle, count, interrupt,
                   cur, reply, grace, failure, boundary, linkVars, workVars, target, ran, admitted, before>>

FailDone ==
    /\ pc = "fail" /\ aborted = << >>
    /\ pc' = "close"
    /\ UNCHANGED <<frontVars, appVars, interrupt, cur, reply, aborted, grace, failure, boundary,
                   linkVars, workVars, histVars>>

\* The shutdown reply was written, or the deadline is over; the server closes.
Exit ==
    /\ pc = "close"
    /\ pc' = "exit"
    /\ UNCHANGED <<frontVars, appVars, interrupt, cur, reply, aborted, grace, failure, boundary,
                   linkVars, workVars, histVars>>

MainLoop ==
    \/ Top \/ Pop \/ Sleep \/ Wake \/ Send \/ SendRefused
    \/ ReceiveArmed \/ ReceiveSettled \/ OperationFails \/ StreamRefused
    \/ SettleTake \/ SettleDone \/ Acknowledge \/ AcknowledgeFails \/ Finish
    \/ NoticeStop \/ GraceExpires
    \/ Drain \/ ShutdownWorker \/ Terminate \/ Collect \/ FailDone \/ Exit
    \/ \E n \in Events : Begin(n) \/ SettleReply(n) \/ SettleIdle(n) \/ SettleAbort(n) \/ FailPending(n)
    \/ \E shown, delivered \in BOOLEAN : ReportLost(shown, delivered)

----------------------------------------------------------------------------
(* The worker process, as far as the scheduler sees it, and its pipes *)

\* Session::eval_input: clear_interrupt, then the armed frame, then execution.
WorkerArm ==
    /\ worker = "got"
    /\ worker' = "run"
    /\ flag' = FALSE
    /\ wire' = Append(wire, [type |-> "armed"])
    /\ ran' = Append(ran, cur)
    /\ UNCHANGED <<frontVars, appVars, interrupt, loopVars, error, target, admitted, before,
                   choked>>

\* Refused by the worker before it is armed (memory ceiling).
WorkerRefuse ==
    /\ worker = "got"
    /\ worker' = "settled"
    /\ wire' = Append(wire, [type |-> "settled",
                            reply |-> [NoReply EXCEPT !.failed = TRUE, !.remote = TRUE]])
    /\ UNCHANGED <<frontVars, appVars, interrupt, loopVars, error, flag, histVars>>

\* Execution ends: a value or none, a failure, or the interrupt it saw.  Cleanup
\* of native operations may fail, and with it the worker's state is lost.
WorkerSettle(r) ==
    /\ worker = "run"
    /\ r.remote /\ (r.shown => ~r.failed) /\ (r.lost => r.failed)
    /\ cur \in Runaway => flag /\ r.failed
    /\ worker' = "settled"
    /\ wire' = Append(wire, [type |-> "settled", reply |-> r])
    /\ UNCHANGED <<frontVars, appVars, interrupt, loopVars, error, flag, histVars>>

WorkerDies ==
    /\ worker # "dead"
    /\ worker' = "dead"
    /\ UNCHANGED <<frontVars, appVars, interrupt, loopVars, linkVars, flag, histVars>>

\* The reader tasks see the end of the streams: failure().
ReadersFail ==
    /\ worker = "dead" /\ ~error
    /\ pc \notin {"collect", "fail", "close", "exit"}
    /\ error' = TRUE
    /\ UNCHANGED <<frontVars, appVars, interrupt, loopVars, wire, workVars, histVars>>

Evaluation == WorkerArm \/ WorkerRefuse \/ (\E r \in Reply : WorkerSettle(r))

\* The kernel has exited.
Exited == pc = "exit" /\ UNCHANGED vars

Next == Handler \/ MainLoop \/ Evaluation \/ WorkerDies \/ ReadersFail \/ Exited

Spec == Init /\ [][Next]_vars

\* The runtime schedules the main loop, the readers and the shutdown handler;
\* timers run; the worker computes.  Nothing is assumed of the frontend, and
\* nothing makes the worker die.
Fairness == WF_vars(MainLoop) /\ WF_vars(Evaluation) /\ WF_vars(ReadersFail)

FairSpec == Spec /\ Fairness

----------------------------------------------------------------------------
(* Properties *)

\* Interrupt and clear_interrupt: the worker sees an interrupt only while it
\* executes a cell the interrupt was meant for: the one that was active when the
\* request came, or the first in the queue when none was.  A signal that reaches
\* the worker late never stops the next cell.
InterruptOnTarget == worker = "run" /\ flag => cur \in target

\* App::settle: a request sent after the failing cell was answered is not among
\* those aborted for it ("new requests after that queue snapshot remain
\* admissible", plans/0047).
AbortsOnlyEarlier == pc \in {"idle", "abort"} => Range(aborted) \subseteq before

\* App::pop and App::settle: cells run in the order they were admitted, each at most
\* once, and one that was aborted or refused does not run, now or later: it would
\* have two busy messages.
RunsInOrder ==
    /\ \A i, j \in DOMAIN ran : i < j =>
          \E k, l \in DOMAIN admitted : k < l /\ admitted[k] = ran[i] /\ admitted[l] = ran[j]
    /\ \A c \in Cell : Cardinality({i \in DOMAIN log[c] : log[c][i] = "busy"}) <= 1

\* "Its busy/idle pair cannot leave a running notebook falsely idle"
\* (jupyter/README.md): while a cell is busy, the last status message is never
\* the idle of a kernel_info reply.  (The pair of a refused request is not held back:
\* it is published whether or not a cell runs.)
Running == pc \in {"send", "wait", "take", "publish", "idle"}
InfoNeverObscures == Running => status # [state |-> "idle", by |-> "info"]

\* The position of idle in what a cell got.
IdleLast(c) == \A i \in DOMAIN log[c] : log[c][i] = "idle" => i = Len(log[c])
AnsweredOnce(c) == Cardinality({i \in DOMAIN log[c] : log[c][i] = "reply"}) <= 1

\* App::settle, fail_pending and run(): every cell but the one the kernel fails with is
\* answered at most once, and nothing is published for it after its idle.
AnswersWellFormed ==
    \A c \in Cell : (c = cur /\ pc \in {"drain", "kill", "collect", "fail", "close", "exit"})
                       \/ (IdleLast(c) /\ AnsweredOnce(c))

\* run() after its loop: when the kernel has exited, every admitted request has its reply, unless a
\* route or the publication refused one, except a job abandoned by a shutdown.
AdmittedAnswered ==
    pc = "exit" /\ closed = {} /\ ~choked
      => \A c \in Range(admitted) : Answered(c) \/ (grace /\ c = cur)

\* "busy, execute_input as applicable, stream messages, then an execute_result
\* [...] or an error, execute_reply, and finally idle" (plans/0047), of every cell.
IdleIsFinal == \A c \in Cell : IdleLast(c)

\* "fails queued requests, and exits nonzero", "where channels permit"
\* (plans/0047): a queued request whose own route is open is answered.
QueuedAnswered ==
    pc = "exit" => \A c \in Range(admitted) \ ({cur} \cup closed) : Answered(c)

\* shutdown_request and the end of run(): a shutdown request ends the kernel,
\* whatever the worker does.
ShutdownCompletes == stop ~> pc = "exit"

\* Interrupt: an interrupt frees the kernel of the cell it was meant for, also of
\* one that never ends by itself, had not been armed or not even been popped.
InterruptFrees == \A c \in Cell : c \in target ~> (Answered(c) \/ pc = "exit")

\* App::notify: an admitted cell is begun or failed, unless a cell that nobody
\* interrupts runs before it.  No request waits for a wakeup that was lost.
QueueServed ==
    \A c \in Cell : c \in Range(admitted)
        ~> (log[c] # << >> \/ pc = "exit" \/ (worker = "run" /\ cur \in Runaway /\ ~flag))

\* App: what a client sees of a cell is one well-formed answer, and kernel_info never leaves
\* an idle over a cell that is busy.
AnswersSound == TypeOK /\ InfoNeverObscures /\ AnswersWellFormed

\* App::pop and App::settle: the queue is served in order, and only what was there before a
\* failure is aborted for it.
QueueSound == AbortsOnlyEarlier /\ RunsInOrder

\* run(): the kernel ends when it is told to, lets go of an interrupted cell and serves its
\* queue.
KernelProgress == ShutdownCompletes /\ InterruptFrees /\ QueueServed

=============================================================================
