----------------------------- MODULE HttpServer -----------------------------
(***************************************************************************)
(* `rnx serve`: src/http_server/mod.rs and worker.rs.                      *)
(*                                                                         *)
(* The transport runs `route` for each request on its own thread.  It      *)
(* admits the request, reads its body and hands a job to one of the        *)
(* workers, each a thread with a bounded queue, slots and one task per     *)
(* busy slot (`invoke`).  The job carries a oneshot for the answer and a   *)
(* deadline.  A signal, or a worker that failed, stops the server: the     *)
(* workers refuse what is queued, let what is active go on until the grace *)
(* is over, and are joined.                                                *)
(*                                                                         *)
(* A slot here is a token: module Slot has what it must be to come back.   *)
(* Timers are the flags `expired` and `grace`, which may be set any time.  *)
(***************************************************************************)
EXTENDS Naturals, Sequences, FiniteSets, SequencesExt

CONSTANTS
    HttpRequest,
    Patient,   \* requests whose client stays and whose deadline is far away
    Workers,   \* options.workers
    Active,    \* ACTIVE, slots of a worker
    HttpQueue  \* QUEUE, jobs waiting for a worker

ASSUME ServerAssumption ==
    /\ Patient \subseteq HttpRequest
    /\ Workers \in Nat \ {0}
    /\ Active \in Nat \ {0}
    /\ HttpQueue \in Nat \ {0}

HttpWorker == 0 .. (Workers - 1)

VARIABLES
    httpMain,    \* "starting", "aborting" (a start failed), "serving", "draining", "exited"
    failure,     \* the loop of serve() was left with a failure: exit code 1
    grace,       \* the deadline that was sent with stop has passed
    httpThread,  \* of each worker: "starting", "running", "ended", "failed"
    stopping,    \* the worker's own `deadline` is Some
    slots,       \* how many slots lie in its Vec
    queue,       \* its mpsc channel
    at,          \* where route() of a request stands
    status,      \* what it answered
    permits,     \* requests that hold an admission permit
    nextWorker,  \* Hub.next
    expired,     \* requests whose deadline has passed
    httpReply,   \* the oneshot: "none", "open", "dropped" or what was sent
    home,        \* the worker that got the job
    task,        \* invoke(): "none", "spawned", "looked", "running", "kept", "lost"
    httpRan      \* history: how far the handler got

mainVars == <<httpMain, failure, grace>>
workerVars == <<httpThread, stopping, slots, queue>>
routeVars == <<at, status, permits, nextWorker>>
jobVars == <<httpReply, home, task, httpRan>>
httpVars == <<mainVars, workerVars, routeVars, expired, jobVars>>

HttpAnswer == {"refused", "failed", "timeout", "handler"}

HttpTypeOK ==
    /\ httpMain \in {"starting", "aborting", "serving", "draining", "exited"}
    /\ failure \in BOOLEAN /\ grace \in BOOLEAN
    /\ httpThread \in [HttpWorker -> {"starting", "running", "ended", "failed"}]
    /\ stopping \in [HttpWorker -> BOOLEAN]
    /\ slots \in [HttpWorker -> 0 .. Active]
    /\ queue \in [HttpWorker -> Seq(HttpRequest)] /\ \A w \in HttpWorker : Len(queue[w]) <= HttpQueue
    /\ at \in [HttpRequest -> {"new", "body", "waiting", "answered", "done", "gone"}]
    /\ status \in [HttpRequest -> {"none", "left"} \cup HttpAnswer]
    /\ permits \subseteq HttpRequest /\ Cardinality(permits) <= Workers * (HttpQueue + Active)
    /\ nextWorker \in HttpWorker
    /\ expired \subseteq HttpRequest
    /\ httpReply \in [HttpRequest -> {"none", "open", "dropped"} \cup HttpAnswer]
    /\ home \in [HttpRequest -> HttpWorker]
    /\ task \in [HttpRequest -> {"none", "spawned", "looked", "running", "kept", "lost"}]
    /\ httpRan \in [HttpRequest -> {"no", "begun", "complete"}]

HttpInit ==
    /\ httpMain = "starting" /\ failure = FALSE /\ grace = FALSE
    /\ httpThread = [w \in HttpWorker |-> "starting"]
    /\ stopping = [w \in HttpWorker |-> FALSE]
    /\ slots = [w \in HttpWorker |-> 0]
    /\ queue = [w \in HttpWorker |-> <<>>]
    /\ at = [r \in HttpRequest |-> "new"]
    /\ status = [r \in HttpRequest |-> "none"]
    /\ permits = {} /\ nextWorker = 0 /\ expired = {}
    /\ httpReply = [r \in HttpRequest |-> "none"]
    /\ home = [r \in HttpRequest |-> 0]
    /\ task = [r \in HttpRequest |-> "none"]
    /\ httpRan = [r \in HttpRequest |-> "no"]

----------------------------------------------------------------------------
(* route(): the transport's side of a request *)

\* route() returns.
Respond(r, s) ==
    /\ at' = [at EXCEPT ![r] = "answered"]
    /\ status' = [status EXCEPT ![r] = s]

\* The request is seen: stop and admission first, then its head.
Arrive(r) ==
    /\ at[r] = "new"
    /\ httpMain \in {"serving", "draining"}
    /\ ~grace
    /\ IF httpMain = "draining" \/ Cardinality(permits) = Workers * (HttpQueue + Active)
       THEN Respond(r, "refused") /\ UNCHANGED permits
       ELSE /\ permits' = permits \cup {r}
            /\ \/ Respond(r, "refused")
               \/ at' = [at EXCEPT ![r] = "body"] /\ UNCHANGED status
    /\ UNCHANGED <<mainVars, workerVars, nextWorker, expired, jobVars>>

\* Before it is a job: the body is too long or too late, the server stopped while
\* it was read, or the route table has no handler for it.
TurnAway(r) ==
    /\ at[r] = "body"
    /\ Respond(r, "refused")
    /\ UNCHANGED <<mainVars, workerVars, permits, nextWorker, expired, jobVars>>

\* The receiver exists, is not closed and has room.
Accepts(w) == httpThread[w] = "running" /\ ~stopping[w] /\ Len(queue[w]) < HttpQueue

\* The workers in the order in which try_send meets them.
Turn(i) == (nextWorker + i) % Workers

\* The body is there: the first worker from next on that takes the job.
Dispatch(r) ==
    /\ at[r] = "body"
    /\ httpMain = "serving"
    /\ nextWorker' = Turn(1)
    /\ \/ \E i \in 0 .. (Workers - 1) :
             /\ Accepts(Turn(i)) /\ \A j \in 0 .. (i - 1) : ~Accepts(Turn(j))
             /\ queue' = [queue EXCEPT ![Turn(i)] = Append(@, r)]
             /\ home' = [home EXCEPT ![r] = Turn(i)]
             /\ httpReply' = [httpReply EXCEPT ![r] = "open"]
             /\ at' = [at EXCEPT ![r] = "waiting"]
             /\ UNCHANGED status
       \/ /\ \A w \in HttpWorker : ~Accepts(w)
          /\ Respond(r, "refused") /\ UNCHANGED <<queue, httpReply, home>>
    /\ UNCHANGED <<mainVars, httpThread, stopping, slots, permits, expired, task, httpRan>>

\* Mutant of HttpReceive: a job that was dropped is taken for one that was refused.
ReceiveOptimistic(r) ==
    /\ at[r] = "waiting"
    /\ \/ httpReply[r] \in HttpAnswer /\ Respond(r, httpReply[r])
       \/ httpReply[r] = "dropped" /\ Respond(r, "refused")
    /\ UNCHANGED <<mainVars, workerVars, permits, nextWorker, expired, jobVars>>

\* timeout_at(deadline, answer): the answer wins over the timer.
HttpReceive(r) ==
    /\ at[r] = "waiting"
    /\ \/ httpReply[r] \in HttpAnswer /\ Respond(r, httpReply[r])
       \/ httpReply[r] = "dropped" /\ Respond(r, "failed")
       \/ httpReply[r] = "open" /\ r \in expired /\ Respond(r, "timeout")
    /\ UNCHANGED <<mainVars, workerVars, permits, nextWorker, expired, jobVars>>

\* The response body is written, and AdmittedBody dropped.
HttpSent(r) ==
    /\ at[r] = "answered"
    /\ at' = [at EXCEPT ![r] = "done"]
    /\ permits' = permits \ {r}
    /\ UNCHANGED <<mainVars, workerVars, status, nextWorker, expired, jobVars>>

\* The connection ends: the client went away, or the grace is over.
Leave(r) ==
    /\ at[r] \in {"body", "waiting", "answered"}
    /\ grace \/ r \notin Patient
    /\ at' = [at EXCEPT ![r] = "gone"]
    /\ status' = [status EXCEPT ![r] = IF @ = "none" THEN "left" ELSE @]
    /\ permits' = permits \ {r}
    /\ UNCHANGED <<mainVars, workerVars, nextWorker, expired, jobVars>>

Expire(r) ==
    /\ at[r] # "new"
    /\ r \notin expired \cup Patient
    /\ expired' = expired \cup {r}
    /\ UNCHANGED <<mainVars, workerVars, routeVars, jobVars>>

----------------------------------------------------------------------------
(* invoke(): the task of a busy slot *)

\* The receiving half of the oneshot is gone.
Closed(r) == at[r] # "waiting"

\* The task is over; the slot is in its result ("kept") or is not ("lost").
TaskEnds(r, slot, answer) ==
    /\ task' = [task EXCEPT ![r] = slot]
    /\ httpReply' = [httpReply EXCEPT ![r] = answer]

\* The checks before the handler; the request may not become a value of Rune.
HttpLook(r) ==
    /\ task[r] = "spawned"
    /\ \/ Closed(r) /\ TaskEnds(r, "kept", "dropped")
       \/ ~Closed(r) /\ r \in expired /\ TaskEnds(r, "kept", "timeout")
       \/ ~Closed(r) /\ r \notin expired /\ TaskEnds(r, "kept", "failed")
       \/ /\ ~Closed(r) /\ r \notin expired
          /\ task' = [task EXCEPT ![r] = "looked"] /\ UNCHANGED httpReply
    /\ UNCHANGED <<mainVars, workerVars, routeVars, expired, home, httpRan>>

\* The first poll of call.run(), even if the client left since the checks.
Run(r) ==
    /\ task[r] = "looked"
    /\ task' = [task EXCEPT ![r] = "running"]
    /\ httpRan' = [httpRan EXCEPT ![r] = "begun"]
    /\ UNCHANGED <<mainVars, workerVars, routeVars, expired, httpReply, home>>

\* The handler ends and the call is closed: its answer counts if both went well,
\* and the slot is there if the close did.
HttpReturn(r) ==
    /\ task[r] = "running"
    /\ httpRan' = [httpRan EXCEPT ![r] = "complete"]
    /\ \/ \E a \in {"handler", "failed"} : TaskEnds(r, "kept", a)
       \/ TaskEnds(r, "lost", "failed")
    /\ UNCHANGED <<mainVars, workerVars, routeVars, expired, home>>

\* The deadline or the closed oneshot wins over the handler, begun or not.  The
\* close may still fail, which takes the slot and precedes the timeout.
HttpGiveUp(r) ==
    /\ task[r] \in {"looked", "running"}
    /\ r \in expired \/ Closed(r)
    /\ \/ TaskEnds(r, "kept", IF r \in expired THEN "timeout" ELSE "dropped")
       \/ TaskEnds(r, "lost", "failed")
    /\ UNCHANGED <<mainVars, workerVars, routeVars, expired, home, httpRan>>

\* A panic in the handler: Catch disposes of the job, the call and its slot.
Unwind(r) ==
    /\ task[r] = "running"
    /\ TaskEnds(r, "lost", "dropped")
    /\ UNCHANGED <<mainVars, workerVars, routeVars, expired, home, httpRan>>

----------------------------------------------------------------------------
(* run(): the loop of a worker *)

Tasks(w) == {r \in HttpRequest : home[r] = w /\ task[r] # "none"}
HttpFinished == {r \in HttpRequest : task[r] \in {"kept", "lost"}}

\* What is dropped without an answer: of the requests R those that have none yet.
DropReplies(R) ==
    httpReply' = [r \in HttpRequest |->
                    IF r \in R /\ httpReply[r] = "open" THEN "dropped" ELSE httpReply[r]]

\* The top of the loop once a deadline is set: the queue is closed, what is in it
\* is refused, and the loop ends when there is no task left.
HttpDrain(w, left) ==
    /\ stopping' = [stopping EXCEPT ![w] = TRUE]
    /\ queue' = [queue EXCEPT ![w] = <<>>]
    /\ httpThread' = [httpThread EXCEPT ![w] = IF left = {} THEN "ended" ELSE @]
    /\ httpReply' = [r \in HttpRequest |->
            IF r \in ToSet(queue[w]) THEN "refused" ELSE httpReply[r]]

\* The slots are built before the worker reports that it is ready.
WorkerReady(w) ==
    /\ httpThread[w] = "starting"
    /\ httpThread' = [httpThread EXCEPT ![w] = "running"]
    /\ slots' = [slots EXCEPT ![w] = Active]
    /\ UNCHANGED <<mainVars, stopping, queue, routeVars, expired, jobVars>>

WorkerRefused(w) ==
    /\ httpThread[w] = "starting"
    /\ httpThread' = [httpThread EXCEPT ![w] = "failed"]
    /\ UNCHANGED <<mainVars, stopping, slots, queue, routeVars, expired, jobVars>>

\* stop.changed(), or jobs.recv() on a channel whose senders were dropped because
\* another worker did not start.
SeeStop(w) ==
    /\ httpThread[w] = "running"
    /\ ~stopping[w]
    /\ httpMain \in {"draining", "aborting"}
    /\ HttpDrain(w, Tasks(w))
    /\ UNCHANGED <<mainVars, slots, routeVars, expired, home, task, httpRan>>

\* jobs.recv(); tasks.join_next() goes first.
Take(w) ==
    /\ httpThread[w] = "running"
    /\ ~stopping[w]
    /\ slots[w] > 0
    /\ queue[w] # <<>>
    /\ Tasks(w) \cap HttpFinished = {}
    /\ queue' = [queue EXCEPT ![w] = Tail(@)]
    /\ slots' = [slots EXCEPT ![w] = @ - 1]
    /\ task' = [task EXCEPT ![Head(queue[w])] = "spawned"]
    /\ UNCHANGED <<mainVars, httpThread, stopping, routeVars, expired, httpReply, home, httpRan>>

\* Mutant of HttpReap: a lost slot is not replaced.
ReapShrinks(w, r) ==
    /\ httpThread[w] = "running"
    /\ r \in Tasks(w) \cap HttpFinished
    /\ task' = [task EXCEPT ![r] = "none"]
    /\ slots' = [slots EXCEPT ![w] = IF task[r] = "kept" THEN @ + 1 ELSE @]
    /\ httpThread' = [httpThread EXCEPT ![w] = IF stopping[w] /\ Tasks(w) = {r} THEN "ended" ELSE @]
    /\ UNCHANGED <<mainVars, stopping, queue, routeVars, expired, httpReply, home, httpRan>>

\* tasks.join_next(): the slot of the task, or a new one in its place.
HttpReap(w, r) ==
    /\ httpThread[w] = "running"
    /\ r \in Tasks(w) \cap HttpFinished
    /\ task' = [task EXCEPT ![r] = "none"]
    /\ slots' = [slots EXCEPT ![w] = @ + 1]
    /\ httpThread' = [httpThread EXCEPT ![w] = IF stopping[w] /\ Tasks(w) = {r} THEN "ended" ELSE @]
    /\ UNCHANGED <<mainVars, stopping, queue, routeVars, expired, httpReply, home, httpRan>>

\* The worker returns with everything it owns: the tasks are aborted, the jobs in
\* its queue dropped.
Abandon(w) ==
    /\ queue' = [queue EXCEPT ![w] = <<>>]
    /\ slots' = [slots EXCEPT ![w] = 0]
    /\ DropReplies(Tasks(w) \cup ToSet(queue[w]))
    /\ task' = [r \in HttpRequest |-> IF r \in Tasks(w) THEN "none" ELSE task[r]]

\* The replacement cannot be built: the worker fails, with what else it does.
ReplaceFails(w, r) ==
    /\ httpThread[w] = "running"
    /\ r \in Tasks(w)
    /\ task[r] = "lost"
    /\ httpThread' = [httpThread EXCEPT ![w] = "failed"]
    /\ Abandon(w)
    /\ UNCHANGED <<mainVars, stopping, routeVars, expired, home, httpRan>>

\* The grace is over: abort_all, and every task is joined.
AbortTasks(w) ==
    /\ httpThread[w] = "running"
    /\ stopping[w]
    /\ grace
    /\ httpThread' = [httpThread EXCEPT ![w] = "ended"]
    /\ Abandon(w)
    /\ UNCHANGED <<mainVars, stopping, routeVars, expired, home, httpRan>>

----------------------------------------------------------------------------
(* Workers::start and serve() *)

Serve ==
    /\ httpMain = "starting"
    /\ \A w \in HttpWorker : httpThread[w] = "running"
    /\ httpMain' = "serving"
    /\ UNCHANGED <<failure, grace, workerVars, routeVars, expired, jobVars>>

\* A worker that did not start: the senders are dropped, the others joined.
AbortStart ==
    /\ httpMain = "starting"
    /\ \E w \in HttpWorker : httpThread[w] = "failed"
    /\ httpMain' = "aborting" /\ failure' = TRUE
    /\ UNCHANGED <<grace, workerVars, routeVars, expired, jobVars>>

\* The loop is left: a signal, or an error of the listener or of a worker.
Stop ==
    /\ httpMain = "serving"
    /\ httpMain' = "draining"
    /\ failure' \in BOOLEAN
    /\ UNCHANGED <<grace, workerVars, routeVars, expired, jobVars>>

\* Mutant of Fatal: one worker that serves is enough to go on.
FatalAll ==
    /\ httpMain = "serving"
    /\ \A w \in HttpWorker : httpThread[w] = "failed"
    /\ httpMain' = "draining" /\ failure' = TRUE
    /\ UNCHANGED <<grace, workerVars, routeVars, expired, jobVars>>

\* fatal.changed()
Fatal ==
    /\ httpMain = "serving"
    /\ \E w \in HttpWorker : httpThread[w] = "failed"
    /\ httpMain' = "draining" /\ failure' = TRUE
    /\ UNCHANGED <<grace, workerVars, routeVars, expired, jobVars>>

GraceOver ==
    /\ httpMain = "draining"
    /\ ~grace
    /\ grace' = TRUE
    /\ UNCHANGED <<httpMain, failure, workerVars, routeVars, expired, jobVars>>

\* The connections are drained and the workers joined.
HttpExit ==
    /\ \/ httpMain = "draining" /\ \A r \in HttpRequest : at[r] \in {"new", "done", "gone"}
       \/ httpMain = "aborting"
    /\ \A w \in HttpWorker : httpThread[w] \in {"ended", "failed"}
    /\ httpMain' = "exited"
    /\ UNCHANGED <<failure, grace, workerVars, routeVars, expired, jobVars>>

\* A second signal ends the process at once, with 130.
SecondSignal ==
    /\ httpMain = "draining"
    /\ httpMain' = "exited" /\ failure' = TRUE
    /\ UNCHANGED <<grace, workerVars, routeVars, expired, jobVars>>

\* Nothing happens after the exit.
Exited == httpMain = "exited" /\ UNCHANGED httpVars

Task(r) == HttpLook(r) \/ Run(r) \/ HttpReturn(r) \/ HttpGiveUp(r) \/ Unwind(r)
Route(r) == Arrive(r) \/ TurnAway(r) \/ Dispatch(r) \/ HttpReceive(r) \/ HttpSent(r) \/ Leave(r)
Loop(w) ==
    \/ WorkerReady(w) \/ WorkerRefused(w) \/ SeeStop(w) \/ Take(w) \/ AbortTasks(w)
    \/ \E r \in HttpRequest : HttpReap(w, r) \/ ReplaceFails(w, r)

HttpNext ==
    \/ httpMain # "exited" /\
          \/ \E r \in HttpRequest : Route(r) \/ Task(r) \/ Expire(r)
          \/ \E w \in HttpWorker : Loop(w)
    \/ Serve \/ AbortStart \/ Stop \/ Fatal \/ GraceOver \/ HttpExit \/ SecondSignal \/ Exited

HttpSpec == HttpInit /\ [][HttpNext]_httpVars

\* Tasks and the loop are polled, timers fire, connections move.  No handler has
\* to return, and no signal has to come.
HttpFairness ==
    /\ \A r \in HttpRequest :
          /\ WF_httpVars(httpMain # "exited" /\ (TurnAway(r) \/ HttpReceive(r) \/ HttpSent(r)))
          /\ WF_httpVars(httpMain # "exited" /\ (HttpLook(r) \/ Run(r) \/ HttpGiveUp(r)))
          /\ WF_httpVars(httpMain # "exited" /\ Leave(r) /\ grace)
    /\ \A w \in HttpWorker : /\ WF_httpVars(httpMain # "exited" /\ Loop(w))
                              /\ WF_httpVars(httpMain # "exited" /\ SeeStop(w))
    /\ WF_httpVars(Serve) /\ WF_httpVars(AbortStart) /\ WF_httpVars(Fatal)
    /\ WF_httpVars(GraceOver) /\ WF_httpVars(HttpExit)

HttpFairSpec == HttpSpec /\ HttpFairness

----------------------------------------------------------------------------
(* Properties *)

\* run(): a slot is in the Vec or with a task, and a worker that serves has all of
\* them, whatever ends its requests come to: "not silent pool shrinkage".
SlotsConserved ==
    \A w \in HttpWorker : httpThread[w] = "running"
        => slots[w] + Cardinality(Tasks(w)) = Active

\* A request that waits is with exactly one owner that will answer it: the queue of
\* a worker that runs, or one of its tasks; or its oneshot is settled.  Otherwise
\* its client would learn nothing before the deadline.
WaitingIsOwned ==
    \A r \in HttpRequest : at[r] = "waiting" /\ httpReply[r] = "open" =>
        /\ httpThread[home[r]] = "running"
        /\ \/ task[r] \in {"spawned", "looked", "running"} /\ r \notin ToSet(queue[home[r]])
           \/ task[r] = "none" /\ r \in ToSet(queue[home[r]])

\* What each request gets is what Service allows.
Abstract == INSTANCE Service WITH Request <- HttpRequest, ran <- httpRan, verdict <- status

\* "queued jobs receive 503", "full admission/queue 503": a refusal is one that the
\* client may repeat, since the handler has not begun and never will; an answer of
\* the handler comes from one complete execution.
ServiceHolds == Abstract!Spec

\* serve(): a server that was told to stop, or whose worker failed, exits, although
\* handlers may run forever.
ServerStops == (httpMain \in {"draining", "aborting"}) ~> (httpMain = "exited")
FatalStops == \A w \in HttpWorker : (httpThread[w] = "failed") ~> (httpMain = "exited")

\* plans/0164_http_host.md, "Failed replacement is a host failure, not silent pool
\* shrinkage or an infinite retry loop: stop admission and shut down nonzero."
ReplacementReported ==
    httpMain = "exited" /\ (\E w \in HttpWorker : httpThread[w] = "failed") => failure

\* plans/0164_http_host.md, "Already-active jobs drain within the grace period; on
\* expiry their futures are cancelled": after a stop a job that is active is cut
\* short only when the grace is over.
ActiveDrains ==
    [][\A r \in HttpRequest : httpMain = "draining" /\ task[r] = "running" /\ task'[r] = "none"
          => grace]_httpVars

\* run() and dispatch: neither a slot nor a request is ever without an owner.
HttpSound == HttpTypeOK /\ SlotsConserved /\ WaitingIsOwned

=============================================================================
