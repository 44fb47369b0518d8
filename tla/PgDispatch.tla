----------------------------- MODULE PgDispatch -----------------------------
(***************************************************************************)
(* The coordinator of servers/http-postgres and its two workers            *)
(* (src/main.rs).  The coordinator's thread owns the sockets, a central    *)
(* queue and the credits of each worker; serve() puts a request into the   *)
(* queue and pump() hands the front of it to the worker with fewer active  *)
(* requests.  A worker runs each as a task and sends Done when the task    *)
(* has cleaned up, which gives the credit back.                            *)
(*                                                                         *)
(* The coordinator and its connection tasks share one thread, and so do    *)
(* the tasks of one worker.  The database work of a task is module         *)
(* PgPool; here a task builds its handler and ends, fails or panics.       *)
(***************************************************************************)
EXTENDS Naturals, Sequences, FiniteSets, SequencesExt

CONSTANTS
    Request,
    Patient,   \* requests whose client stays and whose deadline is far away
    Credits,   \* active handlers per worker, and the length of its channel
    QueueMax   \* requests in the central queue

ASSUME DispatchAssumption ==
    Patient \subseteq Request /\ Credits \in Nat \ {0} /\ QueueMax \in Nat \ {0}

Worker == {0, 1}

VARIABLES
    main,              \* "serving", "joining", "closed", "failed" (fail_shutdown), "panicked"
    term,              \* the signal was seen
    queue,             \* Dispatch.queue, the central queue
    active,            \* credits in use of each worker
    running,           \* requests whose watch can still be set
    next,              \* the worker whose turn it is
    chan,              \* the channel of each worker
    thread,            \* of each worker: "up", "ended", "failed"
    done,              \* Done messages on their way
    task,              \* of a request: "none", "spawned", "building", "panicked", "finished",
                       \* "reaped", "dropped"
    home,              \* the worker a request was sent to
    reply,             \* its oneshot: "none", "open", "dropped", or what was sent
    at,                \* serve(): "new", "waiting", "ended"
    status,            \* what the client saw
    dispatchCancelled, \* requests whose watch was set
    expired,           \* requests whose deadline has passed
    ran                \* history: how far the handler got

dispatchVars == <<queue, active, next, chan, home>>
dispatchTaskVars == <<thread, task, ran>>
clientVars == <<at, status, dispatchCancelled, expired>>
pgDispatchVars == <<main, term, dispatchVars, running, done, dispatchTaskVars, clientVars, reply>>

Busy == {"spawned", "building", "panicked"}
Alive == main \in {"serving", "joining"}

DispatchTypeOK ==
    /\ main \in {"serving", "joining", "closed", "failed", "panicked"} /\ term \in BOOLEAN
    /\ Len(queue) <= QueueMax /\ ToSet(queue) \subseteq Request
    /\ active \in [Worker -> 0 .. Credits] /\ next \in Worker
    /\ \A w \in Worker : Len(chan[w]) <= Credits /\ ToSet(chan[w]) \subseteq Request
    /\ running \subseteq Request /\ done \subseteq Request
    /\ dispatchCancelled \subseteq Request /\ expired \subseteq Request
    /\ thread \in [Worker -> {"up", "ended", "failed"}]
    /\ task \in [Request -> Busy \cup {"none", "finished", "reaped", "dropped"}]
    /\ home \in [Request -> Worker]
    /\ reply \in [Request -> {"none", "open", "dropped", "handler", "failed"}]
    /\ at \in [Request -> {"new", "waiting", "ended"}]
    /\ status \in [Request -> {"none", "refused", "failed", "timeout", "handler", "left"}]
    /\ ran \in [Request -> {"no", "begun", "complete"}]

DispatchInit ==
    /\ main = "serving" /\ term = FALSE
    /\ queue = <<>> /\ active = [w \in Worker |-> 0] /\ running = {} /\ next = 0
    /\ chan = [w \in Worker |-> <<>>] /\ thread = [w \in Worker |-> "up"] /\ done = {}
    /\ task = [r \in Request |-> "none"] /\ home = [r \in Request |-> 0]
    /\ reply = [r \in Request |-> "none"]
    /\ at = [r \in Request |-> "new"] /\ status = [r \in Request |-> "none"]
    /\ dispatchCancelled = {} /\ expired = {}
    /\ ran = [r \in Request |-> "no"]

----------------------------------------------------------------------------
(* Dispatch::pump *)

Full(a) == \A w \in Worker : a[w] = Credits

\* available(): the less active worker, and the two in turn.
Chosen(s) ==
    IF s.active[0] = s.active[1] THEN s.next
    ELSE IF s.active[0] < s.active[1] THEN 0 ELSE 1

\* One request goes to a worker, or stays behind those that stayed.
Place(s, r) ==
    IF Full(s.active) THEN [s EXCEPT !.queue = Append(@, r)]
    ELSE LET n == Chosen(s)
         IN [s EXCEPT !.next = IF s.active[0] = s.active[1] THEN 1 - n ELSE @,
                      !.active[n] = @ + 1,
                      !.chan[n] = Append(@, r),
                      !.home[r] = n]

\* Cancelled and expired requests leave the queue first.
Pump(s, r) == IF r \in dispatchCancelled \cup expired THEN s ELSE Place(s, r)

\* pump(), with these credits in use.
PumpedWith(used) ==
    FoldLeft(Pump, [queue |-> <<>>, active |-> used, next |-> next, chan |-> chan, home |-> home],
             queue)
Pumped == PumpedWith(active)

\* The state after a pump.  try_send() panics when a worker is gone or its channel full.
Adopt(s) ==
    /\ queue' = s.queue /\ active' = s.active /\ next' = s.next
    /\ chan' = s.chan /\ home' = s.home

Refused(s) ==
    \E w \in Worker : s.chan[w] # chan[w] /\ (thread[w] # "up" \/ Len(s.chan[w]) > Credits)

\* The Work of these requests is dropped, and with it the sender of its reply.
Dropped(R) ==
    [r \in Request |-> IF r \in R /\ reply[r] = "open" THEN "dropped" ELSE reply[r]]

Purged == {r \in ToSet(queue) : r \in dispatchCancelled \cup expired}

----------------------------------------------------------------------------
(* serve() *)

\* The head or the body is not acceptable.
TurnAway(r) ==
    /\ main = "serving" /\ at[r] = "new"
    /\ at' = [at EXCEPT ![r] = "ended"]
    /\ status' = [status EXCEPT ![r] = "refused"]
    /\ UNCHANGED <<main, term, dispatchVars, running, done, dispatchTaskVars, dispatchCancelled,
                   expired, reply>>

\* pump(), the test for room, the queue and pump() again.
Admit(r) ==
    /\ main = "serving" /\ at[r] = "new"
    /\ LET s == Pumped
           room == ~(Len(s.queue) = QueueMax /\ Full(s.active))
           t == IF room THEN Place(s, r) ELSE s
       IN /\ Adopt(t)
          /\ running' = IF room THEN running \cup {r} ELSE running
          /\ reply' = [Dropped(Purged) EXCEPT ![r] = IF room THEN "open" ELSE @]
          /\ at' = [at EXCEPT ![r] = IF room THEN "waiting" ELSE "ended"]
          /\ status' = [status EXCEPT ![r] = IF room THEN @ ELSE "refused"]
          /\ main' = IF Refused(t) THEN "panicked" ELSE main
    /\ UNCHANGED <<term, done, dispatchTaskVars, dispatchCancelled, expired>>

\* The queue without a request, which is in it once or not at all.
Without(r) ==
    IF r \in ToSet(queue) THEN RemoveAt(queue, CHOOSE i \in DOMAIN queue : queue[i] = r) ELSE queue

\* serve() is over, or was dropped with its connection: the guard cancels the work.
Depart(r, s) ==
    /\ at' = [at EXCEPT ![r] = "ended"]
    /\ status' = [status EXCEPT ![r] = s]
    /\ dispatchCancelled' = dispatchCancelled \cup {r}
    /\ queue' = Without(r)
    /\ reply' = Dropped({r} \cap ToSet(queue))
    /\ UNCHANGED <<main, term, active, next, chan, home, running, done, dispatchTaskVars, expired>>

Receive(r) ==
    /\ main = "serving" /\ at[r] = "waiting" /\ reply[r] \in {"handler", "failed"}
    /\ Depart(r, reply[r])

OwnerEnded(r) ==
    /\ main = "serving" /\ at[r] = "waiting" /\ reply[r] = "dropped"
    /\ Depart(r, IF r \in expired THEN "timeout" ELSE "failed")

Deadline(r) ==
    /\ main = "serving" /\ at[r] = "waiting" /\ r \in expired
    /\ Depart(r, "timeout")

Leave(r) ==
    /\ main = "serving" /\ at[r] = "waiting" /\ r \notin Patient
    /\ Depart(r, "left")

Expire(r) ==
    /\ Alive /\ at[r] = "waiting" /\ r \notin expired \cup Patient
    /\ expired' = expired \cup {r}
    /\ UNCHANGED <<main, term, dispatchVars, running, done, dispatchTaskVars, at, status,
                   dispatchCancelled, reply>>

----------------------------------------------------------------------------
(* worker() *)

Tasks(w) == {r \in Request : home[r] = w /\ task[r] \in Busy \cup {"finished"}}

Take(w) ==
    /\ Alive /\ thread[w] = "up" /\ chan[w] # <<>> /\ Cardinality(Tasks(w)) < Credits
    /\ chan' = [chan EXCEPT ![w] = Tail(@)]
    /\ task' = [task EXCEPT ![Head(chan[w])] = "spawned"]
    /\ UNCHANGED <<main, term, queue, active, next, home, running, done, thread, ran,
                   clientVars, reply>>

\* The task ends and its credit is on the way back.
EndTask(r) ==
    /\ task' = [task EXCEPT ![r] = "finished"]
    /\ done' = done \cup {r}
    /\ UNCHANGED <<main, term, dispatchVars, running, thread, clientVars>>

\* Mutant of Skip: cancelled work goes away without its Done.
SkipSilently(r) ==
    /\ Alive /\ task[r] = "spawned" /\ r \in dispatchCancelled
    /\ task' = [task EXCEPT ![r] = "finished"]
    /\ reply' = Dropped({r})
    /\ UNCHANGED <<main, term, dispatchVars, running, done, thread, ran, clientVars>>

\* Cancelled work builds nothing.
Skip(r) ==
    /\ Alive /\ task[r] = "spawned" /\ r \in dispatchCancelled
    /\ EndTask(r)
    /\ reply' = Dropped({r})
    /\ UNCHANGED ran

Build(r) ==
    /\ Alive /\ task[r] = "spawned" /\ r \notin dispatchCancelled
    /\ task' = [task EXCEPT ![r] = "building"]
    /\ ran' = [ran EXCEPT ![r] = "begun"]
    /\ UNCHANGED <<main, term, dispatchVars, running, done, thread, clientVars, reply>>

\* Mutant of End: a failed or cancelled handler is answered as one that ended.
EndAlike(r) ==
    /\ Alive /\ task[r] = "building"
    /\ EndTask(r)
    /\ reply' = [reply EXCEPT ![r] = "handler"]
    /\ UNCHANGED ran

\* The handler and its cleanup are over; it succeeded, failed or was cancelled.
End(r) ==
    /\ Alive /\ task[r] = "building"
    /\ EndTask(r)
    /\ \/ reply' = [reply EXCEPT ![r] = "handler"] /\ ran' = [ran EXCEPT ![r] = "complete"]
       \/ reply' = [reply EXCEPT ![r] = "failed"] /\ UNCHANGED ran

\* Cleanup failed, or a connection could not be retired.
Panic(r) ==
    /\ Alive /\ task[r] = "building"
    /\ task' = [task EXCEPT ![r] = "panicked"]
    /\ UNCHANGED <<main, term, dispatchVars, running, done, thread, ran, clientVars, reply>>

\* join_next: a task that finished.
Reap(r) ==
    /\ Alive /\ thread[home[r]] = "up" /\ task[r] = "finished"
    /\ task' = [task EXCEPT ![r] = "reaped"]
    /\ UNCHANGED <<main, term, dispatchVars, running, done, thread, ran, clientVars, reply>>

\* join_next: a task that panicked.  The thread unwinds: its tasks and channel go.
WorkerFails(w) ==
    /\ Alive /\ thread[w] = "up" /\ \E r \in Tasks(w) : task[r] = "panicked"
    /\ thread' = [thread EXCEPT ![w] = "failed"]
    /\ task' = [r \in Request |-> IF r \in Tasks(w) /\ task[r] \in Busy THEN "dropped" ELSE task[r]]
    /\ reply' = Dropped(Tasks(w) \cup ToSet(chan[w]))
    /\ chan' = [chan EXCEPT ![w] = <<>>]
    /\ UNCHANGED <<main, term, queue, active, next, home, running, done, ran, clientVars>>

\* The senders are gone, the channel is drained and the tasks are joined; closing the
\* pool may still fail.
DispatchWorkerEnds(w) ==
    /\ main = "joining" /\ thread[w] = "up" /\ chan[w] = <<>> /\ Tasks(w) = {}
    /\ \E t \in {"ended", "failed"} : thread' = [thread EXCEPT ![w] = t]
    /\ UNCHANGED <<main, term, dispatchVars, running, done, task, ran, clientVars, reply>>

----------------------------------------------------------------------------
(* coordinator() *)

Signal ==
    /\ main = "serving" /\ ~term /\ term' = TRUE
    /\ UNCHANGED <<main, dispatchVars, running, done, dispatchTaskVars, clientVars, reply>>

\* The credit comes back and, unless the server stops, the queue moves.
DoneArrives(r) ==
    /\ Alive /\ r \in done
    /\ done' = done \ {r}
    /\ running' = running \ {r}
    /\ LET back == [active EXCEPT ![home[r]] = @ - 1]
           s == PumpedWith(back)
       IN IF main = "serving"
          THEN /\ Adopt(s) /\ reply' = Dropped(Purged)
               /\ main' = IF Refused(s) THEN "panicked" ELSE main
          ELSE active' = back /\ UNCHANGED <<queue, next, chan, home, reply, main>>
    /\ UNCHANGED <<term, dispatchTaskVars, clientVars>>

\* Somebody still has the receiver of its watch.
Watched(r) == r \in ToSet(queue') \/ task[r] \in Busy \/ \E w \in Worker : r \in ToSet(chan'[w])

\* running.retain(receiver_count() != 0)
Kept == {r \in running : Watched(r)}

\* The timer: pump, and tidy the cancellation senders.
Tick ==
    /\ main = "serving"
    /\ Adopt(Pumped) /\ reply' = Dropped(Purged)
    /\ running' = Kept
    /\ main' = IF Refused(Pumped) THEN "panicked" ELSE main
    /\ UNCHANGED <<term, done, dispatchTaskVars, clientVars>>

\* Mutant of Triggered: only the signal is looked at.
TriggeredBySignal == term

\* What ends the loop of the coordinator: the signal, or a thread that ended.
Triggered == term \/ \E w \in Worker : thread[w] # "up"

\* The timer saw the signal or a worker that ended: everything is cancelled, the queue
\* cleared, the senders dropped and the connections aborted, in one go.
DispatchShutdown ==
    /\ main = "serving" /\ Triggered
    /\ IF Refused(Pumped)
       THEN main' = "panicked" /\ UNCHANGED <<dispatchVars, running, clientVars, reply>>
       ELSE LET waiting == {r \in Request : at[r] = "waiting"}
            IN /\ main' = "joining"
               /\ Adopt([Pumped EXCEPT !.queue = <<>>])
               /\ reply' = Dropped(ToSet(queue) \cap (Purged \cup ToSet(Pumped.queue)))
               /\ running' = Kept
               /\ dispatchCancelled' = dispatchCancelled \cup running \cup waiting
               /\ at' = [r \in Request |-> IF r \in waiting THEN "ended" ELSE at[r]]
               /\ status' = [r \in Request |-> IF r \in waiting THEN "left" ELSE status[r]]
               /\ UNCHANGED expired
    /\ UNCHANGED <<term, done, dispatchTaskVars>>

\* The overall deadline of 5 s with a worker that has not ended.
Overdue ==
    /\ main = "joining" /\ \E w \in Worker : thread[w] = "up"
    /\ main' = "failed"
    /\ UNCHANGED <<term, dispatchVars, running, done, dispatchTaskVars, clientVars, reply>>

\* Both threads are joined, the last Done messages counted, and all credits are back.
Join ==
    /\ main = "joining" /\ \A w \in Worker : thread[w] # "up"
    /\ done' = {}
    /\ active' = [w \in Worker |-> active[w] - Cardinality({r \in done : home[r] = w})]
    /\ main' = IF \E w \in Worker : thread[w] = "failed" THEN "failed"
               ELSE IF \A w \in Worker : active'[w] = 0 THEN "closed" ELSE "panicked"
    /\ UNCHANGED <<term, queue, next, chan, home, running, dispatchTaskVars, clientVars, reply>>

Client(r) ==
    TurnAway(r) \/ Admit(r) \/ Receive(r) \/ OwnerEnded(r) \/ Deadline(r) \/ Leave(r) \/ Expire(r)
Work(r) == Skip(r) \/ Build(r) \/ End(r) \/ Panic(r) \/ Reap(r)
Coordinator == Tick \/ DispatchShutdown \/ Overdue \/ Join \/ \E r \in Request : DoneArrives(r)

DispatchNext ==
    \/ \E r \in Request : Client(r) \/ Work(r)
    \/ \E w \in Worker : Take(w) \/ WorkerFails(w) \/ DispatchWorkerEnds(w)
    \/ Signal \/ Coordinator

DispatchSpec == DispatchInit /\ [][DispatchNext]_pgDispatchVars

\* The timer and the clocks go on, and threads are scheduled; handlers need not end.
DispatchFairness ==
    /\ WF_pgDispatchVars(DispatchShutdown) /\ WF_pgDispatchVars(Overdue) /\ WF_pgDispatchVars(Join)
    /\ \A r \in Request : 
        /\ WF_pgDispatchVars(DoneArrives(r)) /\ WF_pgDispatchVars(Skip(r))
        /\ WF_pgDispatchVars(Reap(r)) /\ WF_pgDispatchVars(Build(r))
        /\ WF_pgDispatchVars(Expire(r)) /\ WF_pgDispatchVars(Deadline(r))
    /\ \A w \in Worker :
        /\ WF_pgDispatchVars(Take(w)) /\ WF_pgDispatchVars(WorkerFails(w))
        /\ WF_pgDispatchVars(DispatchWorkerEnds(w))

DispatchFairSpec == DispatchSpec /\ DispatchFairness

----------------------------------------------------------------------------
(* Properties *)

\* A credit is a request in the channel, one whose task has not ended, or a Done on its
\* way: none is lost while its worker lives, whatever was cancelled, and none counts twice.
CreditsExact ==
    Alive => \A w \in Worker : thread[w] # "failed" =>
        active[w] = Len(chan[w]) + Cardinality({r \in Tasks(w) : task[r] \in Busy})
                    + Cardinality({r \in done : home[r] = w})

\* No request waits in the queue while a worker has a free credit; this is what makes the
\* assertion after the second pump() of serve() hold.
WorkConserving == main = "serving" => queue = <<>> \/ Full(active)

\* Shutdown reaches all work: what still runs or waits in a channel is cancelled, and
\* nobody waits for an answer.
ShutdownReaches ==
    main = "joining" =>
        /\ \A r \in Request :
            (task[r] \in Busy \/ \E w \in Worker : r \in ToSet(chan[w])) => r \in dispatchCancelled
        /\ \A r \in Request : at[r] # "waiting"

\* The coordinator panics ("hidden worker queue", or credits missing at the end) only
\* after a worker failed.
PanicsOnlyAfterWorker == main = "panicked" => \E w \in Worker : thread[w] = "failed"

\* The server keeps the promise of Service: a request that was refused never ran, and an
\* answer of the handler is that of a run that came to its end.
Abstract == INSTANCE Service WITH ran <- ran, verdict <- status
ServiceHolds == Abstract!Spec

\* After a signal or the failure of a worker the process ends.
ShutdownEnds == (term \/ \E w \in Worker : thread[w] = "failed") ~> ~Alive

\* Whoever waits is answered when its deadline is over, though handlers and workers hang.
WaitersAnswered == \A r \in Request \ Patient : at[r] = "waiting" ~> at[r] = "ended" \/ ~Alive

\* serve(): credits, queue and channels agree, and shutdown forgets nobody.
DispatchSound ==
    /\ DispatchTypeOK /\ CreditsExact /\ WorkConserving
    /\ ShutdownReaches /\ PanicsOnlyAfterWorker

\* The server ends after a signal or a failure, and answers whoever waits.
DispatchProgress == ShutdownEnds /\ WaitersAnswered

=============================================================================
