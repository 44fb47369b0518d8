------------------------------- MODULE PgPool -------------------------------
(***************************************************************************)
(* One worker's connections and the transactions of its `/db` jobs:        *)
(* servers/http-postgres/src/pool.rs and the task of worker() in main.rs.  *)
(*                                                                         *)
(* A job waits for a permit, takes an idle connection or opens one, begins *)
(* a transaction, runs the handler, closes it and sends one COMMIT or      *)
(* ROLLBACK.  A connection whose command was not acknowledged is retired   *)
(* and replaced, never the transaction repeated.  Tasks share one thread,  *)
(* so what lies between two awaits is one action.                          *)
(*                                                                         *)
(* PostgreSQL is external: it applies a command some time after it was     *)
(* sent, also after the job has given up waiting, and rolls an undecided   *)
(* transaction back when its connection is gone.  A COMMIT of a            *)
(* transaction in which a statement failed rolls back and is acknowledged. *)
(***************************************************************************)
EXTENDS Naturals, Sequences, FiniteSets, SequencesExt

CONSTANTS
    Job,    \* requests for /db
    Conn,   \* identities of connections; one that ended may be used again
    None,   \* no connection, no job
    Size    \* permits of the semaphore

ASSUME PoolAssumption ==
    /\ None \notin Conn \cup Job
    /\ Size \in Nat \ {0}
    /\ IsFiniteSet(Conn) /\ Cardinality(Conn) >= Size

VARIABLES
    pc,             \* where the task of a job stands
    poolCancelled,  \* jobs whose watch was set
    conn,           \* the connection a job holds
    permits,        \* available permits
    idle,           \* Pool.idle, a stack
    drivers,        \* connections whose driver task runs
    leased,         \* Pool.leased
    verdict,        \* of a job: "none", "silent", "bad", "good", "doomed" (cleanup failed)
    outcome,        \* how finish() ended: the category it reports
    answer,         \* what was sent to the client
    cmd,            \* the command finish() sent
    on,             \* the job whose transaction is open on a connection
    spoiled,        \* jobs with a statement that failed
    fate,           \* PostgreSQL: "none", "open", "committed", "rolledback"
    wire,           \* PostgreSQL's reply to cmd
    worker          \* "up", "stopping", "closing", "ended", "failed"

poolVars == <<permits, idle, drivers, leased>>
poolTaskVars == <<pc, poolCancelled, conn, verdict, outcome, answer>>
baseVars == <<cmd, on, spoiled, fate, wire>>
pgPoolVars == <<poolVars, poolTaskVars, baseVars, worker>>

Ended == {"done", "panicked", "dropped"}

PoolTypeOK ==
    /\ pc \in [Job -> Ended \cup {"new", "waiting", "swap", "connect", "identify", "begin",
                                  "unbegun", "leased", "running", "ack", "retire", "replace",
                                  "reidentify"}]
    /\ poolCancelled \subseteq Job /\ spoiled \subseteq Job
    /\ conn \in [Job -> Conn \cup {None}]
    /\ permits \in 0 .. Size /\ leased \in 0 .. Size
    /\ idle \in Seq(Conn) /\ drivers \subseteq Conn
    /\ verdict \in [Job -> {"none", "silent", "bad", "good", "doomed"}]
    /\ outcome \in [Job -> {"none", "acknowledged", "rejected", "ambiguous", "unacknowledged"}]
    /\ answer \in [Job -> {"none", "ok", "failed"}]
    /\ cmd \in [Job -> {"none", "COMMIT", "ROLLBACK"}]
    /\ on \in [Conn -> Job \cup {None}]
    /\ fate \in [Job -> {"none", "open", "committed", "rolledback"}]
    /\ wire \in [Job -> {"none", "ok", "rejected", "error"}]
    /\ worker \in {"up", "stopping", "closing", "ended", "failed"}

\* The pool is ready: Pool::new has connected or the worker never started.
PoolInit ==
    /\ pc = [j \in Job |-> "new"] /\ poolCancelled = {} /\ spoiled = {}
    /\ conn = [j \in Job |-> None]
    /\ permits = Size /\ leased = 0
    /\ \E s \in [1 .. Size -> Conn] : IsInjective(s) /\ idle = s /\ drivers = ToSet(s)
    /\ verdict = [j \in Job |-> "none"] /\ outcome = [j \in Job |-> "none"]
    /\ answer = [j \in Job |-> "none"] /\ cmd = [j \in Job |-> "none"]
    /\ on = [c \in Conn |-> None]
    /\ fate = [j \in Job |-> "none"] /\ wire = [j \in Job |-> "none"]
    /\ worker = "up"

Up == worker \in {"up", "stopping"}
Goto(j, l) == pc' = [pc EXCEPT ![j] = l]

----------------------------------------------------------------------------
(* The coordinator and the network *)

\* The client left, its deadline passed or the server stops.
Cancel(j) ==
    /\ Up /\ j \notin poolCancelled
    /\ poolCancelled' = poolCancelled \cup {j}
    /\ UNCHANGED <<pc, conn, verdict, outcome, answer, poolVars, baseVars, worker>>

\* The coordinator cancels what runs and closes the channel of jobs.
Stop ==
    /\ worker = "up"
    /\ worker' = "stopping"
    /\ poolCancelled' = Job
    /\ UNCHANGED <<pc, conn, verdict, outcome, answer, poolVars, baseVars>>

\* A connection breaks: its driver ends by itself and is_closed() holds.
Sever(c) ==
    /\ c \in drivers /\ worker # "failed"
    /\ drivers' = drivers \ {c}
    /\ UNCHANGED <<permits, idle, leased, poolTaskVars, baseVars, worker>>

----------------------------------------------------------------------------
(* Pool::checkout *)

\* The task begins; cancelled work takes nothing and answers nothing.
Start(j) ==
    /\ Up /\ pc[j] = "new"
    /\ Goto(j, IF j \in poolCancelled THEN "done" ELSE "waiting")
    /\ UNCHANGED <<poolCancelled, conn, verdict, outcome, answer, poolVars, baseVars, worker>>

\* checkout() returns an error: the permit, if there is one, goes back.
Fail(j, back) ==
    /\ Goto(j, "done")
    /\ answer' = [answer EXCEPT ![j] = "failed"]
    /\ permits' = permits + back

\* Mutant of CancelWait: cancellation is looked at once there is a permit.
CancelWaitLate(j) ==
    /\ Up /\ pc[j] = "waiting" /\ j \in poolCancelled /\ permits > 0
    /\ Fail(j, 0)
    /\ UNCHANGED <<poolCancelled, conn, verdict, outcome, idle, drivers, leased, baseVars, worker>>

\* Only the wait for a permit is cancellable.
CancelWait(j) ==
    /\ Up /\ pc[j] = "waiting" /\ j \in poolCancelled
    /\ Fail(j, 0)
    /\ UNCHANGED <<poolCancelled, conn, verdict, outcome, idle, drivers, leased, baseVars, worker>>

\* Mutant of Acquire: a connection is opened though one lies idle.
AcquireFresh(j) ==
    /\ Up /\ pc[j] = "waiting" /\ j \notin poolCancelled /\ permits > 0
    /\ permits' = permits - 1
    /\ Goto(j, "connect")
    /\ UNCHANGED <<poolCancelled, conn, verdict, outcome, answer, idle, drivers, leased,
                   baseVars, worker>>

\* A permit, then the top of the stack; a closed connection is retired first.
Acquire(j) ==
    /\ Up /\ pc[j] = "waiting" /\ j \notin poolCancelled /\ permits > 0
    /\ permits' = permits - 1
    /\ IF idle = <<>>
       THEN Goto(j, "connect") /\ UNCHANGED <<idle, conn>>
       ELSE /\ idle' = Front(idle)
            /\ conn' = [conn EXCEPT ![j] = Last(idle)]
            /\ Goto(j, IF Last(idle) \in drivers THEN "begin" ELSE "swap")
    /\ UNCHANGED <<poolCancelled, verdict, outcome, answer, drivers, leased, baseVars, worker>>

\* connect(): the connection and its driver exist, its pid is asked for.
Dial(j) ==
    /\ Up /\ pc[j] \in {"connect", "replace"}
    /\ LET free == Conn \ (drivers \cup ToSet(idle) \cup {conn[k] : k \in Job})
       IN \E c \in free :
            /\ drivers' = drivers \cup {c}
            /\ conn' = [conn EXCEPT ![j] = c]
    /\ Goto(j, IF pc[j] = "connect" THEN "identify" ELSE "reidentify")
    /\ UNCHANGED <<poolCancelled, verdict, outcome, answer, permits, idle, leased, baseVars,
                   worker>>

Begin(j) ==
    /\ Up /\ pc[j] = "begin" /\ conn[j] \in drivers
    /\ Goto(j, "leased")
    /\ leased' = leased + 1
    /\ on' = [on EXCEPT ![conn[j]] = j]
    /\ fate' = [fate EXCEPT ![j] = "open"]
    /\ UNCHANGED <<poolCancelled, conn, verdict, outcome, answer, permits, idle, drivers,
                   cmd, spoiled, wire, worker>>

BeginFails(j) ==
    /\ Up /\ pc[j] = "begin"
    /\ Goto(j, "unbegun")
    /\ UNCHANGED <<poolCancelled, conn, verdict, outcome, answer, poolVars, baseVars, worker>>

----------------------------------------------------------------------------
(* The handler *)

\* End of the handler: one command is sent, in the same poll.
Finish(j, v) ==
    /\ verdict' = [verdict EXCEPT ![j] = v]
    /\ cmd' = [cmd EXCEPT ![j] = IF v = "good" THEN "COMMIT" ELSE "ROLLBACK"]
    /\ Goto(j, "ack")

\* With the lease: cancelled jobs finish it unused, others build the handler.
Prepare(j) ==
    /\ Up /\ pc[j] = "leased"
    /\ IF j \in poolCancelled
       THEN Finish(j, "silent")
       ELSE \/ Goto(j, "running") /\ UNCHANGED <<verdict, cmd>>
            \/ \E v \in {"bad", "doomed"} : Finish(j, v)
    /\ UNCHANGED <<poolCancelled, conn, outcome, answer, poolVars, on, spoiled, fate, wire, worker>>

\* A statement of app::record fails; the handler may go on all the same.
StatementFails(j) ==
    /\ Up /\ pc[j] = "running" /\ j \notin spoiled
    /\ spoiled' = spoiled \cup {j}
    /\ UNCHANGED <<poolTaskVars, poolVars, cmd, on, fate, wire, worker>>

\* run(), decode() and close(): all three must succeed.
Run(j) ==
    /\ Up /\ pc[j] = "running"
    /\ \E v \in {"good", "bad", "doomed"} : Finish(j, v)
    /\ UNCHANGED <<poolCancelled, conn, outcome, answer, poolVars, on, spoiled, fate, wire, worker>>

\* The cancelled run is dropped between two polls and closed.
Interrupt(j) ==
    /\ Up /\ pc[j] = "running" /\ j \in poolCancelled
    /\ \E v \in {"bad", "doomed"} : Finish(j, v)
    /\ UNCHANGED <<poolCancelled, conn, outcome, answer, poolVars, on, spoiled, fate, wire, worker>>

----------------------------------------------------------------------------
(* PostgreSQL *)

Decide(j, f) ==
    /\ fate' = [fate EXCEPT ![j] = f]
    /\ on' = [c \in Conn |-> IF on[c] = j THEN None ELSE on[c]]

\* The command takes effect, whether somebody still waits for it or not.
Apply(j) ==
    /\ cmd[j] # "none" /\ fate[j] = "open"
    /\ \/ /\ cmd[j] = "COMMIT" /\ j \notin spoiled
          /\ Decide(j, "committed") /\ wire' = [wire EXCEPT ![j] = "ok"]
       \/ /\ cmd[j] = "COMMIT" /\ j \notin spoiled
          /\ Decide(j, "rolledback")
          /\ \E e \in {"rejected", "error"} : wire' = [wire EXCEPT ![j] = e]
       \/ /\ cmd[j] = "ROLLBACK" \/ j \in spoiled
          /\ Decide(j, "rolledback") /\ wire' = [wire EXCEPT ![j] = "ok"]
    /\ UNCHANGED <<poolTaskVars, poolVars, cmd, spoiled, worker>>

\* The backend of a connection that is gone gives its transaction up.
Abort(j) ==
    /\ fate[j] = "open"
    /\ \A c \in drivers : on[c] # j
    /\ Decide(j, "rolledback")
    /\ UNCHANGED <<poolTaskVars, poolVars, cmd, spoiled, wire, worker>>

----------------------------------------------------------------------------
(* Lease::finish *)

\* The end of finish() and of the task: lease, permit, then panic or answer.
Settle(j, ok) ==
    /\ leased' = leased - 1
    /\ permits' = permits + 1
    /\ conn' = [conn EXCEPT ![j] = None]
    /\ Goto(j, IF verdict[j] = "doomed" THEN "panicked" ELSE "done")
    /\ answer' = [answer EXCEPT ![j] =
            CASE verdict[j] \in {"silent", "doomed"} -> @
              [] verdict[j] = "good" /\ ok -> "ok"
              [] OTHER -> "failed"]

Ack(j) ==
    /\ Up /\ pc[j] = "ack" /\ wire[j] = "ok" /\ conn[j] \in drivers
    /\ idle' = Append(idle, conn[j])
    /\ outcome' = [outcome EXCEPT ![j] = "acknowledged"]
    /\ Settle(j, TRUE)
    /\ UNCHANGED <<poolCancelled, verdict, drivers, baseVars, worker>>

\* Mutant of Unfinished: after the deadline the connection goes back to the pool.
UnfinishedReused(j, category) ==
    /\ idle' = Append(idle, conn[j])
    /\ outcome' = [outcome EXCEPT ![j] = category]
    /\ Settle(j, FALSE)
    /\ UNCHANGED <<poolCancelled, verdict, drivers, baseVars, worker>>

Unfinished(j, category) ==
    /\ outcome' = [outcome EXCEPT ![j] = category]
    /\ Goto(j, "retire")
    /\ UNCHANGED <<poolCancelled, conn, verdict, answer, poolVars, baseVars, worker>>

\* An error is the answer; commit_rejected() knows the ones that are definite.
Nack(j) ==
    /\ Up /\ pc[j] = "ack" /\ wire[j] \in {"rejected", "error"} /\ conn[j] \in drivers
    /\ Unfinished(j, IF wire[j] = "rejected" THEN "rejected" ELSE "ambiguous")

\* No answer: the deadline of 1.2 s, or the connection broke.
Lost(j) ==
    /\ Up /\ pc[j] = "ack"
    /\ Unfinished(j, IF cmd[j] = "COMMIT" THEN "ambiguous" ELSE "unacknowledged")

----------------------------------------------------------------------------
(* retire() and connect(), in checkout and in finish *)

\* The client is dropped and the driver has ended.
Retired(j) ==
    /\ Up /\ pc[j] \in {"swap", "retire", "unbegun"}
    /\ drivers' = drivers \ {conn[j]}
    /\ on' = [on EXCEPT ![conn[j]] = None]
    /\ conn' = [conn EXCEPT ![j] = None]
    /\ \/ /\ pc[j] \in {"swap", "retire"}
          /\ Goto(j, IF pc[j] = "swap" THEN "connect" ELSE "replace")
          /\ UNCHANGED <<permits, answer>>
       \/ pc[j] = "unbegun" /\ Fail(j, 1)
    /\ UNCHANGED <<poolCancelled, verdict, outcome, idle, leased, cmd, spoiled, fate, wire, worker>>

\* The driver did not end within 1.2 s: it is aborted, and the task panics.
RetireLate(j) ==
    /\ Up /\ pc[j] \in {"swap", "retire", "unbegun"}
    /\ conn[j] \in drivers
    /\ drivers' = drivers \ {conn[j]}
    /\ Goto(j, "panicked")
    /\ UNCHANGED <<permits, idle, leased, poolCancelled, conn, verdict, outcome, answer,
                   baseVars, worker>>

\* The pid has arrived: BEGIN, or the replacement goes to the pool.
Identified(j) ==
    /\ Up /\ conn[j] \in drivers
    /\ \/ /\ pc[j] = "identify" /\ Goto(j, "begin")
          /\ UNCHANGED <<conn, permits, idle, leased, answer>>
       \/ /\ pc[j] = "reidentify" /\ idle' = Append(idle, conn[j]) /\ Settle(j, FALSE)
    /\ UNCHANGED <<poolCancelled, verdict, outcome, drivers, baseVars, worker>>

\* No connection, or it broke before its pid arrived and its driver has ended.
ConnectFails(j) ==
    /\ Up
    /\ drivers' = drivers \ {conn[j]}
    /\ \/ /\ pc[j] \in {"connect", "identify"}
          /\ conn' = [conn EXCEPT ![j] = None]
          /\ Fail(j, 1) /\ UNCHANGED leased
       \/ pc[j] \in {"replace", "reidentify"} /\ Settle(j, FALSE)
    /\ UNCHANGED <<poolCancelled, verdict, outcome, idle, baseVars, worker>>

----------------------------------------------------------------------------
(* The worker *)

\* join_next sees the panic: tasks, leases and the runtime are dropped.
Collapse ==
    /\ Up /\ \E j \in Job : pc[j] = "panicked"
    /\ worker' = "failed"
    /\ pc' = [j \in Job |-> IF pc[j] \in Ended THEN pc[j] ELSE "dropped"]
    /\ drivers' = {}
    /\ UNCHANGED <<poolCancelled, conn, verdict, outcome, answer, permits, idle, leased, baseVars>>

\* The channel is closed and every task is joined: Pool::close.
Close ==
    /\ worker = "stopping" /\ \A j \in Job : pc[j] = "done"
    /\ worker' = "closing"
    /\ UNCHANGED <<poolTaskVars, poolVars, baseVars>>

CloseOne ==
    /\ worker = "closing" /\ idle # <<>>
    /\ idle' = Tail(idle)
    /\ drivers' = drivers \ {Head(idle)}
    /\ \/ UNCHANGED worker
       \/ Head(idle) \in drivers /\ worker' = "failed"
    /\ UNCHANGED <<permits, leased, poolTaskVars, baseVars>>

CloseEnds ==
    /\ worker = "closing" /\ idle = <<>>
    /\ worker' = "ended"
    /\ UNCHANGED <<poolTaskVars, poolVars, baseVars>>

Checkout(j) == Start(j) \/ CancelWait(j) \/ Acquire(j) \/ Begin(j) \/ BeginFails(j)
Connect(j) == Dial(j) \/ Identified(j) \/ ConnectFails(j) \/ Retired(j) \/ RetireLate(j)
Handler(j) == Prepare(j) \/ StatementFails(j) \/ Run(j) \/ Interrupt(j)
Finishing(j) == Ack(j) \/ Nack(j) \/ Lost(j)
Database(j) == Apply(j) \/ Abort(j)
PoolShutdown == Collapse \/ Close \/ CloseOne \/ CloseEnds

PoolNext ==
    \/ \E j \in Job : \/ Cancel(j) \/ Checkout(j) \/ Connect(j) \/ Handler(j)
                      \/ Finishing(j) \/ Database(j)
    \/ \E c \in Conn : Sever(c)
    \/ Stop \/ PoolShutdown

PoolSpec == PoolInit /\ [][PoolNext]_pgPoolVars

\* The awaits of retire and finish, and the opening of a connection, have a deadline of the
\* client.  BEGIN and the question for the pid have none: they end when the connection
\* breaks, and otherwise only if PostgreSQL answers, by its statement_timeout at the latest.
\* A handler need not end by itself, but its cancelled run is dropped.  The semaphore serves
\* its queue in order.
PoolFairness ==
    /\ \A j \in Job :
        /\ WF_pgPoolVars(Start(j)) /\ WF_pgPoolVars(CancelWait(j)) /\ SF_pgPoolVars(Acquire(j))
        /\ WF_pgPoolVars(Dial(j) \/ (pc[j] \in {"connect", "replace"} /\ ConnectFails(j)))
        /\ WF_pgPoolVars(conn[j] \notin drivers /\ (BeginFails(j) \/ ConnectFails(j)))
        /\ WF_pgPoolVars(Prepare(j)) /\ WF_pgPoolVars(Interrupt(j))
        /\ WF_pgPoolVars(Finishing(j)) /\ WF_pgPoolVars(Retired(j) \/ RetireLate(j))
    /\ WF_pgPoolVars(PoolShutdown)

PoolFairSpec == PoolSpec /\ PoolFairness

----------------------------------------------------------------------------
(* Properties *)

Held == {conn[j] : j \in {k \in Job : pc[k] \notin Ended}} \ {None}

\* However checkouts, failed BEGINs, retirements and failed replacements follow one
\* another, a worker never has more connections than permits: a connection lies in the
\* pool under a permit that is free or belongs to one job.
ConnectionsBounded ==
    worker # "failed" =>
        /\ Len(idle) <= permits
        /\ IsInjective(idle)
        /\ ToSet(idle) \cap Held = {}
        /\ Cardinality(drivers \cup Held \cup ToSet(idle)) <= Size

\* A pooled connection is in no transaction, and the transaction open on the connection
\* of a job is its own: nobody writes into the transaction of another, also after a
\* command that was not acknowledged and took effect late.
Isolated ==
    worker # "failed" =>
        /\ \A c \in ToSet(idle) : on[c] = None
        /\ \A j \in Job : pc[j] = "running" /\ conn[j] \in drivers => on[conn[j]] = j

\* What finish() reports is true of the database: a reported rejection or failed handler
\* leaves nothing behind, now or later, a job whose cleanup failed never commits, and an
\* answer of success is committed (unless the handler ignored a failed statement).
ReportsTrue ==
    \A j \in Job :
        /\ outcome[j] \in {"rejected", "unacknowledged"} => fate[j] # "committed"
        /\ verdict[j] \in {"bad", "doomed", "silent"} => fate[j] # "committed"
        /\ answer[j] = "ok" => fate[j] = "committed" \/ j \in spoiled

\* The assertions of Pool::close: no lease is out, and when the pool is empty no driver
\* is left.
ClosesClean ==
    /\ worker \in {"closing", "ended"} => leased = 0 /\ drivers \subseteq ToSet(idle)
    /\ worker = "ended" => drivers = {}

\* BEGIN or the question for the pid is on the wire, without a deadline.
Asks(j) == pc[j] \in {"begin", "identify", "reidentify"} /\ conn[j] \in drivers

\* A cancelled job ends unless PostgreSQL leaves its own BEGIN or its own question for the
\* pid unanswered for ever: it waits for no permit that another holds, also one that hangs
\* so, and its connection comes back or is retired within the deadlines.
CancelledEnds ==
    \A j \in Job : []<>~Asks(j) => (j \in poolCancelled ~> pc[j] \in Ended)

\* A worker that is told to stop ends, or fails, unless a job hangs so; nothing else of its
\* pool holds it up.
PoolWorkerEnds ==
    (\A j \in Job : []<>~Asks(j)) => (worker = "stopping" ~> worker \in {"ended", "failed"})

\* An acknowledged COMMIT has committed (plans/0056, line 190).
AcknowledgedCommits ==
    \A j \in Job : cmd[j] = "COMMIT" /\ outcome[j] = "acknowledged" => fate[j] = "committed"

\* Pool: permits, idle connections and drivers stay in step, to the end.
PoolSound == PoolTypeOK /\ ConnectionsBounded /\ ClosesClean

\* Lease and finish(): a transaction belongs to one job, and its outcome is what the job was
\* told.
DatabaseTrue == Isolated /\ ReportsTrue

\* Jobs that are cancelled and workers that are stopped end, if PostgreSQL answers.
PoolProgress == CancelledEnds /\ PoolWorkerEnds

=============================================================================
