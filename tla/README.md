# A TLA+ verification of rnx

rnx is a scripting environment for Rune written in Rust: a runner, an interactive
session, a notebook worker with a Jupyter kernel in front of it, an HTTP server that
runs Rune handlers, a database-backed variant of that server, and a project manager
that builds custom engines.  This directory holds TLA+ modules that model its
concurrent and stateful core, the TLC configurations that check them on small
instances, and TLAPS proofs of all their safety properties.  Source paths below
are relative to the repository root.

Contents: 1 inventory, 2 modules, 3 runs, 4 fairness, 5 disagreements with the
repository's records, 6 proofs, 7 only model-checked, 8 assumptions, 9 not modelled,
10 what could come next.

## 1. Inventory

| Component | Source | State | Operations | What makes it correct |
|---|---|---|---|---|
| Operation ownership | `src/lifecycle.rs` | per context: generation, active, next key, retired, failure, registry of weak owners; per operation: native future, stamp | track, poll, drop, begin, finish, clear, close, close_thread | every native future can be taken away; a failed execution loses exactly what it polled |
| Slots | `src/server.rs` | slot, stage of its call, failure, cleanup | prepare, run, cancel, close, drop | a slot comes back clean or not at all |
| Execution | `src/execute.rs`, `rune/.../runtime/budget` | hard budget, yield point, interrupt flag | slice, poll, yield, interrupt | slicing changes nothing but when Ctrl-C is seen |
| Child processes | `src/host.rs`, `src/platform.rs` | child, pipes, deadline, stop flags, operations in progress | run, deliver, capture, cancel, time out | every thread collected, what is cut is said to be |
| Session | `src/session.rs`, `src/repl.rs` | inputs, declarations, names, values, units, numberings, ceiling | eval, reset, renumber, sample | a failed input publishes nothing; the tables agree |
| Kernel scheduler | `jupyter/src/kernel.rs`, `Interrupt` of `jupyter/src/worker.rs` | queue, retiring, wakeup, stop, idle, count, interrupt state, the cell in progress | execute, interrupt, shutdown, kernel_info; pop, settle, fail, drain, exit | each cell answered once and in order; an interrupt hits the cell it was meant for; shutdown ends |
| Worker pipes | `jupyter/src/worker.rs`, `src/worker.rs` | identity, captures, late output, watchdog; three pipes; last identity of the worker | begin, send, publish, receive, complete, acknowledge, fail; receive, arm, print, mark, settle, wait | output belongs to its operation; nothing is lost silently |
| Stream capture, text | `jupyter/src/streams.rs` | held bytes, kept bytes, discard count, partial character | feed, keep, take, decode | the barrier is where the marker is, in every cut of the input |
| Containment | `jupyter/src/containment.rs`, `terminate` | children, pidfds, the worker's number | terminate, sweep, interrupt | no descendant left, no stranger signalled |
| Kernel transport | `jupyter/src/transport.rs` | peers, byte and message credits, subscriptions, slots | admit, register, subscribe, publish, reply, write, stop, join; read, acquire, handle | credits come back; a slow peer does not stop the others |
| HTTP server | `src/http_server/*` | slots, queues, tasks, permits, deadlines | accept, dispatch, invoke, replace slot, stop | every job answered, slots neither lost nor shared |
| HTTP log | `src/http_server/log.rs` | queue, four counters, report | send, write, shut down | the report adds up |
| HTTP routes | `src/http_server/routes.rs`, `value.rs` | table, hooks | decode, select, settle | selection does not depend on the order of rows |
| Connection pool | `servers/http-postgres/src/pool.rs` | permits, idle, leased, drivers | checkout, finish, retire, close | no transaction repeated, no connection used in doubt |
| Database server | `servers/http-postgres/src/main.rs` | central queue, credits, running, done | admit, pump, run, cancel, shut down | credits exact, every client answered |
| Assembly cache | `tools/project/src/cache_entry.rs`, `workflow.rs`, `maintenance/linux.rs` | entry, artifacts, ready mark, lock, receipts | build, attach, launch, remove, resume | a ready entry is a whole one, also after a crash |
| Dependency transition | `src/dep_transition.rs`, `tools/project/src/workflow/transition.rs` | request, helper, manifest, lock, artifact | describe, consent, author, lock, build, probe, commit, exec | nothing without consent; the session is given up only for something that works |
| Lock files | `tools/project/src/workflow.rs` | `rnx.Cargo.lock`, `rnx.lock` | publish the pair, roll back | never a new lock with an old Cargo file |
| Runtime store | `tools/project/src/runtime_install` | entries, `current.json`, stages, `install.lock` | install, select | the selected entry is there and whole |
| Runner, native modules, formatting, adapters, vendored Rune | `src/*`, `adapters/*`, `rune/*` | none of their own | pure functions and bindings | tested in place |

How they interact.  A Jupyter front end sends requests over several connections; the
transport gives each to `App::handle` in a task of its own.  Execute requests go
through one queue to the main loop of `run()`, which hands one at a time to
`Worker::operate`.  That sends it down a pipe to the worker process, which evaluates it
in its session and answers on a control pipe, while its output comes back on stdout and
stderr and is read by two more tasks.  Interrupts go around all of this: a handler sets
`Interrupt` and signals the process.  Inside the worker a session owns a `Lifecycle`,
through which native operations started by a script can be taken away when an input
fails.  The same `Lifecycle` is under the slots of the HTTP server.  A session's `:dep`
talks to a helper of the project manager, which locks and builds through the shared
cache.

The hard behaviours are the orders nobody writes down: an interrupt that arrives as a
cell ends, a request admitted while a failing cell is settled, output that overtakes or
follows its marker, a worker that dies between two messages, a slot lost while the
server stops, a COMMIT that takes effect after its job gave up, a remover killed between
a rename and its sync, a process number used again.  `PROJECT.json` lists them under
`hazards` at their lines, with the property that covers each.

## 2. Modules

| Module | Models | Run in | Proofs |
|---|---|---|---|
| `Lifecycle` | `src/lifecycle.rs` | `MCEngine` | `Engine_proofs` |
| `Slot` (over `Lifecycle`) | `Slot`, `SlotInvocation` of `src/server.rs` | `MCEngine` | `Engine_proofs` |
| `Execution` | `src/execute.rs` on Rune's budgets | `MCEngine`, `MCProgress` | `Engine_proofs` |
| `ChildRun` | `run_child_with`, `capture`, `deliver` of `src/host.rs`, `Pipe` of `src/platform.rs` | `MCEngine`, `MCProgress` | `Engine_proofs` |
| `Session` | `src/session.rs` as `src/repl.rs` drives it | `MCSession` | `Session_proofs` |
| `RuntimeInstall` | `tools/project/src/runtime_install` | `MCSession` | `Session_proofs` |
| `Kernel` | `jupyter/src/kernel.rs` with `Interrupt`, the worker as the scheduler sees it | `MCKernel`, `MCJupyter` | `Kernel_proofs` |
| `Containment` | `terminate` of `jupyter/src/worker.rs`, `sweep` of `containment.rs` | `MCKernel` | `Kernel_proofs` |
| `WorkerLink` | `jupyter/src/worker.rs` and `run()` of `src/worker.rs` with the pipes between | `MCTransport`, `MCProgress` | `Transport_proofs` |
| `Streams` | `jupyter/src/streams.rs` in the loop of `Worker::operation` | `MCJupyter` | `Kernel_proofs` |
| `Fanout` | publication, replies and connections of `jupyter/src/transport.rs` | `MCTransport`, `MCJupyter` | `Transport_proofs` |
| `Intake` | incoming messages and their credits, same file | `MCTransport` | `Transport_proofs` |
| `Service` | what an HTTP host promises of a request (abstract) | `MCHttp`, `MCPostgres` | `Http_proofs`, `Postgres_proofs` |
| `HttpServer` | `src/http_server/mod.rs`, `worker.rs` | `MCHttp`, `MCProgress` | `Http_proofs` |
| `HttpLog` | `src/http_server/log.rs` | `MCHttp`, `MCProgress` | `Http_proofs` |
| `Routes` | `src/http_server/routes.rs`, `value.rs` | `MCHttp` | `Http_proofs` |
| `PgPool` | `servers/http-postgres/src/pool.rs` and the task that uses it | `MCPostgres` | `Postgres_proofs` |
| `PgDispatch` | the coordinator and workers of `servers/http-postgres/src/main.rs` | `MCPostgres` | `Postgres_proofs` |
| `AssemblyCache` | one key of the shared cache | `MCProject` | `Project_proofs` |
| `DepTransition` | both ends of `:dep` | `MCProject`, `MCProgress` | `Project_proofs` |
| `LockPair` | `publish_pair` and the readers of its files | `MCProject` | `Project_proofs` |

Each module names its sources in its header; the `map` of `PROJECT.json` gives, for each
definition, the lines it stands for.  `Data_proofs` models no code: it holds what the
proofs need of sums and of folds along sequences (section 6).

**One run, several components.**  An MC module extends the components of one area.  They
are not connected there: a behaviour takes steps of one of them, chosen at the start and
named by the variable `part`, so that TLC explores the sum of their state spaces and not
the product.  Every property of a component is checked in the part that moves it.

**Where components meet.**  `Kernel` has the worker in five states and its control
frames without output.  `WorkerLink` has a kernel that only begins, gives up and
completes operations, and has what is written as items, the marker one of them.
`Streams` shows that an item can be that: it finds the marker in bytes that come in
pieces.  `HttpServer` has a slot as a token; `Slot` has what it must be to come back,
composed with `Lifecycle`.  `PgDispatch` has the database work of a task as one choice;
`PgPool` has that work.  `DepTransition` has `lock` and `build` as steps that may fail;
`LockPair` and `AssemblyCache` are their insides.

**Lifecycle.**  A context is `unmade`, `live`, `retired` or `gone`; `owners` is its
registry, `handle` the `Tracked` values the script still holds, `held` the native futures
that exist, `stamp` the generation of the last poll.  Everything runs on the thread of the
context, so each method is one action.  Destructors of native futures may panic
(`panics`), which is the failure of the context.  `Max` stands for `u64::MAX`, so that
the exhaustion of keys and generations is reached.

**Slot.**  `place` says in whose hands a slot is, `stage` where its call stands, `base`
the first key the call may own.  Scripts poll and drop what they kept at any time.

**Execution.**  A program is the steps its outer machine will take.  The budget, the
slice and the yield point are the thread locals of Rune; native loops and nested
machines draw from the same budget.  The reference is `Whole`: the same program under the
same budget in one piece.  The flag of Ctrl-C may be set before the run: `Admit` clears it
for an input of a session (`session.rs:644`) and keeps it for a file, which nothing clears
it for.

**ChildRun.**  The call, the writer and the two readers are four actors; a worker
publishes its handle while it is inside an operation, and only an operation that was
submitted can be cancelled.  Both forms of pipe, blocking (Windows) and not (Unix), are
cases of one run.

**Session.**  Values are shared handles, code and its source map are retained weakly.
What an input's code does is any use of the values it can reach.

**Kernel.**  `pc` says where the main loop stands; a step goes from one await, lock or
publication to the next.  Handlers (`Admit`, `Refuse`, `InterruptRequest`,
`ShutdownRequest`, `ShellInfo`, `ControlInfo`) run between any two of them.  `Publish`
writes the messages of a cell to its `log`; the n-th may be the one that fails, because
a route refuses it (cells in `Fragile`) or the publication credit is used up (`Chokes`).
The permit of `App.notify` is the variable `permit`.  Cells in `Runaway` end only by an
interrupt.

**Containment.**  Processes fork, leave their group and exit, strangers take numbers that
became free; the kernel lists its children, opens a pidfd, strikes and waits.

**WorkerLink.**  One action per step of `operation()`, of the three readers and of
`run()` in the worker.  `Fail` can happen whenever an operation is in progress: it stands
for errors, the watchdog and the caller dropping the future.  `Stray` is a process that a
cell left behind.

**Streams.**  Bytes are classes of bytes: ASCII, the first byte of a two and of a three
byte character, a continuation.  `Scan` is what `core::str::from_utf8` does with them;
`Publish` is one turn of the publishing loop.

**HttpServer, PgDispatch, Service.**  Both servers are shown to implement `Service`: a
handler runs at most once, a request that was refused never had its handler run, and the
answer of a handler is that of an execution that ended.

**DepTransition.**  An artifact has a path of its own for what it is built from, so it is
a roster, which names the path, and an id, which is the file: `depFiles` has the id that is
found at each path now, `depProject.receipt`, `probed`, `next` and `running` have what was
found there earlier.  A recheck and what relies on it are steps of their own: `Publish`
compares the manifest and `DepRename` replaces it (`add.rs:157`, `:160`), `Restart` compares
the stamp and `DepExec` executes the path (`dep_transition.rs:471`, `:475`).  The user and
others act between them, and `raced` records that they did.

**AssemblyCache, RuntimeInstall.**  After a loss of power a directory is in one of the
states it had since it was last synced; the variables `disk` and `kept`/`durable` hold
those.  Processes are killed at any step.

## 3. Runs

| Run | Instance | Properties | Time |
|---|---|---|---|
| `engine` | one context, `Max = 3`: two keys, three generations; a slot over it; programs of up to 3 steps under budgets up to 8 with slices of 2 and further costs up to 2; a child with a group and a stray, one chunk of room and of capture | `LifecycleSound`, `RequestsIsolated`, `ExecutionSound`, `PipesSafe`, `ResultHonest`, `FinishRevokesExactly`, `RevokedStaysRevoked` | 97 s |
| `session` | 3 inputs over two names, two types, a function, the last without a new name (values), or 4 inputs and 3 renumberings (numbers); 2 commands, 2 files, 2 edits with failures and kills (store), or with loss of power (outage) | `TablesAgree`, `StoreSound`, `InputsHonest`, `StoreHonest` | 82 s |
| `kernel` | 2 cells, one plain, a runaway, and with a route that may close, the other of any size, silent or invalid; publications that may be refused, a queue of 1; 3 processes, a stranger, 3 numbers | `AnswersSound`, `InterruptOnTarget`, `SweepSound` | 113 s |
| `jupyter` | 3 cells, a queue of 2; every input of up to 7 bytes in every cut into reads of up to 3, a limit of 4 | `QueueSound`, `AdmittedAnswered`, `OutputExact` | 92 s |
| `transport` | 2 operations, a limit of 1 item, a stray write; 3 connections, 2 slots, 2 identities, 2 publications and small replies between; 3 readers of messages of 2 parts on 6 credits | `LinkSound`, `NothingLostSilently`, `FanoutSound`, `IntakeSound` | 126 s |
| `http` | 3 requests, one of which may time out or leave, one worker, slot and place in the queue; 3 producers of 2 records, a queue of 2; every table of up to 3 routes | `HttpSound`, `LogExact`, `RoutesSound`, `ServiceHolds` | 89 s |
| `postgres` | 2 jobs, 3 connections, 2 permits; 3 requests, one of which may panic and fail its worker, or 4 that fill credits and queue | `PoolSound`, `DatabaseTrue`, `DispatchSound`, `ServiceHolds` | 134 s |
| `project` | 2 projects, a remover, 2 good and 1 bad digest, killed while one project is edited or the inputs change (cache), or without power (power); 2 requests of `:dep`; 4 runs of `lock` | `CacheSound`, `DepSound`, `LockSound`, `PublishedStays`, `UserKept` | 118 s |
| `jupyter_liveness` | 2 cells, one a runaway; 2 connections with room for one packet | `KernelProgress`, `FanoutProgress` | 60 s |
| `postgres_liveness` | 2 jobs for one permit; 3 requests | `PoolProgress`, `DispatchProgress` | 181 s |
| `progress` | one operation, call, execution, `:dep` and request, 2 HTTP workers, 2 producers | `CallsEnd`, `ServersEnd` | 223 s |
| `kernel_dropped` | 2 cells, one whose route may close | finds `QueuedAnswered` violated | 2 s |

Times are those of two workers.  A property of a run is a conjunction of named parts,
each with its own comment: `AnswersSound` is `TypeOK`, `InfoNeverObscures` and
`AnswersWellFormed`; `PoolSound` is types, `ConnectionsBounded` and
`ClosesClean`; and so on.  Each property has a mutant in `PROJECT.json`: a plausible bug
in the code (a dropped guard, a swapped order, a missing reset) under which the property
fails in the same run.

Why the bounds are enough.  An interrupt concerns the cell that is active and the next
one, so two cells show every way it can go astray.  An abort needs the failing cell, one
queued before it failed and one that comes later: three.  Output can be attributed
wrongly only between an operation and the next, and a limit of one item is
passed by one write of the operation and one of a leftover process.  A marker of three bytes that overlaps itself, with reads of up to three, is
cut at every place and has a false start; seven bytes hold a false start, the marker and
a tail; a limit of four cuts a three byte character.  The keys and generations of
`engine` end inside the instance.  A slot passes from one request to the next, and three
generations are a request, its successor and the exhaustion.  Three HTTP requests are one active, one
queued and one refused.  Three connections for two permits are a lease, an idle one and a
replacement.  Two projects and a remover are a builder, one that attaches and one that
takes the entry away.  Two inputs of a session share a handle, a third sees the result.
Credits of the intake are exactly `IntakeSlots * MessageCap`, the code's own figure, so
that the last credit is asked for.

Symmetry is used where the model values of a run are interchangeable: connections,
projects, requests of the same kind, names, types.  Components that share a set of model
values share its permutations.  No run with a liveness property uses symmetry.

Deadlock is checked in `kernel`, `http` and `project`, where the end of each component is
an explicit stuttering step and a state in which nobody can move before it is an error.
Elsewhere the environment may simply stop: the input ends, the front end or the client
sends nothing more, counters reach their bounds.

## 4. Fairness

Each module states its own (`Fairness`, `FairSpec` and their prefixed forms), and
`MCProgress` and the two liveness runs use it for the part that moves.  Fairness is weak
unless said otherwise.

 - `Kernel`: the main loop, the evaluation in the worker, the readers.  The runtime polls
   tasks that are ready, its timers fire, the worker computes.  Nothing is assumed of the
   front end, nothing makes the worker die, and a cell in `Runaway` need not end.
 - `WorkerLink`: each reader, each step of the operation and each step of the worker, the
   end of the cell included.  Failing is fair only where the code must fail (`MustFail`).
   Nothing makes the kernel begin an operation.
 - `Fanout`: the writer and the end of each connection that was stopped or failed.  A
   write to a peer that does not read need not return.
 - `Execution`: the machine and the tick that looks for Ctrl-C, not the host's futures.
 - `ChildRun`: timers, the call, and the workers' own steps; not the child, its
   descendants or their reading and writing.
 - `DepTransition`: the session and its deadlines, and an answer of the user; not the
   helper, which may hang.
 - `HttpServer`: routes, tasks at their own steps, worker loops, the grace timer and the
   main thread; not the handlers.
 - `HttpLog`: the writing thread outside a write, the shutdown, and strong fairness of a
   producer's drop, which is interrupted by its sends; not the write to standard error.
 - `PgPool`: the task at each step of its own and the timers of what has one: the opening
   of a connection, `retire` and `finish`.  Nothing makes PostgreSQL answer `BEGIN`
   (`pool.rs:137`) or `pg_backend_pid()` (`pool.rs:76`), which have no deadline of the
   client, only the server's own `statement_timeout` (`pool.rs:50`); they fail when the
   connection is seen to be broken.  `PoolProgress` says what follows if PostgreSQL answers
   these two questions, whatever it does with the others; if it is silent, a worker hangs
   and the coordinator gives up at its limit (`main.rs:775`), which `DispatchProgress` has.
   Strong fairness of the acquisition of a permit, because Tokio's semaphore is first come,
   first served.
 - `PgDispatch`: the coordinator, timers and the workers' own steps; not the handlers.

## 5. Disagreements with the repository's records

One is a run of its own:

**Queued requests are dropped** (`kernel_dropped`, `jupyter/src/kernel.rs:460`).  A
failing cell takes the queue first and refuses the requests in it last.  If its own reply
is refused in between (its connection is gone or its peer's credit is used up), the
others get neither reply nor idle, though their own connections are fine.
`AdmittedAnswered`, which is proved, says exactly when an admitted request may go without
its reply.

The others are definitions of the modules that no run checks; adding the definition to
the `.cfg` of the component's run, under the specification given, shows the behaviour.

| Definition | Code | Record | What the code does |
|---|---|---|---|
| `Kernel!IdleIsFinal` | `jupyter/src/kernel.rs:639` | `plans/0047`:207 "execute_reply, and finally idle" | when the acknowledgement fails, or the worker says its state is lost, a cell that is already idle gets an error and a second reply; `AnswersSound` shows that this is only the cell the kernel fails with |
| `HttpServer!ReplacementReported` | `src/http_server/mod.rs:242` | `plans/0164`:42 "stop admission and shut down nonzero" | a slot replacement that fails after a signal is sent to nobody; the process exits zero |
| `HttpServer!ActiveDrains` | `src/http_server/worker.rs:229` | `plans/0164`:44 "Already-active jobs drain within the grace period" | a replacement that fails while the worker drains drops the worker's other active jobs at once |
| `PgPool!AcknowledgedCommits` | `servers/http-postgres/src/pool.rs:175` | `plans/0056`:190 "Acknowledged COMMIT: committed" | PostgreSQL acknowledges the COMMIT of a failed transaction with ROLLBACK and no error; a handler that ignored the error is reported as committed |
| `AssemblyCache!SyncedBeforeDelete` | `tools/project/src/maintenance/linux.rs:596` | `plans/0066`:222 "Sync both parent directories after rename before deleting any child" | `--resume` deletes from a pending directory whose rename was never synced; a loss of power then brings a hollow entry back (this is why `CacheIsSound` is stated under `OneFault`) |
| `Session!InstancesMatch` | `src/session.rs:728` | `plans/0001`:86 "A struct or enum whose shape changes is refused until `:reset`" | an input that fails may leave an instance of a type it declared in a shared value; the type may then be declared with another shape |
| `DepTransition!ApprovedOnly` | `tools/project/src/workflow/transition.rs:600` | `plans/0063`:142 "never silent expansion of what the user approved" | an edit between the comparison of the manifest and `lock` is locked, built and started |
| `RuntimeInstall!SelectedExists` | `tools/project/src/runtime_install` | `plans/0064`:194-197 "then sync its parent" before "a synced temporary current document replace current.json" | an entry whose sync failed is selected by the next command without one; with a loss of power after that, `current.json` names nothing (`RuntimeSpec`; it holds under `PoweredSpec` and `FaultlessSpec`) |

## 6. Proofs

TLAPS proves, for every value of the constants, every safety invariant, action property
and refinement that a run checks:

| Theorem | Statement | In words |
|---|---|---|
| `Engine_proofs!LifecycleHolds` | `Spec => []LifecycleSound` | counters stay within `u64`; every native future is in the registry of a context that can revoke it |
| `Engine_proofs!FinishIsExact` | `Spec => FinishRevokesExactly` | a failed execution loses exactly what it polled |
| `Engine_proofs!RevocationIsFinal` | `Spec => RevokedStaysRevoked` | what was revoked stays so |
| `Engine_proofs!SlotsIsolateRequests` | `SlotSpec => []RequestsIsolated` | requests that share a slot share nothing else |
| `Engine_proofs!PipesAreSafe` | `ChildSpec => []PipesSafe` | a cancellation meets only open handles, and is final |
| `Engine_proofs!ResultsAreHonest` | `ChildSpec => []ResultHonest` | what was lost is reported with its reason; nothing is left running |
| `Engine_proofs!ExecutionIsWhole` | `ExecSpec => []ExecutionSound` | however it is sliced, a program ends as it would in one piece; an input of a session is ended only by its own Ctrl-C, within a slice, a file only while it waits |
| `Transport_proofs!LinkHolds` | `Spec => []LinkSound` | output is its operation's own; the worker is owned while it runs |
| `Transport_proofs!OutputIsAccounted` | `Spec => []NothingLostSilently` | what an operation wrote is published by the time of its reply, or its loss is |
| `Transport_proofs!PublicationExact` | `FanSpec => []FanoutSound` | publications arrive in order, without gaps, at all or none; credits come back |
| `Transport_proofs!NobodyWaits` | `IntakeSpec => []IntakeSound` | no connection ever waits for credits of the others |
| `Kernel_proofs!InterruptsHitTheirTarget` | `Spec => []InterruptOnTarget` | the worker sees an interrupt only in a cell it was meant for |
| `Kernel_proofs!EveryRequestIsAnswered` | `Spec => []AdmittedAnswered` | at the exit every admitted request has its reply, unless a route or publication refused one or shutdown abandoned it |
| `Kernel_proofs!QueueIsServedInOrder` | `Spec => []QueueSound` | cells run in order and once; a failure aborts only what was sent before it was answered |
| `Kernel_proofs!AnswersAreSound` | `Spec => []AnswersSound` | one well-formed answer per cell; `kernel_info` never leaves an idle over a busy one |
| `Kernel_proofs!SweepIsSound` | `ContainSpec => []SweepSound` | no stranger is signalled; a clean sweep leaves no descendant |
| `Kernel_proofs!StreamIsExact` | `StreamSpec => []OutputExact` | in every cut of the input, the marker is found where it is and the text is that of the whole |
| `Http_proofs!NothingIsUnowned` | `HttpSpec => []HttpSound` | all slots of a serving worker and every waiting request have an owner |
| `Http_proofs!ServerImplementsService` | `HttpSpec => ServiceHolds` | the server implements `Service` |
| `Http_proofs!ReportsAddUp` | `LogSpec => []LogExact` | the report accounts for every record once |
| `Http_proofs!SelectionIsSound` | `RouteSpec => []RoutesSound` | the order of rows does not matter; `Allow` is true |
| `Postgres_proofs!PoolIsSound` | `PoolSpec => []PoolSound` | never more connections than permits, each in one hand; a clean close |
| `Postgres_proofs!ReportsAreTrue` | `PoolSpec => []DatabaseTrue` | transactions are not shared, and what a job reports of its own is true |
| `Postgres_proofs!CreditsAreKept` | `DispatchSpec => []DispatchSound` | credits count the work that exists; shutdown reaches all of it |
| `Postgres_proofs!CoordinatorImplementsService` | `DispatchSpec => ServiceHolds` | the coordinator and its workers implement `Service` |
| `Project_proofs!LockPairSound` | `LockSpec => []LockSound` | never a new lock beside an older Cargo file |
| `Project_proofs!TransitionSound` | `DepSpec => []DepSound` | nothing before consent, no helper left; what is started is the probed file, unless it was replaced between the last recheck and exec |
| `Project_proofs!TransitionKeepsUser` | `DepSpec => UserKept` | an edit is lost only between the last recheck and the rename; a session is given up only for a probed artifact |
| `Project_proofs!OnlyCleanAreLaunched` | `CacheSpec => [](CacheTypeOK /\ OnlyCleanBuilds /\ LaunchesCurrent)` | what runs was built from the locked inputs, under every fault, where inputs do not change back |
| `Project_proofs!CacheIsSound` | `OneFault => (CacheSpec => []CacheSound)` | a ready entry has its executable |
| `Project_proofs!PublishedEntriesStay` | `CacheSpec => PublishedStays` | a published entry stays until it is removed whole |
| `Session_proofs!EntriesAreWhole` | `RuntimeSpec => [](RuntimeTypeOK /\ EntriesWhole /\ LiveWorkKept)` | entries are what their names say, under every fault |
| `Session_proofs!PoweredStoreSound` | `PoweredSpec => []StoreSound` | `current.json` names an entry that is there |
| `Session_proofs!FaultlessStoreSound` | `FaultlessSpec => []StoreSound` | the same with losses of power, where no command fails |
| `Session_proofs!CommandsAreHonest` | `RuntimeSpec => StoreHonest` | commands say what they did |
| `Session_proofs!SessionTablesAgree` | `Spec => []TablesAgree` | names have values, closures their maps, instances their declared shapes, inputs their numbers |
| `Session_proofs!SessionInputsHonest` | `Spec => InputsHonest` | a failed input publishes nothing; the prompt tells the number that is cited |

The assumptions are the named ones on the constants, which TLC evaluates in every run of
the module: `MaxAssumption`, `ExecutionAssumption`, `ChildAssumption`,
`SessionAssumption`, `RuntimeAssumption`, `LinkAssumption`, `FanoutAssumption`,
`IntakeAssumption`, `CreditsAssumption`, `KernelAssumption`, `ContainAssumption`,
`StreamsAssumption`, `ServerAssumption`, `LogAssumption`, `RoutesAssumption`,
`PoolAssumption`, `DispatchAssumption`, `LockPairAssumption`, `DepAssumption`,
`CacheAssumption`.  They say that bounds are numbers, that distinguished values are
distinct from the others, that subsets are subsets, that a pattern and a path have parts,
that there are connections enough to fill the pool, and that the intake has
`IntakeSlots * MessageCap` credits, as `Server::bind` gives it.  Where credits or records
are summed over connections or producers, their set is finite, though of any size; no
other theorem needs a set of processes, cells, requests, jobs or contexts to be finite.

**Induction over data** (`Data_proofs`).  The library states induction with an operator
as its parameter, and no prover here can instantiate one.  What can be said as membership
of a set needs none: `LeastNat` takes a least element of a set of naturals from
well-foundedness, `InductionNat` and `InductionFinite` are induction over sets of numbers
and of finite sets, and every inductive fact below is stated as a set of the lengths, or
of the subsets, for which it holds.  On them rest the sums (`SumFunctionOnSet` is a
function, any element can be taken out of a sum, what one value more or less does to it)
and the folds: with the step of a fold as `CONSTANT Op`, a fold is the last of a chain of
accumulators (`FoldChain`), so that a proof about a loop is one about its chain.
`Fanout`, `Routes` and `PgDispatch` each instantiate it with their own step.

None of the invariants is inductive as it stands.  What is added, and why:

**Lifecycle** (`IInv`).  `NoEscape` does not say why `finish` takes exactly what was
polled.  `IInv` adds that keys in use are below `next` (`Fresh`), that no stamp is ahead
of its generation (`StampsBehind`), and that while an execution runs a stamp equals the
generation exactly for what was polled since it began (`StampIsTouched`).  With these,
`State::revoke(false)` selects `touched`, and a new key is one nobody holds.

**Slot** (`SlotInv`).  On top of `IInv`, of each slot: it has its state while it is in
somebody's hands (`Placed`), it is clean in the pool (`Clean`), a call holds only keys from
its `base` on (`Own`), and it is active exactly while its call has begun (`Once`).  The
steps of scripts act on one slot, so one lemma (`OneSlot`) carries the others over.

**ChildRun** (`ChildInv`).  `Handles`: a handle is published exactly while its worker is in
an operation, a worker is stopped only from its own stop on, and once that is over it has
no handle.  `Stages`: how far the call has come says what was ended (the group, the writer,
the allowance or the readers).  `Ends` and `Pipes`: a reader that ended well has taken all
there will be, as nobody is alive to write more, and has kept it up to the limit; one that
was cut was so by an interrupt or at the end of the allowance, because the call stops a
reader only then.

**Execution** (`ExecInv`).  `ExecPermits`: a permit is in the budget, in the guard or spent.
`ExecPosition`: what was spent is the cost of the steps behind `ip`, up to what the call in
hand still owes; this is what ties a sliced run to `Whole`, which counts the same steps.
`ExecFlag`: between two looks at the flag no more than a slice can be spent, for the budget
left and what was spent since add up to at most a window.

**Session** (`SessionInv`).  `InstancesOfPublished` needs `CodeDeclared`: published code that
something can still call makes only what is declared, because an input that changes a type
is refused until `:reset`.  `ItemsOld` says that whatever a binding
reaches is of an input that is over, so that a new unit is confused with no old one.

**WorkerLink** (`IInv`).  Nothing in a stream carries the name of an operation for a
reader to look at: attribution is right only because of where everybody stands.

 - `Handover`: as long as the worker lives, exactly one of four things is true.  No
   operation owns the streams (`Idle`); one does but its request is not sent (`Unsent`);
   its request is in the pipe, perhaps behind the acknowledgement of the last one
   (`Underway`); the worker took it (`Taken`).
 - `Pipes`: an item of an operation is in a stream only while the capture of this
   operation is open there, the marker only when the worker is past it, and nothing of
   the operation follows its marker.
 - `Frames`, `Replied`, `Barriers`: a settlement means that the worker waits for the
   acknowledgement, and the operation saw the end of a stream only where its capture did.
 - `Buffers`: a capture holds items of its operation or of nobody, the late output items
   of nobody.

An operation ends its ownership only in `Acknowledge`, where `Barriers` and `Pipes` leave
nothing of it in the streams; `Begin` then starts from streams that hold only items of
nobody.

`NothingLostSilently` has an invariant of its own (`Account`).  `Followed`: while the
operation owns the streams, each of its pieces is in the pipe, kept, published or counted as
not kept.  `Emptied`: a barrier is passed with everything kept published, and with the notice
if something was counted.  `Ordered`: no reply is handed on while its worker still
evaluates.

**Fanout** (`FanInv`).  Of each connection: its queue is within its credits, empty once it is
dropped, and what it got and has queued is what was due to it, all of it unless it was
stopped.  The global credits are a sum over the connections of sums over their queues;
`publish` reserves for all subscribers first, which is why the sum stays within `Global`
though each adds a packet.

**Intake** (`IntakeInv`).  What a connection holds follows from where it reads (`IntakeAt`): never
more than `MessageCap`.  Connections beyond `IntakeSlots` hold nothing, so all but one hold at
most `(IntakeSlots - 1) * MessageCap`, and what one needs is left.

**Kernel**.  Three invariants and what they leave of the types.

 - `InterruptInv` (`SignalTypes`, `Waiting`, `Frames`): an interrupt that waits is meant
   for the job that is active or, when none is, for the head of the queue; the frames of
   the worker are those of the job that was sent, a settlement the last of them; nothing is
   in the pipe where the loop stands between jobs.
 - `CellInv` (`CellTypes`, `Queues`, `Places`, `Got`, `Answering`): no cell is twice in the
   queue, among the aborted or in progress; what is in the log of a cell is what its place
   allows (nothing while it waits, no reply while it runs, no idle before the last step);
   and unless a reply or a publication was refused, an admitted cell waits, is in
   progress or has its reply.
 - `OrderInv`: the queue is the tail of what was admitted, what ran lies within the part
   that left the queue, and a job that is due comes after all that ran.

**Containment** (`ContainInv`).  `Family` and `Rooted`: a descendant is the kernel's child
or has a parent that is alive, and no set of descendants is its own parents.  `Numbers`: processes that were not waited for have
different numbers.  `Sweeping`: every number the kernel has listed, and the one its pidfd
was opened for, is that of a child it has not waited for.  So the number cannot have
passed to a stranger, and an empty listing means that no descendant is left.

**Streams** (`CaptureInv`, `TextInv`).  As long as no marker was seen, what was fed is what was
kept or counted and then what is held back, and what is held back is the longest end of it
that begins a marker; so no marker can begin before it, and the first one found in a
piece is the first of the whole.  For the text, `ScanInPieces`: what was cut off as a
partial character, with the bytes that follow, decodes to what both pieces decode to
together.  It is an induction over the length of the input, with a case for each class of
byte that a character may begin or go on with.

**HttpServer** (`HttpInv`).  `Queues`, `Owned`, `Jobs`, `Answers`: an open oneshot is in a
queue or with a task of a worker that runs, and how far the handler came follows from the
two.  `Slots`, `Permits`: slots in the `Vec` and tasks add up to `Active`, permits are
bounded by the hub's semaphore.  The refinement maps each request to its verdict and
execution in `Service`; `HttpInv` gives each step its image (`Refuse`, `Run`, `Complete`
and so on, or none).

**HttpLog** (`LogInv`).  `LogAccounts`: each record is sent and not yet counted, queued, in
hand or counted.  `LogReadings`: a counter that was read is exact or was exceeded since, as the
order of the reads has it.

**Routes** (`RoutesInv`).  Patterns of one shape in a table are equal (`Distinct`); of two
patterns that match one path and differ in shape, one is more specific, and being more
specific is transitive.  So `Best`, a fold along the table, is the most specific pattern that
matches, whatever the order.

**PgPool** (`PoolInv`, `BaseInv`).  `Counted`: the free permits and the jobs that hold one
add up to `Size`, a job whose `retire()` panicked among them, and leases are counted the
same way; `Balance` carries this over every step.  `Owned`: a connection is with one job or
once in the stack, which is never higher than the free permits, and every driver belongs
to one of them.  The bound on connections is the sum of the two.  `Told` relates the place
of a job, its verdict, its command, PostgreSQL's reply and the fate of the transaction;
`Open` says that an undecided transaction is on the connection of its own job, and on no
other: this is why a command that takes effect late reaches nobody else.

**PgDispatch** (`DispatchInv`).  A request is in the queue, in one channel or with one task, once
(`Apart`, `Placed`); the credits of a worker are the sizes of these (`CreditsCounted`).  They are
carried through `pump` along the chain of its fold: each turn takes a request from the queue to
the channel of a worker that is not full, or keeps it because none is.  `Answers` gives the
steps their images in `Service`.

**Project.**  `LockInv` knows where each file stands at each step of `publish_pair` and
that generations are given out in order.  `DepInv` relates the step of the helper, the
frames in the socket and the state of the session (`Dialogue`), what was agreed with what
is being made (`Agreed`), what the helper has read of the project (`Read`), what a
readiness in the socket promises of the artifact it names (`Promised`), and what still
holds after a last recheck where nothing has raced it (`Windows`).  `CacheInv`
(`CacheTypes`, `Trees`, `LockHeld`, `Works`, `Removal`) says who may change the tree of a
key and what a builder has already written.  Its other half, that a ready mark is backed
by an executable in every state a loss of power can bring back, needs `OneFault`
(crashes or losses of power, not both): with both, `--resume` breaks it (section 5).

**RuntimeInstall.**  `RuntimeInv` has, per command, what it holds, staged and knows of the
store while it has `install.lock`; `OneTool` carries it over the steps of the others.
`PoweredInv` adds that the selected entry exists; `FaultlessInv` that entries are durable
whenever no command is between the rename and the sync, and that `current.json` names only
durable ones.

## 7. Only model-checked

 - Liveness: `KernelProgress`, `FanoutProgress`, `PoolProgress`, `DispatchProgress`,
   `CallsEnd`, `ServersEnd`.  The prover has no rules for fairness or `ENABLED`.
 - The disagreements of section 5: TLC shows behaviours.

No safety property of a run is left to TLC alone.  `CacheSound` and `StoreSound` are proved
under the faults their theorems name, not under all of them: under all of them they fail
(section 5).

## 8. Assumptions of the models

 - Losses of power (`AssemblyCache`, `RuntimeInstall`): a directory comes back in one of
   its states since its last sync, operations on one directory in order.  Cargo ends with
   its builder, and native inputs change once and not back: `plans/0057`:215 and
   `plans/0061` (publication evidence, lines 94-97) make no promise about a change that is
   undone while Cargo reads, nor about a Cargo that outlives a killed builder.  In
   `RuntimeInstall`, `entries/` exists from the start, an owner damages an entry only while
   the lock is free, and leftover stages are only reclaimed.
 - `LockPair` has the death of processes and no loss of power.
 - `DepTransition`: a file that was replaced has another stamp; the project lock is taken at
   once; the user answers when asked.  Edits between the last recheck and the rename, and
   replacements between the last recheck and exec, are in the model: nothing detects them,
   `plans/0062`:140-142 and `plans/0063`:243 make no claim about them, and `EditsKept` and
   `RestartsProbed` say that they are the only ones.
 - `HttpLog`: the host drops the other producers before it shuts the log down; standard
   error may block for ever.
 - `Execution`: a program is its steps; host futures need not settle.
 - `ChildRun`: for liveness readers do not fail, and an interrupt is seen between reads.
 - `Containment`: the kernel is the only one that waits for its children, one read of
   `/proc/.../children` is atomic, the subreaper and pidfd checks at start-up have passed;
   so the `ESRCH` branch of `pidfd_open` is not reachable.
 - PostgreSQL, its driver, Cargo and the Rune machine are external and are modelled from
   how the code uses them.

## 9. Not modelled

Evaluation itself, in the virtual machine of Rune; message encoding, framing and signing;
formatting and presentation, pure functions about layout; the script runner, sequential
assembly and one evaluation; native modules and adapters, bindings of libraries, mostly
generated; the vendored compiler and its collections; Windows job objects; the bytes of
manifests, resolution and fingerprints.  `PROJECT.json` gives the reason for each
component, and for each that is modelled in part what was left out.

## 10. What could come next

Parts of the code that would add to what is modelled rather than to what is proved: the
`reset` operation of the worker once the kernel sends it, the origin map of `Book` and the
history, Windows job objects beside the subreaper of `Containment`, and the losses of power
in `LockPair`.
