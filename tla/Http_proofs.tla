---------------------------- MODULE Http_proofs -----------------------------
(***************************************************************************)
(* Proofs about the HTTP server: for any number of requests, workers, slots*)
(* and places in a queue, no slot and no waiting request is without an     *)
(* owner, and the server implements Service.  HttpLog: for any number of   *)
(* producers and records, the report accounts for every record.  Routes:   *)
(* for any rows, patterns and paths, select() does not depend on the order *)
(* of the rows and picks the most specific pattern.                        *)
(***************************************************************************)
EXTENDS HttpServer, HttpLog, Routes, FiniteSetTheorems, TLAPS

INSTANCE Data_proofs WITH Op <- Better

(***************************************************************************)
(* HttpServer                                                              *)
(***************************************************************************)

Busy == {"spawned", "looked", "running"}

\* The types, without the bounds that need counting.
Types ==
    /\ httpMain \in {"starting", "aborting", "serving", "draining", "exited"}
    /\ failure \in BOOLEAN /\ grace \in BOOLEAN
    /\ httpThread \in [HttpWorker -> {"starting", "running", "ended", "failed"}]
    /\ stopping \in [HttpWorker -> BOOLEAN]
    /\ slots \in [HttpWorker -> Nat]
    /\ queue \in [HttpWorker -> Seq(HttpRequest)]
    /\ at \in [HttpRequest -> {"new", "body", "waiting", "answered", "done", "gone"}]
    /\ status \in [HttpRequest -> {"none", "left"} \cup HttpAnswer]
    /\ permits \subseteq HttpRequest
    /\ nextWorker \in HttpWorker
    /\ expired \subseteq HttpRequest
    /\ httpReply \in [HttpRequest -> {"none", "open", "dropped"} \cup HttpAnswer]
    /\ home \in [HttpRequest -> HttpWorker]
    /\ task \in [HttpRequest -> {"none", "spawned", "looked", "running", "kept", "lost"}]
    /\ httpRan \in [HttpRequest -> {"no", "begun", "complete"}]

\* What waits in a queue is a job of this worker, once, that nobody began or answered.
Queues ==
    \A w \in HttpWorker :
        /\ Len(queue[w]) <= HttpQueue
        /\ Len(queue[w]) > 0 => httpThread[w] = "running" /\ ~stopping[w]
        /\ \A i \in 1 .. Len(queue[w]) :
              /\ home[queue[w][i]] = w /\ task[queue[w][i]] = "none"
              /\ httpReply[queue[w][i]] = "open"
        /\ \A i, j \in 1 .. Len(queue[w]) : queue[w][i] = queue[w][j] => i = j

\* A oneshot that is open is with a task or in the queue of a worker that runs.
InQueue(r) == \E i \in 1 .. Len(queue[home[r]]) : queue[home[r]][i] = r
Owned ==
    \A r \in HttpRequest : httpReply[r] = "open" =>
        /\ httpThread[home[r]] = "running"
        /\ task[r] \in Busy \/ (task[r] = "none" /\ InQueue(r))

\* How far the handler of a request got, by its task and its oneshot.
Jobs ==
    \A r \in HttpRequest :
        /\ task[r] # "none" => httpThread[home[r]] = "running"
        /\ task[r] \in Busy => httpReply[r] = "open"
        /\ task[r] \in {"spawned", "looked"} => httpRan[r] = "no"
        /\ task[r] = "running" => httpRan[r] = "begun"
        /\ task[r] = "none" /\ httpReply[r] = "open" => httpRan[r] = "no"
        /\ httpReply[r] \in {"none", "refused"} => httpRan[r] = "no" /\ task[r] = "none"
        /\ httpReply[r] = "handler" => httpRan[r] = "complete"

\* What route() knows of the job.
Answers ==
    \A r \in HttpRequest :
        /\ at[r] \in {"new", "body"} => httpReply[r] = "none"
        /\ at[r] = "waiting" => httpReply[r] # "none"
        /\ at[r] \in {"new", "body", "waiting"} <=> status[r] = "none"
        /\ status[r] = "refused" => httpReply[r] \in {"none", "refused"}
        /\ status[r] = "handler" => httpRan[r] = "complete"

\* The slots of a worker, and the permits of all requests, are counted.
Slots ==
    \A w \in HttpWorker :
        /\ slots[w] <= Active
        /\ httpThread[w] = "running" =>
              IsFiniteSet(Tasks(w)) /\ slots[w] + Cardinality(Tasks(w)) = Active
Permits == IsFiniteSet(permits) /\ Cardinality(permits) <= Workers * (HttpQueue + Active)

HttpInv == Types /\ Queues /\ Owned /\ Jobs /\ Answers /\ Slots /\ Permits

\* A server that has just bound its port.
LEMMA HttpInitHolds == HttpInit => HttpInv
<1> SUFFICES ASSUME HttpInit PROVE HttpInv
  OBVIOUS
<1> USE ServerAssumption DEF HttpInit, HttpWorker
<1>1. Types
  <2>1. 0 \in HttpWorker
    OBVIOUS
  <2>2. queue \in [HttpWorker -> Seq(HttpRequest)]
    OBVIOUS
  <2> QED
    BY <2>1, <2>2 DEF Types, HttpAnswer
<1>2. Queues
  BY DEF Queues
<1>3. Owned /\ Jobs /\ Answers
  BY DEF Owned, Jobs, Answers, Busy
<1>4. Slots
  BY DEF Slots
<1>5. Permits
  BY FS_EmptySet DEF Permits
<1> QED
  BY <1>1, <1>2, <1>3, <1>4, <1>5 DEF HttpInv

\* Steps that leave the jobs and the workers alone.
LEMMA MainHolds ==
    HttpInv /\ (Serve \/ AbortStart \/ Stop \/ Fatal \/ GraceOver \/ HttpExit \/ SecondSignal
                \/ Exited \/ UNCHANGED httpVars) => HttpInv'
<1> SUFFICES ASSUME HttpInv, Serve \/ AbortStart \/ Stop \/ Fatal \/ GraceOver \/ HttpExit
                             \/ SecondSignal \/ Exited \/ UNCHANGED httpVars
             PROVE HttpInv'
  OBVIOUS
<1>1. /\ UNCHANGED <<workerVars, routeVars, expired, jobVars>>
      /\ httpMain' \in {"starting", "aborting", "serving", "draining", "exited"}
      /\ failure' \in BOOLEAN /\ grace' \in BOOLEAN
  BY DEF HttpInv, Types, Serve, AbortStart, Stop, Fatal, GraceOver, HttpExit, SecondSignal, Exited,
         httpVars, mainVars
<1> USE <1>1 DEF HttpInv, workerVars, routeVars, jobVars
<1>2. Types'
  BY DEF Types
<1>3. Queues' /\ Owned' /\ Jobs' /\ Answers'
  BY DEF Queues, Owned, InQueue, Jobs, Answers, Busy
<1>4. Slots' /\ Permits'
  BY DEF Slots, Permits, Tasks
<1> QED
  BY <1>2, <1>3, <1>4

\* Steps of route() that hand over no job.
LEMMA SameJobs ==
    HttpInv /\ UNCHANGED <<workerVars, jobVars>> => Queues' /\ Owned' /\ Jobs' /\ Slots'
<1> SUFFICES ASSUME HttpInv, UNCHANGED <<workerVars, jobVars>>
             PROVE  Queues' /\ Owned' /\ Jobs' /\ Slots'
  OBVIOUS
<1>1. Queues /\ Owned /\ Jobs /\ Slots
  BY DEF HttpInv
<1>2. UNCHANGED <<httpThread, stopping, slots, queue, httpReply, home, task, httpRan>>
  BY DEF workerVars, jobVars
<1>3. Queues'
  BY <1>1, <1>2 DEF Queues
<1>4. Owned'
  BY <1>1, <1>2 DEF Owned, InQueue
<1>5. Jobs'
  BY <1>1, <1>2 DEF Jobs
<1>6. Slots'
  BY <1>1, <1>2 DEF Slots, Tasks
<1> QED
  BY <1>3, <1>4, <1>5, <1>6

\* A request gives its permit back, or keeps it.
LEMMA SamePermits ==
    ASSUME HttpInv, NEW r \in HttpRequest, permits' \in {permits, permits \ {r}}
    PROVE  Permits'
<1> DEFINE bound == Workers * (HttpQueue + Active)
<1>1. bound \in Nat
  BY ServerAssumption
<1>2. IsFiniteSet(permits) /\ Cardinality(permits) <= bound
  BY DEF HttpInv, Permits
<1>3. permits' \subseteq permits
  OBVIOUS
<1>4. /\ IsFiniteSet(permits') /\ Cardinality(permits') <= Cardinality(permits)
      /\ Cardinality(permits) \in Nat /\ Cardinality(permits') \in Nat
  BY <1>2, <1>3, FS_Subset, FS_CardinalityType
<1> HIDE DEF bound
<1>5. IsFiniteSet(permits') /\ Cardinality(permits') <= bound
  BY <1>1, <1>2, <1>4
<1> QED
  BY <1>5 DEF bound, Permits

\* The route in front of the workers: it takes, refuses, answers and gives up requests.
LEMMA RouteHolds ==
    ASSUME HttpInv, NEW r \in HttpRequest,
           Arrive(r) \/ TurnAway(r) \/ HttpReceive(r) \/ HttpSent(r) \/ Leave(r) \/ Expire(r)
    PROVE  HttpInv'
<1> USE DEF HttpInv, Respond
<1>1. UNCHANGED <<mainVars, workerVars, nextWorker, jobVars>>
  BY DEF Arrive, TurnAway, HttpReceive, HttpSent, Leave, Expire, routeVars
<1>2. Types'
  <2> USE DEF Types, HttpAnswer
  <2>1. /\ at' \in [HttpRequest -> {"new", "body", "waiting", "answered", "done", "gone"}]
        /\ status' \in [HttpRequest -> {"none", "left"} \cup HttpAnswer]
    <3>1. CASE Arrive(r)
      <4>1. Respond(r, "refused") \/ (at' = [at EXCEPT ![r] = "body"] /\ status' = status)
        BY <3>1 DEF Arrive
      <4> QED
        BY <4>1
    <3>2. CASE TurnAway(r)
      BY <3>2 DEF TurnAway
    <3>3. CASE HttpReceive(r)
      BY <3>3 DEF HttpReceive
    <3>4. CASE HttpSent(r) \/ Leave(r)
      BY <3>4 DEF HttpSent, Leave
    <3>5. CASE Expire(r)
      BY <3>5 DEF Expire, routeVars
    <3> QED
      BY <3>1, <3>2, <3>3, <3>4, <3>5
  <2>2. permits' \subseteq HttpRequest /\ expired' \subseteq HttpRequest
    BY DEF Arrive, TurnAway, HttpReceive, HttpSent, Leave, Expire, routeVars
  <2> QED
    BY <1>1, <2>1, <2>2 DEF mainVars, workerVars, jobVars
<1>3. Queues' /\ Owned' /\ Jobs' /\ Slots'
  BY <1>1, SameJobs
<1>4. Answers'
  <2> USE <1>1 DEF Types, Answers, Jobs, jobVars, HttpAnswer
  <2>1. CASE Arrive(r)
    <3>1. at[r] = "new" /\ httpReply[r] = "none" /\ status[r] = "none"
      BY <2>1 DEF Arrive
    <3>2. \/ at' = [at EXCEPT ![r] = "body"] /\ status' = status
          \/ at' = [at EXCEPT ![r] = "answered"] /\ status' = [status EXCEPT ![r] = "refused"]
      BY <2>1 DEF Arrive
    <3> QED
      BY <3>1, <3>2
  <2>2. CASE TurnAway(r)
    BY <2>2 DEF TurnAway
  <2>3. CASE HttpReceive(r)
    BY <2>3 DEF HttpReceive
  <2>4. CASE HttpSent(r)
    BY <2>4 DEF HttpSent
  <2>5. CASE Leave(r)
    BY <2>5 DEF Leave
  <2>6. CASE Expire(r)
    BY <2>6 DEF Expire, routeVars
  <2> QED
    BY <2>1, <2>2, <2>3, <2>4, <2>5, <2>6
<1>5. Permits'
  <2>1. CASE permits' \in {permits, permits \ {r}}
    BY <2>1, SamePermits
  <2>2. CASE permits' = permits \cup {r} /\ Cardinality(permits) # Workers * (HttpQueue + Active)
    <3>1. IsFiniteSet(permits') /\ Cardinality(permits) \in Nat
          /\ Cardinality(permits') \in {Cardinality(permits), Cardinality(permits) + 1}
      BY <2>2, FS_AddElement, FS_CardinalityType DEF Permits
    <3>2. Workers * (HttpQueue + Active) \in Nat
      BY ServerAssumption
    <3> QED
      BY <2>2, <3>1, <3>2 DEF Permits
  <2> QED
    BY <2>1, <2>2 DEF Arrive, TurnAway, HttpReceive, HttpSent, Leave, Expire, routeVars
<1> QED
  BY <1>2, <1>3, <1>4, <1>5

\* The worker whose turn it is is one of the workers.
LEMMA TurnType == nextWorker \in HttpWorker => \A i \in Nat : Turn(i) \in HttpWorker
  BY ServerAssumption DEF Turn, HttpWorker

\* A job is put into the queue of w.
LEMMA EnqueueHolds ==
    ASSUME HttpInv, NEW r \in HttpRequest, NEW w \in HttpWorker, Accepts(w),
           httpReply[r] = "none",
           queue' = [queue EXCEPT ![w] = Append(@, r)],
           home' = [home EXCEPT ![r] = w],
           httpReply' = [httpReply EXCEPT ![r] = "open"],
           UNCHANGED <<httpThread, stopping, slots, task, httpRan>>
    PROVE  Queues' /\ Owned' /\ Jobs' /\ Slots'
<1>1. Types /\ Queues /\ Owned /\ Jobs /\ Slots /\ task[r] = "none" /\ httpRan[r] = "no"
  BY DEF HttpInv, Jobs
<1>2. /\ \A v \in HttpWorker : queue[v] \in Seq(HttpRequest)
      /\ queue'[w] = Append(queue[w], r)
      /\ \A v \in HttpWorker : v # w => queue'[v] = queue[v]
      /\ home'[r] = w /\ \A q \in HttpRequest : q # r => home'[q] = home[q]
      /\ httpReply'[r] = "open" /\ \A q \in HttpRequest : q # r => httpReply'[q] = httpReply[q]
  BY <1>1 DEF Types
<1>3. /\ Len(queue[w]) \in Nat /\ Len(queue'[w]) = Len(queue[w]) + 1
      /\ queue'[w][Len(queue[w]) + 1] = r
      /\ \A i \in 1 .. Len(queue[w]) : queue'[w][i] = queue[w][i]
  BY <1>2
<1>4. \A v \in HttpWorker : \A i \in 1 .. Len(queue[v]) : queue[v][i] \in HttpRequest
  BY <1>2
<1>5. \A v \in HttpWorker : \A i \in 1 .. Len(queue[v]) : queue[v][i] # r
  BY <1>1 DEF Queues
<1>6. Queues'
  <2> SUFFICES ASSUME NEW v \in HttpWorker
               PROVE  /\ Len(queue'[v]) <= HttpQueue
                      /\ Len(queue'[v]) > 0 => httpThread'[v] = "running" /\ ~stopping'[v]
                      /\ \A i \in 1 .. Len(queue'[v]) :
                            /\ home'[queue'[v][i]] = v /\ task'[queue'[v][i]] = "none"
                            /\ httpReply'[queue'[v][i]] = "open"
                      /\ \A i, j \in 1 .. Len(queue'[v]) : queue'[v][i] = queue'[v][j] => i = j
    BY DEF Queues
  <2>1. CASE v # w
    BY <1>1, <1>2, <1>4, <1>5, <2>1 DEF Queues
  <2>2. CASE v = w
    <3>1. \A i \in 1 .. Len(queue'[w]) :
             \/ i \in 1 .. Len(queue[w]) /\ queue'[w][i] = queue[w][i]
             \/ i = Len(queue[w]) + 1 /\ queue'[w][i] = r
      BY <1>3
    <3>2. \A i \in 1 .. Len(queue'[w]) :
             home'[queue'[w][i]] = w /\ task'[queue'[w][i]] = "none"
               /\ httpReply'[queue'[w][i]] = "open"
      BY <1>1, <1>2, <1>4, <1>5, <3>1 DEF Queues
    <3>3. \A i, j \in 1 .. Len(queue'[w]) : queue'[w][i] = queue'[w][j] => i = j
      BY <1>1, <1>5, <3>1 DEF Queues
    <3>4. Len(queue'[w]) <= HttpQueue /\ httpThread'[w] = "running" /\ ~stopping'[w]
      BY <1>3, ServerAssumption DEF Accepts
    <3> QED
      BY <2>2, <3>2, <3>3, <3>4
  <2> QED
    BY <2>1, <2>2
<1>7. Owned'
  <2> SUFFICES ASSUME NEW q \in HttpRequest, httpReply'[q] = "open"
               PROVE  /\ httpThread'[home'[q]] = "running"
                      /\ task'[q] \in Busy
                         \/ (task'[q] = "none" /\ \E i \in 1 .. Len(queue'[home'[q]]) :
                                                      queue'[home'[q]][i] = q)
    BY DEF Owned, InQueue
  <2>1. CASE q = r
    <3>1. Len(queue[w]) + 1 \in 1 .. Len(queue'[w]) /\ queue'[w][Len(queue[w]) + 1] = q
      BY <1>3, <2>1
    <3> QED
      BY <1>1, <1>2, <2>1, <3>1 DEF Accepts
  <2>2. CASE q # r
    <3>1. httpReply[q] = "open" /\ home'[q] = home[q] /\ home[q] \in HttpWorker
      BY <1>1, <1>2, <2>2 DEF Types
    <3>2. \A i \in 1 .. Len(queue[home[q]]) :
             i \in 1 .. Len(queue'[home[q]]) /\ queue'[home[q]][i] = queue[home[q]][i]
      BY <1>2, <1>3, <3>1
    <3> QED
      BY <1>1, <3>1, <3>2 DEF Owned, InQueue
  <2> QED
    BY <2>1, <2>2
<1>8. Jobs'
  BY <1>1, <1>2 DEF Jobs, Accepts, Busy
<1>9. Slots'
  <2>1. \A v \in HttpWorker : Tasks(v)' = Tasks(v)
    BY <1>1, <1>2 DEF Tasks
  <2> QED
    BY <1>1, <2>1 DEF Slots
<1> QED
  BY <1>6, <1>7, <1>8, <1>9

\* The route hands a request to a worker.
LEMMA DispatchHolds ==
    ASSUME HttpInv, NEW r \in HttpRequest, Dispatch(r)
    PROVE  HttpInv'
<1>1. /\ Types /\ Answers /\ Permits /\ nextWorker' \in HttpWorker
      /\ httpReply[r] = "none" /\ at[r] = "body" /\ status[r] = "none" /\ httpRan[r] = "no"
  BY TurnType DEF HttpInv, Dispatch, Types, Answers, Jobs
<1>2. UNCHANGED <<mainVars, httpThread, stopping, slots, permits, expired, task, httpRan>> /\ Permits'
  BY <1>1 DEF Dispatch, Permits
<1>3. CASE \A w \in HttpWorker : ~Accepts(w)
  <2>0. \A i \in 0 .. (Workers - 1) : ~Accepts(Turn(i))
    BY <1>1, <1>3, TurnType DEF Types
  <2>1. UNCHANGED <<queue, httpReply, home>> /\ Respond(r, "refused")
    BY <2>0 DEF Dispatch
  <2>2. Types'
    BY <1>1, <1>2, <2>1 DEF Types, Respond, mainVars, HttpAnswer
  <2>3. Answers'
    BY <1>1, <1>2, <2>1 DEF Types, Answers, Respond
  <2>4. Queues' /\ Owned' /\ Jobs' /\ Slots'
    BY <1>2, <2>1, SameJobs DEF workerVars, jobVars
  <2> QED
    BY <1>2, <2>2, <2>3, <2>4 DEF HttpInv
<1>4. CASE \E w \in HttpWorker : Accepts(w)
  <2>1. PICK i \in 0 .. (Workers - 1) :
            /\ Accepts(Turn(i))
            /\ queue' = [queue EXCEPT ![Turn(i)] = Append(@, r)]
            /\ home' = [home EXCEPT ![r] = Turn(i)]
            /\ httpReply' = [httpReply EXCEPT ![r] = "open"]
            /\ at' = [at EXCEPT ![r] = "waiting"]
            /\ UNCHANGED status
    BY <1>4 DEF Dispatch
  <2>2. Turn(i) \in HttpWorker
    BY <1>1, TurnType DEF Types
  <2>3. Types'
    BY <1>1, <1>2, <2>1, <2>2 DEF Types, mainVars
  <2>4. Answers'
    BY <1>1, <1>2, <2>1 DEF Types, Answers
  <2>5. Queues' /\ Owned' /\ Jobs' /\ Slots'
    BY <1>1, <1>2, <2>1, <2>2, EnqueueHolds
  <2> QED
    BY <1>2, <2>3, <2>4, <2>5 DEF HttpInv
<1> QED
  BY <1>3, <1>4

\* A task that is busy goes on or ends: it keeps its slot and its worker.
LEMMA TaskHolds ==
    ASSUME HttpInv, NEW r \in HttpRequest, Task(r)
    PROVE  HttpInv'
<1>1. Types /\ Queues /\ Owned /\ Jobs /\ Answers /\ Slots /\ Permits
  BY DEF HttpInv
<1>2. UNCHANGED <<mainVars, workerVars, routeVars, expired, home>>
  BY DEF Task, HttpLook, Run, HttpReturn, HttpGiveUp, Unwind
<1>3. /\ task[r] \in Busy /\ httpReply[r] = "open" /\ httpThread[home[r]] = "running"
      /\ status[r] \notin {"refused", "handler"}
  BY <1>1 DEF Task, HttpLook, Run, HttpReturn, HttpGiveUp, Unwind, Jobs, Answers, Busy
<1>4. PICK t, a, n :
        /\ task' = [task EXCEPT ![r] = t]
        /\ httpReply' = [httpReply EXCEPT ![r] = a]
        /\ httpRan' = [httpRan EXCEPT ![r] = n]
        /\ \/ t = "looked" /\ a = "open" /\ n = "no"
           \/ t = "running" /\ a = "open" /\ n = "begun"
           \/ /\ t \in {"kept", "lost"} /\ a \in {"dropped", "timeout", "failed", "handler"}
              /\ n \in {"no", "begun", "complete"} /\ (a = "handler" => n = "complete")
  <2> USE <1>1, <1>3 DEF Types, Jobs, TaskEnds
  <2>1. CASE HttpLook(r)
    <3>1. httpRan' = [httpRan EXCEPT ![r] = "no"]
      BY <2>1 DEF HttpLook
    <3>2. CASE task' = [task EXCEPT ![r] = "looked"] /\ httpReply' = httpReply
      <4>1. httpReply' = [httpReply EXCEPT ![r] = "open"]
        BY <3>2
      <4> QED
        BY <3>1, <3>2, <4>1
    <3>3. CASE \E a \in {"dropped", "timeout", "failed"} : TaskEnds(r, "kept", a)
      BY <3>1, <3>3
    <3> QED
      BY <2>1, <3>2, <3>3 DEF HttpLook
  <2>2. CASE Run(r)
    <3>1. httpReply' = [httpReply EXCEPT ![r] = "open"]
      BY <2>2 DEF Run
    <3> QED
      BY <2>2, <3>1 DEF Run
  <2>3. CASE HttpReturn(r)
    BY <2>3 DEF HttpReturn
  <2>4. CASE HttpGiveUp(r) \/ Unwind(r)
    <3>1. httpRan' = [httpRan EXCEPT ![r] = httpRan[r]] /\ httpRan[r] \in {"no", "begun", "complete"}
      BY <2>4 DEF HttpGiveUp, Unwind
    <3>2. PICK t \in {"kept", "lost"}, a \in {"dropped", "timeout", "failed"} : TaskEnds(r, t, a)
      BY <2>4 DEF HttpGiveUp, Unwind
    <3> QED
      BY <3>1, <3>2
  <2> QED
    BY <2>1, <2>2, <2>3, <2>4 DEF Task
<1>5. Types'
  BY <1>1, <1>2, <1>4 DEF Types, mainVars, workerVars, routeVars, HttpAnswer
<1>6. Queues'
  <2>1. \A w \in HttpWorker : \A i \in 1 .. Len(queue[w]) :
           queue[w][i] \in HttpRequest /\ queue[w][i] # r
    BY <1>1, <1>3 DEF Queues, Types, Busy
  <2>2. UNCHANGED <<queue, home, httpThread, stopping>>
    BY <1>2 DEF workerVars
  <2>3. ASSUME NEW q \in HttpRequest, q # r
        PROVE  task'[q] = task[q] /\ httpReply'[q] = httpReply[q] /\ httpRan'[q] = httpRan[q]
    BY <1>1, <1>4, <2>3 DEF Types
  <2> QED
    BY <1>1, <2>1, <2>2, <2>3 DEF Queues
<1>7. Owned'
  BY <1>1, <1>2, <1>3, <1>4 DEF Owned, InQueue, Types, workerVars, Busy
<1>8. Jobs' /\ Answers'
  BY <1>1, <1>2, <1>3, <1>4 DEF Jobs, Answers, Types, workerVars, routeVars, Busy
<1>9. Slots'
  <2>1. \A w \in HttpWorker : Tasks(w)' = Tasks(w)
    BY <1>1, <1>2, <1>3, <1>4 DEF Tasks, Types, Busy
  <2> QED
    BY <1>1, <1>2, <2>1 DEF Slots, workerVars
<1>10. Permits'
  BY <1>1, <1>2 DEF Permits, routeVars
<1> QED
  BY <1>5, <1>6, <1>7, <1>8, <1>9, <1>10 DEF HttpInv

\* A worker has built its runtime.
LEMMA ReadyHolds ==
    ASSUME HttpInv, NEW w \in HttpWorker, WorkerReady(w) \/ WorkerRefused(w)
    PROVE  HttpInv'
<1>1. Types /\ Queues /\ Owned /\ Jobs /\ Answers /\ Slots /\ Permits
  BY DEF HttpInv
<1>2. /\ UNCHANGED <<mainVars, stopping, queue, routeVars, expired, jobVars>>
      /\ httpThread[w] = "starting"
      /\ \A v \in HttpWorker : v # w => httpThread'[v] = httpThread[v] /\ slots'[v] = slots[v]
      /\ \/ httpThread'[w] = "running" /\ slots'[w] = Active
         \/ httpThread'[w] = "failed" /\ slots'[w] = slots[w]
  BY <1>1 DEF WorkerReady, WorkerRefused, Types
<1>3. Types'
  <2>1. httpThread' \in [HttpWorker -> {"starting", "running", "ended", "failed"}]
        /\ slots' \in [HttpWorker -> Nat]
    BY <1>1, ServerAssumption DEF Types, WorkerReady, WorkerRefused
  <2> QED
    BY <1>1, <1>2, <2>1 DEF Types, mainVars, routeVars, jobVars
<1>4. Queues' /\ Owned' /\ Jobs' /\ Answers'
  BY <1>1, <1>2 DEF Queues, Owned, InQueue, Jobs, Answers, Types, routeVars, jobVars, Busy
<1>5. Slots'
  <2>1. Tasks(w) = {} /\ \A v \in HttpWorker : Tasks(v)' = Tasks(v)
    BY <1>1, <1>2 DEF Tasks, Jobs, jobVars
  <2>2. IsFiniteSet({}) /\ Cardinality({}) = 0
    BY FS_EmptySet
  <2> QED
    BY <1>1, <1>2, <2>1, <2>2, ServerAssumption DEF Slots
<1>6. Permits'
  BY <1>1, <1>2 DEF Permits, routeVars
<1> QED
  BY <1>3, <1>4, <1>5, <1>6 DEF HttpInv

\* The jobs in the queue of w.
LEMMA QueueContents ==
    ASSUME Types, Queues, Owned, NEW w \in HttpWorker, NEW r \in HttpRequest
    PROVE  r \in ToSet(queue[w]) <=> httpReply[r] = "open" /\ home[r] = w /\ task[r] = "none"
<1>1. queue[w] \in Seq(HttpRequest) /\ DOMAIN queue[w] = 1 .. Len(queue[w])
  BY DEF Types
<1>2. r \in ToSet(queue[w]) <=> \E i \in 1 .. Len(queue[w]) : queue[w][i] = r
  BY <1>1 DEF ToSet
<1>3. ASSUME NEW i \in 1 .. Len(queue[w]), queue[w][i] = r
      PROVE  httpReply[r] = "open" /\ home[r] = w /\ task[r] = "none"
  BY <1>3 DEF Queues
<1>4. httpReply[r] = "open" /\ home[r] = w /\ task[r] = "none"
        => \E i \in 1 .. Len(queue[w]) : queue[w][i] = r
  BY DEF Owned, InQueue, Busy
<1> QED
  BY <1>2, <1>3, <1>4

\* What is in the queue is refused, and was not begun.
LEMMA SeeStopHolds ==
    ASSUME HttpInv, NEW w \in HttpWorker, SeeStop(w)
    PROVE  HttpInv'
<1>1. Types /\ Queues /\ Owned /\ Jobs /\ Answers /\ Slots /\ Permits
  BY DEF HttpInv
<1>2. UNCHANGED <<mainVars, slots, routeVars, expired, home, task, httpRan>>
  BY DEF SeeStop
<1>3. /\ stopping' = [stopping EXCEPT ![w] = TRUE]
      /\ queue' = [queue EXCEPT ![w] = <<>>]
      /\ httpThread' = [httpThread EXCEPT ![w] = IF Tasks(w) = {} THEN "ended" ELSE @]
      /\ httpReply' = [r \in HttpRequest |-> IF r \in ToSet(queue[w]) THEN "refused" ELSE httpReply[r]]
  BY DEF SeeStop, HttpDrain
<1>4. \A r \in HttpRequest : r \in ToSet(queue[w]) <=> httpReply[r] = "open" /\ home[r] = w
        /\ task[r] = "none"
  BY QueueContents, <1>1
<1>5. Types'
  BY <1>1, <1>2, <1>3 DEF Types, mainVars, routeVars, HttpAnswer
<1>6. Queues'
  <2>1. \A v \in HttpWorker : \A i \in 1 .. Len(queue[v]) : queue[v][i] \in HttpRequest
    BY <1>1 DEF Types
  <2> QED
    BY <1>1, <1>2, <1>3, <1>4, <2>1, ServerAssumption DEF Queues, Types
<1>7. Owned'
  BY <1>1, <1>2, <1>3, <1>4 DEF Owned, InQueue, Types, Tasks, Busy
<1>8. Jobs'
  BY <1>1, <1>2, <1>3, <1>4 DEF Jobs, Types, Tasks, Busy
<1>9. Answers'
  BY <1>1, <1>2, <1>3, <1>4 DEF Answers, Types, routeVars
<1>10. Slots'
  <2>1. \A v \in HttpWorker : Tasks(v)' = Tasks(v)
    BY <1>2 DEF Tasks
  <2>2. \A v \in HttpWorker : httpThread'[v] = "running" => httpThread[v] = "running"
    BY <1>1, <1>3 DEF Types
  <2> QED
    BY <1>1, <1>2, <2>1, <2>2 DEF Slots
<1>11. Permits'
  BY <1>1, <1>2 DEF Permits, routeVars
<1> QED
  BY <1>5, <1>6, <1>7, <1>8, <1>9, <1>10, <1>11 DEF HttpInv

\* A worker takes a request off its queue.
LEMMA TakeHolds ==
    ASSUME HttpInv, NEW w \in HttpWorker, Take(w)
    PROVE  HttpInv'
<1> DEFINE r == Head(queue[w])
<1>1. Types /\ Queues /\ Owned /\ Jobs /\ Answers /\ Slots /\ Permits
  BY DEF HttpInv
<1>2. /\ UNCHANGED <<mainVars, httpThread, stopping, routeVars, expired, httpReply, home, httpRan>>
      /\ httpThread[w] = "running" /\ ~stopping[w] /\ slots[w] > 0
      /\ queue' = [queue EXCEPT ![w] = Tail(@)]
      /\ slots' = [slots EXCEPT ![w] = @ - 1]
      /\ task' = [task EXCEPT ![r] = "spawned"]
  BY DEF Take
<1>3. queue[w] \in Seq(HttpRequest) /\ queue[w] # <<>>
  BY <1>1 DEF Types, Take
<1>4. /\ Len(queue[w]) \in Nat /\ Len(queue[w]) > 0 /\ r = queue[w][1] /\ r \in HttpRequest
      /\ Len(Tail(queue[w])) = Len(queue[w]) - 1
      /\ \A i \in 1 .. Len(Tail(queue[w])) : Tail(queue[w])[i] = queue[w][i + 1]
      /\ Tail(queue[w]) \in Seq(HttpRequest)
  BY <1>3
<1>5. task[r] = "none" /\ home[r] = w /\ httpReply[r] = "open"
  BY <1>1, <1>4 DEF Queues
<1> HIDE DEF r
<1>6. Types'
  BY <1>1, <1>2, <1>4 DEF Types, mainVars, routeVars
<1>7. Queues'
  <2> SUFFICES ASSUME NEW v \in HttpWorker
               PROVE  /\ Len(queue'[v]) <= HttpQueue
                      /\ Len(queue'[v]) > 0 => httpThread'[v] = "running" /\ ~stopping'[v]
                      /\ \A i \in 1 .. Len(queue'[v]) :
                            /\ home'[queue'[v][i]] = v /\ task'[queue'[v][i]] = "none"
                            /\ httpReply'[queue'[v][i]] = "open"
                      /\ \A i, j \in 1 .. Len(queue'[v]) : queue'[v][i] = queue'[v][j] => i = j
    BY DEF Queues
  <2>1. /\ \A q \in HttpRequest : q # r => task'[q] = task[q]
        /\ UNCHANGED <<httpThread, stopping, httpReply, home>>
    BY <1>1, <1>2 DEF Types
  <2>2. /\ Len(queue[v]) <= HttpQueue /\ Len(queue[v]) \in Nat
        /\ Len(queue[v]) > 0 => httpThread[v] = "running" /\ ~stopping[v]
        /\ \A i \in 1 .. Len(queue[v]) :
              /\ queue[v][i] \in HttpRequest
              /\ home[queue[v][i]] = v /\ task[queue[v][i]] = "none"
              /\ httpReply[queue[v][i]] = "open"
        /\ \A i, j \in 1 .. Len(queue[v]) : queue[v][i] = queue[v][j] => i = j
    <3>1. queue[v] \in Seq(HttpRequest)
      BY <1>1 DEF Types
    <3> QED
      BY <1>1, <3>1 DEF Queues
  <2>3. CASE v # w
    <3>1. queue'[v] = queue[v]
      BY <1>1, <1>2, <2>3 DEF Types
    <3>2. \A i \in 1 .. Len(queue[v]) : queue[v][i] # r
      BY <1>5, <2>2, <2>3
    <3> QED
      BY <2>1, <2>2, <3>1, <3>2
  <2>4. CASE v = w
    <3>1. /\ Len(queue'[w]) = Len(queue[w]) - 1
          /\ \A i \in 1 .. Len(queue'[w]) : i + 1 \in 1 .. Len(queue[w])
               /\ queue'[w][i] = queue[w][i + 1]
      BY <1>1, <1>2, <1>4 DEF Types
    <3>2. \A i \in 1 .. Len(queue'[w]) : queue'[w][i] \in HttpRequest /\ queue'[w][i] # r
      BY <1>4, <2>2, <2>4, <3>1
    <3>3. \A i \in 1 .. Len(queue'[w]) :
             /\ home'[queue'[w][i]] = w /\ task'[queue'[w][i]] = "none"
             /\ httpReply'[queue'[w][i]] = "open"
      <4> TAKE i \in 1 .. Len(queue'[w])
      <4>1. i + 1 \in 1 .. Len(queue[v]) /\ queue'[w][i] = queue[v][i + 1]
        BY <2>4, <3>1
      <4>2. /\ queue'[w][i] \in HttpRequest /\ queue'[w][i] # r /\ home[queue'[w][i]] = w
            /\ task[queue'[w][i]] = "none" /\ httpReply[queue'[w][i]] = "open"
        BY <2>2, <2>4, <3>2, <4>1
      <4> QED
        BY <2>1, <4>2
    <3>4. ASSUME NEW i \in 1 .. Len(queue'[w]), NEW j \in 1 .. Len(queue'[w]),
            queue'[w][i] = queue'[w][j]
          PROVE  i = j
      <4>1. i + 1 \in 1 .. Len(queue[w]) /\ j + 1 \in 1 .. Len(queue[w])
              /\ queue[w][i + 1] = queue[w][j + 1]
        BY <3>1, <3>4
      <4>2. i + 1 = j + 1
        BY <2>2, <2>4, <4>1
      <4> QED
        BY <1>4, <3>1, <4>2
    <3>5. Len(queue'[w]) <= HttpQueue
      BY <2>2, <2>4, <3>1, ServerAssumption
    <3> QED
      <4>1. httpThread'[w] = "running" /\ ~stopping'[w]
        BY <1>2
      <4> QED
        BY <2>4, <3>3, <3>4, <3>5, <4>1
  <2> QED
    BY <2>3, <2>4
<1>8. Owned'
  <2> SUFFICES ASSUME NEW q \in HttpRequest, httpReply'[q] = "open"
               PROVE  /\ httpThread'[home'[q]] = "running"
                      /\ task'[q] \in Busy
                         \/ (task'[q] = "none" /\ \E i \in 1 .. Len(queue'[home'[q]]) :
                                                      queue'[home'[q]][i] = q)
    BY DEF Owned, InQueue
  <2>1. httpReply[q] = "open" /\ httpThread'[home'[q]] = "running" /\ home'[q] = home[q]
        /\ home[q] \in HttpWorker
    BY <1>1, <1>2 DEF Owned, Types
  <2>2. CASE q = r \/ task[q] \in Busy
    BY <1>1, <1>2, <2>1, <2>2 DEF Busy, Types
  <2>3. CASE q # r /\ task[q] = "none"
    <3>1. PICK i \in 1 .. Len(queue[home[q]]) : queue[home[q]][i] = q
      BY <1>1, <2>1, <2>3 DEF Owned, InQueue, Busy
    <3>2. task'[q] = "none"
      BY <1>1, <1>2, <2>3 DEF Types
    <3>3. CASE home[q] # w
      BY <1>1, <1>2, <2>1, <3>1, <3>2, <3>3 DEF Types
    <3>4. CASE home[q] = w
      <4>1. i # 1 /\ i - 1 \in 1 .. Len(Tail(queue[w])) /\ Tail(queue[w])[i - 1] = q
        BY <1>4, <2>3, <3>1, <3>4
      <4>2. queue'[w] = Tail(queue[w])
        BY <1>1, <1>2 DEF Types
      <4> QED
        BY <2>1, <3>2, <3>4, <4>1, <4>2
    <3> QED
      BY <3>3, <3>4
  <2> QED
    BY <1>1, <2>1, <2>2, <2>3 DEF Owned
<1>9. Jobs' /\ Answers'
  BY <1>1, <1>2, <1>4, <1>5 DEF Jobs, Answers, Types, routeVars, Busy
<1>10. Slots'
  <2>1. r \notin Tasks(w) /\ Tasks(w)' = Tasks(w) \cup {r}
    BY <1>1, <1>2, <1>4, <1>5 DEF Tasks, Types
  <2>2. \A v \in HttpWorker : v # w => Tasks(v)' = Tasks(v) /\ slots'[v] = slots[v]
    BY <1>1, <1>2, <1>4, <1>5 DEF Tasks, Types
  <2>3. IsFiniteSet(Tasks(w)) /\ Cardinality(Tasks(w)) \in Nat
          /\ slots[w] + Cardinality(Tasks(w)) = Active
    BY <1>1, <1>2, FS_CardinalityType DEF Slots
  <2>4. IsFiniteSet(Tasks(w)') /\ Cardinality(Tasks(w)') = Cardinality(Tasks(w)) + 1
    BY <2>1, <2>3, FS_AddElement
  <2>5. slots'[w] = slots[w] - 1 /\ slots[w] \in Nat /\ slots[w] <= Active
    BY <1>1, <1>2 DEF Types, Slots
  <2>6. slots'[w] <= Active /\ slots'[w] + Cardinality(Tasks(w)') = Active
    BY <2>3, <2>4, <2>5, ServerAssumption
  <2> QED
    BY <1>1, <1>2, <2>2, <2>4, <2>6 DEF Slots
<1>11. Permits'
  BY <1>1, <1>2 DEF Permits, routeVars
<1> QED
  BY <1>6, <1>7, <1>8, <1>9, <1>10, <1>11 DEF HttpInv

\* A worker collects the task of a request.
LEMMA ReapHolds ==
    ASSUME HttpInv, NEW w \in HttpWorker, NEW r \in HttpRequest, HttpReap(w, r)
    PROVE  HttpInv'
<1>1. Types /\ Queues /\ Owned /\ Jobs /\ Answers /\ Slots /\ Permits
  BY DEF HttpInv
<1>2. /\ UNCHANGED <<mainVars, stopping, queue, routeVars, expired, httpReply, home, httpRan>>
      /\ httpThread[w] = "running" /\ home[r] = w /\ task[r] \in {"kept", "lost"}
      /\ task' = [task EXCEPT ![r] = "none"]
      /\ slots' = [slots EXCEPT ![w] = @ + 1]
      /\ httpThread' = [httpThread EXCEPT ![w] = IF stopping[w] /\ Tasks(w) = {r} THEN "ended" ELSE @]
  BY DEF HttpReap, Tasks, HttpFinished
<1>3. httpReply[r] \notin {"none", "open", "refused"}
  BY <1>1, <1>2 DEF Owned, Jobs, Busy
<1>4. Types'
  BY <1>1, <1>2 DEF Types, mainVars, routeVars
<1>5. \A v \in HttpWorker : \/ httpThread'[v] = httpThread[v]
                            \/ /\ v = w /\ stopping[w] /\ Len(queue[w]) = 0
                               /\ \A q \in HttpRequest : home[q] = w => q = r \/ task[q] = "none"
  <2>1. queue[w] \in Seq(HttpRequest) /\ (stopping[w] => Len(queue[w]) = 0)
    BY <1>1 DEF Types, Queues
  <2> QED
    BY <1>1, <1>2, <2>1 DEF Tasks, Types
<1>6. Queues'
  <2>1. \A v \in HttpWorker : \A i \in 1 .. Len(queue[v]) : queue[v][i] \in HttpRequest
    BY <1>1 DEF Types
  <2>2. \A q \in HttpRequest : task[q] = "none" => task'[q] = "none"
    BY <1>1, <1>2 DEF Types
  <2> QED
    BY <1>1, <1>2, <1>5, <2>1, <2>2 DEF Queues
<1>7. Owned'
  <2>1. \A q \in HttpRequest : q # r => task'[q] = task[q]
    BY <1>1, <1>2 DEF Types
  <2>2. \A q \in HttpRequest : home[q] \in HttpWorker
    BY <1>1 DEF Types
  <2> QED
    BY <1>1, <1>2, <1>3, <1>5, <2>1, <2>2 DEF Owned, InQueue, Busy
<1>8. Jobs' /\ Answers'
  BY <1>1, <1>2, <1>3, <1>5 DEF Jobs, Answers, Types, routeVars, Busy
<1>9. Slots'
  <2>1. r \in Tasks(w) /\ Tasks(w)' = Tasks(w) \ {r}
    BY <1>1, <1>2 DEF Tasks, Types
  <2>2. \A v \in HttpWorker : v # w => Tasks(v)' = Tasks(v) /\ slots'[v] = slots[v]
    BY <1>1, <1>2 DEF Tasks, Types
  <2>3. IsFiniteSet(Tasks(w)) /\ Cardinality(Tasks(w)) \in Nat
          /\ slots[w] + Cardinality(Tasks(w)) = Active
    BY <1>1, <1>2, FS_CardinalityType DEF Slots
  <2>4. /\ IsFiniteSet(Tasks(w)') /\ Cardinality(Tasks(w)') = Cardinality(Tasks(w)) - 1
        /\ Cardinality(Tasks(w)') \in Nat
    BY <2>1, <2>3, FS_RemoveElement, FS_CardinalityType
  <2>5. slots'[w] = slots[w] + 1 /\ slots[w] \in Nat
    BY <1>1, <1>2 DEF Types
  <2>6. slots'[w] <= Active /\ slots'[w] + Cardinality(Tasks(w)') = Active
    BY <2>3, <2>4, <2>5, ServerAssumption
  <2>7. \A v \in HttpWorker : httpThread'[v] = "running" => httpThread[v] = "running"
    BY <1>1, <1>2 DEF Types
  <2> QED
    BY <1>1, <2>2, <2>4, <2>6, <2>7 DEF Slots
<1>10. Permits'
  BY <1>1, <1>2 DEF Permits, routeVars
<1> QED
  BY <1>4, <1>6, <1>7, <1>8, <1>9, <1>10 DEF HttpInv

\* A worker that returns early drops its tasks and the jobs in its queue unanswered.
LEMMA AbandonHolds ==
    ASSUME HttpInv, NEW w \in HttpWorker,
           AbortTasks(w) \/ \E r \in HttpRequest : ReplaceFails(w, r)
    PROVE  HttpInv'
<1>1. Types /\ Queues /\ Owned /\ Jobs /\ Answers /\ Slots /\ Permits
  BY DEF HttpInv
<1>2. PICK t \in {"ended", "failed"} :
        /\ UNCHANGED <<mainVars, stopping, routeVars, expired, home, httpRan>>
        /\ httpThread' = [httpThread EXCEPT ![w] = t]
        /\ queue' = [queue EXCEPT ![w] = <<>>]
        /\ slots' = [slots EXCEPT ![w] = 0]
        /\ httpReply' = [r \in HttpRequest |->
              IF r \in Tasks(w) \cup ToSet(queue[w])
                /\ httpReply[r] = "open" THEN "dropped" ELSE httpReply[r]]
        /\ task' = [r \in HttpRequest |-> IF r \in Tasks(w) THEN "none" ELSE task[r]]
  BY DEF AbortTasks, ReplaceFails, Abandon, DropReplies
<1>3. \A r \in HttpRequest :
         r \in ToSet(queue[w]) <=> httpReply[r] = "open" /\ home[r] = w /\ task[r] = "none"
  BY <1>1, QueueContents
<1>4. \A r \in HttpRequest :
        /\ httpReply'[r] = IF home[r] = w /\ httpReply[r] = "open" THEN "dropped" ELSE httpReply[r]
        /\ task'[r] = IF home[r] = w THEN "none" ELSE task[r]
  BY <1>1, <1>2, <1>3 DEF Tasks
<1>5. \A v \in HttpWorker :
        IF v = w THEN Len(queue'[v]) = 0 /\ httpThread'[v] # "running" /\ slots'[v] = 0
        ELSE queue'[v] = queue[v] /\ httpThread'[v] = httpThread[v] /\ slots'[v] = slots[v]
  BY <1>1, <1>2 DEF Types
<1>6. Types'
  <2>1. httpReply' \in [HttpRequest -> {"none", "open", "dropped"} \cup HttpAnswer]
        /\ task' \in [HttpRequest -> {"none", "spawned", "looked", "running", "kept", "lost"}]
    BY <1>1, <1>2 DEF Types
  <2>2. queue' \in [HttpWorker -> Seq(HttpRequest)]
    BY <1>1, <1>2 DEF Types
  <2> QED
    BY <1>1, <1>2, <2>1, <2>2 DEF Types, mainVars, routeVars
<1>7. Queues'
  <2>1. \A v \in HttpWorker : \A i \in 1 .. Len(queue[v]) : queue[v][i] \in HttpRequest
    BY <1>1 DEF Types
  <2> QED
    BY <1>1, <1>2, <1>4, <1>5, <2>1, ServerAssumption DEF Queues
<1>8. Owned'
  BY <1>1, <1>2, <1>4, <1>5 DEF Owned, InQueue, Types, Busy
<1>9. Jobs' /\ Answers'
  BY <1>1, <1>2, <1>4, <1>5 DEF Jobs, Answers, Types, routeVars, Busy
<1>10. Slots'
  <2>1. \A v \in HttpWorker : v # w => Tasks(v)' = Tasks(v)
    BY <1>1, <1>2, <1>4 DEF Tasks
  <2> QED
    BY <1>1, <1>5, <2>1, ServerAssumption DEF Slots
<1>11. Permits'
  BY <1>1, <1>2 DEF Permits, routeVars
<1> QED
  BY <1>6, <1>7, <1>8, <1>9, <1>10, <1>11 DEF HttpInv

\* Every step keeps the invariant.
LEMMA HttpStepHolds == HttpInv /\ [HttpNext]_httpVars => HttpInv'
<1> SUFFICES ASSUME HttpInv, [HttpNext]_httpVars PROVE HttpInv'
  OBVIOUS
<1>1. ASSUME NEW r \in HttpRequest, Route(r) \/ Task(r) \/ Expire(r) PROVE HttpInv'
  BY <1>1, RouteHolds, DispatchHolds, TaskHolds DEF Route
<1>2. ASSUME NEW w \in HttpWorker, Loop(w) PROVE HttpInv'
  BY <1>2, ReadyHolds, SeeStopHolds, TakeHolds, ReapHolds, AbandonHolds DEF Loop
<1> QED
  BY <1>1, <1>2, MainHolds DEF HttpNext

\* The invariant of the server.
LEMMA HttpInvariance == HttpSpec => []HttpInv
  BY HttpInitHolds, HttpStepHolds, PTL DEF HttpSpec

\* run() and route(): for any number of workers, slots, places in a queue and requests, a
\* worker that serves has all its slots, in its Vec or with a task, and a request that waits
\* is with one owner that will answer it, whatever unwinds, fails or is stopped.
THEOREM NothingIsUnowned == HttpSpec => []HttpSound
<1>1. HttpInv => HttpSound
  <2> SUFFICES ASSUME HttpInv PROVE HttpSound
    OBVIOUS
  <2>1. Types /\ Queues /\ Owned /\ Jobs /\ Slots /\ Permits
    BY DEF HttpInv
  <2>2. HttpTypeOK
    BY <2>1, ServerAssumption DEF HttpTypeOK, Types, Queues, Slots, Permits
  <2>3. SlotsConserved
    BY <2>1 DEF SlotsConserved, Slots
  <2>4. WaitingIsOwned
    BY <2>1, QueueContents DEF WaitingIsOwned, Owned, Types, Busy
  <2> QED
    BY <2>2, <2>3, <2>4 DEF HttpSound
<1> QED
  BY <1>1, HttpInvariance, PTL

\* A step of the server is one of Service, or changes nothing that Service speaks of.
LEMMA HttpStepRefines == HttpInv /\ [HttpNext]_httpVars => [Abstract!Next]_(Abstract!vars)
<1> SUFFICES ASSUME HttpInv, [HttpNext]_httpVars PROVE [Abstract!Next]_(Abstract!vars)
  OBVIOUS
<1>1. Types /\ Jobs /\ Answers
  BY DEF HttpInv
<1>2. CASE UNCHANGED <<httpRan, status>>
  BY <1>2 DEF Abstract!vars
<1>3. ASSUME NEW r \in HttpRequest, NEW v \in Abstract!Verdict, UNCHANGED httpRan,
             status[r] = "none", status' = [status EXCEPT ![r] = v],
             v = "refused" => httpRan[r] = "no", v = "handler" => httpRan[r] = "complete"
      PROVE  Abstract!Next
  BY <1>3 DEF Abstract!Next, Abstract!Decide
<1>4. ASSUME NEW r \in HttpRequest, Route(r) PROVE [Abstract!Next]_(Abstract!vars)
  <2> USE <1>1, <1>2, <1>3 DEF Respond, jobVars, routeVars, Types, Answers, Jobs,
        Abstract!Verdict, HttpAnswer
  <2>1. CASE Arrive(r)
    BY <2>1 DEF Arrive
  <2>2. CASE TurnAway(r)
    BY <2>2 DEF TurnAway
  <2>3. CASE Dispatch(r)
    BY <2>3 DEF Dispatch
  <2>4. CASE HttpReceive(r)
    BY <2>4 DEF HttpReceive
  <2>5. CASE HttpSent(r)
    BY <2>5 DEF HttpSent
  <2>6. CASE Leave(r)
    <3>1. CASE status[r] = "none"
      BY <2>6, <3>1 DEF Leave
    <3>2. CASE status[r] # "none"
      BY <2>6, <3>2 DEF Leave
    <3> QED
      BY <3>1, <3>2
  <2> QED
    BY <1>4, <2>1, <2>2, <2>3, <2>4, <2>5, <2>6 DEF Route
<1>5. ASSUME NEW r \in HttpRequest, Task(r) PROVE [Abstract!Next]_(Abstract!vars)
  <2> USE <1>1, <1>2 DEF routeVars
  <2>1. CASE Run(r)
    <3>1. Abstract!Begin(r)
      BY <2>1 DEF Run, Types, Jobs, Answers, Busy, Abstract!Begin
    <3> QED
      BY <3>1 DEF Abstract!Next
  <2>2. CASE HttpReturn(r)
    <3>1. Abstract!Complete(r)
      BY <2>2 DEF HttpReturn, Types, Jobs, Abstract!Complete
    <3> QED
      BY <3>1 DEF Abstract!Next
  <2>3. CASE HttpLook(r) \/ HttpGiveUp(r) \/ Unwind(r)
    BY <2>3 DEF HttpLook, HttpGiveUp, Unwind
  <2> QED
    BY <1>5, <2>1, <2>2, <2>3 DEF Task
<1>6. ASSUME NEW w \in HttpWorker, Loop(w) PROVE UNCHANGED <<httpRan, status>>
  BY <1>6 DEF Loop, WorkerReady, WorkerRefused, SeeStop, Take, AbortTasks, HttpReap, ReplaceFails,
              jobVars, routeVars
<1>7. CASE \/ Serve \/ AbortStart \/ Stop \/ Fatal \/ GraceOver \/ HttpExit \/ SecondSignal \/ Exited
           \/ UNCHANGED httpVars \/ \E r \in HttpRequest : Expire(r)
  BY <1>2, <1>7 DEF Serve, AbortStart, Stop, Fatal, GraceOver, HttpExit, SecondSignal, Exited, Expire,
              httpVars, jobVars, routeVars
<1> QED
  BY <1>2, <1>4, <1>5, <1>6, <1>7 DEF HttpNext

\* route(), invoke() and run() keep the promise of Service: a handler runs at most once and
\* never after its request was refused, and its answer is that of an execution that ended.
THEOREM ServerImplementsService == HttpSpec => ServiceHolds
<1>1. HttpInit => Abstract!Init
  BY DEF HttpInit, Abstract!Init
<1> QED
  BY <1>1, HttpStepRefines, HttpInvariance, PTL DEF HttpSpec, ServiceHolds, Abstract!Spec

(***************************************************************************)
(* HttpLog                                                                 *)
(***************************************************************************)

\* Producers that have handed a record over, or found no room, and not yet counted it.
Sending == {p \in Producer : sender[p] = "sent"}
Refusing == {p \in Producer : sender[p] = "full"}

\* The record that the thread has in hand.
InHand == IF logThread \in {"writing", "wrote", "failed"} THEN 1 ELSE 0

LogTypes ==
    /\ sender \in [Producer -> {"idle", "sent", "full", "dropped"}]
    /\ logSent \in [Producer -> 0..MaxRecords]
    /\ queued \in 0..LogQueue
    /\ counts \in [Counter -> Nat]
    /\ logThread \in {"receiving", "writing", "wrote", "failed", "ended"}
    /\ summary \in Nat
    /\ logMain \in {"serving", "waiting", "joined", "detached"}
    /\ report \in [Counter -> Nat]

\* Every record is somewhere, once.
LogAccounts ==
    /\ counts["enqueued"] + Cardinality(Sending)
          = queued + InHand + counts["written"] + counts["write_failed"]
    /\ LogSent = counts["enqueued"] + counts["refused"]
                   + Cardinality(Sending) + Cardinality(Refusing)

\* Who is gone by when, and the last line.
LogStages ==
    /\ logMain # "serving" => ~LogOpen
    /\ logThread = "ended" => queued = 0 /\ ~LogOpen
    /\ logMain = "joined" => logThread = "ended"
    /\ summary # None => /\ logThread = "ended"
                         /\ summary = counts["refused"] + counts["write_failed"]

\* What was read of the counts, in the order it is read, is still true or was exceeded.
LogReadings ==
    /\ \A c \in Counter : report[c] # None =>
          /\ logMain \in {"joined", "detached"}
          /\ report[c] <= counts[c]
          /\ (c \in {"enqueued", "refused"} \/ logMain = "joined") => report[c] = counts[c]
    /\ report["written"] # None => report["enqueued"] # None
    /\ report["write_failed"] # None => report["written"] # None
    /\ report["refused"] # None => report["write_failed"] # None

LogInv == LogTypes /\ LogAccounts /\ LogStages /\ LogReadings

\* The counts are of finite sets.
LEMMA LogFinite ==
    ASSUME LogTypes
    PROVE  /\ IsFiniteSet(Sending) /\ Cardinality(Sending) \in Nat
           /\ IsFiniteSet(Refusing) /\ Cardinality(Refusing) \in Nat
           /\ LogSent \in 0 .. Total
           /\ Total \in Nat /\ None \in Nat
<1> USE LogAssumption
<1>1. IsFiniteSet(Sending) /\ IsFiniteSet(Refusing)
  BY FS_Subset DEF Sending, Refusing
<1>2. Cardinality(Producer) \in Nat
  BY FS_CardinalityType
<1>3. LogSent \in Nat /\ LogSent <= Total
  BY SumType, SumBound DEF LogTypes, LogSent, Total
<1>4. Total \in Nat /\ None \in Nat
  BY <1>2 DEF Total, None
<1> QED BY <1>1, <1>3, <1>4, FS_CardinalityType

\* The counts stay far from the value that says that nothing was read.
LEMMA LogBounded ==
    ASSUME LogTypes, LogAccounts
    PROVE  \A c \in Counter : counts[c] \in 0 .. Total
<1>1. \A c \in Counter : counts[c] \in Nat
  BY DEF LogTypes
<1>2. \A c \in {"enqueued", "written", "refused", "write_failed"} : counts[c] \in Nat
  BY <1>1 DEF Counter
<1>3. InHand \in Nat /\ queued \in Nat
  BY LogAssumption DEF InHand, LogTypes
<1> QED BY <1>2, <1>3, LogFinite DEF LogAccounts, Counter

\* Nothing was logged yet.
LEMMA LogInitially == LogInit => LogInv
<1> SUFFICES ASSUME LogInit PROVE LogInv
  OBVIOUS
<1> USE LogAssumption DEF LogInit, Zero, Blank
<1>1. Cardinality(Producer) \in Nat /\ Total \in Nat /\ None \in Nat
  BY FS_CardinalityType DEF Total, None
<1>2. LogTypes
  BY <1>1 DEF LogTypes
<1>3. Sending = {} /\ Refusing = {}
  BY DEF Sending, Refusing
<1>4. LogSent = 0
  <2>1. \A x \in Producer : logSent[x] \in 0 .. 0 /\ logSent[x] \in Nat
    OBVIOUS
  <2>2. SumFunctionOnSet(logSent, Producer) <= 0 * Cardinality(Producer)
        /\ SumFunctionOnSet(logSent, Producer) \in Nat
    <3> HIDE DEF LogInit
    <3> QED BY <2>1, SumBound, SumType
  <2> QED BY <1>1, <2>2 DEF LogSent
<1>5. LogAccounts
  BY <1>3, <1>4, FS_EmptySet DEF LogAccounts, Counter, InHand
<1>6. LogStages
  BY DEF LogStages
<1>7. LogReadings
  BY DEF LogReadings, Counter
<1> QED BY <1>2, <1>5, <1>6, <1>7 DEF LogInv

\* A producer sends one record more.
LEMMA LogSentMore ==
    ASSUME LogTypes, NEW p \in Producer, logSent[p] < MaxRecords,
           logSent' = [logSent EXCEPT ![p] = @ + 1]
    PROVE  LogSent' = LogSent + 1 /\ logSent' \in [Producer -> 0..MaxRecords]
<1> USE LogAssumption
<1>1. logSent'[p] = logSent[p] + 1 /\ logSent[p] \in Nat
  BY DEF LogTypes
<1>2. \A x \in Producer \ {p} : logSent'[x] = logSent[x]
  BY DEF LogTypes
<1>3. SumFunctionOnSet(logSent', Producer) + logSent[p]
          = SumFunctionOnSet(logSent, Producer) + logSent'[p]
  <2>1. \A x \in Producer : logSent[x] \in Nat
    BY DEF LogTypes
  <2>2. logSent'[p] \in Nat
    BY <1>1
  <2>3. \A f, g : /\ \A x \in Producer : f[x] \in Nat
                  /\ g[p] \in Nat /\ \A x \in Producer \ {p} : g[x] = f[x]
                  => SumFunctionOnSet(g, Producer) + f[p] = SumFunctionOnSet(f, Producer) + g[p]
    BY SumExcept
  <2> QED BY <1>2, <2>1, <2>2, <2>3
<1>4. logSent' \in [Producer -> 0..MaxRecords]
  BY DEF LogTypes
<1>5. SumFunctionOnSet(logSent', Producer) \in Nat /\ SumFunctionOnSet(logSent, Producer) \in Nat
  <2>1. \A x \in Producer : logSent[x] \in Nat /\ logSent'[x] \in Nat
    BY <1>4 DEF LogTypes
  <2> QED BY <2>1, SumType
<1> QED BY <1>1, <1>3, <1>4, <1>5 DEF LogSent

\* While a producer is not gone nobody has shut down, ended or read.
LEMMA LogWhileOpen ==
    ASSUME LogInv, LogOpen
    PROVE  logMain = "serving" /\ logThread # "ended" /\ summary = None
           /\ \A c \in Counter : report[c] = None
BY DEF LogInv, LogStages, LogReadings

\* Every step of a producer, of the thread and of shutdown keeps the invariant.
LEMMA LogStep == LogInv /\ [LogNext]_logVars => LogInv'
<1> SUFFICES ASSUME LogInv, [LogNext]_logVars PROVE LogInv'
  OBVIOUS
<1> USE LogAssumption
<1>f. /\ IsFiniteSet(Sending) /\ Cardinality(Sending) \in Nat
      /\ IsFiniteSet(Refusing) /\ Cardinality(Refusing) \in Nat
      /\ LogSent \in 0 .. Total
      /\ Total \in Nat /\ None \in Nat
  BY LogFinite DEF LogInv
<1>n. InHand \in Nat /\ queued \in Nat /\ \A c \in Counter : counts[c] \in Nat
  BY DEF InHand, LogInv, LogTypes
<1>1. CASE UNCHANGED logVars
  BY <1>1 DEF logVars, LogInv, LogTypes, LogAccounts, LogStages, LogReadings, Sending, Refusing,
              InHand, LogOpen, LogSent
<1>2. ASSUME NEW p \in Producer, TooLong(p) PROVE LogInv'
  <2>1. LogOpen /\ LogOpen'
    BY <1>2 DEF LogOpen, TooLong
  <2>2. LogSent' = LogSent + 1 /\ logSent' \in [Producer -> 0..MaxRecords]
    BY <1>2, LogSentMore DEF TooLong, LogInv
  <2>3. LogTypes'
    BY <1>2, <2>2 DEF TooLong, Count, Counter, LogInv, LogTypes
  <2>4. Sending' = Sending /\ Refusing' = Refusing /\ InHand' = InHand
    BY <1>2 DEF TooLong, Sending, Refusing, InHand
  <2>5. LogAccounts'
    BY <1>2, <1>f, <1>n, <2>2, <2>4 DEF TooLong, Count, Counter, LogInv, LogTypes, LogAccounts
  <2>6. LogStages' /\ LogReadings'
    BY <1>2, <2>1, LogWhileOpen DEF TooLong, LogStages, LogReadings, Counter, LogInv, None, Total
  <2> QED BY <2>3, <2>5, <2>6 DEF LogInv
<1>3. ASSUME NEW p \in Producer, TrySend(p) PROVE LogInv'
  <2>1. LogOpen /\ LogOpen'
    BY <1>3 DEF LogOpen, TrySend, LogInv, LogTypes
  <2>2. LogSent' = LogSent + 1 /\ logSent' \in [Producer -> 0..MaxRecords]
    BY <1>3, LogSentMore DEF TrySend, LogInv
  <2>3. LogTypes'
    BY <1>3, <2>2 DEF TrySend, LogInv, LogTypes
  <2>4. ASSUME queued < LogQueue PROVE LogAccounts'
    <3>1. Sending' = Sending \cup {p} /\ p \notin Sending /\ Refusing' = Refusing
          /\ InHand' = InHand
      BY <1>3, <2>4 DEF TrySend, Sending, Refusing, InHand, LogInv, LogTypes
    <3>2. Cardinality(Sending') = Cardinality(Sending) + 1
      BY <1>f, <3>1, FS_AddElement
    <3> QED
      BY <1>3, <1>f, <1>n, <2>2, <2>4, <3>1, <3>2 DEF TrySend, LogInv, LogAccounts, Counter
  <2>5. ASSUME ~(queued < LogQueue) PROVE LogAccounts'
    <3>1. Refusing' = Refusing \cup {p} /\ p \notin Refusing /\ Sending' = Sending
          /\ InHand' = InHand
      BY <1>3, <2>5 DEF TrySend, Sending, Refusing, InHand, LogInv, LogTypes
    <3>2. Cardinality(Refusing') = Cardinality(Refusing) + 1
      BY <1>f, <3>1, FS_AddElement
    <3> QED
      BY <1>3, <1>f, <1>n, <2>2, <2>5, <3>1, <3>2 DEF TrySend, LogInv, LogAccounts, Counter
  <2>6. LogStages' /\ LogReadings'
    BY <1>3, <2>1, LogWhileOpen DEF TrySend, LogStages, LogReadings, Counter, LogInv, None, Total
  <2>7. LogAccounts'
    BY <2>4, <2>5
  <2> QED BY <2>3, <2>6, <2>7 DEF LogInv
<1>4. ASSUME NEW p \in Producer, CountSent(p) PROVE LogInv'
  <2>1. LogOpen /\ LogOpen'
    BY <1>4 DEF LogOpen, CountSent, LogInv, LogTypes
  <2>2. LogTypes' /\ InHand' = InHand /\ LogSent' = LogSent
    BY <1>4 DEF CountSent, Count, Counter, LogInv, LogTypes, InHand, LogSent
  <2>3. ASSUME sender[p] = "sent" PROVE LogAccounts'
    <3>1. Sending' = Sending \ {p} /\ p \in Sending /\ Refusing' = Refusing
      BY <1>4, <2>3 DEF CountSent, Sending, Refusing, LogInv, LogTypes
    <3>2. Cardinality(Sending') = Cardinality(Sending) - 1
      BY <1>f, <3>1, FS_RemoveElement
    <3> QED
      BY <1>4, <1>f, <1>n, <2>2, <2>3, <3>1, <3>2
      DEF CountSent, Count, LogInv, LogTypes, LogAccounts, Counter
  <2>4. ASSUME sender[p] # "sent" PROVE LogAccounts'
    <3>1. Refusing' = Refusing \ {p} /\ p \in Refusing /\ Sending' = Sending
      BY <1>4, <2>4 DEF CountSent, Sending, Refusing, LogInv, LogTypes
    <3>2. Cardinality(Refusing') = Cardinality(Refusing) - 1
      BY <1>f, <3>1, FS_RemoveElement
    <3> QED
      BY <1>4, <1>f, <1>n, <2>2, <2>4, <3>1, <3>2
      DEF CountSent, Count, LogInv, LogTypes, LogAccounts, Counter
  <2>5. LogStages' /\ LogReadings'
    BY <1>4, <2>1, LogWhileOpen DEF CountSent, LogStages, LogReadings, Counter, LogInv, None, Total
  <2> QED BY <2>2, <2>3, <2>4, <2>5 DEF LogInv
<1>5. ASSUME NEW p \in Producer, DropLog(p) PROVE LogInv'
  <2>1. LogTypes' /\ InHand' = InHand /\ LogSent' = LogSent
        /\ Sending' = Sending /\ Refusing' = Refusing
    BY <1>5 DEF DropLog, LogInv, LogTypes, InHand, LogSent, Sending, Refusing
  <2>2. LogAccounts'
    BY <1>5, <2>1 DEF DropLog, LogInv, LogAccounts
  <2>3. LogOpen
    BY <1>5 DEF DropLog, LogOpen
  <2>4. LogStages' /\ LogReadings'
    BY <1>5, <2>3, LogWhileOpen DEF DropLog, LogStages, LogReadings, Counter, LogInv, None, Total
  <2> QED BY <2>1, <2>2, <2>4 DEF LogInv
<1> DEFINE Rest == LogSent' = LogSent /\ Sending' = Sending /\ Refusing' = Refusing
                   /\ LogOpen' = LogOpen
<1>6. CASE LogReceive
  <2>1. Rest /\ LogTypes'
    BY <1>6 DEF LogReceive, LogInv, LogTypes, LogSent, Sending, Refusing, LogOpen
  <2>2. LogAccounts'
    BY <1>6, <1>f, <1>n, <2>1 DEF LogReceive, LogInv, LogTypes, LogAccounts, InHand, Counter
  <2>3. LogStages' /\ LogReadings'
    BY <1>6, <2>1 DEF LogReceive, LogInv, LogStages, LogReadings, None, Total
  <2> QED BY <2>1, <2>2, <2>3 DEF LogInv
<1>7. CASE LogWrite
  <2>1. Rest /\ LogTypes' /\ InHand' = InHand
    BY <1>7 DEF LogWrite, LogInv, LogTypes, LogSent, Sending, Refusing, LogOpen, InHand
  <2>2. LogAccounts'
    BY <1>7, <2>1 DEF LogWrite, LogInv, LogAccounts
  <2>3. LogStages' /\ LogReadings'
    BY <1>7, <2>1 DEF LogWrite, LogInv, LogStages, LogReadings, None, Total
  <2> QED BY <2>1, <2>2, <2>3 DEF LogInv
<1>8. CASE CountWritten
  <2>1. Rest /\ LogTypes'
    BY <1>8 DEF CountWritten, Count, Counter, LogInv, LogTypes, LogSent, Sending, Refusing, LogOpen
  <2>2. LogAccounts'
    BY <1>8, <1>f, <1>n, <2>1
    DEF CountWritten, Count, LogInv, LogTypes, LogAccounts, InHand, Counter
  <2>3. LogStages'
    BY <1>8, <2>1 DEF CountWritten, LogInv, LogStages, None, Total
  <2>4. LogReadings'
    <3>1. logMain # "joined" /\ logMain' = logMain /\ report' = report
      BY <1>8 DEF CountWritten, LogInv, LogStages
    <3>2. /\ \A c \in Counter : counts'[c] \in Nat /\ counts[c] <= counts'[c]
          /\ \A c \in {"enqueued", "refused"} : counts'[c] = counts[c]
      BY <1>8 DEF CountWritten, Count, LogInv, LogTypes, Counter
    <3>3. \A c \in Counter : report[c] \in Nat /\ counts[c] \in Nat
      BY DEF LogInv, LogTypes
    <3>4. None' = None
      BY DEF None, Total
    <3> QED BY <3>1, <3>2, <3>3, <3>4 DEF LogInv, LogReadings
  <2> QED BY <2>1, <2>2, <2>3, <2>4 DEF LogInv
<1>9. CASE LogEnds
  <2>1. Rest /\ LogTypes' /\ InHand' = InHand
    BY <1>9 DEF LogEnds, Counter, LogInv, LogTypes, LogSent, Sending, Refusing, LogOpen, InHand
  <2>2. LogAccounts'
    BY <1>9, <2>1 DEF LogEnds, LogInv, LogAccounts
  <2>3. LogStages'
    BY <1>9, <2>1 DEF LogEnds, LogInv, LogStages
  <2>4. LogReadings'
    BY <1>9 DEF LogEnds, LogInv, LogReadings, None, Total
  <2> QED BY <2>1, <2>2, <2>3, <2>4 DEF LogInv
<1>10. CASE Shutdown
  <2>1. Rest /\ LogTypes' /\ InHand' = InHand
    BY <1>10 DEF Shutdown, LogInv, LogTypes, LogSent, Sending, Refusing, LogOpen, InHand
  <2>2. LogAccounts'
    BY <1>10, <2>1 DEF Shutdown, LogInv, LogAccounts
  <2>3. LogStages' /\ LogReadings'
    BY <1>10, <2>1 DEF Shutdown, LogInv, LogStages, LogReadings, None, Total
  <2> QED BY <2>1, <2>2, <2>3 DEF LogInv
<1>11. CASE Waited
  <2>1. Rest /\ LogTypes' /\ InHand' = InHand
    BY <1>11 DEF Waited, LogInv, LogTypes, LogSent, Sending, Refusing, LogOpen, InHand
  <2>2. LogAccounts'
    BY <1>11, <2>1 DEF Waited, LogInv, LogAccounts
  <2>3. LogStages' /\ LogReadings'
    BY <1>11, <2>1 DEF Waited, LogInv, LogStages, LogReadings, None, Total
  <2> QED BY <2>1, <2>2, <2>3 DEF LogInv
<1>12. CASE LogRead
  <2>1. Rest /\ LogTypes' /\ InHand' = InHand
    BY <1>12 DEF LogRead, LogInv, LogTypes, LogSent, Sending, Refusing, LogOpen, InHand
  <2>2. LogAccounts'
    BY <1>12, <2>1 DEF LogRead, LogInv, LogAccounts
  <2>3. LogStages'
    BY <1>12, <2>1 DEF LogRead, LogInv, LogStages, None, Total
  <2>4. LogReadings'
    <3>1. PICK c \in Counter :
             /\ c = "written" => report["enqueued"] # None
             /\ c = "write_failed" => report["written"] # None
             /\ c = "refused" => report["write_failed"] # None
             /\ report' = [report EXCEPT ![c] = counts[c]]
      BY <1>12 DEF LogRead
    <3>2. counts[c] # None /\ None' = None
      BY <1>f, LogBounded DEF LogInv, None, Total
    <3>3. \A d \in Counter : report'[d] = IF d = c THEN counts[c] ELSE report[d]
      BY <3>1 DEF LogInv, LogTypes
    <3>4. /\ counts' = counts /\ logMain' = logMain /\ logMain \in {"joined", "detached"}
          /\ \A d \in Counter : counts[d] \in Nat
      BY <1>12 DEF LogRead, LogInv, LogTypes
    <3> QED BY <3>1, <3>2, <3>3, <3>4 DEF LogInv, LogReadings, Counter
  <2> QED BY <2>1, <2>2, <2>3, <2>4 DEF LogInv
<1>13. CASE LogDone
  BY <1>1, <1>13 DEF LogDone
<1> QED
  BY <1>1, <1>2, <1>3, <1>4, <1>5, <1>6, <1>7, <1>8, <1>9, <1>10, <1>11, <1>12, <1>13 DEF LogNext

\* Log and Logger::shutdown: the report and the last line account for every record, once,
\* for every number of producers and every length of the queue, though the counts are read
\* one by one while the thread still writes.
THEOREM ReportsAddUp == LogSpec => []LogExact
<1>1. LogInv => LogExact
  <2> SUFFICES ASSUME LogInv PROVE LogExact
    OBVIOUS
  <2>1. /\ Cardinality(Sending) \in Nat /\ Cardinality(Refusing) \in Nat
        /\ LogSent \in 0 .. Total /\ Total \in Nat /\ None \in Nat
    BY LogFinite DEF LogInv
  <2>2. \A c \in Counter : counts[c] \in 0 .. Total
    BY LogBounded DEF LogInv
  <2>3. InHand \in Nat /\ queued \in Nat
    BY LogAssumption DEF InHand, LogInv, LogTypes
  <2>4. ~LogOpen => Sending = {} /\ Refusing = {}
    BY DEF LogOpen, Sending, Refusing
  <2>5. ~LogOpen => Cardinality(Sending) = 0 /\ Cardinality(Refusing) = 0
    BY <2>4, FS_EmptySet
  <2>6. logThread = "ended" => InHand = 0 /\ queued = 0 /\ ~LogOpen
    BY DEF InHand, LogInv, LogStages
  <2>7. SummaryExact
    BY <2>1, <2>2, <2>3, <2>5, <2>6 DEF SummaryExact, LogInv, LogStages, LogAccounts, Counter
  <2>8. ReportExact
    <3> SUFFICES ASSUME Reported PROVE ReportExact!2
      BY DEF ReportExact
    <3>1. \A c \in Counter : report[c] # None
      BY DEF Reported, LogInv, LogReadings, Counter
    <3>2. /\ ~LogOpen
          /\ \A c \in Counter : report[c] \in Nat /\ report[c] <= counts[c]
          /\ report["enqueued"] = counts["enqueued"] /\ report["refused"] = counts["refused"]
          /\ logMain = "joined" => \A c \in Counter : report[c] = counts[c]
      BY <3>1 DEF LogInv, LogReadings, LogStages, LogTypes, Counter
    <3>3. logMain = "joined" => InHand = 0 /\ queued = 0
      BY <2>6 DEF LogInv, LogStages
    <3> QED BY <2>1, <2>2, <2>3, <2>5, <3>2, <3>3 DEF LogInv, LogAccounts, Counter
  <2>9. LogTypeOK
    <3>1. \A c \in Counter : report[c] \in 0 .. None
      BY <2>1, <2>2 DEF LogInv, LogReadings, LogTypes, None
    <3>2. summary \in 0 .. None
      <4>1. summary # None => summary <= LogSent
        BY <2>1, <2>2, <2>7 DEF SummaryExact, LogInv, LogTypes, Counter
      <4> QED BY <2>1, <4>1 DEF LogInv, LogTypes, None
    <3>3. counts \in [Counter -> 0 .. Total] /\ report \in [Counter -> 0 .. None]
      BY <2>2, <3>1 DEF LogInv, LogTypes
    <3> QED BY <3>2, <3>3 DEF LogInv, LogTypes, LogTypeOK
  <2> QED BY <2>7, <2>8, <2>9 DEF LogExact
<1> QED BY <1>1, LogInitially, LogStep, PTL DEF LogSpec

(***************************************************************************)
(* Routes                                                                  *)
(***************************************************************************)

\* decode(): patterns of one shape are one pattern.
Distinct(table) ==
    \A i, j \in DOMAIN table : same_shape(table[i].pattern, table[j].pattern)
                                 => table[i].pattern = table[j].pattern

\* The answer is that of select() on the table, as a hook or the host settled it.
ReplyOf(method, path, selection) ==
    \/ /\ selection.handler = "row"
       /\ routeReply = [method |-> method, path |-> path, selection |-> selection, status |-> 200]
    \/ /\ selection.handler # "row"
       /\ \E output \in Outputs(selection) :
             routeReply = [method |-> method, path |-> path, selection |-> selection,
                           status |-> Routed(selection, output).status,
                           allow |-> Routed(selection, output).allow]

RoutesInv ==
    /\ phase \in {"decoding", "refused", "serving"}
    /\ entries \in Seq(Row) /\ Len(entries) <= MAX_ROUTES
    /\ hooks \in HookSet
    /\ Distinct(entries)
    /\ \/ routeReply = NoReply
       \/ /\ phase = "serving"
          /\ \E method \in Method, path \in Path : ReplyOf(method, path, select(entries, method, path))

\* Segments of a pattern and parts of a path.
LEMMA PatternFacts ==
  ASSUME NEW a \in Seq(Segment)
  PROVE  /\ Len(a) \in Nat /\ DOMAIN a = 1 .. Len(a)
         /\ \A i \in 1 .. Len(a) : a[i] \in Segment
  OBVIOUS

\* same_shape is symmetric.
LEMMA ShapeSymmetric ==
  ASSUME NEW a \in Seq(Segment), NEW b \in Seq(Segment), same_shape(a, b)
  PROVE  same_shape(b, a)
<1>1. Len(a) = Len(b) /\ DOMAIN a = DOMAIN b
  BY DEF same_shape
<1> QED BY <1>1 DEF same_shape

\* Two patterns that match one path have one shape, or one of them is more specific.
LEMMA OneIsMoreSpecific ==
  ASSUME NEW a \in Seq(Segment), NEW b \in Seq(Segment), NEW path \in Path,
         Matches(a, path), Matches(b, path)
  PROVE  same_shape(a, b) \/ more_specific(a, b) \/ more_specific(b, a)
<1> DEFINE n == Len(path)
           D == {i \in 1 .. n : Param(a[i]) # Param(b[i])}
<1>1. n \in Nat /\ DOMAIN path = 1 .. n
  BY RoutesAssumption
<1>2. /\ Len(a) = n /\ Len(b) = n /\ DOMAIN a = 1 .. n /\ DOMAIN b = 1 .. n
      /\ \A i \in 1 .. n : a[i] \in Segment /\ b[i] \in Segment
  BY PatternFacts DEF Matches
<1>3. \A i \in 1 .. n : (~Param(a[i]) => a[i].text = path[i]) /\ (~Param(b[i]) => b[i].text = path[i])
  BY <1>1 DEF Matches
<1> HIDE DEF n
<1>4. CASE D = {}
  <2>1. ASSUME NEW i \in 1 .. n, ~Param(a[i]), ~Param(b[i]) PROVE a[i] = b[i]
    <3>1. a[i].kind = "literal" /\ b[i].kind = "literal"
      BY <1>2, <2>1 DEF Param, Segment
    <3>2. a[i].text = b[i].text
      BY <1>3, <2>1
    <3> QED BY <1>2, <3>1, <3>2 DEF Segment
  <2>2. \A i \in 1 .. n : Param(a[i]) <=> Param(b[i])
    BY <1>4
  <2> QED BY <1>2, <2>1, <2>2 DEF same_shape
<1>5. CASE D # {}
  <2>1. PICK k \in D : \A j \in D : k <= j
    <3>1. D \in SUBSET Nat
      BY <1>1
    <3> QED BY <1>5, <3>1, LeastNat
  <2>2. \A j \in 1 .. (k - 1) : j \in 1 .. n /\ ~(k <= j)
    BY <1>1
  <2>3. \A j \in 1 .. (k - 1) : Param(a[j]) = Param(b[j])
    BY <2>1, <2>2
  <2>4. k \in 1 .. n /\ Param(a[k]) # Param(b[k])
    OBVIOUS
  <2>5. CASE ~Param(a[k]) /\ Param(b[k])
    BY <1>2, <2>3, <2>4, <2>5 DEF more_specific
  <2>6. CASE Param(a[k]) /\ ~Param(b[k])
    <3>1. \A j \in 1 .. (k - 1) : Param(b[j]) = Param(a[j])
      BY <2>3
    <3> QED BY <1>2, <2>4, <2>6, <3>1 DEF more_specific
  <2>7. Param(a[k]) \in BOOLEAN /\ Param(b[k]) \in BOOLEAN
    BY DEF Param
  <2> QED BY <2>4, <2>5, <2>6, <2>7
<1> QED BY <1>4, <1>5

\* Neither of two patterns is more specific than the other in both directions.
LEMMA MoreSpecificOneWay ==
  ASSUME NEW a \in Seq(Segment), NEW b \in Seq(Segment), more_specific(a, b), more_specific(b, a)
  PROVE  FALSE
<1>1. PICK i \in DOMAIN a \cap DOMAIN b :
        ~Param(a[i]) /\ Param(b[i]) /\ \A j \in 1 .. (i - 1) : Param(a[j]) = Param(b[j])
  BY DEF more_specific
<1>2. PICK k \in DOMAIN b \cap DOMAIN a :
        ~Param(b[k]) /\ Param(a[k]) /\ \A j \in 1 .. (k - 1) : Param(b[j]) = Param(a[j])
  BY DEF more_specific
<1>3. i \in Nat /\ k \in Nat /\ i >= 1 /\ k >= 1
  BY PatternFacts
<1>4. i < k => i \in 1 .. (k - 1)
  BY <1>3
<1>5. k < i => k \in 1 .. (i - 1)
  BY <1>3
<1>6. i < k \/ k < i \/ i = k
  BY <1>3
<1> QED BY <1>1, <1>2, <1>4, <1>5, <1>6

\* What is more specific than a more specific pattern is more specific.
LEMMA MoreSpecificChain ==
  ASSUME NEW a \in Seq(Segment), NEW b \in Seq(Segment), NEW c \in Seq(Segment),
         Len(a) = Len(b), Len(b) = Len(c), more_specific(a, b), more_specific(b, c)
  PROVE  more_specific(a, c)
<1>0. DOMAIN a = DOMAIN b /\ DOMAIN b = DOMAIN c /\ DOMAIN a = 1 .. Len(a) /\ Len(a) \in Nat
  BY PatternFacts
<1>1. PICK i \in DOMAIN a \cap DOMAIN b :
        ~Param(a[i]) /\ Param(b[i]) /\ \A j \in 1 .. (i - 1) : Param(a[j]) = Param(b[j])
  BY DEF more_specific
<1>2. PICK k \in DOMAIN b \cap DOMAIN c :
        ~Param(b[k]) /\ Param(c[k]) /\ \A j \in 1 .. (k - 1) : Param(b[j]) = Param(c[j])
  BY DEF more_specific
<1>3. i \in Nat /\ k \in Nat /\ i >= 1 /\ k >= 1
  BY <1>0
<1>4. CASE i <= k
  <2>1. \A j \in 1 .. (i - 1) : j \in 1 .. (k - 1)
    BY <1>3, <1>4
  <2>2. \A j \in 1 .. (i - 1) : Param(a[j]) = Param(c[j])
    BY <1>1, <1>2, <2>1
  <2>3. Param(c[i])
    <3>1. i < k => i \in 1 .. (k - 1)
      BY <1>3
    <3>2. i < k \/ i = k
      BY <1>3, <1>4
    <3> QED BY <1>1, <1>2, <3>1, <3>2
  <2> QED BY <1>0, <1>1, <2>2, <2>3 DEF more_specific
<1>5. CASE k < i
  <2>1. k \in 1 .. (i - 1) /\ \A j \in 1 .. (k - 1) : j \in 1 .. (i - 1)
    BY <1>3, <1>5
  <2>2. \A j \in 1 .. (k - 1) : Param(a[j]) = Param(c[j])
    BY <1>1, <1>2, <2>1
  <2>3. ~Param(a[k])
    BY <1>1, <1>2, <2>1
  <2> QED BY <1>0, <1>2, <2>2, <2>3 DEF more_specific
<1> QED BY <1>3, <1>4, <1>5

\* What the pattern of the first n rows of a table that is best for a path is: there is
\* none if no row matches, and otherwise it is that of a row, matches, and is more specific
\* than every other that does.
BestOf(b, table, path, n) ==
    \/ /\ b = <<>>
       /\ \A i \in 1 .. n : ~Matches(table[i].pattern, path)
    \/ /\ b # <<>>
       /\ \E i \in 1 .. n : table[i].pattern = b
       /\ Matches(b, path)
       /\ \A i \in 1 .. n : Matches(table[i].pattern, path)
                              => table[i].pattern = b \/ more_specific(b, table[i].pattern)

\* The loop of select() finds the most specific pattern.
LEMMA BestIs ==
  ASSUME NEW table \in Seq(Row), Distinct(table), NEW path \in Path
  PROVE  BestOf(Best(table, path), table, path, Len(table))
<1> DEFINE n == Len(table)
           b == [path |-> path, pattern |-> <<>>]
           Good(c, k) == c.path = path /\ c = [path |-> c.path, pattern |-> c.pattern]
                         /\ BestOf(c.pattern, table, path, k)
<1>1. n \in Nat /\ DOMAIN table = 1 .. n
      /\ \A i \in 1 .. n : table[i].pattern \in Seq(Segment) /\ table[i].pattern # <<>>
  BY RoutesAssumption
<1>2. PICK h : h[0] = b /\ (\A k \in 1 .. n : h[k] = Better(h[k - 1], table[k])) /\ Fold(b, table) = h[n]
  <2> HIDE DEF b, n
  <2>1. PICK h : Chained(h, b, table, n) /\ Fold(b, table) = h[n]
    BY <1>1, FoldChained
  <2> WITNESS h
  <2> QED BY ONLY <2>1 DEF Chained
<1>3. Best(table, path) = h[n].pattern
  BY <1>2 DEF Best, Fold
<1>4. Good(b, 0)
  BY DEF BestOf
<1> HIDE DEF b
<1>5. ASSUME NEW k \in Nat, k + 1 \in 1 .. n, NEW c, Good(c, k) PROVE Good(Better(c, table[k + 1]), k + 1)
  <2> DEFINE e == table[k + 1]
             q == e.pattern
             p == c.pattern
  <2>1. q \in Seq(Segment) /\ q # <<>> /\ c.path = path /\ BestOf(p, table, path, k)
    BY <1>1, <1>5
  <2>2. \A i \in 1 .. (k + 1) : i \in 1 .. k \/ i = k + 1
    OBVIOUS
  <2>3. 1 .. k \subseteq 1 .. (k + 1) /\ 1 .. k \subseteq 1 .. n /\ k + 1 \in 1 .. (k + 1)
    BY <1>1, <1>5
  <2>4. \A i \in 1 .. k : table[i].pattern \in Seq(Segment)
    BY <1>1, <2>3
  <2>5. CASE Matches(q, path) /\ (p = <<>> \/ more_specific(q, p))
    <3>1. Better(c, e) = [path |-> path, pattern |-> q]
      BY <1>5, <2>1, <2>5 DEF Better
    <3>2. BestOf(q, table, path, k + 1)
      <4>1. ASSUME NEW i \in 1 .. k, Matches(table[i].pattern, path)
            PROVE  table[i].pattern = q \/ more_specific(q, table[i].pattern)
        <5>1. p # <<>>
          BY <2>1, <4>1 DEF BestOf
        <5>2. /\ Matches(p, path) /\ more_specific(q, p)
              /\ table[i].pattern = p \/ more_specific(p, table[i].pattern)
          BY <2>1, <2>5, <4>1, <5>1 DEF BestOf
        <5>3. p \in Seq(Segment)
          BY <2>1, <2>4, <5>1 DEF BestOf
        <5>4. CASE table[i].pattern = p
          BY <5>2, <5>4
        <5>5. CASE more_specific(p, table[i].pattern)
          <6>1. Len(q) = Len(p) /\ Len(p) = Len(table[i].pattern)
            BY <2>5, <4>1, <5>2 DEF Matches
          <6> QED BY <2>1, <2>4, <5>2, <5>3, <5>5, <6>1, MoreSpecificChain
        <5> QED BY <5>2, <5>4, <5>5
      <4>2. \A i \in 1 .. (k + 1) : Matches(table[i].pattern, path)
              => table[i].pattern = q \/ more_specific(q, table[i].pattern)
        BY <2>2, <4>1
      <4>3. \E i \in 1 .. (k + 1) : table[i].pattern = q
        BY <2>3
      <4> QED BY <2>1, <2>5, <4>2, <4>3 DEF BestOf
    <3> QED BY <3>1, <3>2
  <2>6. CASE ~(Matches(q, path) /\ (p = <<>> \/ more_specific(q, p)))
    <3>1. Better(c, e) = c
      BY <2>1, <2>6 DEF Better
    <3>2. BestOf(p, table, path, k + 1)
      <4>1. CASE p = <<>>
        <5>1. ~Matches(q, path)
          BY <2>6, <4>1
        <5>2. \A i \in 1 .. k : ~Matches(table[i].pattern, path)
          BY <2>1, <4>1 DEF BestOf
        <5> QED BY <2>2, <4>1, <5>1, <5>2 DEF BestOf
      <4>2. CASE p # <<>>
        <5>1. /\ \E i \in 1 .. k : table[i].pattern = p
              /\ Matches(p, path)
              /\ \A i \in 1 .. k : Matches(table[i].pattern, path)
                    => table[i].pattern = p \/ more_specific(p, table[i].pattern)
          BY <2>1, <4>2 DEF BestOf
        <5>2. PICK i \in 1 .. k : table[i].pattern = p
          BY <5>1
        <5>3. p \in Seq(Segment) /\ i \in DOMAIN table /\ k + 1 \in DOMAIN table
          BY <1>1, <1>5, <2>3, <2>4, <5>2
        <5>4. Matches(q, path) => q = p \/ more_specific(p, q)
          <6> SUFFICES ASSUME Matches(q, path) PROVE q = p \/ more_specific(p, q)
            OBVIOUS
          <6>1. ~more_specific(q, p)
            BY <2>6
          <6>2. same_shape(p, q) => q = p
            BY <5>2, <5>3 DEF Distinct
          <6>3. same_shape(p, q) \/ more_specific(p, q) \/ more_specific(q, p)
            BY <2>1, <5>1, <5>3, OneIsMoreSpecific
          <6> QED BY <6>1, <6>2, <6>3
        <5>5. \A j \in 1 .. (k + 1) : Matches(table[j].pattern, path)
                => table[j].pattern = p \/ more_specific(p, table[j].pattern)
          BY <2>2, <5>1, <5>4
        <5>6. \E j \in 1 .. (k + 1) : table[j].pattern = p
          BY <2>3, <5>2
        <5> QED BY <4>2, <5>1, <5>5, <5>6 DEF BestOf
      <4> QED BY <4>1, <4>2
    <3> QED BY <1>5, <3>1, <3>2
  <2> QED BY <2>5, <2>6
<1> HIDE DEF Good
<1> DEFINE S == {k \in Nat : k <= n => Good(h[k], k)}
<1>6. Nat \subseteq S
  <2>1. 0 \in S
    BY <1>2, <1>4
  <2>2. ASSUME NEW k \in Nat, k \in S PROVE k + 1 \in S
    <3> SUFFICES ASSUME k + 1 <= n PROVE Good(h[k + 1], k + 1)
      OBVIOUS
    <3>1. k + 1 \in 1 .. n /\ (k + 1) - 1 = k /\ k <= n
      BY <1>1
    <3>2. Good(h[k], k)
      BY <2>2, <3>1
    <3>3. h[k + 1] = Better(h[k], table[k + 1])
      BY <1>2, <3>1
    <3> QED BY <1>5, <3>1, <3>2, <3>3
  <2> HIDE DEF S
  <2> QED BY <2>1, <2>2, InductionNat
<1>7. Good(h[n], n)
  BY <1>1, <1>6
<1> QED BY <1>3, <1>7 DEF Good

\* Two tables of the same rows, in any order and any number of times.
Alike(t, u) ==
    /\ \A i \in DOMAIN t : \E j \in DOMAIN u : u[j] = t[i]
    /\ \A j \in DOMAIN u : \E i \in DOMAIN t : t[i] = u[j]

\* select() depends on the set of rows only.
LEMMA BestAlike ==
  ASSUME NEW t \in Seq(Row), NEW u \in Seq(Row), Distinct(t), Distinct(u), Alike(t, u),
         NEW path \in Path
  PROVE  Best(t, path) = Best(u, path)
<1> DEFINE a == Best(t, path)
           b == Best(u, path)
<1>0. DOMAIN t = 1 .. Len(t) /\ DOMAIN u = 1 .. Len(u)
      /\ \A i \in DOMAIN t : t[i].pattern \in Seq(Segment)
  BY RoutesAssumption
<1>1. BestOf(a, t, path, Len(t)) /\ BestOf(b, u, path, Len(u))
  BY BestIs
<1> HIDE DEF a, b
<1>2. ASSUME a = <<>> PROVE b = <<>>
  <2> SUFFICES ASSUME b # <<>> PROVE FALSE
    OBVIOUS
  <2>1. PICK j \in DOMAIN u : u[j].pattern = b /\ Matches(b, path)
    BY <1>0, <1>1 DEF BestOf
  <2>2. PICK m \in DOMAIN t : t[m] = u[j]
    BY DEF Alike
  <2> QED BY <1>0, <1>1, <1>2, <2>1, <2>2 DEF BestOf
<1>3. ASSUME b = <<>> PROVE a = <<>>
  <2> SUFFICES ASSUME a # <<>> PROVE FALSE
    OBVIOUS
  <2>1. PICK i \in DOMAIN t : t[i].pattern = a /\ Matches(a, path)
    BY <1>0, <1>1 DEF BestOf
  <2>2. PICK k \in DOMAIN u : u[k] = t[i]
    BY DEF Alike
  <2> QED BY <1>0, <1>1, <1>3, <2>1, <2>2 DEF BestOf
<1>4. ASSUME a # <<>>, b # <<>> PROVE a = b
  <2>1. PICK i \in DOMAIN t : t[i].pattern = a
    BY <1>0, <1>1, <1>4 DEF BestOf
  <2>2. PICK j \in DOMAIN u : u[j].pattern = b
    BY <1>0, <1>1, <1>4 DEF BestOf
  <2>3. PICK k \in DOMAIN u : u[k] = t[i]
    BY <2>1 DEF Alike
  <2>4. PICK m \in DOMAIN t : t[m] = u[j]
    BY <2>2 DEF Alike
  <2>5. Matches(a, path) /\ Matches(b, path)
    BY <1>1, <1>4 DEF BestOf
  <2>6. b = a \/ more_specific(a, b)
    BY <1>0, <1>1, <1>4, <2>2, <2>4, <2>5 DEF BestOf
  <2>7. a = b \/ more_specific(b, a)
    BY <1>0, <1>1, <1>4, <2>1, <2>3, <2>5 DEF BestOf
  <2>8. a \in Seq(Segment) /\ b \in Seq(Segment)
    BY <1>0, <2>1, <2>2, <2>4
  <2> QED BY <2>6, <2>7, <2>8, MoreSpecificOneWay
<1> QED BY <1>2, <1>3, <1>4 DEF a, b

\* select() depends on which rows there are, and not on their order.
LEMMA SelectAlike ==
  ASSUME NEW t \in Seq(Row), NEW u \in Seq(Row), Distinct(t), Distinct(u), Alike(t, u),
         NEW path \in Path, NEW method
  PROVE  select(t, method, path) = select(u, method, path)
<1>1. Best(t, path) = Best(u, path)
  BY BestAlike
<1>2. PICK best : best = Best(t, path) /\ best = Best(u, path)
  BY <1>1
<1>3. MethodsOf(t, best) = MethodsOf(u, best)
  BY SMTT(30) DEF Alike, MethodsOf
<1>4. PICK methods : methods = MethodsOf(t, best) /\ methods = MethodsOf(u, best)
  BY <1>3
<1> DEFINE params == Params(best, path)
           row == IF method = "HEAD" /\ "HEAD" \notin methods THEN "GET" ELSE method
           result == IF best = <<>> THEN Error(404, {})
                     ELSE IF \E p \in params : p.value = Malformed THEN Error(400, {})
                     ELSE IF row \in methods
                          THEN [handler |-> "row", status |-> 0, allow |-> {}, params |-> params,
                                row |-> [method |-> row, pattern |-> best]]
                     ELSE Error(405, Allow(methods))
<1>5. select(t, method, path) = result
  BY <1>2, <1>4 DEF select
<1>6. select(u, method, path) = result
  BY <1>2, <1>4 DEF select
<1> QED BY <1>5, <1>6

\* A table in another order.
LEMMA ReorderedAlike ==
  ASSUME NEW t \in Seq(Row), Distinct(t), NEW f \in [DOMAIN t -> DOMAIN t], IsInjective(f)
  PROVE  LET u == [i \in DOMAIN t |-> t[f[i]]]
         IN  u \in Seq(Row) /\ Distinct(u) /\ Alike(t, u)
<1> DEFINE n == Len(t)
           u == [i \in 1 .. n |-> t[f[i]]]
<1>1. n \in Nat /\ DOMAIN t = 1 .. n /\ \A i \in 1 .. n : t[i] \in Row
  OBVIOUS
<1> HIDE DEF n
<1>2. f \in [1 .. n -> 1 .. n] /\ \A i, j \in 1 .. n : f[i] = f[j] => i = j
  BY <1>1 DEF IsInjective
<1>3. \A k \in 1 .. n : \E i \in 1 .. n : f[i] = k
  <2>1. f \in Injection(1 .. n, 1 .. n)
    BY <1>2 DEF Injection, IsInjective
  <2>2. IsFiniteSet(1 .. n)
    BY <1>1, FiniteInterval
  <2>3. f \in Surjection(1 .. n, 1 .. n)
    BY <2>1, <2>2, FS_Injection
  <2> QED BY <2>3 DEF Surjection
<1>4. DOMAIN u = 1 .. n /\ \A i \in 1 .. n : u[i] = t[f[i]] /\ f[i] \in 1 .. n
  BY <1>2
<1>5. u \in Seq(Row)
  BY <1>1, <1>2
<1> HIDE DEF u
<1>6. Distinct(u)
  BY <1>1, <1>4, SMTT(30) DEF Distinct
<1>7. Alike(t, u)
  BY <1>1, <1>3, <1>4 DEF Alike
<1> QED BY <1>1, <1>5, <1>6, <1>7 DEF u

\* Routes::decode keeps patterns of one shape equal.
LEMMA DecodeDistinct ==
  ASSUME NEW row \in Row, entries \in Seq(Row), Distinct(entries), ~Conflicts(row),
         entries' = Append(entries, row)
  PROVE  entries' \in Seq(Row) /\ Len(entries') = Len(entries) + 1 /\ Distinct(entries')
<1> DEFINE n == Len(entries)
<1>1. /\ n \in Nat /\ DOMAIN entries = 1 .. n /\ DOMAIN entries' = 1 .. (n + 1)
      /\ entries'[n + 1] = row /\ \A i \in 1 .. n : entries'[i] = entries[i]
      /\ entries' \in Seq(Row) /\ Len(entries') = n + 1
  OBVIOUS
<1>2. \A i \in 1 .. n : entries[i].pattern \in Seq(Segment)
  BY <1>1, RoutesAssumption
<1>3. row.pattern \in Seq(Segment)
  BY RoutesAssumption
<1>4. \A i \in 1 .. n : same_shape(entries[i].pattern, row.pattern) => entries[i].pattern = row.pattern
  BY <1>1 DEF Conflicts
<1>5. \A i \in 1 .. n : same_shape(row.pattern, entries[i].pattern) => entries[i].pattern = row.pattern
  BY <1>2, <1>3, <1>4, ShapeSymmetric
<1>6. \A i \in 1 .. (n + 1) : i \in 1 .. n \/ i = n + 1
  BY <1>1
<1> HIDE DEF n
<1>7. Distinct(entries')
  <2> SUFFICES ASSUME NEW i \in 1 .. (n + 1), NEW j \in 1 .. (n + 1),
                      same_shape(entries'[i].pattern, entries'[j].pattern)
               PROVE  entries'[i].pattern = entries'[j].pattern
    BY <1>1 DEF Distinct
  <2>1. CASE i \in 1 .. n /\ j \in 1 .. n
    BY <1>1, <2>1 DEF Distinct
  <2> QED BY <1>1, <1>4, <1>5, <1>6, <2>1
<1> QED BY <1>1, <1>7 DEF n

\* Before the table is decoded.
LEMMA RoutesInitially == RouteInit => RoutesInv
<1> SUFFICES ASSUME RouteInit PROVE RoutesInv
  OBVIOUS
<1>1. entries \in Seq(Row) /\ Len(entries) = 0 /\ DOMAIN entries = {}
  BY DEF RouteInit
<1> QED BY <1>1, RoutesAssumption DEF RouteInit, RoutesInv, Distinct

\* decode() and every request keep the invariant.
LEMMA RoutesStep == RoutesInv /\ [RouteNext]_routesVars => RoutesInv'
<1> SUFFICES ASSUME RoutesInv, [RouteNext]_routesVars PROVE RoutesInv'
  OBVIOUS
<1>1. ASSUME NEW row \in Row, DecodeRow(row) PROVE RoutesInv'
  <2>1. /\ Len(entries) < MAX_ROUTES /\ ~Conflicts(row) /\ entries' = Append(entries, row)
        /\ phase = "decoding" /\ UNCHANGED <<phase, hooks, routeReply>>
    BY <1>1 DEF DecodeRow
  <2>2. entries' \in Seq(Row) /\ Len(entries') = Len(entries) + 1 /\ Distinct(entries')
    BY <2>1, DecodeDistinct DEF RoutesInv
  <2>3. Len(entries') <= MAX_ROUTES
    <3>1. Len(entries) \in Nat /\ MAX_ROUTES \in Nat
      BY RoutesAssumption DEF RoutesInv
    <3> QED BY <2>1, <2>2, <3>1
  <2> QED BY <2>1, <2>2, <2>3 DEF RoutesInv
<1>2. ASSUME phase = "decoding", phase' \in {"serving", "refused"}, UNCHANGED <<entries, hooks, routeReply>>
      PROVE RoutesInv'
  BY <1>2 DEF RoutesInv
<1>3. ASSUME UNCHANGED <<phase, entries, hooks>>, routeReply' = NoReply PROVE RoutesInv'
  BY <1>3 DEF RoutesInv
<1>4. ASSUME UNCHANGED routesVars PROVE RoutesInv'
  BY <1>4 DEF RoutesInv, routesVars, ReplyOf, Outputs
<1>5. ASSUME NEW method \in Method, NEW path \in Path, RouteRequest(method, path) PROVE RoutesInv'
  <2>1. phase = "serving" /\ UNCHANGED <<phase, entries, hooks>>
    BY <1>5 DEF RouteRequest
  <2>2. PICK selection : selection = select(entries, method, path)
    OBVIOUS
  <2>3. ReplyOf(method, path, selection)'
    BY <1>5, <2>1, <2>2 DEF RouteRequest, ReplyOf, Outputs
  <2>4. selection = select(entries', method, path)
    BY <2>1, <2>2
  <2> QED BY <2>1, <2>3, <2>4 DEF RoutesInv
<1>6. ASSUME NEW row \in Row, RefuseRow(row) PROVE RoutesInv'
  BY <1>2, <1>6 DEF RefuseRow
<1> QED BY <1>1, <1>2, <1>3, <1>4, <1>5, <1>6 DEF RouteNext, CheckHooks, Refused, RouteDone

\* The invariant holds throughout.
LEMMA RoutesInvariance == RouteSpec => []RoutesInv
  BY RoutesInitially, RoutesStep, PTL DEF RouteSpec

\* The kinds of a Selection.
LEMMA SelectKinds ==
  ASSUME NEW table, NEW method, NEW path
  PROVE  LET s == select(table, method, path)
         IN  \/ s.handler = "row"
             \/ s.handler = "none" /\ s.status \in Statuses
  BY DEF select, Error, Statuses

\* 405 is for a path that has a pattern and whose parameters decode, and comes with every
\* method of that pattern.
LEMMA SelectNotAllowed ==
  ASSUME NEW table, NEW method, NEW path, NEW m,
         select(table, method, path).handler = "none", select(table, method, path).status = 405
  PROVE  m \in select(table, method, path).allow <=> select(table, m, path).handler = "row"
<1> DEFINE best == Best(table, path)
           params == Params(best, path)
           methods == MethodsOf(table, best)
           Named(x) == IF x = "HEAD" /\ "HEAD" \notin methods THEN "GET" ELSE x
<1>1. ASSUME NEW x
      PROVE  select(table, x, path) =
               IF best = <<>> THEN Error(404, {})
               ELSE IF \E p \in params : p.value = Malformed THEN Error(400, {})
               ELSE IF Named(x) \in methods
                    THEN [handler |-> "row", status |-> 0, allow |-> {}, params |-> params,
                          row |-> [method |-> Named(x), pattern |-> best]]
               ELSE Error(405, Allow(methods))
  BY DEF select
<1> HIDE DEF best, params, methods
<1>2. /\ best # <<>> /\ ~(\E p \in params : p.value = Malformed)
      /\ select(table, method, path) = Error(405, Allow(methods))
  BY <1>1 DEF Error
<1>3. select(table, method, path).allow = Allow(methods)
  BY <1>2 DEF Error
<1>4. select(table, m, path).handler = "row" <=> Named(m) \in methods
  BY <1>1, <1>2 DEF Error
<1>5. m \in Allow(methods) <=> Named(m) \in methods
  BY DEF Allow
<1> QED BY <1>3, <1>4, <1>5

\* Routes::select, with any rows, patterns, methods and hooks: which row answers depends on
\* the set of rows and not on their order, it is that of the most specific pattern, and a
\* client told 405 is told exactly the methods that the path answers.
THEOREM SelectionIsSound == RouteSpec => []RoutesSound
<1>1. RoutesInv => RoutesSound
  <2> SUFFICES ASSUME RoutesInv PROVE RoutesSound
    OBVIOUS
  <2>1. RouteTypeOK /\ AllowHonest /\ OrderIrrelevant /\ MostSpecific
    <3>1. CASE routeReply = NoReply
      BY <3>1 DEF RoutesInv, RouteTypeOK, AllowHonest, OrderIrrelevant, MostSpecific, Answered
    <3>2. CASE routeReply # NoReply
      <4>1. PICK method \in Method, path \in Path : ReplyOf(method, path, select(entries, method, path))
        BY <3>2 DEF RoutesInv
      <4>2. PICK selection : selection = select(entries, method, path)
        OBVIOUS
      <4>3. /\ routeReply.method = method /\ routeReply.path = path /\ routeReply.selection = selection
            /\ \/ selection.handler = "row" /\ routeReply.status = 200
               \/ /\ selection.handler = "none" /\ selection.status \in Statuses
                  /\ \E output \in Outputs(selection) :
                        /\ routeReply.status = Routed(selection, output).status
                        /\ routeReply.allow = Routed(selection, output).allow
        <5>1. \/ selection.handler = "row"
              \/ selection.handler = "none" /\ selection.status \in Statuses
          BY <4>2, SelectKinds
        <5> QED BY <4>1, <4>2, <5>1 DEF ReplyOf
      <4>4. RouteTypeOK
        <5>1. routeReply.status \in Statuses \cup {200, 500}
          BY <4>3 DEF Routed, Outputs
        <5> QED BY <5>1 DEF RoutesInv, RouteTypeOK
      <4>5. AllowHonest
        <5> SUFFICES ASSUME selection.handler = "none", routeReply.status = 405, NEW m \in Method
                     PROVE  m \in routeReply.allow <=> select(entries, m, path).handler = "row"
          BY <4>3 DEF AllowHonest
        <5>1. selection.status = 405 /\ routeReply.allow = selection.allow
          BY <4>3 DEF Routed, Outputs
        <5> QED BY <4>2, <5>1, SelectNotAllowed
      <4>6. OrderIrrelevant
        <5> SUFFICES ASSUME NEW f \in [DOMAIN entries -> DOMAIN entries], IsInjective(f)
                     PROVE  select([i \in DOMAIN entries |-> entries[f[i]]], method, path) = selection
          BY <4>3 DEF OrderIrrelevant
        <5>1. entries \in Seq(Row) /\ Distinct(entries)
          BY DEF RoutesInv
        <5>2. PICK t : t = entries
          OBVIOUS
        <5>3. PICK u : u = [i \in DOMAIN t |-> t[f[i]]]
          OBVIOUS
        <5>4. u \in Seq(Row) /\ Distinct(u) /\ Alike(t, u)
          BY <5>1, <5>2, <5>3, ReorderedAlike
        <5>5. select(t, method, path) = select(u, method, path)
          BY <5>1, <5>2, <5>4, SelectAlike
        <5> QED BY <4>2, <5>2, <5>3, <5>5
      <4>7. MostSpecific
        <5> SUFFICES ASSUME NEW i \in DOMAIN entries, Matches(entries[i].pattern, path)
                     PROVE  LET best == Best(entries, path)
                                pattern == entries[i].pattern
                            IN  pattern = best
                                \/ \E k \in DOMAIN best :
                                      /\ ~Param(best[k]) /\ Param(pattern[k])
                                      /\ \A j \in 1 .. (k - 1) : Param(best[j]) = Param(pattern[j])
          BY <4>3 DEF MostSpecific
        <5>1. PICK t : t = entries
          OBVIOUS
        <5>2. PICK best : best = Best(t, path)
          OBVIOUS
        <5>3. t \in Seq(Row) /\ Distinct(t) /\ DOMAIN t = 1 .. Len(t)
          BY <5>1 DEF RoutesInv
        <5>4. BestOf(best, t, path, Len(t))
          BY <5>2, <5>3, BestIs
        <5>5. t[i].pattern = best \/ more_specific(best, t[i].pattern)
          BY <5>1, <5>3, <5>4 DEF BestOf
        <5> QED BY <5>1, <5>2, <5>5 DEF more_specific
      <4> QED BY <4>4, <4>5, <4>6, <4>7
    <3> QED BY <3>1, <3>2
  <2> QED BY <2>1 DEF RoutesSound
<1> QED BY <1>1, RoutesInvariance, PTL

=============================================================================
