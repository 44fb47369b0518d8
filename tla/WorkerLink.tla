----------------------------- MODULE WorkerLink -----------------------------
(***************************************************************************)
(* The pipes between the notebook kernel and its worker process, from both *)
(* ends: Worker in jupyter/src/worker.rs with the captures of              *)
(* jupyter/src/streams.rs, and run() in src/worker.rs.                     *)
(*                                                                         *)
(* An operation owns the output of the worker from its request until its   *)
(* acknowledgement.  The worker ends the output of an operation on each    *)
(* stream with a marker that only this operation knows.  Three readers,    *)
(* one per pipe, the operation and the worker run concurrently; processes  *)
(* that a cell left behind write to the streams whenever they like.        *)
(*                                                                         *)
(* What is written is a sequence of items, a marker one of them.  How a    *)
(* marker is found in bytes that arrive in pieces is in module Streams.    *)
(***************************************************************************)
EXTENDS Naturals, Sequences, Functions

CONSTANTS
    MaxId,      \* 2^53 - 1, the last request identity
    Cap,        \* 2 MiB, what is kept of a stream, in items
    Writes,     \* how much an operation writes, to both streams
    Strays      \* how much leftover processes write

ASSUME LinkAssumption ==
    /\ MaxId \in Nat \ {0}
    /\ Cap \in Nat \ {0}
    /\ Writes \in Nat
    /\ Strays \in Nat

Stream == {"stdout", "stderr"}

VARIABLES
    \* Worker in the kernel
    pc,         \* "idle", or where Worker::operation stands
    id,         \* Worker.id
    active,     \* Collected.active is Some
    capture,    \* Collected.active: the identity and per stream a Capture
    late,       \* Collected.late
    error,      \* Collected.error is Some
    deadline,   \* the watchdog's deadline is Some
    ended,      \* per stream, the local ended of operation()
    reply,      \* the local reply of operation() is Some
    armed,      \* the local armed of operation(): an input number, or 0
    inbox,      \* control frames read and not yet received
    \* the pipes
    down,       \* requests and acknowledgements
    up,         \* control frames
    out,        \* per stream, the items
    \* the worker process
    wpc,        \* where run() stands
    wid,        \* the identity it works on: last
    winput,     \* the input number it armed, or 0
    inputs,     \* how many inputs the session has retained
    retire,     \* it leaves after the acknowledgement
    \* history
    wrote,      \* per stream, how much the operation wrote; and the strays
    published,  \* per stream, what reached the sink, and as whose output
    finished    \* operations whose reply was handed on

supVars == <<pc, id, active, capture, ended, reply, armed>>
readVars == <<late, error, deadline, inbox>>
pipeVars == <<down, up, out>>
workVars == <<wpc, wid, winput, inputs, retire>>
histVars == <<wrote, published, finished>>
vars == <<supVars, readVars, pipeVars, workVars, histVars>>

Ids == 0 .. MaxId
Data == [kind : {"data"}, op : Ids, k : Nat]
Marker(i) == [kind |-> "marker", op |-> i, k |-> 0]
Notice(i) == [kind |-> "notice", op |-> i, k |-> 0]
Item == [kind : {"data", "marker"}, op : Ids, k : Nat]
Shown == [as : Ids, item : [kind : {"data", "notice"}, op : Ids, k : Nat]]
Buffer == [data : Seq(Data), kept : 0 .. Cap, discarded : Nat, ended : BOOLEAN]
Request == [op : {"execute", "shutdown", "ack"}, id : Ids]
Frame == [type : {"armed", "settled"}, id : Ids, input : Nat]

TypeOK ==
    /\ pc \in {"idle", "send", "wait", "ack"}
    /\ id \in Ids
    /\ active \in BOOLEAN
    /\ capture \in [id : Ids, op : {"execute", "shutdown"}, stream : [Stream -> Buffer]]
    /\ late \in [Stream -> Buffer]
    /\ error \in BOOLEAN /\ deadline \in BOOLEAN /\ reply \in BOOLEAN
    /\ ended \in [Stream -> BOOLEAN]
    /\ armed \in Nat
    /\ inbox \in Seq(Frame)
    /\ down \in Seq(Request)
    /\ up \in Seq(Frame)
    /\ out \in [Stream -> Seq(Item)]
    /\ wpc \in {"recv", "eval", "run", "stdout", "stderr", "settle", "ack", "dead"}
    /\ wid \in Ids
    /\ winput \in Nat /\ inputs \in Nat
    /\ retire \in BOOLEAN
    /\ wrote \in [Stream -> [op : Nat, stray : Nat]]
    /\ published \in [Stream -> Seq(Shown)]
    /\ finished \in SUBSET Ids

Empty == [data |-> << >>, kept |-> 0, discarded |-> 0, ended |-> FALSE]

Init ==
    /\ pc = "idle" /\ id = 0
    /\ active = FALSE
    /\ capture = [id |-> 0, op |-> "execute", stream |-> [s \in Stream |-> Empty]]
    /\ late = [s \in Stream |-> Empty]
    /\ error = FALSE /\ deadline = FALSE
    /\ ended = [s \in Stream |-> FALSE]
    /\ reply = FALSE /\ armed = 0
    /\ inbox = << >> /\ down = << >> /\ up = << >>
    /\ out = [s \in Stream |-> << >>]
    /\ wpc = "recv" /\ wid = 0 /\ winput = 0 /\ inputs = 0 /\ retire = FALSE
    /\ wrote = [s \in Stream |-> [op |-> 0, stray |-> 0]]
    /\ published = [s \in Stream |-> << >>]
    /\ finished = {}

----------------------------------------------------------------------------
(* The readers *)

\* Capture::keep and Late::feed: past the limit bytes are only counted.
Keep(b, item) ==
    IF b.kept = Cap THEN [b EXCEPT !.discarded = @ + 1]
    ELSE [b EXCEPT !.data = Append(@, item), !.kept = @ + 1]

\* A stream reader feeds the capture of the operation, and what follows its
\* marker, or comes when no operation is active, to the late output.
ReadStream(s) ==
    LET item == Head(out[s])
        mine == active /\ ~capture.stream[s].ended
    IN  /\ out[s] # << >>
        /\ out' = [out EXCEPT ![s] = Tail(@)]
        /\ capture' = IF ~mine THEN capture
                      ELSE [capture EXCEPT !.stream[s] = IF item = Marker(capture.id)
                                                         THEN [@ EXCEPT !.ended = TRUE]
                                                         ELSE Keep(@, item)]
        /\ late' = IF mine THEN late ELSE [late EXCEPT ![s] = Keep(@, item)]
        /\ UNCHANGED <<pc, id, active, ended, reply, armed, error, deadline, inbox, down, up,
                       workVars, histVars>>

\* The control reader: settled starts the watchdog, whatever the operation does.
ReadControl ==
    /\ up # << >>
    /\ up' = Tail(up)
    /\ inbox' = Append(inbox, Head(up))
    /\ deadline' = (deadline \/ Head(up).type = "settled")
    /\ UNCHANGED <<supVars, late, error, down, out, workVars, histVars>>

\* The end of the control pipe, and of a stream nobody holds any more: failure().
ReadersFail ==
    /\ wpc = "dead" /\ ~error
    /\ up = << >> \/ \E s \in Stream : out[s] = << >>
    /\ error' = TRUE
    /\ deadline' = TRUE
    /\ UNCHANGED <<supVars, late, inbox, pipeVars, workVars, histVars>>

----------------------------------------------------------------------------
(* Worker::operate and Worker::operation *)

\* The health check, then the identity, which is spent before the boundary of the last
\* operation is looked at.
Begin(op) ==
    LET alive == ~error /\ id < MaxId
    IN  /\ pc = "idle"
        /\ deadline' = FALSE
        /\ id' = IF alive THEN id + 1 ELSE id
        /\ IF ~alive \/ active THEN UNCHANGED <<pc, active, capture, ended, reply, armed>>
           ELSE /\ active' = TRUE
                /\ capture' = [id |-> id + 1, op |-> op, stream |-> [s \in Stream |-> Empty]]
                /\ pc' = "send"
                /\ ended' = [s \in Stream |-> FALSE] /\ reply' = FALSE /\ armed' = 0
        /\ UNCHANGED <<late, error, inbox, pipeVars, workVars, histVars>>

Send ==
    /\ pc = "send" /\ wpc # "dead"
    /\ down' = Append(down, [op |-> capture.op, id |-> capture.id])
    /\ pc' = "wait"
    /\ UNCHANGED <<id, active, capture, ended, reply, armed, readVars, up, out, workVars, histVars>>

\* Output of the operation goes to the sink; at the marker, with everything kept
\* sent, the notice about what was not kept.
Drain(s) ==
    LET b == capture.stream[s]
        show == IF b.data # << >> THEN <<[as |-> capture.id, item |-> Head(b.data)]>>
                ELSE IF b.discarded > 0 THEN <<[as |-> capture.id, item |-> Notice(capture.id)]>>
                ELSE << >>
    IN  /\ pc = "wait" /\ ~ended[s]
        /\ b.data # << >> \/ b.ended
        /\ published' = [published EXCEPT ![s] = @ \o show]
        /\ IF b.data # << >>
           THEN capture' = [capture EXCEPT !.stream[s].data = Tail(@)] /\ UNCHANGED ended
           ELSE ended' = [ended EXCEPT ![s] = TRUE] /\ UNCHANGED capture
        /\ UNCHANGED <<pc, id, active, reply, armed, readVars, pipeVars, workVars, wrote, finished>>

\* Worker::forward_late, within an operation and between two; the notice once.
ForwardLate(s) ==
    LET b == late[s]
        notice == b.data = << >> /\ b.discarded > 0 /\ ~b.ended
    IN  /\ pc \in {"idle", "wait"}
        /\ b.data # << >> \/ notice
        /\ published' = [published EXCEPT ![s] =
                           Append(@, [as |-> 0, item |-> IF notice THEN Notice(0) ELSE Head(b.data)])]
        /\ late' = [late EXCEPT ![s] = IF notice THEN [b EXCEPT !.ended = TRUE]
                                                  ELSE [b EXCEPT !.data = Tail(@)]]
        /\ UNCHANGED <<supVars, error, deadline, inbox, pipeVars, workVars, wrote, finished>>

\* A control frame for this operation: armed once and first, settled once and
\* with the input number that was armed.
Expected(f) ==
    /\ f.id = id
    /\ ~reply
    /\ \/ f.type = "armed" /\ armed = 0
       \/ f.type = "settled" /\ f.input = armed

Unexpected == pc = "wait" /\ inbox # << >> /\ ~Expected(Head(inbox))

Receive ==
    /\ pc = "wait" /\ inbox # << >>
    /\ Expected(Head(inbox))
    /\ inbox' = Tail(inbox)
    /\ IF Head(inbox).type = "armed"
       THEN armed' = Head(inbox).input /\ UNCHANGED reply
       ELSE reply' = TRUE /\ UNCHANGED armed
    /\ UNCHANGED <<pc, id, active, capture, ended, late, error, deadline, pipeVars, workVars,
                   histVars>>

\* Mutant of Fail: an operation that failed gives the streams back.
FailReleases ==
    /\ pc # "idle"
    /\ pc' = "idle"
    /\ active' = FALSE
    /\ inbox' = IF Unexpected THEN Tail(inbox) ELSE inbox
    /\ UNCHANGED <<id, capture, ended, reply, armed, late, error, deadline, pipeVars,
                   workVars, histVars>>

\* The operation fails, or its caller gives it up.  It keeps the streams.
Fail ==
    /\ pc # "idle"
    /\ pc' = "idle"
    /\ inbox' = IF Unexpected THEN Tail(inbox) ELSE inbox
    /\ UNCHANGED <<id, active, capture, ended, reply, armed, late, error, deadline, pipeVars,
                   workVars, histVars>>

\* When it cannot go on: the health check, a write to a worker that is gone, an
\* unexpected frame, or the watchdog.
MustFail == error \/ deadline \/ Unexpected

\* Mutant of Complete: the marker on stderr is not waited for.
CompleteEarly ==
    /\ pc = "wait"
    /\ ended["stdout"] /\ reply
    /\ finished' = finished \cup {capture.id}
    /\ pc' = "ack"
    /\ UNCHANGED <<id, active, capture, ended, reply, armed, readVars, pipeVars, workVars,
                   wrote, published>>

\* Both barriers and the settlement are there: complete() hands on the reply.
Complete ==
    /\ pc = "wait"
    /\ \A s \in Stream : ended[s]
    /\ reply
    /\ finished' = finished \cup {capture.id}
    /\ pc' = "ack"
    /\ UNCHANGED <<id, active, capture, ended, reply, armed, readVars, pipeVars, workVars,
                   wrote, published>>

Acknowledge ==
    /\ pc = "ack" /\ wpc # "dead"
    /\ down' = Append(down, [op |-> "ack", id |-> id])
    /\ active' = FALSE
    /\ pc' = "idle"
    /\ UNCHANGED <<id, capture, ended, reply, armed, readVars, up, out, workVars, histVars>>

Supervisor ==
    \/ \E op \in {"execute", "shutdown"} : Begin(op)
    \/ Send \/ Receive \/ Complete \/ Acknowledge
    \/ \E s \in Stream : Drain(s) \/ ForwardLate(s)

----------------------------------------------------------------------------
(* run() in the worker *)

\* A request whose identity is larger than any before; anything else ends it.
WorkerReceive ==
    LET r == Head(down)
        fine == r.op # "ack" /\ r.id > wid
    IN  /\ wpc = "recv" /\ down # << >>
        /\ down' = Tail(down)
        /\ wpc' = IF ~fine THEN "dead" ELSE IF r.op = "execute" THEN "eval" ELSE "run"
        /\ wid' = IF fine THEN r.id ELSE wid
        /\ retire' = (r.op = "shutdown")
        /\ winput' = 0
        /\ wrote' = [s \in Stream |-> [wrote[s] EXCEPT !.op = 0]]
        /\ UNCHANGED <<supVars, readVars, up, out, inputs, published, finished>>

\* Session::eval_input retains the input and arms it ...
WorkerArm ==
    /\ wpc = "eval"
    /\ inputs' = inputs + 1
    /\ winput' = inputs + 1
    /\ up' = Append(up, [type |-> "armed", id |-> wid, input |-> inputs + 1])
    /\ wpc' = "run"
    /\ UNCHANGED <<supVars, readVars, down, out, wid, retire, histVars>>

\* ... or refuses it before.
WorkerRefuse ==
    /\ wpc = "eval"
    /\ wpc' = "stdout"
    /\ UNCHANGED <<supVars, readVars, pipeVars, wid, winput, inputs, retire, histVars>>

\* The script, its native operations or their cleanup print.
WorkerWrite(s) ==
    /\ wpc = "run"
    /\ wrote["stdout"].op + wrote["stderr"].op < Writes
    /\ wrote' = [wrote EXCEPT ![s].op = @ + 1]
    /\ out' = [out EXCEPT ![s] = Append(@, [kind |-> "data", op |-> wid, k |-> wrote[s].op + 1])]
    /\ UNCHANGED <<supVars, readVars, down, up, workVars, published, finished>>

\* Execution ends; when cleanup failed, the worker will retire.
WorkerEnd(lost) ==
    /\ wpc = "run"
    /\ wpc' = "stdout"
    /\ retire' = (retire \/ lost)
    /\ UNCHANGED <<supVars, readVars, pipeVars, wid, winput, inputs, histVars>>

\* marker(), first on stdout, then on stderr.
WorkerMark(s) ==
    /\ wpc = s
    /\ out' = [out EXCEPT ![s] = Append(@, Marker(wid))]
    /\ wpc' = IF s = "stdout" THEN "stderr" ELSE "settle"
    /\ UNCHANGED <<supVars, readVars, down, up, wid, winput, inputs, retire, histVars>>

\* The settlement follows both markers.
WorkerSettle ==
    /\ wpc = "settle"
    /\ up' = Append(up, [type |-> "settled", id |-> wid, input |-> winput])
    /\ wpc' = "ack"
    /\ UNCHANGED <<supVars, readVars, down, out, wid, winput, inputs, retire, histVars>>

\* Nothing but the matching acknowledgement lets it go on.
WorkerAck ==
    /\ wpc = "ack" /\ down # << >>
    /\ down' = Tail(down)
    /\ wpc' = IF Head(down) = [op |-> "ack", id |-> wid] /\ ~retire THEN "recv" ELSE "dead"
    /\ UNCHANGED <<supVars, readVars, up, out, wid, winput, inputs, retire, histVars>>

WorkerDies ==
    /\ wpc # "dead"
    /\ wpc' = "dead"
    /\ UNCHANGED <<supVars, readVars, pipeVars, wid, winput, inputs, retire, histVars>>

\* A process that some cell left behind writes to a stream it inherited.
Stray(s) ==
    /\ wrote["stdout"].stray + wrote["stderr"].stray < Strays
    /\ wrote' = [wrote EXCEPT ![s].stray = @ + 1]
    /\ out' = [out EXCEPT ![s] = Append(@, [kind |-> "data", op |-> 0, k |-> wrote[s].stray + 1])]
    /\ UNCHANGED <<supVars, readVars, down, up, workVars, published, finished>>

WorkerProcess ==
    \/ WorkerReceive \/ WorkerArm \/ WorkerRefuse \/ WorkerSettle \/ WorkerAck
    \/ \E lost \in BOOLEAN : WorkerEnd(lost)
    \/ \E s \in Stream : WorkerWrite(s) \/ WorkerMark(s)

Readers == ReadControl \/ ReadersFail \/ \E s \in Stream : ReadStream(s)

Next == Supervisor \/ Fail \/ Readers \/ WorkerProcess \/ WorkerDies \/ \E s \in Stream : Stray(s)

Spec == Init /\ [][Next]_vars

\* The runtime runs the readers, the operation and its timers; the worker computes
\* and its cells end.  Nothing makes the kernel begin an operation.
Progress == Send \/ Receive \/ Complete \/ Acknowledge \/ (MustFail /\ Fail)
Fairness ==
    /\ WF_vars(Progress)
    /\ WF_vars(ReadControl) /\ WF_vars(ReadersFail) /\ WF_vars(WorkerReceive)
    /\ WF_vars(WorkerArm \/ WorkerRefuse \/ WorkerSettle \/ WorkerAck)
    /\ WF_vars(\E lost \in BOOLEAN : WorkerEnd(lost))
    /\ \A s \in Stream : WF_vars(ReadStream(s)) /\ WF_vars(Drain(s)) /\ WF_vars(WorkerMark(s))

FairSpec == Spec /\ Fairness

----------------------------------------------------------------------------
(* Properties *)

\* Capture::feed and Worker::operation: what an operation wrote is published as its
\* output or not at all, never as that of another operation or as unassociated.
NoMisattribution ==
    \A s \in Stream : \A n \in DOMAIN published[s] :
        published[s][n].item.op \in {0, published[s][n].as}

\* "Both barriers, the result and all retained output have reached the sink": when
\* the reply of an operation is handed on, all that it wrote has been published, and
\* where the limit cut it short the reader is told.
NothingLostSilently ==
    wid \in finished => \A s \in Stream : \A k \in 1 .. wrote[s].op :
        \/ [as |-> wid, item |-> [kind |-> "data", op |-> wid, k |-> k]] \in Range(published[s])
        \/ [as |-> wid, item |-> Notice(wid)] \in Range(published[s])

\* "A failed send or cancellation never clears active ownership": the worker evaluates
\* only while the capture of this very operation is in place.
OwnedWhileRunning ==
    wpc \in {"eval", "run", "stdout", "stderr", "settle"} => active /\ capture.id = wid

\* The acknowledgement: the worker takes another request only after the output and the
\* reply of its last one were handed on.
MovesOnAfterReply == wpc = "recv" /\ wid # 0 => wid \in finished

\* Every operation ends, with its reply or with an error, also when the worker dies
\* or processes it left behind hold its streams open.
OperationEnds == pc # "idle" ~> pc = "idle"

\* Worker::operation: kernel and worker agree at any moment on whose output is under way.
LinkSound == TypeOK /\ NoMisattribution /\ OwnedWhileRunning /\ MovesOnAfterReply

=============================================================================
