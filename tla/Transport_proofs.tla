-------------------------- MODULE Transport_proofs --------------------------
(***************************************************************************)
(* Proofs about what passes between the worker, the kernel and clients.    *)
(*                                                                         *)
(* WorkerLink: for any number of operations, any limit and any amount of   *)
(* output, no output is attributed to the wrong operation or lost without  *)
(* a notice, the worker evaluates only under the capture of its own        *)
(* operation, and it goes on only after its reply was handed on.           *)
(* Fanout: for any connections, limits and sizes, a publication reaches    *)
(* all its subscribers, in order, within the limits.  Intake: nobody who   *)
(* is read from waits for credits.                                         *)
(***************************************************************************)
EXTENDS WorkerLink, Fanout, Intake, FiniteSetTheorems, TLAPS

INSTANCE Data_proofs WITH Op <- Published

(***************************************************************************)
(* WorkerLink                                                              *)
(***************************************************************************)

Evaluating == {"eval", "run", "stdout", "stderr", "settle"}
Ack(i) == [op |-> "ack", id |-> i]
Req == [op |-> capture.op, id |-> capture.id]

\* The identities are ordered, and an operation in progress owns the capture.
Identities ==
    /\ wid <= capture.id /\ capture.id <= id
    /\ active => capture.id # 0
    /\ pc # "idle" => active /\ id = capture.id

\* Where the request and the acknowledgement are, as long as the worker lives.
DownEmpty == Len(down) = 0
One(r) == Len(down) = 1 /\ down[1] = r
Two(r, q) == Len(down) = 2 /\ down[1] = r /\ down[2] = q
Served == wid = 0 \/ wid \in finished
Idle == ~active /\ \/ wpc = "recv" /\ DownEmpty /\ Served
                   \/ wpc = "ack" /\ One(Ack(wid)) /\ wid \in finished
Unsent == /\ active /\ wid < capture.id /\ pc \in {"send", "idle"}
          /\ \/ wpc = "recv" /\ DownEmpty /\ Served
             \/ wpc = "ack" /\ One(Ack(wid)) /\ wid \in finished
Underway == /\ active /\ wid < capture.id /\ pc \in {"wait", "idle"}
            /\ \/ wpc = "recv" /\ One(Req) /\ Served
               \/ wpc = "ack" /\ Two(Ack(wid), Req) /\ wid \in finished
Taken == /\ active /\ wid = capture.id /\ DownEmpty
         /\ \/ wpc \in Evaluating /\ pc \in {"wait", "idle"}
            \/ wpc = "ack" /\ pc \in {"wait", "ack", "idle"}
Handover == wpc # "dead" => Idle \/ Unsent \/ Underway \/ Taken

\* A settlement means that the worker is past its markers.
FrameOK(f) ==
    /\ f.id <= wid
    /\ f.type = "settled" /\ f.id = wid => wpc \in {"ack", "recv", "dead"}
Frames ==
    /\ \A n \in DOMAIN up : FrameOK(up[n])
    /\ \A n \in DOMAIN inbox : FrameOK(inbox[n])
Replied ==
    /\ (pc \in {"send", "wait"} /\ reply) \/ pc = "ack" => wid = capture.id /\ wpc \in {"ack", "dead"}
    /\ pc = "ack" => capture.id \in finished

\* The operation saw the end of a stream only where the capture did.
Barriers ==
    \A s \in Stream :
        /\ pc # "idle" /\ ended[s] => capture.stream[s].ended
        /\ pc = "ack" => ended[s]

\* What is in a stream: output of the operation only up to its marker, and only
\* while the capture waits for it.
Opened(s) == active /\ ~capture.stream[s].ended
Unmarked(s) == /\ active /\ wpc # "dead"
               /\ wid # capture.id \/ wpc \in {"eval", "run", "stdout"}
                                   \/ (wpc = "stderr" /\ s = "stderr")
ItemOK(s, item) ==
    /\ item.op # 0 => Opened(s) /\ item.op = capture.id
    /\ item.kind = "marker" => Opened(s) /\ item = Marker(capture.id) /\ ~Unmarked(s)
Pipes ==
    \A s \in Stream :
        /\ \A n \in DOMAIN out[s] : ItemOK(s, out[s][n])
        /\ \A m, n \in DOMAIN out[s] : m < n /\ out[s][m].kind = "marker" => out[s][n].op = 0
        /\ Unmarked(s) => ~capture.stream[s].ended

\* What is kept belongs to the capture it is in, or to nobody.
Buffers ==
    \A s \in Stream :
        /\ \A n \in DOMAIN capture.stream[s].data : capture.stream[s].data[n].op \in {0, capture.id}
        /\ \A n \in DOMAIN late[s].data : late[s].data[n].op = 0

IInv == TypeOK /\ Identities /\ Handover /\ Frames /\ Replied /\ Barriers /\ Pipes
               /\ Buffers /\ NoMisattribution

USE DEF Stream

(***************************************************************************)
(* Helpers                                                                 *)
(***************************************************************************)

\* Capture::keep and Late::feed: a buffer stays one, and what it holds is what it
\* held and the new item.
LEMMA KeepBuffer ==
  ASSUME NEW b \in Buffer, NEW item \in Data
  PROVE  /\ Keep(b, item) \in Buffer
         /\ Keep(b, item).ended = b.ended
         /\ \A n \in DOMAIN Keep(b, item).data :
               Keep(b, item).data[n] = item
                 \/ \E m \in DOMAIN b.data : Keep(b, item).data[n] = b.data[m]
<1>1. CASE b.kept = Cap
  BY <1>1 DEF Keep, Buffer
<1>2. CASE b.kept # Cap
  <2>1. b.kept + 1 \in 0 .. Cap
    BY <1>2, LinkAssumption DEF Buffer
  <2> DEFINE d == Append(b.data, item)
  <2>2. d \in Seq(Data) /\ \A n \in DOMAIN d : d[n] = item \/ \E m \in DOMAIN b.data : d[n] = b.data[m]
    BY DEF Buffer
  <2>3. Keep(b, item) = [b EXCEPT !.data = d, !.kept = b.kept + 1]
    BY <1>2 DEF Keep, Buffer
  <2> HIDE DEF d
  <2> QED
    BY <2>1, <2>2, <2>3 DEF Buffer
<1> QED
  BY <1>1, <1>2

\* Capture::new: nothing kept, no marker seen.
LEMMA EmptyBuffer == Empty \in Buffer /\ Empty.data = << >> /\ ~Empty.ended
  BY LinkAssumption DEF Empty, Buffer

\* Worker::spawn establishes the invariant.
LEMMA InitHolds == Init => IInv
<1> SUFFICES ASSUME Init PROVE IInv
  OBVIOUS
<1> USE DEF Init
<1>0. [s \in Stream |-> Empty] \in [Stream -> Buffer] /\ 0 \in Ids
  BY EmptyBuffer, LinkAssumption DEF Ids
<1>5. capture \in [id : Ids, op : {"execute", "shutdown"}, stream : [Stream -> Buffer]]
  BY <1>0
<1>6. /\ late \in [Stream -> Buffer]
      /\ out \in [Stream -> Seq(Item)]
      /\ published \in [Stream -> Seq(Shown)]
      /\ wrote \in [Stream -> [op : Nat, stray : Nat]]
      /\ ended \in [Stream -> BOOLEAN]
  BY <1>0
<1>1. TypeOK
  <2> HIDE DEF Init
  <2>1. pc \in {"idle", "send", "wait", "ack"} /\ id \in Ids /\ active \in BOOLEAN /\ error \in BOOLEAN
        /\ deadline \in BOOLEAN /\ reply \in BOOLEAN /\ armed \in Nat
    BY <1>0 DEF Init
  <2>2. inbox \in Seq(Frame) /\ down \in Seq(Request) /\ up \in Seq(Frame)
    BY DEF Init
  <2>3. wpc \in {"recv", "eval", "run", "stdout", "stderr", "settle", "ack", "dead"} /\ wid \in Ids
        /\ winput \in Nat /\ inputs \in Nat /\ retire \in BOOLEAN /\ finished \in SUBSET Ids
    BY <1>0 DEF Init
  <2> QED
    BY <1>5, <1>6, <2>1, <2>2, <2>3 DEF TypeOK
<1>2. Identities /\ Handover /\ Frames /\ Replied
  BY DEF Identities, Handover, Idle, Served, DownEmpty, Frames, Replied
<1>3. Barriers /\ Pipes /\ NoMisattribution
  BY DEF Barriers, Pipes, Unmarked, NoMisattribution
<1>4. Buffers
  BY EmptyBuffer DEF Buffers
<1> QED
  BY <1>1, <1>2, <1>3, <1>4 DEF IInv

(***************************************************************************)
(* The readers                                                             *)
(***************************************************************************)

\* The control reader moves a frame and changes nothing else the invariant is about.
LEMMA ReadControlHolds == IInv /\ ReadControl => IInv'
<1> SUFFICES ASSUME IInv, ReadControl PROVE IInv'
  OBVIOUS
<1> USE DEF IInv, ReadControl, supVars, workVars, histVars
<1>0. up # << >> /\ up \in Seq(Frame) /\ inbox \in Seq(Frame)
  BY DEF TypeOK
<1>1. TypeOK'
  BY <1>0 DEF TypeOK
<1>2. Identities'
  BY DEF Identities
<1>3. Handover'
  BY DEF Handover, Idle, Unsent, Underway, Taken, Served, Req, DownEmpty, One, Two
<1>4. Frames'
  <2>1. FrameOK(Head(up))
    BY <1>0 DEF Frames
  <2>2. \A n \in DOMAIN Tail(up) : FrameOK(Tail(up)[n])
    BY <1>0 DEF Frames
  <2>3. \A n \in DOMAIN Append(inbox, Head(up)) : FrameOK(Append(inbox, Head(up))[n])
    BY <1>0, <2>1 DEF Frames
  <2> QED
    BY <2>2, <2>3 DEF Frames, FrameOK
<1>5. Replied'
  BY DEF Replied
<1>6. Barriers'
  BY DEF Barriers
<1>7. Pipes'
  BY DEF Pipes, ItemOK, Opened, Unmarked
<1>8. Buffers' /\ NoMisattribution'
  BY DEF Buffers, NoMisattribution
<1> QED
  BY <1>1, <1>2, <1>3, <1>4, <1>5, <1>6, <1>7, <1>8

\* failure() sets flags only.
LEMMA ReadersFailHolds == IInv /\ ReadersFail => IInv'
<1> SUFFICES ASSUME IInv, ReadersFail PROVE IInv'
  OBVIOUS
<1> USE DEF IInv, ReadersFail, supVars, pipeVars, workVars, histVars
<1>1. TypeOK' /\ Identities'
  BY DEF TypeOK, Identities
<1>2. Handover'
  BY DEF Handover, Idle, Unsent, Underway, Taken, Served, Req, DownEmpty, One, Two
<1>3. Frames' /\ Replied' /\ Barriers'
  BY DEF Frames, FrameOK, Replied, Barriers
<1>4. Pipes'
  BY DEF Pipes, ItemOK, Opened, Unmarked
<1>5. Buffers' /\ NoMisattribution'
  BY DEF Buffers, NoMisattribution
<1> QED
  BY <1>1, <1>2, <1>3, <1>4, <1>5

\* The heart of the matter: what a reader feeds to a capture is of its operation or of
\* nobody, and what it feeds to the late output is of nobody.
LEMMA ReadStreamHolds ==
  ASSUME IInv, NEW s \in Stream, ReadStream(s)
  PROVE  IInv'
<1> USE DEF IInv
<1> DEFINE item == Head(out[s])
           b == capture.stream[s]
           mine == active /\ ~b.ended
           mark == item = Marker(capture.id)
<1>0. /\ out[s] \in Seq(Item) /\ out[s] # << >> /\ item \in Item /\ item = out[s][1]
      /\ 1 \in DOMAIN out[s]
      /\ b \in Buffer /\ late[s] \in Buffer
  BY DEF TypeOK, ReadStream
<1>1. /\ out' = [out EXCEPT ![s] = Tail(out[s])]
      /\ late' = IF mine THEN late ELSE [late EXCEPT ![s] = Keep(late[s], item)]
      /\ UNCHANGED <<pc, id, active, ended, reply, armed, error, deadline, inbox, down, up,
                     wpc, wid, winput, inputs, retire, wrote, published, finished>>
  BY DEF ReadStream, workVars, histVars
<1>2. ItemOK(s, item)
  BY <1>0 DEF Pipes
<1>3. item.kind # "marker" => item \in Data
  BY <1>0 DEF Item, Data
<1>4. ~mine => item \in Data /\ item.op = 0
  BY <1>2, <1>3 DEF ItemOK, Opened
<1>5. mine /\ ~mark => item \in Data /\ item.op \in {0, capture.id}
  BY <1>2, <1>3 DEF ItemOK
<1> DEFINE nb == IF ~mine THEN b ELSE IF mark THEN [b EXCEPT !.ended = TRUE] ELSE Keep(b, item)
<1>6. /\ nb \in Buffer
      /\ nb.ended <=> (b.ended \/ (mine /\ mark))
      /\ \A n \in DOMAIN nb.data : nb.data[n].op \in {0, capture.id}
  <2>1. CASE ~mine
    BY <2>1, <1>0 DEF Buffers
  <2>2. CASE mine /\ mark
    BY <2>2, <1>0 DEF Buffers, Buffer
  <2>3. CASE mine /\ ~mark
    BY <2>3, <1>0, <1>5, KeepBuffer DEF Buffers
  <2> QED
    BY <2>1, <2>2, <2>3
<1>7. capture' = [capture EXCEPT !.stream = [capture.stream EXCEPT ![s] = nb]]
  BY DEF ReadStream, TypeOK
<1> HIDE DEF nb
<1>8. /\ capture' \in [id : Ids, op : {"execute", "shutdown"}, stream : [Stream -> Buffer]]
      /\ capture'.id = capture.id /\ capture'.op = capture.op
      /\ capture'.stream[s] = nb
      /\ \A t \in Stream : t # s => capture'.stream[t] = capture.stream[t]
  BY <1>6, <1>7 DEF TypeOK
<1>9. /\ late' \in [Stream -> Buffer]
      /\ \A t \in Stream : \A n \in DOMAIN late'[t].data : late'[t].data[n].op = 0
  <2>1. CASE mine
    BY <2>1, <1>1 DEF Buffers, TypeOK
  <2>2. CASE ~mine
    <3>1. late' = [late EXCEPT ![s] = Keep(late[s], item)]
      BY <2>2, <1>1
    <3>2. Keep(late[s], item) \in Buffer
          /\ \A n \in DOMAIN Keep(late[s], item).data : Keep(late[s], item).data[n].op = 0
      BY <2>2, <1>0, <1>4, KeepBuffer DEF Buffers
    <3> QED
      BY <3>1, <3>2 DEF Buffers, TypeOK
  <2> QED
    BY <2>1, <2>2
<1>10. out' \in [Stream -> Seq(Item)]
  BY <1>0, <1>1 DEF TypeOK
<1>11. TypeOK'
  BY <1>1, <1>8, <1>9, <1>10 DEF TypeOK
<1>12. Identities' /\ Frames' /\ Replied'
  BY <1>1, <1>8 DEF Identities, Frames, FrameOK, Replied
<1>13. Handover'
  BY <1>1, <1>8 DEF Handover, Idle, Unsent, Underway, Taken, Served, Req, DownEmpty, One, Two
<1>14. Barriers'
  BY <1>1, <1>6, <1>8 DEF Barriers
<1>15. Buffers'
  BY <1>6, <1>8, <1>9 DEF Buffers
<1>16. Pipes'
  <2> SUFFICES ASSUME NEW t \in Stream
               PROVE  /\ \A n \in DOMAIN out'[t] : ItemOK(t, out[t][n])'
                      /\ \A m, n \in DOMAIN out'[t] : m < n /\ out'[t][m].kind = "marker"
                           => out'[t][n].op = 0
                      /\ Unmarked(t)' => ~capture'.stream[t].ended
    BY DEF Pipes
  <2>1. CASE t # s
    <3>1. out'[t] = out[t] /\ capture'.stream[t] = capture.stream[t] /\ capture'.id = capture.id
      BY <2>1, <1>1, <1>8 DEF TypeOK
    <3>2. /\ \A x : ItemOK(t, x)' <=> ItemOK(t, x)
          /\ Unmarked(t)' <=> Unmarked(t)
      BY <1>1, <3>1 DEF ItemOK, Opened, Unmarked
    <3> QED
      BY <3>1, <3>2 DEF Pipes
  <2>2. CASE t = s
    <3>1. out'[s] = Tail(out[s])
      BY <1>1 DEF TypeOK
    <3>2. \A n \in DOMAIN out'[s] : n + 1 \in DOMAIN out[s] /\ out'[s][n] = out[s][n + 1]
                                    /\ n \in Nat /\ 1 < n + 1
      BY <3>1, <1>0
    <3>3. Unmarked(s)' = Unmarked(s)
      BY <1>1, <1>8 DEF Unmarked
    <3>4. ASSUME NEW n \in DOMAIN out'[s] PROVE ItemOK(s, out[s][n])'
      <4>1. ItemOK(s, out[s][n + 1])
        BY <3>2 DEF Pipes
      <4>2. CASE mine /\ mark
        <5>1. out[s][n + 1].op = 0
          BY <4>2, <3>2, <1>0 DEF Pipes, Marker
        <5>2. capture.id # 0
          BY <4>2 DEF Identities
        <5> QED
          BY <4>1, <5>1, <5>2, <3>2 DEF ItemOK, Marker
      <4>3. CASE ~(mine /\ mark)
        BY <4>1, <4>3, <3>2, <3>3, <1>1, <1>6, <1>8 DEF ItemOK, Opened
      <4> QED
        BY <4>2, <4>3
    <3>5. \A m, n \in DOMAIN out'[s] : m < n /\ out'[s][m].kind = "marker" => out'[s][n].op = 0
      BY <3>2 DEF Pipes
    <3>6. Unmarked(s)' => ~capture'.stream[s].ended
      <4>1. mine /\ mark => ~Unmarked(s)
        BY <1>2 DEF ItemOK, Marker
      <4> QED
        BY <4>1, <3>3, <1>6, <1>8 DEF Pipes
    <3> QED
      BY <2>2, <3>4, <3>5, <3>6
  <2> QED
    BY <2>1, <2>2
<1>17. NoMisattribution'
  BY <1>1 DEF NoMisattribution
<1> QED
  BY <1>11, <1>12, <1>13, <1>14, <1>15, <1>16, <1>17

(***************************************************************************)
(* The operation                                                           *)
(***************************************************************************)

\* An operation begins only when the streams are nobody's: all that is in them is of nobody.
LEMMA BeginHolds ==
  ASSUME IInv, NEW op \in {"execute", "shutdown"}, Begin(op)
  PROVE  IInv'
<1> USE DEF IInv
<1>0. /\ pc = "idle" /\ deadline' = FALSE
      /\ UNCHANGED <<late, error, inbox, down, up, out, wpc, wid, winput, inputs, retire,
                     wrote, published, finished>>
  BY DEF Begin, pipeVars, workVars, histVars
<1> DEFINE alive == ~error /\ id < MaxId
<1>1. /\ id' \in Ids /\ id' \in Nat /\ id \in Nat /\ wid \in Nat /\ capture.id \in Nat
           /\ wid <= id /\ id <= id'
      /\ alive => id' = id + 1
  BY LinkAssumption DEF Begin, TypeOK, Ids, Identities
<1>2. CASE ~alive \/ active
  <2>0. UNCHANGED <<pc, active, capture, ended, reply, armed>>
    BY <1>2 DEF Begin
  <2>1. TypeOK'
    BY <2>0, <1>0, <1>1 DEF TypeOK
  <2>2. Identities' /\ Frames' /\ Replied' /\ Barriers'
    BY <2>0, <1>0, <1>1 DEF Identities, Frames, FrameOK, Replied, Barriers
  <2>3. Handover'
    BY <2>0, <1>0 DEF Handover, Idle, Unsent, Underway, Taken, Served, Req, DownEmpty, One, Two
  <2>4. Pipes' /\ Buffers' /\ NoMisattribution'
    BY <2>0, <1>0 DEF Pipes, ItemOK, Opened, Unmarked, Buffers, NoMisattribution
  <2> QED
    BY <2>1, <2>2, <2>3, <2>4
<1>3. CASE alive /\ ~active
  <2>0. /\ active' = TRUE /\ pc' = "send"
        /\ capture' = [id |-> id + 1, op |-> op, stream |-> [t \in Stream |-> Empty]]
        /\ ended' = [t \in Stream |-> FALSE] /\ reply' = FALSE /\ armed' = 0
    BY <1>3 DEF Begin
  <2>1. /\ capture' \in [id : Ids, op : {"execute", "shutdown"}, stream : [Stream -> Buffer]]
        /\ capture'.id = id + 1
        /\ \A t \in Stream : capture'.stream[t] = Empty
    BY <2>0, <1>0, <1>1, <1>3, EmptyBuffer
  <2>2. TypeOK'
    BY <2>0, <2>1, <1>0, <1>1 DEF TypeOK
  <2>3. Identities'
    BY <2>0, <2>1, <1>0, <1>1, <1>3 DEF Identities
  <2>4. Frames' /\ Replied' /\ Barriers'
    BY <2>0, <2>1, <1>0 DEF Frames, FrameOK, Replied, Barriers
  <2>5. Handover'
    <3>1. wpc # "dead" => Idle
      BY <1>3 DEF Handover, Unsent, Underway, Taken
    <3> QED
      BY <3>1, <2>0, <2>1, <1>0, <1>1 DEF Handover, Idle, Unsent, Served, DownEmpty, One
  <2>6. Pipes'
    <3>1. \A t \in Stream : \A n \in DOMAIN out[t] : out[t][n].op = 0 /\ out[t][n].kind # "marker"
      BY <1>3 DEF Pipes, ItemOK, Opened
    <3> QED
      BY <3>1, <2>0, <2>1, <1>0, EmptyBuffer DEF Pipes, ItemOK
  <2>7. Buffers' /\ NoMisattribution'
    BY <2>1, <1>0, EmptyBuffer DEF Buffers, NoMisattribution
  <2> QED
    BY <2>2, <2>3, <2>4, <2>5, <2>6, <2>7
<1> QED
  BY <1>2, <1>3

\* The request follows the acknowledgement of the last operation, if that is still in the pipe.
LEMMA SendHolds == ASSUME IInv, Send PROVE IInv'
<1> USE DEF IInv
<1>0. /\ pc = "send" /\ wpc # "dead" /\ pc' = "wait" /\ down' = Append(down, Req)
      /\ UNCHANGED <<id, active, capture, ended, reply, armed, late, error, deadline, inbox, up, out,
                     wpc, wid, winput, inputs, retire, wrote, published, finished>>
  BY DEF Send, Req, readVars, workVars, histVars
<1>9. Req \in Request /\ Ack(wid) \in Request
  BY DEF Req, Ack, Request, TypeOK
<1>1. TypeOK'
  <2>1. down' \in Seq(Request)
    BY <1>0, <1>9 DEF TypeOK
  <2> QED
    BY <1>0, <2>1 DEF TypeOK
<1>2. Identities' /\ Frames' /\ Replied' /\ Barriers'
  BY <1>0 DEF Identities, Frames, FrameOK, Replied, Barriers
<1>3. Handover'
  <2>1. Unsent
    BY <1>0 DEF Handover, Idle, Underway, Taken, Identities
  <2>2. down' \in Seq(Request) /\ Len(down') = Len(down) + 1 /\ down'[Len(down) + 1] = Req
        /\ \A n \in 1 .. Len(down) : down'[n] = down[n]
    BY <1>0, <1>9 DEF TypeOK
  <2>3. UNCHANGED <<Req, Served>>
    BY <1>0 DEF Req, Served
  <2> QED
    BY <2>1, <2>2, <2>3, <1>0 DEF Handover, Unsent, Underway, DownEmpty, One, Two
<1>4. Pipes' /\ Buffers' /\ NoMisattribution'
  BY <1>0 DEF Pipes, ItemOK, Opened, Unmarked, Buffers, NoMisattribution
<1> QED
  BY <1>1, <1>2, <1>3, <1>4

\* What is published for an operation comes from its own capture.
LEMMA DrainHolds ==
  ASSUME IInv, NEW s \in Stream, Drain(s)
  PROVE  IInv'
<1> USE DEF IInv
<1> DEFINE b == capture.stream[s]
<1>0. /\ pc = "wait" /\ (b.data # << >> \/ b.ended)
      /\ UNCHANGED <<pc, id, active, reply, armed, late, error, deadline, inbox, down, up, out,
                     wpc, wid, winput, inputs, retire, wrote, finished>>
  BY DEF Drain, readVars, pipeVars, workVars
<1>1. b \in Buffer /\ b.data \in Seq(Data) /\ capture.id \in Ids /\ published[s] \in Seq(Shown)
  BY DEF TypeOK, Buffer
<1>2. PICK show \in Seq(Shown) :
        /\ published' = [published EXCEPT ![s] = published[s] \o show]
        /\ \A n \in DOMAIN show : show[n].as = capture.id /\ show[n].item.op \in {0, capture.id}
  <2>1. CASE b.data # << >>
    <3>1. Head(b.data) \in Data /\ Head(b.data).op \in {0, capture.id}
      BY <2>1, <1>1 DEF Buffers
    <3> DEFINE x == [as |-> capture.id, item |-> Head(b.data)]
    <3>2. x \in Shown /\ x.as = capture.id /\ x.item.op \in {0, capture.id}
      BY <3>1, <1>1 DEF Shown, Data
    <3>3. published' = [published EXCEPT ![s] = published[s] \o <<x>>]
      BY <2>1 DEF Drain
    <3> HIDE DEF x
    <3>4. <<x>> \in Seq(Shown) /\ \A n \in DOMAIN <<x>> : <<x>>[n] = x
      BY <3>2
    <3> QED
      BY <3>2, <3>3, <3>4
  <2>2. CASE b.data = << >> /\ b.discarded > 0
    <3> DEFINE x == [as |-> capture.id, item |-> Notice(capture.id)]
    <3>1. x \in Shown /\ x.as = capture.id /\ x.item.op = capture.id
      BY <1>1 DEF Shown, Notice
    <3>2. published' = [published EXCEPT ![s] = published[s] \o <<x>>]
      BY <2>2 DEF Drain
    <3> HIDE DEF x
    <3>3. <<x>> \in Seq(Shown) /\ \A n \in DOMAIN <<x>> : <<x>>[n] = x
      BY <3>1
    <3> QED
      BY <3>1, <3>2, <3>3
  <2>3. CASE b.data = << >> /\ ~(b.discarded > 0)
    <3>1. published' = [published EXCEPT ![s] = published[s] \o << >>]
      BY <2>3 DEF Drain
    <3>2. << >> \in Seq(Shown) /\ DOMAIN << >> = {}
      OBVIOUS
    <3> QED
      BY <3>1, <3>2
  <2> QED
    BY <2>1, <2>2, <2>3
<1>3. published' \in [Stream -> Seq(Shown)] /\ NoMisattribution'
  <2>1. published[s] \o show \in Seq(Shown)
    BY <1>1
  <2>2. published' \in [Stream -> Seq(Shown)]
    BY <2>1, <1>2 DEF TypeOK
  <2>3. \A n \in DOMAIN (published[s] \o show) :
           (published[s] \o show)[n].item.op \in {0, (published[s] \o show)[n].as}
    <3> TAKE n \in DOMAIN (published[s] \o show)
    <3>1. CASE n \in DOMAIN published[s]
      <4>1. (published[s] \o show)[n] = published[s][n]
        BY <3>1, <1>1
      <4> QED
        BY <4>1, <3>1 DEF NoMisattribution
    <3>2. CASE n \notin DOMAIN published[s]
      <4>1. n - Len(published[s]) \in DOMAIN show
            /\ (published[s] \o show)[n] = show[n - Len(published[s])]
        BY <3>2, <1>1
      <4> QED
        BY <4>1, <1>2
    <3> QED
      BY <3>1, <3>2
  <2> QED
    BY <2>2, <2>3, <1>2 DEF NoMisattribution, TypeOK
<1>4. /\ capture' \in [id : Ids, op : {"execute", "shutdown"}, stream : [Stream -> Buffer]]
      /\ ended' \in [Stream -> BOOLEAN]
      /\ capture'.id = capture.id /\ capture'.op = capture.op
      /\ \A t \in Stream : /\ capture'.stream[t].ended = capture.stream[t].ended
                           /\ \A n \in DOMAIN capture'.stream[t].data :
                                 capture'.stream[t].data[n].op \in {0, capture.id}
                           /\ ended'[t] => ended[t] \/ capture.stream[t].ended
  <2>1. CASE b.data # << >>
    <3> DEFINE nb == [b EXCEPT !.data = Tail(b.data)]
    <3>0. Tail(b.data) \in Seq(Data)
      BY <2>1, <1>1
    <3>1. nb \in Buffer /\ nb.ended = b.ended /\ nb.data = Tail(b.data)
      BY <3>0, <1>1 DEF Buffer
    <3>2. \A n \in DOMAIN nb.data : nb.data[n].op \in {0, capture.id}
      BY <3>1, <2>1, <1>1 DEF Buffers
    <3>3. capture' = [capture EXCEPT !.stream = [capture.stream EXCEPT ![s] = nb]] /\ ended' = ended
      BY <2>1 DEF Drain, TypeOK
    <3> HIDE DEF nb
    <3>4. /\ capture' \in [id : Ids, op : {"execute", "shutdown"}, stream : [Stream -> Buffer]]
          /\ capture'.id = capture.id /\ capture'.op = capture.op
          /\ capture'.stream[s] = nb
          /\ \A t \in Stream : t # s => capture'.stream[t] = capture.stream[t]
      BY <3>1, <3>3 DEF TypeOK
    <3>5. ended' \in [Stream -> BOOLEAN] /\ \A t \in Stream : ended'[t] => ended[t]
      BY <3>3 DEF TypeOK
    <3>6. \A t \in Stream : capture'.stream[t].ended = capture.stream[t].ended
      BY <3>1, <3>4
    <3>7. \A t \in Stream : \A n \in DOMAIN capture'.stream[t].data :
             capture'.stream[t].data[n].op \in {0, capture.id}
      BY <3>2, <3>4 DEF Buffers
    <3> QED
      BY <3>4, <3>5, <3>6, <3>7
  <2>2. CASE b.data = << >>
    <3>1. capture' = capture /\ ended' = [ended EXCEPT ![s] = TRUE]
      BY <2>2 DEF Drain
    <3> QED
      BY <3>1, <2>2, <1>0 DEF Buffers, TypeOK
  <2> QED
    BY <2>1, <2>2
<1>5. TypeOK'
  BY <1>0, <1>3, <1>4 DEF TypeOK
<1>6. Identities' /\ Frames' /\ Replied'
  BY <1>0, <1>4 DEF Identities, Frames, FrameOK, Replied
<1>7. Handover'
  BY <1>0, <1>4 DEF Handover, Idle, Unsent, Underway, Taken, Served, Req, DownEmpty, One, Two
<1>8. Barriers'
  BY <1>0, <1>4 DEF Barriers
<1>9. Pipes'
  BY <1>0, <1>4 DEF Pipes, ItemOK, Opened, Unmarked
<1>10. Buffers'
  BY <1>0, <1>4 DEF Buffers
<1> QED
  BY <1>3, <1>5, <1>6, <1>7, <1>8, <1>9, <1>10

\* What is published as unassociated comes from the late output.
LEMMA ForwardLateHolds ==
  ASSUME IInv, NEW s \in Stream, ForwardLate(s)
  PROVE  IInv'
<1> USE DEF IInv
<1> DEFINE b == late[s]
           notice == b.data = << >> /\ b.discarded > 0 /\ ~b.ended
           shown == [as |-> 0, item |-> IF notice THEN Notice(0) ELSE Head(b.data)]
           nb == IF notice THEN [b EXCEPT !.ended = TRUE] ELSE [b EXCEPT !.data = Tail(@)]
<1>0. /\ b.data # << >> \/ notice
      /\ published' = [published EXCEPT ![s] = Append(published[s], shown)]
      /\ late' = [late EXCEPT ![s] = nb]
      /\ UNCHANGED <<pc, id, active, capture, ended, reply, armed, error, deadline, inbox, down, up,
                     out, wpc, wid, winput, inputs, retire, wrote, finished>>
  BY DEF ForwardLate, supVars, pipeVars, workVars
<1>1. b \in Buffer /\ b.data \in Seq(Data) /\ published[s] \in Seq(Shown) /\ 0 \in Ids
  <2>1. b \in Buffer /\ published[s] \in Seq(Shown)
    BY DEF TypeOK
  <2>2. b.data \in Seq(Data)
    BY <2>1 DEF Buffer
  <2> QED
    BY <2>1, <2>2, LinkAssumption DEF Ids
<1>2. shown \in Shown /\ shown.item.op = 0 /\ shown.as = 0
  <2>1. CASE notice
    BY <2>1, <1>1 DEF Shown, Notice
  <2>2. CASE ~notice
    <3>1. Head(b.data) \in Data /\ Head(b.data).op = 0
      BY <2>2, <1>0, <1>1 DEF Buffers
    <3> QED
      BY <2>2, <3>1, <1>1 DEF Shown, Data
  <2> QED
    BY <2>1, <2>2
<1>3. nb \in Buffer /\ \A n \in DOMAIN nb.data : nb.data[n].op = 0
  <2>1. CASE notice
    BY <2>1, <1>1 DEF Buffer, Buffers
  <2>2. CASE ~notice
    <3>1. Tail(b.data) \in Seq(Data) /\ \A n \in DOMAIN Tail(b.data) : Tail(b.data)[n].op = 0
      BY <2>2, <1>0, <1>1 DEF Buffers
    <3>2. nb = [b EXCEPT !.data = Tail(b.data)]
      BY <2>2
    <3> QED
      BY <3>1, <3>2, <1>1 DEF Buffer
  <2> QED
    BY <2>1, <2>2
<1> HIDE DEF shown, nb
<1>4. published' \in [Stream -> Seq(Shown)] /\ late' \in [Stream -> Buffer]
  BY <1>0, <1>1, <1>2, <1>3 DEF TypeOK
<1>5. TypeOK'
  BY <1>0, <1>4 DEF TypeOK
<1>6. NoMisattribution'
  <2>1. \A n \in DOMAIN Append(published[s], shown) :
           Append(published[s], shown)[n].item.op \in {0, Append(published[s], shown)[n].as}
    BY <1>1, <1>2 DEF NoMisattribution
  <2> QED
    BY <2>1, <1>0 DEF NoMisattribution, TypeOK
<1>7. Buffers'
  BY <1>0, <1>3 DEF Buffers, TypeOK
<1>8. Identities' /\ Frames' /\ Replied' /\ Barriers'
  BY <1>0 DEF Identities, Frames, FrameOK, Replied, Barriers
<1>9. Handover'
  BY <1>0 DEF Handover, Idle, Unsent, Underway, Taken, Served, Req, DownEmpty, One, Two
<1>10. Pipes'
  BY <1>0 DEF Pipes, ItemOK, Opened, Unmarked
<1> QED
  BY <1>5, <1>6, <1>7, <1>8, <1>9, <1>10

\* A settlement that is expected is that of the operation, and the worker waits for the acknowledgement.
LEMMA ReceiveHolds == ASSUME IInv, Receive PROVE IInv'
<1> USE DEF IInv
<1> DEFINE f == Head(inbox)
<1>0. /\ pc = "wait" /\ inbox # << >> /\ f.id = id /\ inbox' = Tail(inbox)
      /\ f.type = "settled" \/ (f.type = "armed" /\ reply' = reply)
      /\ UNCHANGED <<pc, id, active, capture, ended, late, error, deadline, down, up, out,
                     wpc, wid, winput, inputs, retire, wrote, published, finished>>
  BY DEF Receive, Expected, pipeVars, workVars, histVars
<1>1. inbox \in Seq(Frame) /\ f \in Frame
  BY <1>0 DEF TypeOK
<1>2. armed' \in Nat /\ reply' \in BOOLEAN
  <2>1. f.input \in Nat /\ armed \in Nat /\ reply \in BOOLEAN
    BY <1>1 DEF Frame, TypeOK
  <2> QED
    BY <2>1 DEF Receive
<1>3. TypeOK'
  <2>1. inbox' \in Seq(Frame)
    BY <1>0, <1>1
  <2> QED
    BY <2>1, <1>0, <1>2 DEF TypeOK
<1>4. Identities' /\ Barriers'
  BY <1>0 DEF Identities, Barriers
<1>5. Frames'
  <2>1. \A n \in DOMAIN Tail(inbox) : FrameOK(Tail(inbox)[n])
    BY <1>0, <1>1 DEF Frames
  <2> QED
    BY <2>1, <1>0 DEF Frames, FrameOK
<1>6. Replied'
  <2>1. CASE f.type = "armed"
    BY <2>1, <1>0 DEF Replied
  <2>2. CASE f.type = "settled"
    <3>1. FrameOK(f)
      BY <1>0, <1>1 DEF Frames
    <3>2. active /\ f.id = capture.id
      BY <1>0 DEF Identities
    <3>3. f.id \in Nat /\ wid \in Nat /\ capture.id \in Nat
      BY <3>2 DEF TypeOK, Ids
    <3>4. wid = capture.id
      BY <3>1, <3>2, <3>3 DEF FrameOK, Identities
    <3>5. wpc \in {"ack", "recv", "dead"}
      BY <3>1, <3>2, <3>4, <2>2 DEF FrameOK
    <3>6. wpc # "recv"
      BY <3>2, <3>3, <3>4 DEF Handover, Idle, Unsent, Underway, Taken, Evaluating
    <3> QED
      BY <3>4, <3>5, <3>6, <1>0 DEF Replied
  <2> QED
    BY <2>1, <2>2, <1>0
<1>7. Handover'
  BY <1>0 DEF Handover, Idle, Unsent, Underway, Taken, Served, Req, DownEmpty, One, Two
<1>8. Pipes' /\ Buffers' /\ NoMisattribution'
  BY <1>0 DEF Pipes, ItemOK, Opened, Unmarked, Buffers, NoMisattribution
<1> QED
  BY <1>3, <1>4, <1>5, <1>6, <1>7, <1>8

\* An operation that fails stays the owner of the streams.
LEMMA FailHolds == ASSUME IInv, Fail PROVE IInv'
<1> USE DEF IInv
<1>0. /\ pc' = "idle" /\ inbox' = IF Unexpected THEN Tail(inbox) ELSE inbox
      /\ UNCHANGED <<id, active, capture, ended, reply, armed, late, error, deadline, down, up, out,
                     wpc, wid, winput, inputs, retire, wrote, published, finished>>
  BY DEF Fail, pipeVars, workVars, histVars
<1>1. inbox' \in Seq(Frame) /\ \A n \in DOMAIN inbox' : \E m \in DOMAIN inbox : inbox'[n] = inbox[m]
  <2>1. CASE Unexpected
    <3>1. inbox # << >> /\ inbox \in Seq(Frame) /\ inbox' = Tail(inbox)
      BY <2>1, <1>0 DEF Unexpected, TypeOK
    <3> QED
      BY <3>1
  <2>2. CASE ~Unexpected
    BY <2>2, <1>0 DEF TypeOK
  <2> QED
    BY <2>1, <2>2
<1>2. TypeOK'
  BY <1>0, <1>1 DEF TypeOK
<1>3. Identities' /\ Replied' /\ Barriers'
  BY <1>0 DEF Identities, Replied, Barriers
<1>4. Frames'
  BY <1>0, <1>1 DEF Frames, FrameOK
<1>5. Handover'
  BY <1>0 DEF Handover, Idle, Unsent, Underway, Taken, Served, Req, DownEmpty, One, Two
<1>6. Pipes' /\ Buffers' /\ NoMisattribution'
  BY <1>0 DEF Pipes, ItemOK, Opened, Unmarked, Buffers, NoMisattribution
<1> QED
  BY <1>2, <1>3, <1>4, <1>5, <1>6

\* With both barriers and the settlement the operation hands on its reply and stays the owner.
LEMMA CompleteHolds == ASSUME IInv, Complete PROVE IInv'
<1> USE DEF IInv
<1>0. /\ pc = "wait" /\ reply /\ pc' = "ack" /\ finished' = finished \cup {capture.id}
      /\ \A s \in Stream : ended[s]
      /\ UNCHANGED <<id, active, capture, ended, reply, armed, late, error, deadline, inbox, down, up,
                     out, wpc, wid, winput, inputs, retire, wrote, published>>
  BY DEF Complete, readVars, pipeVars, workVars
<1>1. TypeOK'
  BY <1>0 DEF TypeOK
<1>2. Identities' /\ Frames' /\ Replied' /\ Barriers'
  BY <1>0 DEF Identities, Frames, FrameOK, Replied, Barriers
<1>3. Handover'
  <2>1. active /\ wid = capture.id /\ wpc \in {"ack", "dead"}
    BY <1>0 DEF Identities, Replied
  <2>2. wid \in Nat
    BY DEF TypeOK, Ids
  <2>3. wpc # "dead" => Taken
    BY <2>1, <2>2 DEF Handover, Idle, Unsent, Underway
  <2> QED
    BY <2>1, <2>3, <1>0 DEF Handover, Taken, DownEmpty
<1>4. Pipes' /\ Buffers' /\ NoMisattribution'
  BY <1>0 DEF Pipes, ItemOK, Opened, Unmarked, Buffers, NoMisattribution
<1> QED
  BY <1>1, <1>2, <1>3, <1>4

\* Ownership ends only here, when the marker of the operation has left both streams.
LEMMA AcknowledgeHolds == ASSUME IInv, Acknowledge PROVE IInv'
<1> USE DEF IInv
<1>0. /\ pc = "ack" /\ wpc # "dead" /\ pc' = "idle" /\ active' = FALSE /\ down' = Append(down, Ack(id))
      /\ UNCHANGED <<id, capture, ended, reply, armed, late, error, deadline, inbox, up, out,
                     wpc, wid, winput, inputs, retire, wrote, published, finished>>
  BY DEF Acknowledge, Ack, readVars, workVars, histVars
<1>1. Ack(id) \in Request
  BY DEF Ack, Request, TypeOK
<1>2. down' \in Seq(Request) /\ Len(down') = Len(down) + 1 /\ down'[Len(down) + 1] = Ack(id)
  BY <1>0, <1>1 DEF TypeOK
<1>3. TypeOK'
  BY <1>0, <1>2 DEF TypeOK
<1>4. Identities' /\ Frames' /\ Replied' /\ Barriers'
  BY <1>0 DEF Identities, Frames, FrameOK, Replied, Barriers
<1>5. Handover'
  <2>1. active /\ wid = capture.id /\ id = wid /\ wpc = "ack" /\ wid \in finished /\ wid \in Nat
    BY <1>0 DEF Identities, Replied, TypeOK, Ids
  <2>2. Len(down) = 0
    BY <2>1 DEF Handover, Idle, Unsent, Underway, Taken, DownEmpty
  <2>3. Idle'
    BY <2>1, <2>2, <1>0, <1>2 DEF Idle, One
  <2> QED
    BY <2>3 DEF Handover
<1>6. Pipes'
  <2>1. \A s \in Stream : ~Opened(s)
    BY <1>0 DEF Barriers, Opened
  <2>2. \A s \in Stream : \A n \in DOMAIN out[s] : out[s][n].op = 0 /\ out[s][n].kind # "marker"
    BY <2>1 DEF Pipes, ItemOK
  <2> QED
    BY <2>2, <1>0 DEF Pipes, ItemOK, Unmarked
<1>7. Buffers' /\ NoMisattribution'
  BY <1>0 DEF Buffers, NoMisattribution
<1> QED
  BY <1>3, <1>4, <1>5, <1>6, <1>7

(***************************************************************************)
(* The worker                                                              *)
(***************************************************************************)

\* The only request a waiting worker can find is that of the current operation.
LEMMA WorkerReceiveHolds == ASSUME IInv, WorkerReceive PROVE IInv'
<1> USE DEF IInv
<1>0. /\ wpc = "recv" /\ down # << >> /\ down' = Tail(down)
      /\ UNCHANGED <<pc, id, active, capture, ended, reply, armed, late, error, deadline, inbox, up, out,
                     inputs, published, finished>>
  BY DEF WorkerReceive, supVars, readVars
<1>1. down \in Seq(Request) /\ Len(down) # 0 /\ wid \in Nat /\ capture.id \in Nat
  BY <1>0 DEF TypeOK, Ids
<1>2. Underway /\ One(Req)
  BY <1>0, <1>1 DEF Handover, Idle, Unsent, Underway, Taken, DownEmpty, Evaluating
<1>3. Head(down) = Req /\ Req.op \in {"execute", "shutdown"} /\ Req.id = capture.id /\ wid < capture.id
  BY <1>0, <1>1, <1>2 DEF One, Req, Underway, TypeOK
<1>4. wpc' \in {"eval", "run"} /\ wid' = capture.id /\ winput' = 0 /\ retire' \in BOOLEAN
  BY <1>3, <1>1 DEF WorkerReceive
<1>5. down' \in Seq(Request) /\ Len(down') = 0
  BY <1>0, <1>1, <1>2 DEF One
<1>6. wrote' \in [Stream -> [op : Nat, stray : Nat]]
  <2>1. \A s \in Stream : [wrote[s] EXCEPT !.op = 0] \in [op : Nat, stray : Nat]
    BY DEF TypeOK
  <2> QED
    BY <2>1 DEF WorkerReceive
<1>7. TypeOK'
  BY <1>0, <1>4, <1>5, <1>6 DEF TypeOK
<1>8. pc \in {"wait", "idle"} /\ active /\ wid # capture.id
  BY <1>1, <1>2 DEF Underway
<1>9. Identities' /\ Replied' /\ Barriers'
  BY <1>0, <1>1, <1>4, <1>8 DEF Identities, Replied, Barriers
<1>10. Frames'
  <2>1. \A g \in Frame : FrameOK(g) => g.id < capture.id
    BY <1>1, <1>3 DEF FrameOK, Frame, Ids
  <2>2. \A n \in DOMAIN up : up[n] \in Frame
    BY DEF TypeOK
  <2>3. \A n \in DOMAIN inbox : inbox[n] \in Frame
    BY DEF TypeOK
  <2>4. \A g \in Frame : g.id < capture.id => FrameOK(g)'
    BY <1>1, <1>4 DEF FrameOK, Frame, Ids
  <2> QED
    BY <2>1, <2>2, <2>3, <2>4, <1>0 DEF Frames
<1>11. Handover'
  BY <1>0, <1>4, <1>5, <1>8 DEF Handover, Taken, DownEmpty, Evaluating
<1>12. Pipes'
  <2>1. \A s \in Stream : Unmarked(s) /\ Unmarked(s)'
    BY <1>0, <1>4, <1>8 DEF Unmarked
  <2> QED
    BY <2>1, <1>0 DEF Pipes, ItemOK, Opened
<1>13. Buffers' /\ NoMisattribution'
  BY <1>0 DEF Buffers, NoMisattribution
<1> QED
  BY <1>7, <1>9, <1>10, <1>11, <1>12, <1>13

\* A worker that evaluates does so for the operation that owns the streams.
LEMMA EvaluatingTaken ==
  ASSUME IInv, wpc \in Evaluating
  PROVE  Taken /\ active /\ wid = capture.id /\ pc \in {"wait", "idle"}
         /\ (reply => pc = "idle") /\ wid \in Nat /\ wid # 0 /\ Len(down) = 0
<1> USE DEF IInv
<1>1. Taken
  BY DEF Handover, Idle, Unsent, Underway, Evaluating
<1> QED
  BY <1>1 DEF Taken, Evaluating, Replied, Identities, DownEmpty, TypeOK, Ids

\* The armed frame carries the identity of the operation.
LEMMA WorkerArmHolds == ASSUME IInv, WorkerArm PROVE IInv'
<1> USE DEF IInv
<1> DEFINE f == [type |-> "armed", id |-> wid, input |-> inputs + 1]
<1>0. /\ wpc = "eval" /\ wpc' = "run" /\ inputs' = inputs + 1 /\ winput' = inputs + 1
      /\ up' = Append(up, f)
      /\ UNCHANGED <<pc, id, active, capture, ended, reply, armed, late, error, deadline, inbox, down,
                     out, wid, retire, wrote, published, finished>>
  BY DEF WorkerArm, supVars, readVars, histVars
<1>1. Taken /\ wid = capture.id /\ pc \in {"wait", "idle"} /\ (reply => pc = "idle") /\ wid \in Nat
  BY <1>0, EvaluatingTaken DEF Evaluating
<1>2. f \in Frame /\ f.type = "armed" /\ f.id = wid
  BY DEF Frame, TypeOK
<1> HIDE DEF f
<1>3. TypeOK'
  <2>1. up' \in Seq(Frame) /\ inputs' \in Nat /\ winput' \in Nat
    BY <1>0, <1>2 DEF TypeOK
  <2> QED
    BY <2>1, <1>0 DEF TypeOK
<1>4. Identities' /\ Replied' /\ Barriers'
  BY <1>0, <1>1 DEF Identities, Replied, Barriers
<1>5. Frames'
  <2>1. \A g : FrameOK(g) => FrameOK(g)'
    BY <1>0 DEF FrameOK
  <2>2. FrameOK(f)
    BY <1>1, <1>2 DEF FrameOK
  <2>3. \A n \in DOMAIN Append(up, f) : FrameOK(Append(up, f)[n])
    BY <2>2, <1>2 DEF Frames, TypeOK
  <2> QED
    BY <2>1, <2>3, <1>0 DEF Frames
<1>6. Handover'
  BY <1>0, <1>1 DEF Handover, Taken, Evaluating, DownEmpty
<1>7. Pipes'
  <2>1. \A s \in Stream : Unmarked(s)' <=> Unmarked(s)
    BY <1>0, <1>1 DEF Unmarked
  <2> QED
    BY <2>1, <1>0 DEF Pipes, ItemOK, Opened
<1>8. Buffers' /\ NoMisattribution'
  BY <1>0 DEF Buffers, NoMisattribution
<1> QED
  BY <1>3, <1>4, <1>5, <1>6, <1>7, <1>8

\* A refused input goes straight to its markers.
LEMMA WorkerRefuseHolds == ASSUME IInv, WorkerRefuse PROVE IInv'
<1> USE DEF IInv
<1>0. /\ wpc = "eval" /\ wpc' = "stdout"
      /\ UNCHANGED <<pc, id, active, capture, ended, reply, armed, late, error, deadline, inbox, down,
                     up, out, wid, winput, inputs, retire, wrote, published, finished>>
  BY DEF WorkerRefuse, supVars, readVars, pipeVars, histVars
<1>1. Taken /\ wid = capture.id /\ pc \in {"wait", "idle"} /\ (reply => pc = "idle")
  BY <1>0, EvaluatingTaken DEF Evaluating
<1>2. TypeOK'
  BY <1>0 DEF TypeOK
<1>3. Identities' /\ Frames' /\ Replied' /\ Barriers'
  BY <1>0, <1>1 DEF Identities, Frames, FrameOK, Replied, Barriers
<1>4. Handover'
  BY <1>0, <1>1 DEF Handover, Taken, Evaluating, DownEmpty
<1>5. Pipes'
  <2>1. \A s \in Stream : Unmarked(s)' <=> Unmarked(s)
    BY <1>0, <1>1 DEF Unmarked
  <2> QED
    BY <2>1, <1>0 DEF Pipes, ItemOK, Opened
<1>6. Buffers' /\ NoMisattribution'
  BY <1>0 DEF Buffers, NoMisattribution
<1> QED
  BY <1>2, <1>3, <1>4, <1>5, <1>6

\* The end of execution leads to the markers.
LEMMA WorkerEndHolds ==
  ASSUME IInv, NEW lost \in BOOLEAN, WorkerEnd(lost)
  PROVE  IInv'
<1> USE DEF IInv
<1>0. /\ wpc = "run" /\ wpc' = "stdout"
      /\ UNCHANGED <<pc, id, active, capture, ended, reply, armed, late, error, deadline, inbox, down,
                     up, out, wid, winput, inputs, wrote, published, finished>>
  BY DEF WorkerEnd, supVars, readVars, pipeVars, histVars
<1>1. Taken /\ wid = capture.id /\ pc \in {"wait", "idle"} /\ (reply => pc = "idle")
  BY <1>0, EvaluatingTaken DEF Evaluating
<1>2. TypeOK'
  <2>1. retire' \in BOOLEAN
    BY DEF WorkerEnd, TypeOK
  <2> QED
    BY <2>1, <1>0 DEF TypeOK
<1>3. Identities' /\ Frames' /\ Replied' /\ Barriers'
  BY <1>0, <1>1 DEF Identities, Frames, FrameOK, Replied, Barriers
<1>4. Handover'
  BY <1>0, <1>1 DEF Handover, Taken, Evaluating, DownEmpty
<1>5. Pipes'
  <2>1. \A s \in Stream : Unmarked(s)' <=> Unmarked(s)
    BY <1>0, <1>1 DEF Unmarked
  <2> QED
    BY <2>1, <1>0 DEF Pipes, ItemOK, Opened
<1>6. Buffers' /\ NoMisattribution'
  BY <1>0 DEF Buffers, NoMisattribution
<1> QED
  BY <1>2, <1>3, <1>4, <1>5, <1>6

\* An item appended to a stream: the items before it keep their places.
LEMMA Appended ==
  ASSUME TypeOK, NEW s \in Stream, NEW item \in Item, out' = [out EXCEPT ![s] = Append(out[s], item)]
  PROVE  /\ out' \in [Stream -> Seq(Item)]
         /\ \A t \in Stream : t # s => out'[t] = out[t]
         /\ \A n \in DOMAIN out'[s] : \/ n \in DOMAIN out[s] /\ out'[s][n] = out[s][n]
                                      \/ n = Len(out[s]) + 1 /\ out'[s][n] = item
         /\ DOMAIN out[s] = 1 .. Len(out[s]) /\ Len(out[s]) \in Nat
<1>1. out[s] \in Seq(Item) /\ out \in [Stream -> Seq(Item)]
  BY DEF TypeOK
<1>2. Append(out[s], item) \in Seq(Item)
  BY <1>1
<1>3. \A n \in DOMAIN Append(out[s], item) :
         \/ n \in DOMAIN out[s] /\ Append(out[s], item)[n] = out[s][n]
         \/ n = Len(out[s]) + 1 /\ Append(out[s], item)[n] = item
  BY <1>1
<1> QED
  BY <1>1, <1>2, <1>3

\* The worker writes before its marker and into a capture that is open.
LEMMA WorkerWriteHolds ==
  ASSUME IInv, NEW s \in Stream, WorkerWrite(s)
  PROVE  IInv'
<1> USE DEF IInv
<1> DEFINE item == [kind |-> "data", op |-> wid, k |-> wrote[s].op + 1]
<1>0. /\ wpc = "run" /\ out' = [out EXCEPT ![s] = Append(out[s], item)]
      /\ wrote' = [wrote EXCEPT ![s] = [wrote[s] EXCEPT !.op = wrote[s].op + 1]]
      /\ UNCHANGED <<pc, id, active, capture, ended, reply, armed, late, error, deadline, inbox, down,
                     up, wpc, wid, winput, inputs, retire, published, finished>>
  BY DEF WorkerWrite, supVars, readVars, workVars
<1>1. Taken /\ active /\ wid = capture.id
  BY <1>0, EvaluatingTaken DEF Evaluating
<1>2. item \in Item /\ item.op = capture.id /\ item.kind = "data"
  BY <1>1, SMTT(30) DEF Item, TypeOK
<1> HIDE DEF item
<1>3. TypeOK'
  <2>0. [wrote[s] EXCEPT !.op = wrote[s].op + 1] \in [op : Nat, stray : Nat]
    <3>1. wrote[s] \in [op : Nat, stray : Nat]
      BY DEF TypeOK
    <3> QED
      BY <3>1
  <2>1. wrote' \in [Stream -> [op : Nat, stray : Nat]]
    BY <2>0, <1>0 DEF TypeOK
  <2>2. out' \in [Stream -> Seq(Item)]
    BY <1>0, <1>2, Appended
  <2>3. UNCHANGED <<pc, id, active, capture, late, error, deadline, reply, ended, armed, inbox, down, up, wpc, wid,
                    winput, inputs, retire, published, finished>>
    BY <1>0
  <2> QED
    BY <2>1, <2>2, <2>3 DEF TypeOK
<1>4. Identities' /\ Frames' /\ Replied' /\ Barriers'
  BY <1>0 DEF Identities, Frames, FrameOK, Replied, Barriers
<1>5. Handover'
  BY <1>0 DEF Handover, Idle, Unsent, Underway, Taken, Served, Req, DownEmpty, One, Two
<1>6. Pipes'
  <2>1. \A t \in Stream : Unmarked(t) /\ Unmarked(t)' /\ Opened(t) /\ Opened(t)'
    BY <1>0, <1>1 DEF Unmarked, Opened, Pipes
  <2>2. \A t \in Stream : \A n \in DOMAIN out[t] : out[t][n].kind # "marker"
          /\ out[t][n].op \in {0, capture.id}
    BY <2>1 DEF Pipes, ItemOK
  <2>3. \A t \in Stream : \A n \in DOMAIN out'[t] : out'[t][n].kind # "marker"
          /\ out'[t][n].op \in {0, capture.id}
    BY <2>2, <1>0, <1>2, Appended
  <2> QED
    BY <2>1, <2>3, <1>0 DEF Pipes, ItemOK, Opened
<1>7. Buffers' /\ NoMisattribution'
  BY <1>0 DEF Buffers, NoMisattribution
<1> QED
  BY <1>3, <1>4, <1>5, <1>6, <1>7

\* The marker is the last thing of its operation in a stream.
LEMMA WorkerMarkHolds ==
  ASSUME IInv, NEW s \in Stream, WorkerMark(s)
  PROVE  IInv'
<1> USE DEF IInv
<1>0. /\ wpc = s /\ out' = [out EXCEPT ![s] = Append(out[s], Marker(wid))]
      /\ wpc' = IF s = "stdout" THEN "stderr" ELSE "settle"
      /\ UNCHANGED <<pc, id, active, capture, ended, reply, armed, late, error, deadline, inbox, down,
                     up, wid, winput, inputs, retire, wrote, published, finished>>
  BY DEF WorkerMark, supVars, readVars, histVars
<1>1. Taken /\ active /\ wid = capture.id /\ pc \in {"wait", "idle"} /\ (reply => pc = "idle")
  BY <1>0, EvaluatingTaken DEF Evaluating
<1>2. Marker(wid) \in Item /\ Marker(wid).op = capture.id /\ Marker(wid).kind = "marker"
  BY <1>1, LinkAssumption DEF Marker, Item, TypeOK
<1>3. TypeOK'
  BY <1>0, <1>2, Appended DEF TypeOK
<1>4. Identities' /\ Frames' /\ Replied' /\ Barriers'
  BY <1>0, <1>1 DEF Identities, Frames, FrameOK, Replied, Barriers
<1>5. Handover'
  BY <1>0, <1>1 DEF Handover, Taken, Evaluating, DownEmpty
<1>6. Pipes'
  <2>1. Unmarked(s) /\ Opened(s) /\ ~Unmarked(s)' /\ Opened(s)'
    BY <1>0, <1>1 DEF Unmarked, Opened, Pipes
  <2>2. \A t \in Stream : t # s => (Unmarked(t)' <=> Unmarked(t)) /\ (Opened(t)' <=> Opened(t))
    BY <1>0, <1>1 DEF Unmarked, Opened
  <2>3. \A n \in DOMAIN out[s] : out[s][n].kind # "marker" /\ out[s][n].op \in {0, capture.id}
    BY <2>1 DEF Pipes, ItemOK
  <2>4. \A n \in DOMAIN out'[s] : ItemOK(s, out[s][n])'
    BY <2>1, <2>3, <1>0, <1>1, <1>2, Appended DEF ItemOK
  <2>5. \A m, n \in DOMAIN out'[s] : m < n /\ out'[s][m].kind = "marker" => out'[s][n].op = 0
    BY <2>3, <1>0, <1>2, Appended
  <2>6. \A t \in Stream : t # s => out'[t] = out[t]
    BY <1>0, <1>2, Appended
  <2>7. \A t \in Stream : t # s =>
           /\ \A n \in DOMAIN out'[t] : ItemOK(t, out[t][n])'
           /\ \A m, n \in DOMAIN out'[t] : m < n /\ out'[t][m].kind = "marker" => out'[t][n].op = 0
           /\ Unmarked(t)' => ~capture'.stream[t].ended
    BY <2>2, <2>6, <1>0 DEF Pipes, ItemOK
  <2> QED
    BY <2>1, <2>4, <2>5, <2>7 DEF Pipes
<1>7. Buffers' /\ NoMisattribution'
  BY <1>0 DEF Buffers, NoMisattribution
<1> QED
  BY <1>3, <1>4, <1>5, <1>6, <1>7

\* The settlement is sent past both markers.
LEMMA WorkerSettleHolds == ASSUME IInv, WorkerSettle PROVE IInv'
<1> USE DEF IInv
<1> DEFINE f == [type |-> "settled", id |-> wid, input |-> winput]
<1>0. /\ wpc = "settle" /\ wpc' = "ack" /\ up' = Append(up, f)
      /\ UNCHANGED <<pc, id, active, capture, ended, reply, armed, late, error, deadline, inbox, down,
                     out, wid, winput, inputs, retire, wrote, published, finished>>
  BY DEF WorkerSettle, supVars, readVars, histVars
<1>1. Taken /\ wid = capture.id /\ pc \in {"wait", "idle"} /\ (reply => pc = "idle") /\ wid \in Nat
  BY <1>0, EvaluatingTaken DEF Evaluating
<1>2. f \in Frame /\ f.id = wid
  BY DEF Frame, TypeOK
<1> HIDE DEF f
<1>3. TypeOK'
  <2>1. up' \in Seq(Frame)
    BY <1>0, <1>2 DEF TypeOK
  <2> QED
    BY <2>1, <1>0 DEF TypeOK
<1>4. Identities' /\ Replied' /\ Barriers'
  BY <1>0, <1>1 DEF Identities, Replied, Barriers
<1>5. Frames'
  <2>1. \A g : FrameOK(g) => FrameOK(g)'
    BY <1>0 DEF FrameOK
  <2>2. \A g : g = f => FrameOK(g)'
    BY <1>0, <1>1, <1>2 DEF FrameOK
  <2>3. \A n \in DOMAIN Append(up, f) :
           Append(up, f)[n] = f \/ (n \in DOMAIN up /\ Append(up, f)[n] = up[n])
    BY <1>2 DEF TypeOK
  <2> QED
    BY <2>1, <2>2, <2>3, <1>0 DEF Frames
<1>6. Handover'
  BY <1>0, <1>1 DEF Handover, Taken, DownEmpty
<1>7. Pipes'
  <2>1. \A s \in Stream : Unmarked(s)' <=> Unmarked(s)
    BY <1>0, <1>1 DEF Unmarked
  <2> QED
    BY <2>1, <1>0 DEF Pipes, ItemOK, Opened
<1>8. Buffers' /\ NoMisattribution'
  BY <1>0 DEF Buffers, NoMisattribution
<1> QED
  BY <1>3, <1>4, <1>5, <1>6, <1>7, <1>8

\* The acknowledgement is that of an operation whose reply was handed on.
LEMMA WorkerAckHolds == ASSUME IInv, WorkerAck PROVE IInv'
<1> USE DEF IInv
<1>0. /\ wpc = "ack" /\ down # << >> /\ down' = Tail(down) /\ wpc' \in {"recv", "dead"}
      /\ UNCHANGED <<pc, id, active, capture, ended, reply, armed, late, error, deadline, inbox, up,
                     out, wid, winput, inputs, retire, wrote, published, finished>>
  BY DEF WorkerAck, supVars, readVars, histVars
<1>1. down \in Seq(Request) /\ Len(down) # 0 /\ wid \in Nat /\ capture.id \in Nat
  BY <1>0 DEF TypeOK, Ids
<1>2. down' \in Seq(Request) /\ Len(down') = Len(down) - 1
        /\ \A n \in 1 .. Len(down') : down'[n] = down[n + 1]
  BY <1>0, <1>1
<1>3. Idle \/ Unsent \/ Underway
  BY <1>0, <1>1 DEF Handover, Taken, DownEmpty
<1>4. wid \in finished
  BY <1>0, <1>3 DEF Idle, Unsent, Underway
<1>5. active => wid # capture.id
  BY <1>1, <1>3 DEF Idle, Unsent, Underway
<1>6. TypeOK'
  BY <1>0, <1>2 DEF TypeOK
<1>7. Identities' /\ Frames' /\ Barriers'
  BY <1>0 DEF Identities, Frames, FrameOK, Barriers
<1>8. Replied'
  BY <1>0, <1>5 DEF Replied, Identities
<1>9. Handover'
  <2>1. UNCHANGED <<Req, Served>> /\ Served
    BY <1>0, <1>4 DEF Req, Served
  <2> QED
    BY <2>1, <1>0, <1>1, <1>2, <1>3 DEF Handover, Idle, Unsent, Underway, DownEmpty, One, Two
<1>10. Pipes'
  <2>1. \A s \in Stream : Unmarked(s)' => Unmarked(s)
    BY <1>0, <1>5 DEF Unmarked
  <2> QED
    BY <2>1, <1>0 DEF Pipes, ItemOK, Opened
<1>11. Buffers' /\ NoMisattribution'
  BY <1>0 DEF Buffers, NoMisattribution
<1> QED
  BY <1>6, <1>7, <1>8, <1>9, <1>10, <1>11

\* A dead worker writes nothing any more.
LEMMA WorkerDiesHolds == ASSUME IInv, WorkerDies PROVE IInv'
<1> USE DEF IInv
<1>0. /\ wpc' = "dead"
      /\ UNCHANGED <<pc, id, active, capture, ended, reply, armed, late, error, deadline, inbox, down,
                     up, out, wid, winput, inputs, retire, wrote, published, finished>>
  BY DEF WorkerDies, supVars, readVars, pipeVars, histVars
<1>1. TypeOK' /\ Identities' /\ Handover' /\ Barriers'
  BY <1>0 DEF TypeOK, Identities, Handover, Barriers
<1>2. Frames' /\ Replied'
  BY <1>0 DEF Frames, FrameOK, Replied
<1>3. Pipes'
  BY <1>0 DEF Pipes, ItemOK, Opened, Unmarked
<1>4. Buffers' /\ NoMisattribution'
  BY <1>0 DEF Buffers, NoMisattribution
<1> QED
  BY <1>1, <1>2, <1>3, <1>4

\* What a leftover process writes is of nobody, before or after a marker.
LEMMA StrayHolds ==
  ASSUME IInv, NEW s \in Stream, Stray(s)
  PROVE  IInv'
<1> USE DEF IInv
<1> DEFINE item == [kind |-> "data", op |-> 0, k |-> wrote[s].stray + 1]
<1>0. /\ out' = [out EXCEPT ![s] = Append(out[s], item)]
      /\ wrote' = [wrote EXCEPT ![s] = [wrote[s] EXCEPT !.stray = wrote[s].stray + 1]]
      /\ UNCHANGED <<pc, id, active, capture, ended, reply, armed, late, error, deadline, inbox, down,
                     up, wpc, wid, winput, inputs, retire, published, finished>>
  BY DEF Stray, supVars, readVars, workVars
<1>1. item \in Item /\ item.op = 0 /\ item.kind = "data"
  BY LinkAssumption DEF Item, TypeOK, Ids
<1> HIDE DEF item
<1>2. TypeOK'
  <2>0. [wrote[s] EXCEPT !.stray = wrote[s].stray + 1] \in [op : Nat, stray : Nat]
    <3>1. wrote[s] \in [op : Nat, stray : Nat]
      BY DEF TypeOK
    <3> QED
      BY <3>1
  <2>1. wrote' \in [Stream -> [op : Nat, stray : Nat]]
    BY <2>0, <1>0 DEF TypeOK
  <2>2. out' \in [Stream -> Seq(Item)]
    BY <1>0, <1>1, Appended
  <2>3. UNCHANGED <<pc, id, active, capture, late, error, deadline, reply, ended, armed, inbox, down, up, wpc, wid,
                    winput, inputs, retire, published, finished>>
    BY <1>0
  <2> QED
    BY <2>1, <2>2, <2>3 DEF TypeOK
<1>3. Identities' /\ Frames' /\ Replied' /\ Barriers'
  BY <1>0 DEF Identities, Frames, FrameOK, Replied, Barriers
<1>4. Handover'
  BY <1>0 DEF Handover, Idle, Unsent, Underway, Taken, Served, Req, DownEmpty, One, Two
<1>5. Pipes'
  <2>1. \A t \in Stream : (Unmarked(t)' <=> Unmarked(t)) /\ (Opened(t)' <=> Opened(t))
    BY <1>0 DEF Unmarked, Opened
  <2>2. \A t \in Stream : \A n \in DOMAIN out'[t] : ItemOK(t, out[t][n])'
    BY <2>1, <1>0, <1>1, Appended DEF Pipes, ItemOK
  <2>3. \A t \in Stream : \A m, n \in DOMAIN out'[t] : m < n /\ out'[t][m].kind = "marker"
          => out'[t][n].op = 0
    BY <1>0, <1>1, Appended DEF Pipes
  <2> QED
    BY <2>1, <2>2, <2>3, <1>0 DEF Pipes
<1>6. Buffers' /\ NoMisattribution'
  BY <1>0 DEF Buffers, NoMisattribution
<1> QED
  BY <1>2, <1>3, <1>4, <1>5, <1>6

(***************************************************************************)
(* The invariant, and what follows from it                                 *)
(***************************************************************************)

\* Nothing changes.
LEMMA StutterHolds == IInv /\ UNCHANGED vars => IInv'
<1> SUFFICES ASSUME IInv, UNCHANGED vars PROVE IInv'
  OBVIOUS
<1> USE DEF IInv, vars, supVars, readVars, pipeVars, workVars, histVars
<1>1. TypeOK' /\ Identities' /\ Frames' /\ Replied' /\ Barriers'
  BY DEF TypeOK, Identities, Frames, FrameOK, Replied, Barriers
<1>2. Handover'
  BY DEF Handover, Idle, Unsent, Underway, Taken, Served, Req, DownEmpty, One, Two
<1>3. Pipes' /\ Buffers' /\ NoMisattribution'
  BY DEF Pipes, ItemOK, Opened, Unmarked, Buffers, NoMisattribution
<1> QED
  BY <1>1, <1>2, <1>3

\* Every step of the kernel, of the readers, of the worker and of the processes it
\* left behind keeps the invariant.
LEMMA StepHolds == IInv /\ [Next]_vars => IInv'
<1> SUFFICES ASSUME IInv, [Next]_vars PROVE IInv'
  OBVIOUS
<1>1. ASSUME Supervisor PROVE IInv'
  BY <1>1, BeginHolds, SendHolds, ReceiveHolds, CompleteHolds, AcknowledgeHolds, DrainHolds,
     ForwardLateHolds DEF Supervisor
<1>2. ASSUME Readers PROVE IInv'
  BY <1>2, ReadControlHolds, ReadersFailHolds, ReadStreamHolds DEF Readers
<1>3. ASSUME WorkerProcess PROVE IInv'
  BY <1>3, WorkerReceiveHolds, WorkerArmHolds, WorkerRefuseHolds, WorkerSettleHolds, WorkerAckHolds,
     WorkerEndHolds, WorkerWriteHolds, WorkerMarkHolds DEF WorkerProcess
<1> QED
  BY <1>1, <1>2, <1>3, FailHolds, WorkerDiesHolds, StrayHolds, StutterHolds DEF Next

\* The invariant holds in every reachable state.
LEMMA Invariance == Spec => []IInv
  BY InitHolds, StepHolds, PTL DEF Spec

\* Worker and run(): the state of both ends of the link has its type; identities stay
\* within MaxId and what is kept of a stream within Cap.
THEOREM LinkTypeCorrect == Spec => []TypeOK
<1>1. IInv => TypeOK
  BY DEF IInv
<1> QED
  BY <1>1, Invariance, PTL

\* Capture::feed and Worker::operation: output of an operation is published as its own
\* or not at all, for any number of operations and any output of leftover processes.
THEOREM OutputIsAttributed == Spec => []NoMisattribution
<1>1. IInv => NoMisattribution
  BY DEF IInv
<1> QED
  BY <1>1, Invariance, PTL

\* Worker::operate: the worker evaluates only under the capture of its own operation,
\* also when the kernel gave the operation up.
THEOREM WorkerIsOwned == Spec => []OwnedWhileRunning
<1>1. IInv => OwnedWhileRunning
  BY EvaluatingTaken DEF OwnedWhileRunning, Evaluating
<1> QED
  BY <1>1, Invariance, PTL

\* run(): the worker takes another request only after the reply of its last one was
\* handed on.
THEOREM WorkerMovesOn == Spec => []MovesOnAfterReply
<1>1. IInv => MovesOnAfterReply
  BY DEF IInv, Handover, Idle, Unsent, Underway, Taken, Served, Evaluating, MovesOnAfterReply
<1> QED
  BY <1>1, Invariance, PTL

\* The four together: the link between the kernel and its worker is sound, for any number
\* of operations and identities and any size of what is kept of a stream.
THEOREM LinkHolds == Spec => []LinkSound
<1>1. IInv => LinkSound
  BY EvaluatingTaken DEF IInv, LinkSound, OwnedWhileRunning, Evaluating, Handover, Idle, Unsent,
     Underway, Taken, Served, MovesOnAfterReply
<1> QED
  BY <1>1, Invariance, PTL

\* Where the k-th piece of output of the operation is looked for.
Holds(seq, x) == \E n \in DOMAIN seq : seq[n] = x
PieceOf(k) == [kind |-> "data", op |-> wid, k |-> k]
Sent(item) == [as |-> wid, item |-> item]

\* As long as the operation owns the streams, each piece is in the pipe, kept, published
\* or counted as not kept.
Accounted(s, k) ==
    \/ Holds(out[s], PieceOf(k))
    \/ Holds(capture.stream[s].data, PieceOf(k))
    \/ Holds(published[s], Sent(PieceOf(k)))
    \/ capture.stream[s].discarded > 0
Followed ==
    active /\ wid = capture.id => \A s \in Stream : \A k \in 1 .. wrote[s].op : Accounted(s, k)

\* A barrier is passed with everything kept published, and the notice where some was not.
Emptied ==
    \A s \in Stream : pc # "idle" /\ ended[s] =>
        /\ capture.stream[s].data = << >>
        /\ capture.stream[s].discarded > 0
             => Holds(published[s], [as |-> capture.id, item |-> Notice(capture.id)])

\* Replies are handed on in the order of the operations, and none before the worker is done.
Ordered ==
    /\ \A i \in finished : i <= wid
    /\ wid \in finished => wpc \notin Evaluating

\* NothingLostSilently with the members of the sequences said by their places.
Told ==
    wid \in finished => \A s \in Stream : \A k \in 1 .. wrote[s].op :
        Holds(published[s], Sent(PieceOf(k))) \/ Holds(published[s], Sent(Notice(wid)))

Account == Followed /\ Emptied /\ Ordered /\ Told

\* What a sequence holds after an item was added at its end, or sequences were joined.
LEMMA HoldsAppend ==
  ASSUME NEW X, NEW q \in Seq(X), NEW e \in X, NEW x
  PROVE  /\ Holds(q, x) => Holds(Append(q, e), x)
         /\ Holds(Append(q, e), e)
  BY SMTT(30) DEF Holds

\* Taking the head of a sequence.
LEMMA HoldsTail ==
  ASSUME NEW X, NEW q \in Seq(X), q # << >>, NEW x
  PROVE  Holds(q, x) => x = Head(q) \/ Holds(Tail(q), x)
<1> SUFFICES ASSUME NEW n \in DOMAIN q, q[n] = x, x # Head(q) PROVE Holds(Tail(q), x)
  BY DEF Holds
<1>1. n \in 1 .. Len(q) /\ n # 1
  OBVIOUS
<1>2. n - 1 \in DOMAIN Tail(q) /\ Tail(q)[n - 1] = x
  BY <1>1
<1> QED BY <1>2 DEF Holds

\* What the invariant says of the pieces it relates.
LEMMA LinkTypes ==
  ASSUME IInv
  PROVE  /\ out \in [Stream -> Seq(Item)] /\ published \in [Stream -> Seq(Shown)]
         /\ wrote \in [Stream -> [op : Nat, stray : Nat]]
         /\ capture.stream \in [Stream -> Buffer] /\ capture.id \in Ids /\ wid \in Ids
         /\ capture = [id |-> capture.id, op |-> capture.op, stream |-> capture.stream]
         /\ \A s \in Stream : capture.stream[s].discarded \in Nat /\ capture.stream[s].data \in Seq(Data)
         /\ ended \in [Stream -> BOOLEAN] /\ active \in BOOLEAN
         /\ finished \subseteq Ids /\ Ids \subseteq Nat
<1>1. /\ out \in [Stream -> Seq(Item)] /\ published \in [Stream -> Seq(Shown)]
      /\ wrote \in [Stream -> [op : Nat, stray : Nat]]
      /\ wid \in Ids /\ ended \in [Stream -> BOOLEAN] /\ active \in BOOLEAN /\ finished \subseteq Ids
      /\ capture \in [id : Ids, op : {"execute", "shutdown"}, stream : [Stream -> Buffer]]
  BY DEF IInv, TypeOK
<1>2. /\ capture.stream \in [Stream -> Buffer] /\ capture.id \in Ids
      /\ capture = [id |-> capture.id, op |-> capture.op, stream |-> capture.stream]
  BY <1>1
<1>3. \A s \in Stream : capture.stream[s].discarded \in Nat /\ capture.stream[s].data \in Seq(Data)
  BY <1>2 DEF Buffer
<1>4. Ids \subseteq Nat
  BY DEF Ids
<1> QED BY <1>1, <1>2, <1>3, <1>4

\* Steps that move no output.
LEMMA FollowedKept ==
  ASSUME Followed, UNCHANGED <<wid, wrote, capture, out>>, active' => active,
         \A s \in Stream : \A x : Holds(published[s], x) => Holds(published'[s], x)
  PROVE  Followed'
<1> SUFFICES ASSUME active', wid' = capture'.id, NEW s \in Stream, NEW k \in 1 .. wrote[s].op
             PROVE  Accounted(s, k)'
  BY DEF Followed
<1>1. Accounted(s, k)
  BY DEF Followed
<1>2. PieceOf(k)' = PieceOf(k) /\ \A x : Sent(x)' = Sent(x)
  BY DEF PieceOf, Sent
<1> QED BY <1>1, <1>2 DEF Accounted

\* What the reader was told stays, as the streams only grow.
LEMMA ToldKept ==
  ASSUME Told, UNCHANGED <<wid, wrote, finished>>,
         \A s \in Stream : \A x : Holds(published[s], x) => Holds(published'[s], x)
  PROVE  Told'
<1> SUFFICES ASSUME wid' \in finished', NEW s \in Stream, NEW k \in 1 .. wrote[s].op
             PROVE  Holds(published'[s], Sent(PieceOf(k))') \/ Holds(published'[s], Sent(Notice(wid))')
  BY DEF Told
<1>1. Holds(published[s], Sent(PieceOf(k))) \/ Holds(published[s], Sent(Notice(wid)))
  BY DEF Told
<1>2. PieceOf(k)' = PieceOf(k) /\ \A x : Sent(x)' = Sent(x)
  BY DEF PieceOf, Sent
<1>3. Sent(PieceOf(k))' = Sent(PieceOf(k)) /\ Sent(Notice(wid))' = Sent(Notice(wid))
  BY <1>2 DEF Sent
<1> QED BY <1>1, <1>3

\* A barrier that was passed stays passed.
LEMMA EmptiedKept ==
  ASSUME Emptied, UNCHANGED <<capture, ended>>, pc' # "idle" => pc # "idle",
         \A s \in Stream : \A x : Holds(published[s], x) => Holds(published'[s], x)
  PROVE  Emptied'
  BY DEF Emptied

\* The steps that move no output, hand on no reply and start nothing.
LEMMA AccountKept ==
  ASSUME IInv, Account,
         \/ ReadControl \/ ReadersFail \/ Send \/ Receive \/ Fail \/ Acknowledge
         \/ WorkerArm \/ WorkerRefuse \/ WorkerSettle \/ WorkerAck \/ WorkerDies
         \/ (\E lost \in BOOLEAN : WorkerEnd(lost)) \/ UNCHANGED vars
  PROVE  Account'
<1>1. UNCHANGED <<wid, wrote, capture, out, published, finished, ended>>
  BY DEF ReadControl, ReadersFail, Send, Receive, Fail, Acknowledge, WorkerArm, WorkerRefuse,
     WorkerSettle, WorkerAck, WorkerDies, WorkerEnd, vars, supVars, readVars, pipeVars, workVars,
     histVars
<1>2. active' => active
  BY DEF ReadControl, ReadersFail, Send, Receive, Fail, Acknowledge, WorkerArm, WorkerRefuse,
     WorkerSettle, WorkerAck, WorkerDies, WorkerEnd, vars, supVars, readVars, pipeVars, workVars,
     histVars
<1>3. pc' # "idle" => pc # "idle"
  BY DEF ReadControl, ReadersFail, Send, Receive, Fail, Acknowledge, WorkerArm, WorkerRefuse,
     WorkerSettle, WorkerAck, WorkerDies, WorkerEnd, vars, supVars, readVars, pipeVars, workVars,
     histVars
<1>4. wpc' \in Evaluating => wpc \in Evaluating
  BY DEF ReadControl, ReadersFail, Send, Receive, Fail, Acknowledge, WorkerArm, WorkerRefuse,
     WorkerSettle, WorkerAck, WorkerDies, WorkerEnd, vars, supVars, readVars, pipeVars, workVars,
     histVars, Evaluating
<1>5. Ordered'
  BY <1>1, <1>4 DEF Account, Ordered
<1> QED BY <1>1, <1>2, <1>3, <1>5, FollowedKept, ToldKept, EmptiedKept DEF Account

\* Worker::operate: a new operation owns the streams from before the worker knows of it.
LEMMA BeginAccount ==
  ASSUME IInv, Account, NEW op \in {"execute", "shutdown"}, Begin(op)
  PROVE  Account'
<1>1. UNCHANGED <<wid, wrote, out, published, finished, wpc>>
  BY DEF Begin, pipeVars, workVars, histVars
<1>2. CASE UNCHANGED <<pc, active, capture, ended>>
  <2>1. Ordered'
    BY <1>1 DEF Account, Ordered
  <2> QED BY <1>1, <1>2, <2>1, FollowedKept, ToldKept, EmptiedKept DEF Account
<1>3. CASE ~active /\ capture'.id = id + 1 /\ ended' = [s \in Stream |-> FALSE]
  <2>1. wid' # capture'.id
    <3>1. wid <= id /\ wid \in Nat /\ id \in Nat
      BY DEF IInv, Identities, TypeOK, Ids
    <3> QED BY <1>1, <1>3, <3>1
  <2>2. Followed'
    BY <2>1 DEF Followed
  <2>3. Emptied'
    BY <1>3 DEF Emptied
  <2>4. Ordered'
    BY <1>1 DEF Account, Ordered
  <2> QED BY <1>1, <2>2, <2>3, <2>4, ToldKept DEF Account
<1> QED BY <1>2, <1>3 DEF Begin

\* complete(): with both barriers passed every piece of output is published, or the notice.
LEMMA CompleteAccount == ASSUME IInv, Account, Complete PROVE Account'
<1>1. /\ UNCHANGED <<wid, wrote, out, published, wpc, capture, active, ended>>
      /\ pc = "wait" /\ finished' = finished \cup {capture.id} /\ reply
      /\ \A s \in Stream : ended[s]
  BY DEF Complete, pipeVars, workVars, readVars
<1>2. wid = capture.id /\ wpc \in {"ack", "dead"} /\ active /\ capture.id # 0
  BY <1>1 DEF IInv, Replied, Identities
<1>3. Followed'
  BY <1>1, FollowedKept DEF Account
<1>4. Emptied'
  BY <1>1, EmptiedKept DEF Account
<1>5. Ordered'
  <2>1. wid <= wid
    BY LinkTypes
  <2> QED BY <1>1, <1>2, <2>1 DEF Account, Ordered, Evaluating
<1>6. \A s \in Stream : \A k \in 1 .. wrote[s].op :
        Holds(published[s], Sent(PieceOf(k))) \/ Holds(published[s], Sent(Notice(wid)))
  <2> SUFFICES ASSUME NEW s \in Stream, NEW k \in 1 .. wrote[s].op
               PROVE  Holds(published[s], Sent(PieceOf(k))) \/ Holds(published[s], Sent(Notice(wid)))
    OBVIOUS
  <2>1. Accounted(s, k)
    BY <1>2 DEF Account, Followed
  <2>2. capture.stream[s].data = << >>
        /\ (capture.stream[s].discarded > 0 => Holds(published[s], Sent(Notice(wid))))
    BY <1>1, <1>2 DEF Account, Emptied, Sent
  <2>3. ~Holds(capture.stream[s].data, PieceOf(k))
    BY <2>2 DEF Holds
  <2>4. ~Holds(out[s], PieceOf(k))
    <3>1. capture.stream[s].ended
      BY <1>1 DEF IInv, Barriers
    <3>2. \A n \in DOMAIN out[s] : out[s][n].op = 0
      BY <3>1 DEF IInv, Pipes, ItemOK, Opened
    <3> QED BY <1>2, <3>2 DEF Holds, PieceOf
  <2> QED BY <2>1, <2>2, <2>3, <2>4 DEF Accounted
<1>7. Told'
  <2>1. \A x : Sent(x)' = Sent(x) /\ PieceOf(x)' = PieceOf(x)
    BY <1>1 DEF Sent, PieceOf
  <2>2. \A x : Sent(PieceOf(x))' = Sent(PieceOf(x)) /\ Sent(Notice(wid))' = Sent(Notice(wid))
    BY <1>1, <2>1 DEF Sent, PieceOf
  <2> QED BY <1>1, <1>6, <2>2 DEF Told
<1> QED BY <1>3, <1>4, <1>5, <1>7 DEF Account
\* Capture::feed: a piece of output goes from the pipe to what is kept, or is counted.
LEMMA ReadAccount ==
  ASSUME IInv, Account, NEW s \in Stream, ReadStream(s)
  PROVE  Account'
<1> DEFINE item == Head(out[s])
           b == capture.stream[s]
           mine == active /\ ~b.ended
           mark == item = Marker(capture.id)
           nb == IF ~mine THEN b ELSE IF mark THEN [b EXCEPT !.ended = TRUE] ELSE Keep(b, item)
<1>1. /\ UNCHANGED <<wid, wrote, published, finished, wpc, pc, active, ended>>
      /\ out' = [out EXCEPT ![s] = Tail(out[s])] /\ out[s] # << >>
  BY DEF ReadStream, workVars, histVars
<1>2. capture' = [capture EXCEPT !.stream = [capture.stream EXCEPT ![s] = nb]]
  BY LinkTypes DEF ReadStream
<1>3. /\ capture'.id = capture.id /\ capture'.stream[s] = nb
      /\ \A t \in Stream : t # s => capture'.stream[t] = capture.stream[t]
  BY <1>2, LinkTypes
<1>4. /\ out[s] \in Seq(Item) /\ out[s] # << >> /\ item \in Item /\ item = out[s][1]
      /\ 1 \in DOMAIN out[s] /\ b \in Buffer
      /\ out'[s] = Tail(out[s]) /\ \A t \in Stream : t # s => out'[t] = out[t]
  BY <1>1, LinkTypes
<1>5. ItemOK(s, item)
  BY <1>4 DEF IInv, Pipes
<1>6. mine /\ ~mark => item \in Data
  BY <1>4, <1>5 DEF ItemOK, Item, Data
<1>7. /\ \A x : Holds(b.data, x) => Holds(nb.data, x)
      /\ b.discarded > 0 => nb.discarded > 0
      /\ mine /\ ~mark => Holds(nb.data, item) \/ nb.discarded > 0
      /\ ~mine => nb = b
  <2>1. CASE ~mine \/ (mine /\ mark)
    BY <2>1, <1>4 DEF Buffer
  <2>2. CASE mine /\ ~mark
    <3>0. nb = Keep(b, item) /\ item \in Data /\ b.data \in Seq(Data) /\ b.discarded \in Nat
      BY <2>2, <1>4, <1>6 DEF Buffer
    <3>1. CASE b.kept = Cap
      <4>1. nb.data = b.data /\ nb.discarded = b.discarded + 1
        BY <3>0, <3>1, <1>4 DEF Keep, Buffer
      <4>2. nb.discarded > 0
        BY <3>0, <4>1
      <4> QED BY <2>2, <4>1, <4>2
    <3>2. CASE b.kept # Cap
      <4>1. nb.data = Append(b.data, item) /\ nb.discarded = b.discarded
        BY <3>0, <3>2, <1>4 DEF Keep, Buffer
      <4>2. Holds(nb.data, item) /\ \A x : Holds(b.data, x) => Holds(nb.data, x)
        <5>1. ASSUME NEW q \in Seq(Data), NEW e \in Data
              PROVE  Holds(Append(q, e), e) /\ \A x : Holds(q, x) => Holds(Append(q, e), x)
          BY HoldsAppend
        <5>2. Holds(Append(b.data, item), item) /\ \A x : Holds(b.data, x) => Holds(Append(b.data, item), x)
          BY <3>0, <5>1
        <5> QED BY <4>1, <5>2
      <4> QED BY <2>2, <4>1, <4>2
    <3> QED BY <3>1, <3>2
  <2> QED BY <2>1, <2>2
<1> HIDE DEF nb
<1>8. Followed'
  <2> SUFFICES ASSUME active', wid' = capture'.id, NEW t \in Stream, NEW k \in 1 .. wrote[t].op
               PROVE  Accounted(t, k)'
    BY <1>1 DEF Followed
  <2>1. Accounted(t, k) /\ active /\ wid = capture.id /\ capture.id # 0
    BY <1>1, <1>3 DEF Account, Followed, IInv, Identities
  <2>2. PieceOf(k)' = PieceOf(k) /\ Sent(PieceOf(k))' = Sent(PieceOf(k))
    BY <1>1 DEF PieceOf, Sent
  <2>3. CASE t # s
    BY <1>1, <1>3, <1>4, <2>1, <2>2, <2>3 DEF Accounted
  <2>4. CASE t = s
    <3>1. Holds(out[s], PieceOf(k)) => PieceOf(k) = item \/ Holds(out'[s], PieceOf(k))
      BY <1>4, HoldsTail
    <3>2. PieceOf(k) = item => mine /\ ~mark
      <4>1. PieceOf(k).op # 0 /\ PieceOf(k).kind = "data"
        BY <2>1 DEF PieceOf
      <4>2. Marker(capture.id).kind = "marker"
        BY DEF Marker
      <4> QED BY <1>5, <4>1, <4>2 DEF ItemOK, Opened
    <3> QED BY <1>1, <1>3, <1>7, <2>1, <2>2, <2>4, <3>1, <3>2 DEF Accounted
  <2> QED BY <2>3, <2>4
<1>9. Emptied'
  <2> SUFFICES ASSUME NEW t \in Stream, pc # "idle", ended[t]
               PROVE  /\ capture'.stream[t].data = << >>
                      /\ capture'.stream[t].discarded > 0
                           => Holds(published[t], [as |-> capture.id, item |-> Notice(capture.id)])
    BY <1>1, <1>3 DEF Emptied
  <2>1. capture.stream[t].ended
    BY DEF IInv, Barriers
  <2>2. capture'.stream[t] = capture.stream[t]
    BY <1>3, <1>7, <2>1
  <2> QED BY <2>2 DEF Account, Emptied
<1>10. Ordered'
  BY <1>1 DEF Account, Ordered
<1> QED BY <1>1, <1>8, <1>9, <1>10, ToldKept DEF Account

\* What was published stays published.
LEMMA PublishedMore ==
  ASSUME NEW q \in Seq(Shown), NEW r \in Seq(Shown), NEW x
  PROVE  Holds(q, x) \/ Holds(r, x) => Holds(q \o r, x)
<1>1. Holds(q, x) => Holds(q \o r, x)
  BY DEF Holds
<1>2. ASSUME NEW n \in DOMAIN r, r[n] = x PROVE Holds(q \o r, x)
  <2>1. Len(q) + n \in DOMAIN (q \o r) /\ (q \o r)[Len(q) + n] = x
    BY <1>2
  <2> QED BY <2>1 DEF Holds
<1> QED BY <1>1, <1>2 DEF Holds

\* Worker::operation passes on what is kept, and at the marker the notice.
LEMMA DrainAccount ==
  ASSUME IInv, Account, NEW s \in Stream, Drain(s)
  PROVE  Account'
<1> DEFINE b == capture.stream[s]
           first == [as |-> capture.id, item |-> Head(b.data)]
           notice == [as |-> capture.id, item |-> Notice(capture.id)]
           show == IF b.data # << >> THEN <<first>> ELSE IF b.discarded > 0 THEN <<notice>> ELSE << >>
<1>1. /\ UNCHANGED <<wid, wrote, out, finished, wpc, pc, active>>
      /\ published' = [published EXCEPT ![s] = @ \o show]
      /\ pc = "wait" /\ ~ended[s] /\ (b.data # << >> \/ b.ended)
  BY DEF Drain, pipeVars, workVars
<1>2. /\ b \in Buffer /\ b.data \in Seq(Data) /\ b.discarded \in Nat /\ capture.id \in Ids
      /\ published[s] \in Seq(Shown)
  BY LinkTypes
<1>3. show \in Seq(Shown)
  <2>1. b.data # << >> => first \in Shown
    <3>1. b.data # << >> => Head(b.data) \in Data
      BY <1>2
    <3> QED BY <1>2, <3>1 DEF Shown, Data
  <2>2. notice \in Shown
    BY <1>2 DEF Shown, Notice
  <2> QED BY <2>1, <2>2
<1>4. /\ published'[s] = published[s] \o show
      /\ \A t \in Stream : t # s => published'[t] = published[t]
  BY <1>1, LinkTypes
<1>5. /\ b.data # << >> => Holds(show, first)
      /\ b.data = << >> /\ b.discarded > 0 => Holds(show, notice)
  BY DEF Holds
<1> HIDE DEF show
<1>6. \A t \in Stream : \A x : Holds(published[t], x) => Holds(published'[t], x)
  BY <1>2, <1>3, <1>4, PublishedMore
<1>7. /\ b.data # << >> => Holds(published'[s], first)
      /\ b.data = << >> /\ b.discarded > 0 => Holds(published'[s], notice)
  BY <1>2, <1>3, <1>4, <1>5, PublishedMore
<1>8. Ordered' /\ Told'
  BY <1>1, <1>6, ToldKept DEF Account, Ordered
<1>9. CASE b.data # << >>
  <2>1. /\ capture' = [capture EXCEPT !.stream = [capture.stream EXCEPT ![s] = [b EXCEPT !.data = Tail(b.data)]]]
        /\ ended' = ended
    BY <1>9, LinkTypes DEF Drain
  <2>2. /\ capture'.id = capture.id /\ capture'.stream[s].data = Tail(b.data)
        /\ capture'.stream[s].discarded = b.discarded
        /\ \A t \in Stream : t # s => capture'.stream[t] = capture.stream[t]
    BY <2>1, <1>2, LinkTypes DEF Buffer
  <2>3. Emptied'
    BY <1>1, <1>6, <2>1, <2>2 DEF Account, Emptied
  <2>4. Followed'
    <3> SUFFICES ASSUME active', wid' = capture'.id, NEW t \in Stream, NEW k \in 1 .. wrote[t].op
                 PROVE  Accounted(t, k)'
      BY <1>1 DEF Followed
    <3>1. Accounted(t, k) /\ active /\ wid = capture.id
      BY <1>1, <2>2 DEF Account, Followed
    <3>2. PieceOf(k)' = PieceOf(k) /\ Sent(PieceOf(k))' = Sent(PieceOf(k))
      BY <1>1 DEF PieceOf, Sent
    <3>3. CASE t # s
      BY <1>1, <1>6, <2>2, <3>1, <3>2, <3>3 DEF Accounted
    <3>4. CASE t = s
      <4>1. Holds(b.data, PieceOf(k)) => PieceOf(k) = Head(b.data) \/ Holds(capture'.stream[s].data, PieceOf(k))
        BY <1>2, <1>9, <2>2, HoldsTail
      <4>2. PieceOf(k) = Head(b.data) => Holds(published'[s], Sent(PieceOf(k)))
        BY <1>7, <1>9, <3>1 DEF Sent
      <4> QED BY <1>1, <1>6, <2>2, <3>1, <3>2, <3>4, <4>1, <4>2 DEF Accounted
    <3> QED BY <3>3, <3>4
  <2> QED BY <1>8, <2>3, <2>4 DEF Account
<1>10. CASE b.data = << >>
  <2>1. capture' = capture /\ ended' = [ended EXCEPT ![s] = TRUE]
    BY <1>10 DEF Drain
  <2>2. Followed'
    BY <1>1, <1>6, <2>1, FollowedKept DEF Account
  <2>3. Emptied'
    <3> SUFFICES ASSUME NEW t \in Stream, ended'[t]
                 PROVE  /\ capture.stream[t].data = << >>
                        /\ capture.stream[t].discarded > 0 => Holds(published'[t], notice)
      BY <2>1 DEF Emptied
    <3>1. CASE t = s
      BY <1>7, <1>10, <3>1
    <3>2. CASE t # s
      <4>1. ended[t]
        BY <2>1, <3>2, LinkTypes
      <4> QED BY <1>1, <1>6, <4>1 DEF Account, Emptied
    <3> QED BY <3>1, <3>2
  <2> QED BY <1>8, <2>2, <2>3 DEF Account
<1> QED BY <1>9, <1>10

\* Worker::forward_late takes nothing from what an operation owns.
LEMMA ForwardAccount ==
  ASSUME IInv, IInv', Account, NEW s \in Stream, ForwardLate(s)
  PROVE  Account'
<1> DEFINE more == [as |-> 0, item |-> IF late[s].data = << >> /\ late[s].discarded > 0 /\ ~late[s].ended
                                       THEN Notice(0) ELSE Head(late[s].data)]
<1>1. /\ UNCHANGED <<wid, wrote, capture, out, finished, wpc, pc, active, ended>>
      /\ published' = [published EXCEPT ![s] = Append(@, more)]
  BY DEF ForwardLate, supVars, pipeVars, workVars
<1>2. published[s] \in Seq(Shown) /\ published' \in [Stream -> Seq(Shown)]
  BY LinkTypes DEF IInv, TypeOK
<1> HIDE DEF more
<1>3. /\ published'[s] = Append(published[s], more)
      /\ \A t \in Stream : t # s => published'[t] = published[t]
  BY <1>1, LinkTypes
<1>4. \A x : Holds(published[s], x) => Holds(Append(published[s], more), x)
  BY <1>2, SMTT(30) DEF Holds
<1>5. \A t \in Stream : \A x : Holds(published[t], x) => Holds(published'[t], x)
  BY <1>3, <1>4
<1>6. Ordered'
  BY <1>1 DEF Account, Ordered
<1> QED BY <1>1, <1>5, <1>6, FollowedKept, ToldKept, EmptiedKept DEF Account

\* run() takes a request of a later identity, and has written nothing for it.
LEMMA WorkerReceiveAccount == ASSUME IInv, Account, WorkerReceive PROVE Account'
<1>1. /\ UNCHANGED <<capture, out, published, finished, pc, active, ended>>
      /\ wrote' = [t \in Stream |-> [wrote[t] EXCEPT !.op = 0]]
      /\ \/ wid' = wid /\ wpc' = "dead"
         \/ wid' = Head(down).id /\ Head(down).id > wid
      /\ down \in Seq(Request) /\ down # << >>
  BY DEF WorkerReceive, supVars, readVars, IInv, TypeOK
<1>2. \A t \in Stream : wrote'[t].op = 0
  BY <1>1, LinkTypes
<1>3. \A t \in Stream : \A k \in 1 .. wrote'[t].op : FALSE
  BY <1>2
<1>4. Followed' /\ Told'
  BY <1>3 DEF Followed, Told
<1>5. Emptied'
  BY <1>1, EmptiedKept DEF Account
<1>6. Ordered'
  <2>1. CASE wid' = wid /\ wpc' = "dead"
    BY <1>1, <2>1 DEF Account, Ordered, Evaluating
  <2>2. CASE wid' = Head(down).id /\ Head(down).id > wid
    <3>0. Head(down) \in Request
      BY <1>1
    <3>1. Head(down).id \in Nat /\ wid \in Nat /\ finished \subseteq Nat
      BY <3>0, LinkTypes DEF Request
    <3>2. \A i \in finished : i <= wid
      BY DEF Account, Ordered
    <3>3. \A i \in finished : i < wid'
      BY <2>2, <3>1, <3>2
    <3>4. \A i \in finished : i <= wid' /\ i # wid'
      BY <2>2, <3>1, <3>3
    <3> QED BY <1>1, <3>4 DEF Ordered
  <2> QED BY <1>1, <2>1, <2>2
<1> QED BY <1>4, <1>5, <1>6 DEF Account

\* The pieces that stay where they are when something is added to a pipe.
LEMMA PipeGrows ==
  ASSUME IInv, NEW s \in Stream, NEW e \in Item, out' = [out EXCEPT ![s] = Append(@, e)]
  PROVE  /\ \A t \in Stream : \A x : Holds(out[t], x) => Holds(out'[t], x)
         /\ Holds(out'[s], e)
<1>1. out[s] \in Seq(Item) /\ out'[s] = Append(out[s], e)
      /\ \A t \in Stream : t # s => out'[t] = out[t]
  BY LinkTypes
<1>2. \A x : (Holds(out[s], x) => Holds(Append(out[s], e), x)) /\ Holds(Append(out[s], e), e)
  BY <1>1, HoldsAppend
<1> QED BY <1>1, <1>2

\* An operation writes: the piece is in the pipe.
LEMMA WorkerWriteAccount ==
  ASSUME IInv, Account, NEW s \in Stream, WorkerWrite(s)
  PROVE  Account'
<1> DEFINE w == wrote[s].op
           e == [kind |-> "data", op |-> wid, k |-> w + 1]
<1>1. /\ UNCHANGED <<wid, capture, published, finished, wpc, pc, active, ended>>
      /\ out' = [out EXCEPT ![s] = Append(@, e)]
      /\ wrote' = [wrote EXCEPT ![s].op = @ + 1] /\ wpc = "run"
  BY DEF WorkerWrite, supVars, readVars, workVars
<1>2. w \in Nat /\ e \in Item
  BY LinkTypes DEF Item
<1>3. wrote'[s].op = w + 1 /\ \A t \in Stream : t # s => wrote'[t].op = wrote[t].op
  BY <1>1, LinkTypes
<1>4. /\ \A t \in Stream : \A x : Holds(out[t], x) => Holds(out'[t], x)
      /\ Holds(out'[s], e)
  BY <1>1, <1>2, PipeGrows
<1>5. Followed'
  <2> SUFFICES ASSUME active', wid' = capture'.id, NEW t \in Stream, NEW k \in 1 .. wrote'[t].op
               PROVE  Accounted(t, k)'
    BY DEF Followed
  <2>2. PieceOf(k)' = PieceOf(k) /\ Sent(PieceOf(k))' = Sent(PieceOf(k))
    BY <1>1 DEF PieceOf, Sent
  <2>3. CASE k \in 1 .. wrote[t].op
    <3>1. Accounted(t, k)
      BY <1>1, <2>3 DEF Account, Followed
    <3> QED BY <1>1, <1>4, <2>2, <3>1 DEF Accounted
  <2>4. CASE k \notin 1 .. wrote[t].op
    <3>1. t = s
      BY <1>3, <2>4
    <3>2. k = w + 1
      BY <1>2, <1>3, <2>4, <3>1
    <3>3. PieceOf(k) = e
      BY <3>2 DEF PieceOf
    <3> QED BY <1>4, <2>2, <3>1, <3>3 DEF Accounted
  <2> QED BY <2>3, <2>4
<1>6. Emptied'
  BY <1>1, EmptiedKept DEF Account
<1>7. wid \notin finished
  BY <1>1 DEF Account, Ordered, Evaluating
<1>8. Ordered' /\ Told'
  BY <1>1, <1>7 DEF Account, Ordered, Told
<1> QED BY <1>5, <1>6, <1>8 DEF Account

\* Markers and the output of leftover processes: nothing of the operation moves.
LEMMA OthersWriteAccount ==
  ASSUME IInv, Account, NEW s \in Stream, WorkerMark(s) \/ Stray(s)
  PROVE  Account'
<1>1. /\ UNCHANGED <<wid, capture, published, finished, pc, active, ended>>
      /\ \E e \in Item : out' = [out EXCEPT ![s] = Append(@, e)]
      /\ wpc' \in Evaluating => wpc \in Evaluating
      /\ \A t \in Stream : wrote'[t].op = wrote[t].op
  <2>1. CASE WorkerMark(s)
    <3>1. Marker(wid) \in Item
      BY LinkTypes DEF Marker, Item
    <3> QED BY <2>1, <3>1 DEF WorkerMark, supVars, readVars, histVars, Evaluating
  <2>2. CASE Stray(s)
    <3>1. wrote[s].stray + 1 \in Nat /\ 0 \in Ids
      BY LinkTypes, LinkAssumption, SMTT(30) DEF Ids
    <3>2. [kind |-> "data", op |-> 0, k |-> wrote[s].stray + 1] \in Item
      BY <3>1 DEF Item
    <3>3. \A t \in Stream : wrote'[t].op = wrote[t].op
      BY <2>2, LinkTypes DEF Stray
    <3> QED BY <2>2, <3>2, <3>3 DEF Stray, supVars, readVars, workVars
  <2> QED BY <2>1, <2>2
<1>2. \A t \in Stream : \A x : Holds(out[t], x) => Holds(out'[t], x)
  BY <1>1, PipeGrows
<1>3. \A x : Sent(x)' = Sent(x) /\ PieceOf(x)' = PieceOf(x)
  BY <1>1 DEF Sent, PieceOf
<1>4. \A x : Sent(PieceOf(x))' = Sent(PieceOf(x)) /\ Sent(Notice(wid))' = Sent(Notice(wid))
  BY <1>1, <1>3 DEF Sent, PieceOf
<1>5. Followed'
  <2> SUFFICES ASSUME active', wid' = capture'.id, NEW t \in Stream, NEW k \in 1 .. wrote[t].op
               PROVE  Accounted(t, k)'
    BY <1>1 DEF Followed
  <2>1. Accounted(t, k)
    BY <1>1 DEF Account, Followed
  <2> QED BY <1>1, <1>2, <1>3, <1>4, <2>1 DEF Accounted
<1>6. Told'
  BY <1>1, <1>4 DEF Account, Told
<1>7. Emptied' /\ Ordered'
  BY <1>1, EmptiedKept DEF Account, Ordered
<1> QED BY <1>5, <1>6, <1>7 DEF Account

\* Every step keeps the account of the output.
LEMMA AccountStep == IInv /\ IInv' /\ Account /\ [Next]_vars => Account'
<1> SUFFICES ASSUME IInv, IInv', Account, [Next]_vars PROVE Account'
  OBVIOUS
<1>1. ASSUME Supervisor PROVE Account'
  BY <1>1, BeginAccount, AccountKept, CompleteAccount, DrainAccount, ForwardAccount DEF Supervisor
<1>2. ASSUME Readers PROVE Account'
  BY <1>2, AccountKept, ReadAccount DEF Readers
<1>3. ASSUME WorkerProcess PROVE Account'
  BY <1>3, AccountKept, WorkerReceiveAccount, WorkerWriteAccount, OthersWriteAccount DEF WorkerProcess
<1> QED BY <1>1, <1>2, <1>3, AccountKept, OthersWriteAccount DEF Next

\* No operation yet.
LEMMA AccountInit == Init => Account
<1> SUFFICES ASSUME Init PROVE Account
  OBVIOUS
<1>1. Followed
  <2>1. ~active
    BY DEF Init
  <2> QED BY <2>1 DEF Followed
<1>2. Emptied /\ Ordered /\ Told
  <2>1. pc = "idle" /\ finished = {}
    BY DEF Init
  <2> QED BY <2>1 DEF Emptied, Ordered, Told
<1> QED BY <1>1, <1>2 DEF Account

\* "Both barriers, the result and all retained output have reached the sink": when the
\* reply of an operation was handed on, each piece it wrote was published as its output,
\* or the reader was told that the limit cut it short.
THEOREM OutputIsAccounted == Spec => []NothingLostSilently
<1>1. Account => NothingLostSilently
  <2>1. \A q, x : Holds(q, x) => x \in Range(q)
    BY DEF Holds, Range
  <2> QED BY <2>1 DEF Account, Told, NothingLostSilently, Sent, PieceOf
<1> QED BY <1>1, AccountInit, AccountStep, Invariance, PTL DEF Spec

HIDE DEF Stream

(***************************************************************************)
(* Fanout                                                                  *)
(***************************************************************************)

Packet == [size : Size, pub : 0..Pubs]

\* Sums along a queue.
LEMMA SizeEmpty == SizeOf(<<>>) = 0 /\ PublishedOf(<<>>) = 0
<1>1. \A f : SumFunctionOnSet(f, {}) = 0
  BY SumEmpty
<1>2. DOMAIN <<>> = {}
  OBVIOUS
<1> QED BY <1>1, <1>2 DEF SizeOf, PublishedOf, SumFunction

Shares(s) == [i \in DOMAIN s |-> IF s[i].pub = 0 THEN 0 ELSE s[i].size]
Sizes(s) == [i \in DOMAIN s |-> s[i].size]

\* The sizes of a queue are sums over its places.
LEMMA QueueSums ==
    ASSUME NEW s \in Seq(Packet)
    PROVE  /\ Len(s) \in Nat /\ DOMAIN s = 1..Len(s)
           /\ SizeOf(s) = SumFunctionOnSet(Sizes(s), 1..Len(s))
           /\ PublishedOf(s) = SumFunctionOnSet(Shares(s), 1..Len(s))
           /\ \A i \in 1..Len(s) : Sizes(s)[i] \in Nat /\ Shares(s)[i] \in Nat
<1>1. Len(s) \in Nat /\ DOMAIN s = 1..Len(s) /\ \A i \in 1..Len(s) : s[i] \in Packet
  OBVIOUS
<1>2. \A i \in 1..Len(s) : Sizes(s)[i] \in Nat /\ Shares(s)[i] \in Nat
  BY <1>1, FanoutAssumption DEF Sizes, Shares, Packet
<1>3. DOMAIN Sizes(s) = 1..Len(s) /\ DOMAIN Shares(s) = 1..Len(s)
  BY <1>1 DEF Sizes, Shares
<1>4. SizeOf(s) = SumFunction(Sizes(s)) /\ PublishedOf(s) = SumFunction(Shares(s))
  BY DEF SizeOf, PublishedOf, Sizes, Shares
<1> QED BY <1>1, <1>2, <1>3, <1>4 DEF SumFunction

\* They are naturals.
LEMMA SizeType ==
    ASSUME NEW s \in Seq(Packet) PROVE SizeOf(s) \in Nat /\ PublishedOf(s) \in Nat
<1> DEFINE A == 1..Len(s)
<1>1. \A i \in A : Sizes(s)[i] \in Nat
  BY QueueSums
<1>2. \A i \in A : Shares(s)[i] \in Nat
  BY QueueSums
<1>3. IsFiniteSet(A)
  BY QueueSums, FiniteInterval
<1>4. SizeOf(s) = SumFunctionOnSet(Sizes(s), A) /\ PublishedOf(s) = SumFunctionOnSet(Shares(s), A)
  BY QueueSums
<1> HIDE DEF A
<1>5. SumFunctionOnSet(Sizes(s), A) \in Nat
  BY <1>1, <1>3, SumType
<1>6. SumFunctionOnSet(Shares(s), A) \in Nat
  BY <1>2, <1>3, SumType
<1> QED BY <1>4, <1>5, <1>6

Share(p) == IF p.pub = 0 THEN 0 ELSE p.size

\* One packet more at the end.
LEMMA SizeAppend ==
    ASSUME NEW s \in Seq(Packet), NEW p \in Packet
    PROVE  /\ SizeOf(Append(s, p)) = SizeOf(s) + p.size
           /\ PublishedOf(Append(s, p)) = PublishedOf(s) + Share(p)
<1> DEFINE t == Append(s, p)
           n == Len(s)
<1>1. t \in Seq(Packet) /\ Len(t) = n + 1 /\ n \in Nat
  OBVIOUS
<1>2. \A k \in 1..n : t[k] = s[k]
  OBVIOUS
<1>3. t[n + 1] = p
  OBVIOUS
<1>4. DOMAIN t = 1..(n + 1) /\ DOMAIN s = 1..n
  OBVIOUS
<1>5. SizeOf(t) = SumFunctionOnSet(Sizes(t), 1..(n + 1)) /\ PublishedOf(t) = SumFunctionOnSet(Shares(t), 1..(n + 1))
      /\ \A i \in 1..(n + 1) : Sizes(t)[i] \in Nat /\ Shares(t)[i] \in Nat
  <2> HIDE DEF t
  <2> QED BY <1>1, QueueSums
<1>6. SizeOf(s) = SumFunctionOnSet(Sizes(s), 1..n) /\ PublishedOf(s) = SumFunctionOnSet(Shares(s), 1..n)
  BY QueueSums
<1> HIDE DEF t, n
<1>7. \A k \in 1..n : Sizes(t)[k] = Sizes(s)[k]
  BY <1>1, <1>2, <1>4 DEF Sizes
<1>8. \A k \in 1..n : Shares(t)[k] = Shares(s)[k]
  BY <1>1, <1>2, <1>4 DEF Shares
<1>9. n + 1 \in 1..(n + 1)
  BY <1>1
<1>10. Sizes(t)[n + 1] = p.size /\ Shares(t)[n + 1] = Share(p)
  BY <1>3, <1>4, <1>9 DEF Sizes, Shares, Share
<1>11. SumFunctionOnSet(Sizes(t), 1..(n + 1)) = SumFunctionOnSet(Sizes(s), 1..n) + Sizes(t)[n + 1]
  <2>1. \A i \in 1..(n + 1) : Sizes(t)[i] \in Nat
    BY <1>5
  <2> QED BY <1>1, <1>7, <2>1, SumLonger
<1>12. SumFunctionOnSet(Shares(t), 1..(n + 1)) = SumFunctionOnSet(Shares(s), 1..n) + Shares(t)[n + 1]
  <2>1. \A i \in 1..(n + 1) : Shares(t)[i] \in Nat
    BY <1>5
  <2> QED BY <1>1, <1>8, <2>1, SumLonger
<1> QED BY <1>5, <1>6, <1>10, <1>11, <1>12 DEF t

\* One packet more at the beginning.
LEMMA SizeCons ==
    ASSUME NEW s \in Seq(Packet), NEW p \in Packet
    PROVE  /\ SizeOf(<<p>> \o s) = p.size + SizeOf(s)
           /\ PublishedOf(<<p>> \o s) = Share(p) + PublishedOf(s)
<1> DEFINE t == <<p>> \o s
           n == Len(s)
<1>1. t \in Seq(Packet) /\ Len(t) = n + 1 /\ n \in Nat
  OBVIOUS
<1>2. \A k \in 1..n : t[k + 1] = s[k]
  OBVIOUS
<1>3. t[1] = p
  OBVIOUS
<1>4. DOMAIN t = 1..(n + 1) /\ DOMAIN s = 1..n
  OBVIOUS
<1>5. SizeOf(t) = SumFunctionOnSet(Sizes(t), 1..(n + 1)) /\ PublishedOf(t) = SumFunctionOnSet(Shares(t), 1..(n + 1))
      /\ \A i \in 1..(n + 1) : Sizes(t)[i] \in Nat /\ Shares(t)[i] \in Nat
  <2> HIDE DEF t
  <2> QED BY <1>1, QueueSums
<1>6. SizeOf(s) = SumFunctionOnSet(Sizes(s), 1..n) /\ PublishedOf(s) = SumFunctionOnSet(Shares(s), 1..n)
  BY QueueSums
<1> HIDE DEF t, n
<1>7. \A k \in 1..n : Sizes(t)[k + 1] = Sizes(s)[k]
  BY <1>1, <1>2, <1>4 DEF Sizes
<1>8. \A k \in 1..n : Shares(t)[k + 1] = Shares(s)[k]
  BY <1>1, <1>2, <1>4 DEF Shares
<1>9. 1 \in 1..(n + 1)
  BY <1>1
<1>10. Sizes(t)[1] = p.size /\ Shares(t)[1] = Share(p)
  BY <1>3, <1>4, <1>9 DEF Sizes, Shares, Share
<1>11. SumFunctionOnSet(Sizes(t), 1..(n + 1)) = Sizes(t)[1] + SumFunctionOnSet(Sizes(s), 1..n)
  <2>1. \A i \in 1..(n + 1) : Sizes(t)[i] \in Nat
    BY <1>5
  <2> QED BY <1>1, <1>7, <2>1, SumShifted
<1>12. SumFunctionOnSet(Shares(t), 1..(n + 1)) = Shares(t)[1] + SumFunctionOnSet(Shares(s), 1..n)
  <2>1. \A i \in 1..(n + 1) : Shares(t)[i] \in Nat
    BY <1>5
  <2> QED BY <1>1, <1>8, <2>1, SumShifted
<1> QED BY <1>5, <1>6, <1>10, <1>11, <1>12 DEF t

-----------------------------------------------------------------------------
\* The publications of a queue.

\* Sequences are equal place by place.
LEMMA SameSeq ==
    ASSUME NEW X, NEW s \in Seq(X), NEW t \in Seq(X), Len(s) = Len(t),
           \A i \in 1..Len(s) : s[i] = t[i]
    PROVE  s = t
  OBVIOUS

\* Adding at the end of two queues is adding at the end of the second.
LEMMA ConcatAppend ==
    ASSUME NEW X, NEW a \in Seq(X), NEW b \in Seq(X), NEW x \in X
    PROVE  Append(a \o b, x) = a \o Append(b, x)
<1> DEFINE l == Append(a \o b, x)
           r == a \o Append(b, x)
<1>1. l \in Seq(X) /\ r \in Seq(X) /\ Len(l) = Len(a) + Len(b) + 1 /\ Len(r) = Len(l)
  OBVIOUS
<1>2. \A i \in 1..Len(l) : l[i] = r[i]
  OBVIOUS
<1> HIDE DEF l, r
<1>3. l = r
  BY <1>1, <1>2, SameSeq
<1> QED BY <1>3 DEF l, r

\* A packet moved from the head of one queue to the end of the one before it.
LEMMA AppendConcat ==
    ASSUME NEW X, NEW a \in Seq(X), NEW b \in Seq(X), NEW x \in X
    PROVE  Append(a, x) \o b = a \o (<<x>> \o b)
<1> DEFINE l == Append(a, x) \o b
           r == a \o (<<x>> \o b)
<1>1. l \in Seq(X) /\ r \in Seq(X) /\ Len(l) = Len(a) + Len(b) + 1 /\ Len(r) = Len(l)
  OBVIOUS
<1>2. \A i \in 1..Len(l) : l[i] = r[i]
  OBVIOUS
<1> HIDE DEF l, r
<1>3. l = r
  BY <1>1, <1>2, SameSeq
<1> QED BY <1>3 DEF l, r

\* ConcatAppend for packets.
LEMMA PacketsAppend ==
    ASSUME NEW a \in Seq(Packet), NEW b \in Seq(Packet), NEW p \in Packet
    PROVE  a \o Append(b, p) = Append(a \o b, p)
<1> DEFINE l == Append(a \o b, p)
           r == a \o Append(b, p)
<1>1. l \in Seq(Packet) /\ r \in Seq(Packet) /\ Len(l) = Len(a) + Len(b) + 1 /\ Len(r) = Len(l)
  OBVIOUS
<1>2. \A i \in 1..Len(l) : l[i] = r[i]
  OBVIOUS
<1> HIDE DEF l, r
<1>3. l = r
  BY <1>1, <1>2, SameSeq
<1> QED BY <1>3 DEF l, r

\* A queue that is not empty has a length.
LEMMA NotEmpty ==
    ASSUME NEW X, NEW s \in Seq(X), s # <<>> PROVE Len(s) \in Nat \ {0}
  OBVIOUS

\* An empty queue adds nothing.
LEMMA ConcatEmpty ==
    ASSUME NEW X, NEW a \in Seq(X)
    PROVE  a \o <<>> = a /\ <<>> \o a = a
  OBVIOUS

\* The publications of no packets.
LEMMA PubsEmpty == PubsOf(<<>>) = <<>>
<1>1. DOMAIN <<>> = 1..0
  OBVIOUS
<1>2. Fold(<<>>, <<>>) = <<>>
  BY <1>1, FoldEmpty
<1> QED BY <1>2 DEF PubsOf, Fold

\* The publications of one packet more.
LEMMA PubsAppend ==
    ASSUME NEW s \in Seq(Packet), NEW p \in Packet
    PROVE  PubsOf(Append(s, p)) = Published(PubsOf(s), p)
  BY FoldAppend DEF PubsOf, Fold

\* PubsOf, packet by packet.
LEMMA PubsChain ==
    ASSUME NEW n \in Nat, NEW s, DOMAIN s = 1..n
    PROVE  \E h : h[0] = <<>> /\ (\A k \in 1..n : h[k] = Published(h[k - 1], s[k]))
                 /\ Fold(<<>>, s) = h[n]
<1>1. PICK h : Chained(h, <<>>, s, n) /\ Fold(<<>>, s) = h[n]
  BY FoldChained
<1> WITNESS h
<1> QED BY ONLY <1>1 DEF Chained

\* Publications are numbered.
LEMMA PubsType == ASSUME NEW s \in Seq(Packet) PROVE PubsOf(s) \in Seq(1..Pubs)
<1> DEFINE n == Len(s)
<1>1. n \in Nat /\ DOMAIN s = 1..n
  OBVIOUS
<1>2. PICK h : h[0] = <<>> /\ (\A k \in 1..n : h[k] = Published(h[k - 1], s[k])) /\ Fold(<<>>, s) = h[n]
  <2> HIDE DEF n
  <2> QED BY <1>1, PubsChain
<1> DEFINE S == {k \in Nat : k <= n => h[k] \in Seq(1..Pubs)}
<1>3. 0 \in S
  <2>1. <<>> \in Seq(1..Pubs)
    OBVIOUS
  <2> HIDE DEF n
  <2> QED BY <1>2, <2>1
<1>4. ASSUME NEW k \in Nat, k \in S PROVE k + 1 \in S
  <2> SUFFICES ASSUME k + 1 <= n PROVE h[k + 1] \in Seq(1..Pubs)
    OBVIOUS
  <2>1. k + 1 \in 1..n /\ (k + 1) - 1 = k /\ h[k] \in Seq(1..Pubs)
    BY <1>4
  <2>2. h[k + 1] = Published(h[k], s[k + 1])
    BY <1>2, <2>1
  <2>3. s[k + 1] \in Packet
    BY <2>1
  <2>4. s[k + 1].pub = 0 \/ s[k + 1].pub \in 1..Pubs
    BY <2>3, FanoutAssumption DEF Packet
  <2> HIDE DEF n, S
  <2>5. CASE s[k + 1].pub = 0
    BY <2>1, <2>2, <2>5 DEF Published
  <2>6. CASE s[k + 1].pub # 0
    <3>1. h[k + 1] = Append(h[k], s[k + 1].pub)
      BY <2>2, <2>6 DEF Published
    <3> QED BY <2>1, <2>4, <2>6, <3>1
  <2> QED BY <2>5, <2>6
<1>5. n \in S
  <2> HIDE DEF S
  <2> QED BY <1>1, <1>3, <1>4, InductionNat
<1> QED BY <1>2, <1>5 DEF PubsOf, Fold

\* The publications of one packet more at the beginning.
LEMMA PubsCons ==
    ASSUME NEW s \in Seq(Packet), NEW p \in Packet
    PROVE  PubsOf(<<p>> \o s) = IF p.pub = 0 THEN PubsOf(s) ELSE <<p.pub>> \o PubsOf(s)
<1> DEFINE n == Len(s)
           b == Published(<<>>, p)
<1>1. n \in Nat /\ DOMAIN s = 1..n
  OBVIOUS
<1>2. PubsOf(<<p>> \o s) = Fold(b, s)
  BY FoldCons DEF PubsOf, Fold
<1>3. CASE p.pub = 0
  BY <1>2, <1>3 DEF Published, PubsOf, Fold
<1>4. CASE p.pub # 0
  <2>1. b = <<p.pub>>
    BY <1>4 DEF Published
  <2>2. p.pub \in 1..Pubs
    BY <1>4, FanoutAssumption DEF Packet
  <2>3. PICK h : h[0] = <<>> /\ (\A k \in 1..n : h[k] = Published(h[k - 1], s[k])) /\ Fold(<<>>, s) = h[n]
    <3> HIDE DEF n, b
    <3> QED BY <1>1, PubsChain
  <2>4. PICK g : g[0] = b /\ (\A k \in 1..n : g[k] = Published(g[k - 1], s[k])) /\ Fold(b, s) = g[n]
    <3> HIDE DEF n, b
    <3>1. PICK g : Chained(g, b, s, n) /\ Fold(b, s) = g[n]
      BY <1>1, FoldChained
    <3> WITNESS g
    <3> QED BY ONLY <3>1 DEF Chained
  <2> DEFINE S == {k \in Nat : k <= n => h[k] \in Seq(1..Pubs) /\ g[k] = <<p.pub>> \o h[k]}
  <2>5. 0 \in S
    <3>1. <<>> \in Seq(1..Pubs) /\ <<p.pub>> \in Seq(1..Pubs)
      BY <2>2
    <3>2. <<p.pub>> \o <<>> = <<p.pub>>
      BY <3>1, ConcatEmpty
    <3> HIDE DEF n, b
    <3> QED BY <2>1, <2>3, <2>4, <3>1, <3>2
  <2>6. ASSUME NEW k \in Nat, k \in S PROVE k + 1 \in S
    <3> SUFFICES ASSUME k + 1 <= n
                 PROVE  h[k + 1] \in Seq(1..Pubs) /\ g[k + 1] = <<p.pub>> \o h[k + 1]
      OBVIOUS
    <3>1. k + 1 \in 1..n /\ (k + 1) - 1 = k /\ h[k] \in Seq(1..Pubs) /\ g[k] = <<p.pub>> \o h[k]
      BY <2>6
    <3>2. h[k + 1] = Published(h[k], s[k + 1]) /\ g[k + 1] = Published(g[k], s[k + 1])
      BY <2>3, <2>4, <3>1
    <3>3. s[k + 1] \in Packet
      BY <3>1
    <3>4. s[k + 1].pub = 0 \/ s[k + 1].pub \in 1..Pubs
      BY <3>3, FanoutAssumption DEF Packet
    <3> HIDE DEF n, S
    <3>5. CASE s[k + 1].pub = 0
      BY <3>1, <3>2, <3>5 DEF Published
    <3>6. CASE s[k + 1].pub # 0
      <4> DEFINE x == s[k + 1].pub
      <4>1. h[k + 1] = Append(h[k], x) /\ g[k + 1] = Append(g[k], x) /\ x \in 1..Pubs
        BY <3>2, <3>4, <3>6 DEF Published
      <4> HIDE DEF x
      <4>2. Append(<<p.pub>> \o h[k], x) = <<p.pub>> \o Append(h[k], x)
        <5>1. <<p.pub>> \in Seq(1..Pubs)
          BY <2>2
        <5> QED BY ONLY <3>1, <4>1, <5>1, ConcatAppend, SMTT(30)
      <4>3. Append(h[k], x) \in Seq(1..Pubs)
        BY <3>1, <4>1
      <4> QED BY <3>1, <4>1, <4>2, <4>3
    <3> QED BY <3>5, <3>6
  <2>7. n \in S
    <3> HIDE DEF S
    <3> QED BY <1>1, <2>5, <2>6, InductionNat
  <2>8. g[n] = <<p.pub>> \o h[n]
    BY <1>1, <2>7
  <2> QED BY <1>2, <1>4, <2>3, <2>4, <2>8 DEF PubsOf, Fold
<1> QED BY <1>3, <1>4

-----------------------------------------------------------------------------
\* The invariant.

Prefixed(s, t) == Len(s) <= Len(t) /\ \A i \in 1..Len(s) : s[i] = t[i]

All(c) == got[c] \o PubsOf(Packets(c))

FanTypes ==
    /\ conn \in [FanConn -> {"new", "greeting", "open", "dropped", "closed", "joined"}]
    /\ ident \in [FanConn -> Ident] /\ peers \in [Ident -> FanConn \cup {None}]
    /\ fanStop \subseteq FanConn /\ subs \subseteq FanConn
    /\ chan \in [FanConn -> Seq(Packet)] /\ writing \in [FanConn -> Seq(Packet)]
    /\ lag \in [FanConn -> {0} \cup Size]
    /\ got \in [FanConn -> Seq(1..Pubs)] /\ due \in [FanConn -> Seq(1..Pubs)]
    /\ pubs \in 0..Pubs /\ stopping \in BOOLEAN /\ uneven = FALSE

\* One connection: its queue fits, it is empty once dropped, the global bytes of a written
\* packet are given back before the next is written, and what it was sent is what was due.
FanQueue(c) ==
    /\ Len(writing[c]) <= 1
    /\ SizeOf(Packets(c)) <= Bytes /\ Len(Packets(c)) <= Count
    /\ conn[c] # "open" => chan[c] = <<>> /\ writing[c] = <<>> /\ lag[c] = 0
    /\ writing[c] # <<>> => lag[c] = 0
    /\ conn[c] \in {"new", "greeting"} => got[c] = <<>> /\ due[c] = <<>>
    /\ Prefixed(All(c), due[c])
    /\ conn[c] = "open" /\ c \notin fanStop => All(c) = due[c]

GlobalSum == SumFunction([c \in FanConn |-> GlobalOf(c)])

FanInv ==
    /\ FanTypes
    /\ \A c \in FanConn : FanQueue(c)
    /\ GlobalSum <= Global
    /\ Cardinality(FanAdmitted) <= FanSlots
    /\ MapExact

\* A sequence begins with itself.
LEMMA PrefixedSelf == ASSUME NEW X, NEW s \in Seq(X) PROVE Prefixed(s, s)
  BY DEF Prefixed

\* What a sequence begins with, it begins with when it is longer.
LEMMA PrefixedLonger ==
    ASSUME NEW X, NEW s \in Seq(X), NEW t \in Seq(X), NEW x \in X, Prefixed(s, t)
    PROVE  Prefixed(s, Append(t, x))
  BY DEF Prefixed

\* A sequence begins with less, too.
LEMMA PrefixedShorter ==
    ASSUME NEW X, NEW s \in Seq(X), NEW t \in Seq(X), NEW u \in Seq(X), Prefixed(s \o u, t)
    PROVE  Prefixed(s, t)
  BY DEF Prefixed

\* Prefixed is IsPrefix.
LEMMA PrefixedIs ==
    ASSUME NEW X, NEW s \in Seq(X), NEW t \in Seq(X), Prefixed(s, t)
    PROVE  IsPrefix(s, t)
<1> DEFINE a == SubSeq(s, 1, Len(s))
           b == SubSeq(t, 1, Len(s))
<1>1. a \in Seq(X) /\ b \in Seq(X) /\ Len(a) = Len(s) /\ Len(b) = Len(s)
  BY DEF Prefixed
<1>2. \A i \in 1..Len(s) : a[i] = b[i]
  BY DEF Prefixed
<1>3. a = b
  <2> HIDE DEF a, b
  <2> QED BY <1>1, <1>2, SameSeq
<1> QED BY <1>3 DEF Prefixed, IsPrefix

\* The bytes that a channel still owes are a natural.
LEMMA LagNat == \A n \in {0} \cup Size : n \in Nat
<1>1. Size \subseteq Nat \ {0}
  BY FanoutAssumption
<1>2. 0 \in Nat /\ \A n \in Size : n \in Nat
  BY <1>1
<1> QED BY <1>2

\* What is queued for a connection, and the sizes of it.
LEMMA QueueTypes ==
    ASSUME FanTypes, NEW c \in FanConn
    PROVE  /\ Packets(c) \in Seq(Packet) /\ Len(Packets(c)) = Len(writing[c]) + Len(chan[c])
           /\ SizeOf(Packets(c)) \in Nat /\ PublishedOf(Packets(c)) \in Nat
           /\ lag[c] \in Nat /\ GlobalOf(c) \in Nat
           /\ PubsOf(Packets(c)) \in Seq(1..Pubs) /\ All(c) \in Seq(1..Pubs)
<1>1. writing[c] \in Seq(Packet) /\ chan[c] \in Seq(Packet) /\ got[c] \in Seq(1..Pubs)
  BY DEF FanTypes
<1>2. Packets(c) \in Seq(Packet) /\ Len(Packets(c)) = Len(writing[c]) + Len(chan[c])
  BY <1>1 DEF Packets
<1>3. SizeOf(Packets(c)) \in Nat /\ PublishedOf(Packets(c)) \in Nat
  BY <1>2, SizeType
<1>4. lag[c] \in Nat
  <2>1. lag[c] \in {0} \cup Size
    BY DEF FanTypes
  <2> QED BY <2>1, LagNat
<1>5. PubsOf(Packets(c)) \in Seq(1..Pubs)
  BY <1>2, PubsType
<1>6. All(c) \in Seq(1..Pubs)
  BY <1>1, <1>5 DEF All
<1> QED BY <1>2, <1>3, <1>4, <1>5, <1>6 DEF GlobalOf

\* What a connection holds of the shared limit is a natural after a step.
LEMMA LaterGlobal ==
    ASSUME FanTypes', NEW c \in FanConn
    PROVE  GlobalOf(c)' \in Nat
<1>1. writing'[c] \in Seq(Packet) /\ chan'[c] \in Seq(Packet) /\ lag'[c] \in {0} \cup Size
  BY DEF FanTypes
<1>2. Packets(c)' \in Seq(Packet) /\ lag'[c] \in Nat
  <2>1. lag'[c] \in Nat
    BY <1>1, LagNat
  <2>2. writing'[c] \o chan'[c] \in Seq(Packet)
    BY <1>1
  <2> QED BY <2>1, <2>2 DEF Packets
<1>3. PublishedOf(Packets(c)') \in Nat
  BY <1>2, SizeType
<1> QED BY <1>2, <1>3 DEF GlobalOf

\* A connection whose queue does not change keeps its part of the invariant.
LEMMA QueueSame ==
    ASSUME FanTypes, NEW d \in FanConn, FanQueue(d),
           chan'[d] = chan[d], writing'[d] = writing[d], lag'[d] = lag[d],
           got'[d] = got[d], due'[d] = due[d],
           conn'[d] # "open" => conn[d] # "open",
           conn'[d] \in {"new", "greeting"} => conn[d] \in {"new", "greeting"},
           conn'[d] = "open" => conn[d] \in {"open", "greeting"},
           conn'[d] = "open" /\ d \notin fanStop' => conn[d] = "greeting" \/ d \notin fanStop
    PROVE  FanQueue(d)' /\ GlobalOf(d)' = GlobalOf(d)
<1>1. Packets(d)' = Packets(d)
  BY DEF Packets
<1>2. All(d)' = All(d) /\ GlobalOf(d)' = GlobalOf(d) /\ SizeOf(Packets(d))' = SizeOf(Packets(d))
  BY <1>1 DEF All, GlobalOf
<1>3. Prefixed(All(d), due[d])'
  BY <1>2 DEF FanQueue
<1>4. ASSUME conn[d] = "greeting" PROVE All(d) = due[d]
  <2>1. got[d] = <<>> /\ due[d] = <<>> /\ chan[d] = <<>> /\ writing[d] = <<>>
    BY <1>4 DEF FanQueue
  <2>2. Packets(d) = <<>>
    BY <2>1 DEF Packets
  <2> QED BY <2>1, <2>2, PubsEmpty DEF All
<1>5. (conn[d] = "open" /\ d \notin fanStop => All(d) = due[d])'
  BY <1>2, <1>4 DEF FanQueue
<1> QED BY <1>1, <1>2, <1>3, <1>5 DEF FanQueue

\* The shared limit holds when no connection holds more of it.
LEMMA GlobalKept ==
    ASSUME FanInv, FanTypes', \A c \in FanConn : GlobalOf(c)' <= GlobalOf(c)
    PROVE  (GlobalSum <= Global)'
<1> DEFINE f == [c \in FanConn |-> GlobalOf(c)]
           g == [c \in FanConn |-> GlobalOf(c)']
<1>1. \A c \in FanConn : f[c] \in Nat /\ g[c] \in Nat /\ g[c] <= f[c]
  <2> SUFFICES ASSUME NEW c \in FanConn PROVE GlobalOf(c) \in Nat /\ GlobalOf(c)' \in Nat /\ GlobalOf(c)' <= GlobalOf(c)
    OBVIOUS
  <2>1. GlobalOf(c) \in Nat
    BY QueueTypes DEF FanInv
  <2>2. GlobalOf(c)' \in Nat
    BY LaterGlobal
  <2> QED BY <2>1, <2>2
<1>2. GlobalSum = SumFunctionOnSet(f, FanConn) /\ GlobalSum' = SumFunctionOnSet(g, FanConn)
  BY DEF GlobalSum, SumFunction
<1> HIDE DEF f, g
<1>3. IsFiniteSet(FanConn) /\ Global \in Nat
  BY FanoutAssumption
<1>4. SumFunctionOnSet(g, FanConn) <= SumFunctionOnSet(f, FanConn)
  BY <1>1, <1>3, SumAtMost
<1>5. SumFunctionOnSet(g, FanConn) \in Nat /\ SumFunctionOnSet(f, FanConn) \in Nat
  BY <1>1, <1>3, SumType
<1> QED BY <1>2, <1>3, <1>4, <1>5 DEF FanInv

\* A step of one connection, as far as the others and the global bytes go.
LEMMA OneQueue ==
    ASSUME FanInv, FanTypes', NEW c \in FanConn,
           \A d \in FanConn \ {c} :
              /\ chan'[d] = chan[d] /\ writing'[d] = writing[d] /\ lag'[d] = lag[d]
              /\ got'[d] = got[d] /\ due'[d] = due[d] /\ conn'[d] = conn[d]
              /\ d \notin fanStop' => d \notin fanStop,
           FanQueue(c)', GlobalOf(c)' <= GlobalOf(c)
    PROVE  (\A d \in FanConn : FanQueue(d))' /\ (GlobalSum <= Global)'
<1>1. \A d \in FanConn \ {c} : FanQueue(d)' /\ GlobalOf(d)' = GlobalOf(d)
  <2> SUFFICES ASSUME NEW d \in FanConn \ {c} PROVE FanQueue(d)' /\ GlobalOf(d)' = GlobalOf(d)
    OBVIOUS
  <2>1. FanTypes /\ FanQueue(d) /\ d \in FanConn
    BY DEF FanInv
  <2>2. /\ chan'[d] = chan[d] /\ writing'[d] = writing[d] /\ lag'[d] = lag[d]
        /\ got'[d] = got[d] /\ due'[d] = due[d] /\ conn'[d] = conn[d]
        /\ d \notin fanStop' => d \notin fanStop
    OBVIOUS
  <2> QED BY <2>1, <2>2, QueueSame
<1>2. (\A d \in FanConn : FanQueue(d))'
  BY <1>1
<1>3. \A d \in FanConn : GlobalOf(d)' <= GlobalOf(d)
  <2> SUFFICES ASSUME NEW d \in FanConn \ {c} PROVE GlobalOf(d)' <= GlobalOf(d)
    OBVIOUS
  <2>1. GlobalOf(d) \in Nat
    BY QueueTypes DEF FanInv
  <2> QED BY <1>1, <2>1
<1> QED BY <1>2, <1>3, GlobalKept

\* The slots suffice when nobody is admitted.
LEMMA FanSlotsKept ==
    ASSUME FanInv, FanTypes', FanAdmitted' \subseteq FanAdmitted
    PROVE  (Cardinality(FanAdmitted) <= FanSlots)'
<1>1. IsFiniteSet(FanAdmitted)
  BY FS_Subset, FanoutAssumption DEF FanAdmitted
<1>2. Cardinality(FanAdmitted') <= Cardinality(FanAdmitted) /\ IsFiniteSet(FanAdmitted')
  BY <1>1, FS_Subset
<1> QED BY <1>1, <1>2, FS_CardinalityType, FanoutAssumption DEF FanInv

\* Nobody is connected.
LEMMA FanInitially == FanInit => FanInv
<1> SUFFICES ASSUME FanInit PROVE FanInv
  OBVIOUS
<1> USE FanoutAssumption DEF FanInit
<1>1. FanTypes
  <2>1. <<>> \in Seq(Packet) /\ <<>> \in Seq(1..Pubs)
    OBVIOUS
  <2>2. /\ chan \in [FanConn -> Seq(Packet)] /\ writing \in [FanConn -> Seq(Packet)]
        /\ got \in [FanConn -> Seq(1..Pubs)] /\ due \in [FanConn -> Seq(1..Pubs)]
    BY <2>1
  <2>3. pubs \in 0..Pubs /\ lag \in [FanConn -> {0} \cup Size]
    OBVIOUS
  <2> QED BY <2>2, <2>3 DEF FanTypes
<1>2. ASSUME NEW c \in FanConn PROVE FanQueue(c) /\ GlobalOf(c) = 0
  <2>1. Packets(c) = <<>>
    BY DEF Packets
  <2>2. All(c) = <<>> /\ GlobalOf(c) = 0 /\ SizeOf(Packets(c)) = 0 /\ Len(Packets(c)) = 0
    BY <2>1, PubsEmpty, SizeEmpty DEF All, GlobalOf
  <2> QED BY <2>2 DEF FanQueue, Prefixed
<1>3. GlobalSum <= Global
  <2> DEFINE f == [c \in FanConn |-> GlobalOf(c)]
  <2>1. \A x \in FanConn : f[x] \in 0 .. 0
    BY <1>2
  <2>2. GlobalSum = SumFunctionOnSet(f, FanConn)
    BY DEF GlobalSum, SumFunction
  <2>3. IsFiniteSet(FanConn) /\ 0 \in Nat
    OBVIOUS
  <2> HIDE DEF f
  <2>4. SumFunctionOnSet(f, FanConn) <= 0 * Cardinality(FanConn)
    BY <2>1, <2>3, SumBound
  <2>5. 0 * Cardinality(FanConn) = 0
    BY <2>3, FS_CardinalityType
  <2>6. SumFunctionOnSet(f, FanConn) \in Nat
    BY <2>1, <2>3, SumType
  <2> QED BY <2>2, <2>4, <2>5, <2>6
<1>4. Cardinality(FanAdmitted) <= FanSlots
  <2>1. FanAdmitted = {}
    BY DEF FanAdmitted
  <2> QED BY <2>1, FS_EmptySet
<1>5. MapExact
  BY DEF MapExact, Registered
<1> QED BY <1>1, <1>2, <1>3, <1>4, <1>5 DEF FanInv

-----------------------------------------------------------------------------
\* The steps.

\* Steps that leave every queue as it is.
LEMMA ConnHolds ==
    ASSUME FanInv, NEW c \in FanConn,
           Accept(c) \/ Rejected(c) \/ Register(c) \/ Subscribe(c) \/ Retire(c)
    PROVE  FanInv'
<1>1. UNCHANGED <<ident, due, chan, writing, lag, got, pubs, stopping, uneven>>
  BY DEF Accept, Rejected, Register, Subscribe, Retire
<1>2. FanTypes'
  <2>1. conn' \in [FanConn -> {"new", "greeting", "open", "dropped", "closed", "joined"}]
    BY DEF FanInv, FanTypes, Accept, Rejected, Register, Subscribe, Retire
  <2>2. peers' \in [Ident -> FanConn \cup {None}]
    BY DEF FanInv, FanTypes, Accept, Rejected, Register, Subscribe, Retire
  <2>3. fanStop' \subseteq FanConn /\ subs' \subseteq FanConn
    BY DEF FanInv, FanTypes, Accept, Rejected, Register, Subscribe, Retire
  <2> QED BY <1>1, <2>1, <2>2, <2>3 DEF FanInv, FanTypes
<1>3. /\ conn'[c] # "open" => conn[c] # "open"
      /\ conn'[c] \in {"new", "greeting"} => conn[c] \in {"new", "greeting"}
      /\ conn'[c] = "open" => conn[c] \in {"open", "greeting"}
      /\ conn'[c] = "open" /\ c \notin fanStop' => conn[c] = "greeting" \/ c \notin fanStop
  BY DEF FanInv, FanTypes, Accept, Rejected, Register, Subscribe, Retire
<1>4. \A d \in FanConn \ {c} : conn'[d] = conn[d] /\ (d \notin fanStop' => d \notin fanStop)
  BY DEF FanInv, FanTypes, Accept, Rejected, Register, Subscribe, Retire
<1>5. FanQueue(c)' /\ GlobalOf(c)' = GlobalOf(c)
  <2>1. FanTypes /\ FanQueue(c)
    BY DEF FanInv
  <2>2. chan'[c] = chan[c] /\ writing'[c] = writing[c] /\ lag'[c] = lag[c] /\ got'[c] = got[c]
        /\ due'[c] = due[c]
    BY <1>1
  <2> QED BY <1>3, <2>1, <2>2, QueueSame
<1>6. GlobalOf(c)' <= GlobalOf(c)
  <2>1. GlobalOf(c) \in Nat
    BY QueueTypes DEF FanInv
  <2> QED BY <1>5, <2>1
<1>7. (\A d \in FanConn : FanQueue(d))' /\ (GlobalSum <= Global)'
  BY <1>1, <1>2, <1>4, <1>5, <1>6, OneQueue
<1>8. (Cardinality(FanAdmitted) <= FanSlots)'
  <2>1. CASE Accept(c)
    <3>1. c \notin FanAdmitted /\ FanAdmitted' = FanAdmitted \cup {c}
      BY <2>1 DEF Accept, FanAdmitted, FanInv, FanTypes
    <3>2. IsFiniteSet(FanAdmitted)
      BY FS_Subset, FanoutAssumption DEF FanAdmitted
    <3>3. Cardinality(FanAdmitted') = Cardinality(FanAdmitted) + 1
      BY <3>1, <3>2, FS_AddElement
    <3>4. Cardinality(FanAdmitted) \in Nat /\ Cardinality(FanAdmitted) < FanSlots
      BY <2>1, <3>2, FS_CardinalityType DEF Accept
    <3> QED BY <3>3, <3>4, FanoutAssumption
  <2>2. CASE ~Accept(c)
    <3>1. FanAdmitted' \subseteq FanAdmitted
      BY <1>4, <2>2 DEF FanAdmitted, FanInv, FanTypes, Rejected, Register, Subscribe, Retire
    <3> QED BY <1>2, <3>1, FanSlotsKept
  <2> QED BY <2>1, <2>2
<1>9. MapExact'
  <2> USE FanoutAssumption
  <2>1. CASE Accept(c) \/ Rejected(c) \/ Subscribe(c)
    BY <2>1, SMTT(30) DEF FanInv, FanTypes, MapExact, Registered, Accept, Rejected, Subscribe
  <2>2. CASE Register(c)
    <3>1. c \notin Registered
      BY <2>2 DEF FanInv, MapExact, Register
    <3>2. CASE peers[ident[c]] = None
      <4>1. /\ peers' = [peers EXCEPT ![ident[c]] = c] /\ conn' = [conn EXCEPT ![c] = "open"]
            /\ ident' = ident /\ ident[c] \in Ident
        BY <2>2, <3>2 DEF Register, FanInv, FanTypes
      <4>2. Registered' = Registered \cup {c}
        BY <3>2, <4>1 DEF Registered, FanInv, FanTypes
      <4>3. \A d \in FanConn : conn'[d] \in {"open", "dropped"} <=> d \in Registered'
        BY <3>1, <4>1, <4>2 DEF FanInv, FanTypes, MapExact
      <4>4. \A i \in Ident : peers'[i] # None => ident'[peers'[i]] = i
        BY <4>1 DEF FanInv, FanTypes, MapExact
      <4> QED BY <4>3, <4>4 DEF MapExact
    <3>3. CASE peers[ident[c]] # None
      <4>1. conn' = [conn EXCEPT ![c] = "closed"] /\ peers' = peers /\ ident' = ident
            /\ conn[c] = "greeting"
        BY <2>2, <3>3 DEF Register
      <4>2. Registered' = Registered
        BY <4>1 DEF Registered
      <4> QED BY <3>1, <4>1, <4>2 DEF FanInv, FanTypes, MapExact
    <3> QED BY <3>2, <3>3
  <2>3. CASE Retire(c)
    <3>1. c \in Registered
      BY <2>3 DEF FanInv, MapExact, Retire
    <3>2. PICK i \in Ident : peers[i] = c
      BY <3>1 DEF Registered
    <3>3. ident[c] = i
      BY <3>2 DEF FanInv, MapExact
    <3>4. /\ peers' = [peers EXCEPT ![i] = None] /\ conn' = [conn EXCEPT ![c] = "closed"]
          /\ ident' = ident
      BY <2>3, <3>2, <3>3 DEF Retire
    <3>5. \A j \in Ident \ {i} : peers[j] # c
      BY <3>3 DEF FanInv, MapExact
    <3>6. Registered' = Registered \ {c}
      BY <3>2, <3>4, <3>5 DEF Registered, FanInv, FanTypes
    <3>7. \A d \in FanConn : conn'[d] \in {"open", "dropped"} <=> d \in Registered'
      BY <3>4, <3>6 DEF FanInv, FanTypes, MapExact
    <3>8. \A j \in Ident : peers'[j] # None => ident'[peers'[j]] = j
      BY <3>4 DEF FanInv, FanTypes, MapExact
    <3> QED BY <3>7, <3>8 DEF MapExact
  <2> QED BY <2>1, <2>2, <2>3
<1> QED BY <1>2, <1>7, <1>8, <1>9 DEF FanInv

\* Steps that leave the connections and the map as they are.
LEMMA FanRestKept ==
    ASSUME FanInv, FanTypes', conn' = conn, ident' = ident, peers' = peers
    PROVE  (Cardinality(FanAdmitted) <= FanSlots)' /\ MapExact'
<1>1. FanAdmitted' = FanAdmitted
  BY DEF FanAdmitted
<1>2. Registered' = Registered
  BY DEF Registered
<1> QED BY <1>1, <1>2 DEF FanInv, MapExact

\* A reply to one connection.
LEMMA ReplyHolds ==
    ASSUME FanInv, NEW c \in FanConn, NEW n \in Size, FanReply(c, n) PROVE FanInv'
<1> DEFINE p == [size |-> n, pub |-> 0]
<1>1. UNCHANGED <<conn, ident, peers, subs, due, writing, lag, got, pubs, stopping, uneven>>
  BY DEF FanReply
<1>2. p \in Packet
  BY FanoutAssumption DEF Packet
<1>3. CASE FreeBytes(c) >= n /\ FreeCount(c) >= 1 /\ conn[c] = "open"
  <2>1. chan' = [chan EXCEPT ![c] = Append(chan[c], p)] /\ fanStop' = fanStop
    BY <1>3 DEF FanReply
  <2> HIDE DEF p
  <2>2. chan[c] \in Seq(Packet) /\ writing[c] \in Seq(Packet) /\ Append(chan[c], p) \in Seq(Packet)
    BY <1>2 DEF FanInv, FanTypes
  <2>3. chan' \in [FanConn -> Seq(Packet)] /\ chan'[c] = Append(chan[c], p)
        /\ \A d \in FanConn \ {c} : chan'[d] = chan[d]
    BY <2>1, <2>2 DEF FanInv, FanTypes
  <2>4. FanTypes'
    BY <1>1, <2>1, <2>3 DEF FanInv, FanTypes
  <2>5. Packets(c)' = Append(Packets(c), p) /\ Packets(c) \in Seq(Packet)
    <3>1. writing[c] \o Append(chan[c], p) = Append(writing[c] \o chan[c], p)
      BY <1>2, <2>2, PacketsAppend
    <3>2. writing[c] \o chan[c] \in Seq(Packet)
      BY <2>2
    <3> QED BY <1>1, <2>3, <3>1, <3>2 DEF Packets
  <2>6. /\ SizeOf(Packets(c)') = SizeOf(Packets(c)) + n
        /\ PublishedOf(Packets(c)') = PublishedOf(Packets(c)) + 0
        /\ PubsOf(Packets(c)') = PubsOf(Packets(c))
        /\ Len(Packets(c)') = Len(Packets(c)) + 1
    BY <1>2, <2>5, SizeAppend, PubsAppend DEF Share, Published, p
  <2>7. SizeOf(Packets(c)) \in Nat /\ Len(Packets(c)) \in Nat /\ PublishedOf(Packets(c)) \in Nat
        /\ n \in Nat /\ lag[c] \in Nat
    <3>1. n \in Nat
      BY LagNat
    <3>2. FanTypes
      BY DEF FanInv
    <3>3. Len(Packets(c)) \in Nat
      BY <2>5
    <3> QED BY <3>1, <3>2, <3>3, QueueTypes
  <2>8. SizeOf(Packets(c)') <= Bytes /\ Len(Packets(c)') <= Count
    BY <1>3, <2>6, <2>7, FanoutAssumption DEF FreeBytes, FreeCount
  <2>9. GlobalOf(c)' = GlobalOf(c) /\ GlobalOf(c)' <= GlobalOf(c)
    <3>1. lag'[c] = lag[c]
      BY <1>1
    <3> QED BY <2>6, <2>7, <3>1 DEF GlobalOf
  <2>10. All(c)' = All(c)
    BY <1>1, <2>6 DEF All
  <2>11. FanQueue(c)'
    <3>1. FanQueue(c)
      BY DEF FanInv
    <3> QED BY <1>1, <1>3, <2>1, <2>8, <2>10, <3>1 DEF FanQueue
  <2>12. (\A d \in FanConn : FanQueue(d))' /\ (GlobalSum <= Global)'
    BY <1>1, <2>1, <2>3, <2>4, <2>9, <2>11, OneQueue
  <2> QED BY <1>1, <2>4, <2>12, FanRestKept DEF FanInv
<1>4. CASE ~(FreeBytes(c) >= n /\ FreeCount(c) >= 1 /\ conn[c] = "open")
  <2>1. chan' = chan /\ fanStop' = fanStop \cup {c}
    BY <1>4 DEF FanReply
  <2>2. FanTypes'
    BY <1>1, <2>1 DEF FanInv, FanTypes
  <2>3. FanQueue(c)' /\ GlobalOf(c)' = GlobalOf(c)
    <3>1. FanTypes /\ FanQueue(c)
      BY DEF FanInv
    <3>2. chan'[c] = chan[c] /\ writing'[c] = writing[c] /\ lag'[c] = lag[c] /\ got'[c] = got[c]
          /\ due'[c] = due[c] /\ conn'[c] = conn[c] /\ c \in fanStop'
      BY <1>1, <2>1
    <3> QED BY <3>1, <3>2, QueueSame
  <2>4. GlobalOf(c)' <= GlobalOf(c)
    <3>1. GlobalOf(c) \in Nat
      BY QueueTypes DEF FanInv
    <3> QED BY <2>3, <3>1
  <2>5. (\A d \in FanConn : FanQueue(d))' /\ (GlobalSum <= Global)'
    BY <1>1, <2>1, <2>2, <2>3, <2>4, OneQueue
  <2> QED BY <1>1, <2>2, <2>5, FanRestKept DEF FanInv
<1> QED BY <1>3, <1>4

\* The next packet leaves the channel and keeps its credits.
LEMMA WriteHolds ==
    ASSUME FanInv, NEW c \in FanConn, Write(c) PROVE FanInv'
<1>1. /\ UNCHANGED <<conn, ident, peers, fanStop, subs, due, lag, got, pubs, stopping, uneven>>
      /\ conn[c] = "open" /\ writing[c] = <<>> /\ chan[c] # <<>> /\ lag[c] = 0
  BY DEF Write
<1> DEFINE h == <<Head(chan[c])>>
           t == Tail(chan[c])
<1>2. chan[c] \in Seq(Packet)
  BY DEF FanInv, FanTypes
<1>3. h \in Seq(Packet) /\ Len(h) = 1 /\ h # <<>> /\ t \in Seq(Packet) /\ h \o t = chan[c]
  <2>1. Head(chan[c]) \in Packet /\ t \in Seq(Packet) /\ Len(t) = Len(chan[c]) - 1 /\ Len(chan[c]) \in Nat \ {0}
    BY <1>1, <1>2
  <2>2. h \in Seq(Packet) /\ Len(h) = 1 /\ h # <<>>
    BY <2>1
  <2>3. Len(h \o t) = Len(chan[c]) /\ h \o t \in Seq(Packet)
    BY <2>1, <2>2
  <2>4. \A i \in 1..Len(h \o t) : (h \o t)[i] = chan[c][i]
    BY <1>1, <1>2, <2>1
  <2> HIDE DEF h, t
  <2>5. h \o t = chan[c]
    BY <1>2, <2>3, <2>4, SameSeq
  <2> QED BY <2>1, <2>2, <2>5
<1>4. /\ writing' = [writing EXCEPT ![c] = h] /\ chan' = [chan EXCEPT ![c] = t]
  BY DEF Write
<1> HIDE DEF h, t
<1>5. /\ chan' \in [FanConn -> Seq(Packet)] /\ writing' \in [FanConn -> Seq(Packet)]
      /\ chan'[c] = t /\ writing'[c] = h
      /\ \A d \in FanConn \ {c} : chan'[d] = chan[d] /\ writing'[d] = writing[d]
  BY <1>3, <1>4 DEF FanInv, FanTypes
<1>6. FanTypes'
  BY <1>1, <1>5 DEF FanInv, FanTypes
<1>7. Packets(c)' = Packets(c)
  <2>1. <<>> \o chan[c] = chan[c]
    BY <1>2, ConcatEmpty
  <2> QED BY <1>1, <1>3, <1>5, <2>1 DEF Packets
<1>8. All(c)' = All(c) /\ GlobalOf(c)' = GlobalOf(c)
  BY <1>1, <1>7 DEF All, GlobalOf
<1>9. FanQueue(c)'
  <2>1. FanQueue(c)
    BY DEF FanInv
  <2>2. Len(writing'[c]) <= 1
    <3>1. Len(writing'[c]) = 1
      BY <1>3, <1>5
    <3> QED BY <3>1
  <2>3. SizeOf(Packets(c)') <= Bytes /\ Len(Packets(c)') <= Count
    BY <1>7, <2>1 DEF FanQueue
  <2>4. conn'[c] = "open" /\ lag'[c] = 0
    BY <1>1
  <2>5. Prefixed(All(c)', due'[c]) /\ (c \notin fanStop' => All(c)' = due'[c])
    BY <1>1, <1>8, <2>1 DEF FanQueue
  <2> QED BY <2>2, <2>3, <2>4, <2>5 DEF FanQueue
<1>10. GlobalOf(c)' <= GlobalOf(c)
  <2>1. GlobalOf(c) \in Nat
    BY QueueTypes DEF FanInv
  <2> QED BY <1>8, <2>1
<1>11. (\A d \in FanConn : FanQueue(d))' /\ (GlobalSum <= Global)'
  BY <1>1, <1>5, <1>6, <1>9, <1>10, OneQueue
<1> QED BY <1>1, <1>6, <1>11, FanRestKept DEF FanInv

\* The packet is written.
LEMMA WrittenHolds ==
    ASSUME FanInv, NEW c \in FanConn, Written(c) PROVE FanInv'
<1> DEFINE p == Head(writing[c])
<1>1. /\ UNCHANGED <<conn, ident, peers, fanStop, subs, due, chan, pubs, stopping, uneven>>
      /\ conn[c] = "open" /\ writing[c] # <<>>
  BY DEF Written
<1>2. /\ got' = [got EXCEPT ![c] = IF p.pub = 0 THEN got[c] ELSE Append(got[c], p.pub)]
      /\ lag' = [lag EXCEPT ![c] = IF p.pub = 0 THEN 0 ELSE p.size]
      /\ writing' = [writing EXCEPT ![c] = <<>>]
  BY DEF Written
<1>3. FanTypes /\ FanQueue(c) /\ lag[c] = 0
  BY <1>1 DEF FanInv, FanQueue
<1>4. writing[c] \in Seq(Packet) /\ chan[c] \in Seq(Packet) /\ got[c] \in Seq(1..Pubs) /\ Len(writing[c]) = 1
  <2>1. writing[c] \in Seq(Packet) /\ chan[c] \in Seq(Packet) /\ got[c] \in Seq(1..Pubs)
    BY <1>3 DEF FanTypes
  <2>2. Len(writing[c]) <= 1 /\ writing[c] # <<>>
    BY <1>1, <1>3 DEF FanQueue
  <2>3. Len(writing[c]) = 1
    <3>1. Len(writing[c]) \in Nat \ {0}
      BY <2>1, <2>2, NotEmpty
    <3> DEFINE m == Len(writing[c])
    <3>2. m \in Nat /\ m # 0 /\ m <= 1
      BY <2>2, <3>1
    <3> HIDE DEF m
    <3>3. m = 1
      BY <3>2
    <3> QED BY <3>3 DEF m
  <2> QED BY <2>1, <2>3
<1>5. p \in Packet /\ writing[c] = <<p>>
  BY <1>4
<1> HIDE DEF p
<1>6. p.size \in Size /\ p.size \in Nat /\ (p.pub = 0 \/ p.pub \in 1..Pubs)
  <2>1. p.size \in Size /\ p.pub \in 0..Pubs
    BY <1>5 DEF Packet
  <2>2. p.size \in Nat
    BY <2>1, LagNat
  <2>3. p.pub = 0 \/ p.pub \in 1..Pubs
    BY <2>1
  <2> QED BY <2>1, <2>2, <2>3
<1>7. /\ got' \in [FanConn -> Seq(1..Pubs)] /\ got'[c] = (IF p.pub = 0 THEN got[c] ELSE Append(got[c], p.pub))
      /\ \A d \in FanConn \ {c} : got'[d] = got[d]
  <2>1. (IF p.pub = 0 THEN got[c] ELSE Append(got[c], p.pub)) \in Seq(1..Pubs)
    <3>1. CASE p.pub = 0
      BY <1>4, <3>1
    <3>2. CASE p.pub # 0
      <4>1. p.pub \in 1..Pubs
        BY <1>6, <3>2
      <4>2. Append(got[c], p.pub) \in Seq(1..Pubs)
        BY <1>4, <4>1
      <4> QED BY <3>2, <4>2
    <3> QED BY <3>1, <3>2
  <2> QED BY <1>2, <2>1 DEF FanInv, FanTypes
<1>8. /\ lag' \in [FanConn -> {0} \cup Size] /\ lag'[c] = Share(p)
      /\ \A d \in FanConn \ {c} : lag'[d] = lag[d]
  BY <1>2, <1>6 DEF FanInv, FanTypes, Share
<1>9. /\ writing' \in [FanConn -> Seq(Packet)] /\ writing'[c] = <<>>
      /\ \A d \in FanConn \ {c} : writing'[d] = writing[d]
  <2>1. <<>> \in Seq(Packet)
    OBVIOUS
  <2> QED BY <1>2, <2>1 DEF FanInv, FanTypes
<1>10. FanTypes'
  BY <1>1, <1>7, <1>8, <1>9 DEF FanInv, FanTypes
<1>11. Packets(c) = <<p>> \o chan[c] /\ Packets(c)' = chan[c]
  <2>1. <<>> \o chan[c] = chan[c]
    BY <1>4, ConcatEmpty
  <2> QED BY <1>1, <1>5, <1>9, <2>1 DEF Packets
<1>12. /\ SizeOf(Packets(c)) = p.size + SizeOf(chan[c])
       /\ PublishedOf(Packets(c)) = Share(p) + PublishedOf(chan[c])
       /\ PubsOf(Packets(c)) = (IF p.pub = 0 THEN PubsOf(chan[c]) ELSE <<p.pub>> \o PubsOf(chan[c]))
  BY <1>4, <1>5, <1>11, SizeCons, PubsCons
<1>13. SizeOf(chan[c]) \in Nat /\ PublishedOf(chan[c]) \in Nat /\ PubsOf(chan[c]) \in Seq(1..Pubs)
       /\ Share(p) \in Nat
  BY <1>4, <1>6, SizeType, PubsType DEF Share
<1>14. GlobalOf(c)' = GlobalOf(c) /\ GlobalOf(c)' <= GlobalOf(c)
  BY <1>3, <1>8, <1>11, <1>12, <1>13 DEF GlobalOf
<1>15. All(c)' = All(c)
  <2>1. All(c)' = got'[c] \o PubsOf(chan[c])
    BY <1>11 DEF All
  <2>2. All(c) = got[c] \o (IF p.pub = 0 THEN PubsOf(chan[c]) ELSE <<p.pub>> \o PubsOf(chan[c]))
    BY <1>12 DEF All
  <2>3. CASE p.pub = 0
    BY <1>7, <2>1, <2>2, <2>3
  <2>4. CASE p.pub # 0
    <3>1. Append(got[c], p.pub) \o PubsOf(chan[c]) = got[c] \o (<<p.pub>> \o PubsOf(chan[c]))
      <4>1. p.pub \in 1..Pubs
        BY <1>6, <2>4
      <4> QED BY <1>4, <1>13, <4>1, AppendConcat, ZenonT(40)
    <3> QED BY <1>7, <2>1, <2>2, <2>4, <3>1
  <2> QED BY <2>3, <2>4
<1>16. SizeOf(Packets(c)') <= Bytes /\ Len(Packets(c)') <= Count
  <2>1. Len(Packets(c)) = Len(chan[c]) + 1 /\ Len(chan[c]) \in Nat
    <3>1. Len(Packets(c)) = Len(writing[c]) + Len(chan[c])
      BY <1>3, QueueTypes
    <3>2. Len(chan[c]) \in Nat
      BY <1>4
    <3> QED BY <1>4, <3>1, <3>2
  <2>2. SizeOf(Packets(c)) <= Bytes /\ Len(Packets(c)) <= Count
    BY <1>3 DEF FanQueue
  <2> QED BY <1>6, <1>11, <1>12, <1>13, <2>1, <2>2, FanoutAssumption, SMTT(30)
<1>17. FanQueue(c)'
  <2>1. writing'[c] = <<>> /\ Len(writing'[c]) <= 1
    BY <1>9
  <2> QED BY <1>1, <1>3, <1>15, <1>16, <2>1 DEF FanQueue
<1>18. (\A d \in FanConn : FanQueue(d))' /\ (GlobalSum <= Global)'
  BY <1>1, <1>7, <1>8, <1>9, <1>10, <1>14, <1>17, OneQueue
<1> QED BY <1>1, <1>10, <1>18, FanRestKept DEF FanInv

\* The credits of the packet that was written are given back.
LEMMA ReleaseHolds ==
    ASSUME FanInv, NEW c \in FanConn, Release(c) PROVE FanInv'
<1>1. /\ UNCHANGED <<conn, ident, peers, fanStop, subs, due, chan, writing, got, pubs, stopping, uneven>>
      /\ lag' = [lag EXCEPT ![c] = 0]
  BY DEF Release
<1>2. FanTypes'
  BY <1>1 DEF FanInv, FanTypes
<1>3. lag'[c] = 0 /\ \A d \in FanConn \ {c} : lag'[d] = lag[d]
  BY <1>1 DEF FanInv, FanTypes
<1>4. Packets(c)' = Packets(c)
  BY <1>1 DEF Packets
<1>5. GlobalOf(c)' <= GlobalOf(c)
  <2>1. lag[c] \in Nat /\ PublishedOf(Packets(c)) \in Nat
    BY QueueTypes DEF FanInv
  <2> QED BY <1>3, <1>4, <2>1 DEF GlobalOf
<1>6. FanQueue(c)'
  <2>1. FanQueue(c)
    BY DEF FanInv
  <2>2. All(c)' = All(c)
    BY <1>1, <1>4 DEF All
  <2> QED BY <1>1, <1>3, <1>4, <2>1, <2>2 DEF FanQueue
<1>7. (\A d \in FanConn : FanQueue(d))' /\ (GlobalSum <= Global)'
  BY <1>1, <1>2, <1>3, <1>5, <1>6, OneQueue
<1> QED BY <1>1, <1>2, <1>7, FanRestKept DEF FanInv

\* The select ends, and the queue is dropped with its packets.
LEMMA DropHolds ==
    ASSUME FanInv, NEW c \in FanConn, Drop(c) PROVE FanInv'
<1>1. /\ UNCHANGED <<ident, peers, fanStop, subs, due, lag, got, pubs, stopping, uneven>>
      /\ conn[c] = "open" /\ lag[c] = 0 /\ conn' = [conn EXCEPT ![c] = "dropped"]
      /\ chan' = [chan EXCEPT ![c] = <<>>] /\ writing' = [writing EXCEPT ![c] = <<>>]
  BY DEF Drop
<1>2. FanTypes /\ FanQueue(c) /\ <<>> \in Seq(Packet)
  BY DEF FanInv
<1>3. /\ chan' \in [FanConn -> Seq(Packet)] /\ writing' \in [FanConn -> Seq(Packet)]
      /\ chan'[c] = <<>> /\ writing'[c] = <<>>
      /\ \A d \in FanConn \ {c} : chan'[d] = chan[d] /\ writing'[d] = writing[d]
  BY <1>1, <1>2 DEF FanTypes
<1>4. /\ conn' \in [FanConn -> {"new", "greeting", "open", "dropped", "closed", "joined"}]
      /\ conn'[c] = "dropped" /\ \A d \in FanConn \ {c} : conn'[d] = conn[d]
  BY <1>1, <1>2 DEF FanTypes
<1>5. FanTypes'
  BY <1>1, <1>2, <1>3, <1>4 DEF FanTypes
<1>6. Packets(c)' = <<>>
  BY <1>3 DEF Packets
<1>7. GlobalOf(c)' = 0 /\ GlobalOf(c)' <= GlobalOf(c)
  <2>1. GlobalOf(c) \in Nat
    BY <1>2, QueueTypes
  <2> QED BY <1>1, <1>6, <2>1, SizeEmpty DEF GlobalOf
<1>8. All(c)' = got[c] /\ Prefixed(got[c], due[c])
  <2>1. got[c] \in Seq(1..Pubs) /\ due[c] \in Seq(1..Pubs) /\ PubsOf(Packets(c)) \in Seq(1..Pubs)
    BY <1>2, QueueTypes DEF FanTypes
  <2>2. got[c] \o <<>> = got[c]
    BY <2>1, ConcatEmpty
  <2>3. Prefixed(got[c] \o PubsOf(Packets(c)), due[c])
    BY <1>2 DEF FanQueue, All
  <2> QED BY <1>1, <1>6, <2>1, <2>2, <2>3, PubsEmpty, PrefixedShorter DEF All
<1>9. FanQueue(c)'
  <2>1. SizeOf(Packets(c)') = 0 /\ Len(Packets(c)') = 0 /\ Len(writing'[c]) <= 1
    BY <1>3, <1>6, SizeEmpty
  <2> QED BY <1>1, <1>3, <1>4, <1>8, <2>1, FanoutAssumption DEF FanQueue
<1>10. (\A d \in FanConn : FanQueue(d))' /\ (GlobalSum <= Global)'
  BY <1>1, <1>3, <1>4, <1>5, <1>7, <1>9, OneQueue
<1>11. FanAdmitted' \subseteq FanAdmitted
  BY <1>1, <1>4 DEF FanAdmitted
<1>12. MapExact'
  <2>1. Registered' = Registered
    BY <1>1 DEF Registered
  <2> QED BY <1>1, <1>4, <2>1 DEF MapExact, FanInv
<1> QED BY <1>5, <1>10, <1>11, <1>12, FanSlotsKept DEF FanInv

\* The listener joins the task and frees its slot.
LEMMA JoinHolds ==
    ASSUME FanInv, NEW c \in FanConn, FanJoin(c) PROVE FanInv'
<1>1. /\ UNCHANGED <<ident, peers, chan, writing, lag, pubs, stopping, uneven>>
      /\ conn[c] = "closed" /\ conn' = [conn EXCEPT ![c] = "joined"]
      /\ subs' = subs \ {c} /\ fanStop' = fanStop \ {c}
      /\ got' = [got EXCEPT ![c] = <<>>] /\ due' = [due EXCEPT ![c] = <<>>]
  BY DEF FanJoin
<1>2. FanTypes /\ FanQueue(c) /\ <<>> \in Seq(1..Pubs)
  BY DEF FanInv
<1>3. /\ got' \in [FanConn -> Seq(1..Pubs)] /\ due' \in [FanConn -> Seq(1..Pubs)]
      /\ got'[c] = <<>> /\ due'[c] = <<>>
      /\ \A d \in FanConn \ {c} : got'[d] = got[d] /\ due'[d] = due[d]
  BY <1>1, <1>2 DEF FanTypes
<1>4. /\ conn' \in [FanConn -> {"new", "greeting", "open", "dropped", "closed", "joined"}]
      /\ conn'[c] = "joined" /\ \A d \in FanConn \ {c} : conn'[d] = conn[d]
  BY <1>1, <1>2 DEF FanTypes
<1>5. FanTypes'
  BY <1>1, <1>2, <1>3, <1>4 DEF FanTypes
<1>6. chan[c] = <<>> /\ writing[c] = <<>> /\ lag[c] = 0
  BY <1>1, <1>2 DEF FanQueue
<1>7. Packets(c)' = <<>> /\ Packets(c) = <<>>
  BY <1>1, <1>6 DEF Packets
<1>8. GlobalOf(c)' <= GlobalOf(c)
  BY <1>1, <1>6, <1>7, SizeEmpty DEF GlobalOf
<1>9. All(c)' = <<>>
  BY <1>3, <1>7, PubsEmpty DEF All
<1>10. FanQueue(c)'
  <2>1. SizeOf(Packets(c)') = 0 /\ Len(Packets(c)') = 0 /\ Len(writing'[c]) <= 1
    BY <1>1, <1>6, <1>7, SizeEmpty
  <2>2. Prefixed(All(c)', due'[c])
    BY <1>3, <1>9 DEF Prefixed
  <2> QED BY <1>1, <1>3, <1>4, <1>6, <2>1, <2>2, FanoutAssumption DEF FanQueue
<1>11. \A d \in FanConn \ {c} : d \notin fanStop' => d \notin fanStop
  BY <1>1
<1>12. (\A d \in FanConn : FanQueue(d))' /\ (GlobalSum <= Global)'
  BY <1>1, <1>3, <1>4, <1>5, <1>8, <1>10, <1>11, OneQueue
<1>13. FanAdmitted' \subseteq FanAdmitted
  BY <1>4 DEF FanAdmitted
<1>14. MapExact'
  <2>1. Registered' = Registered
    BY <1>1 DEF Registered
  <2> QED BY <1>1, <1>4, <2>1 DEF MapExact, FanInv
<1> QED BY <1>5, <1>12, <1>13, <1>14, FanSlotsKept DEF FanInv

\* Server::publish: a message to all subscribers.
LEMMA PublishHolds ==
    ASSUME FanInv, NEW n \in Size, FanPublish(n) PROVE FanInv'
<1> DEFINE takes == {c \in Subscribers : FreeBytes(c) >= n /\ FreeCount(c) >= 1}
           slow == Subscribers \ takes
           enough == FreeGlobal >= n * Cardinality(takes)
           q == [size |-> n, pub |-> pubs + 1]
<1>1. /\ UNCHANGED <<conn, ident, peers, subs, writing, lag, got, stopping>>
      /\ pubs < Pubs /\ fanStop' = fanStop \cup slow
      /\ enough => chan' = FanSent(takes, n) /\ due' = Due /\ pubs' = pubs + 1 /\ uneven' = uneven
      /\ ~enough => chan' = chan /\ due' = due /\ pubs' = pubs /\ uneven' = uneven
  BY DEF FanPublish, Reserved, FanInv, FanTypes
<1>2. FanTypes /\ MapExact /\ \A c \in FanConn : FanQueue(c)
  BY DEF FanInv
<1>3. /\ Subscribers \subseteq FanConn /\ takes \subseteq Subscribers /\ slow \subseteq FanConn
      /\ \A c \in Subscribers : conn[c] \in {"open", "dropped"} /\ c \notin fanStop
  <2>1. Registered \subseteq FanConn
    BY <1>2 DEF FanTypes, Registered
  <2> QED BY <1>2, <2>1 DEF Subscribers, MapExact
<1>4. n \in Nat /\ pubs \in Nat /\ pubs + 1 \in 1..Pubs /\ q \in Packet
  <2>1. n \in Nat
    BY LagNat
  <2>2. pubs \in Nat /\ pubs + 1 \in 1..Pubs
    BY <1>1, <1>2, FanoutAssumption DEF FanTypes
  <2> QED BY <2>1, <2>2 DEF Packet
<1>5. CASE ~enough
  <2>1. FanTypes'
    BY <1>1, <1>2, <1>3, <1>5 DEF FanTypes
  <2>2. ASSUME NEW c \in FanConn PROVE FanQueue(c)' /\ GlobalOf(c)' = GlobalOf(c)
    <3>1. chan'[c] = chan[c] /\ writing'[c] = writing[c] /\ lag'[c] = lag[c] /\ got'[c] = got[c]
          /\ due'[c] = due[c] /\ conn'[c] = conn[c] /\ (c \notin fanStop' => c \notin fanStop)
      BY <1>1, <1>5
    <3>2. FanTypes /\ FanQueue(c)
      BY <1>2
    <3> HIDE DEF takes, slow, enough, q
    <3> QED BY <3>1, <3>2, QueueSame
  <2>3. \A c \in FanConn : GlobalOf(c)' <= GlobalOf(c)
    <3> SUFFICES ASSUME NEW c \in FanConn PROVE GlobalOf(c)' <= GlobalOf(c)
      OBVIOUS
    <3>1. GlobalOf(c) \in Nat
      BY <1>2, QueueTypes
    <3> QED BY <2>2, <3>1
  <2> HIDE DEF takes, slow, enough, q
  <2>4. (GlobalSum <= Global)'
    BY <2>1, <2>3, GlobalKept
  <2> QED BY <1>1, <2>1, <2>2, <2>4, FanRestKept DEF FanInv
<1>6. CASE enough
  <2>1. /\ chan' = FanSent(takes, n) /\ due' = Due /\ pubs' = pubs + 1 /\ uneven' = uneven
    BY <1>1, <1>6
  <2>2. ASSUME NEW c \in FanConn
        PROVE  /\ chan'[c] = (IF c \in takes /\ conn[c] = "open" THEN Append(chan[c], q) ELSE chan[c])
               /\ due'[c] = (IF c \in Subscribers THEN Append(due[c], pubs + 1) ELSE due[c])
               /\ chan'[c] \in Seq(Packet) /\ due'[c] \in Seq(1..Pubs)
               /\ chan[c] \in Seq(Packet) /\ writing[c] \in Seq(Packet) /\ got[c] \in Seq(1..Pubs)
               /\ due[c] \in Seq(1..Pubs)
    <3>1. /\ chan'[c] = (IF c \in takes /\ conn[c] = "open" THEN Append(chan[c], q) ELSE chan[c])
          /\ due'[c] = (IF c \in Subscribers THEN Append(due[c], pubs + 1) ELSE due[c])
      BY <2>1 DEF FanSent, Due
    <3>2. /\ chan[c] \in Seq(Packet) /\ writing[c] \in Seq(Packet) /\ got[c] \in Seq(1..Pubs)
          /\ due[c] \in Seq(1..Pubs)
      BY <1>2 DEF FanTypes
    <3> HIDE DEF takes, q
    <3>3. Append(chan[c], q) \in Seq(Packet)
      BY <1>4, <3>2
    <3>4. Append(due[c], pubs + 1) \in Seq(1..Pubs)
      BY <1>4, <3>2
    <3> QED BY <3>1, <3>2, <3>3, <3>4
  <2>3. FanTypes'
    <3>1. chan' = [c \in FanConn |-> chan'[c]] /\ due' = [c \in FanConn |-> due'[c]]
      BY <2>1 DEF FanSent, Due
    <3>2. chan' \in [FanConn -> Seq(Packet)] /\ due' \in [FanConn -> Seq(1..Pubs)]
      BY <2>2, <3>1
    <3>3. fanStop' \subseteq FanConn
      BY <1>1, <1>2, <1>3 DEF FanTypes
    <3>4. pubs' \in 0..Pubs
      BY <1>4, <2>1
    <3> HIDE DEF takes, slow, enough, q
    <3> QED BY <1>1, <1>2, <2>1, <3>2, <3>3, <3>4 DEF FanTypes
  <2>4. ASSUME NEW c \in FanConn, c \in takes, conn[c] = "open"
        PROVE  FanQueue(c)' /\ GlobalOf(c)' <= GlobalOf(c) + n
    <3>1. /\ chan'[c] = Append(chan[c], q) /\ due'[c] = Append(due[c], pubs + 1)
          /\ writing'[c] = writing[c] /\ lag'[c] = lag[c] /\ got'[c] = got[c] /\ conn'[c] = "open"
      BY <1>1, <1>3, <2>2, <2>4
    <3>2. FreeBytes(c) >= n /\ FreeCount(c) >= 1 /\ c \notin fanStop
      BY <1>3, <2>4
    <3>3. q.size = n /\ q.pub = pubs + 1 /\ q.pub # 0
      BY <1>4
    <3> HIDE DEF takes, slow, enough, q
    <3>4. Packets(c)' = Append(Packets(c), q) /\ Packets(c) \in Seq(Packet)
      <4>1. writing[c] \o Append(chan[c], q) = Append(writing[c] \o chan[c], q)
        BY <1>4, <2>2, PacketsAppend
      <4>2. writing[c] \o chan[c] \in Seq(Packet)
        BY <2>2
      <4> QED BY <3>1, <4>1, <4>2 DEF Packets
    <3>5. /\ SizeOf(Packets(c)') = SizeOf(Packets(c)) + n
          /\ PublishedOf(Packets(c)') = PublishedOf(Packets(c)) + n
          /\ PubsOf(Packets(c)') = Append(PubsOf(Packets(c)), pubs + 1)
          /\ Len(Packets(c)') = Len(Packets(c)) + 1
      BY <1>4, <3>3, <3>4, SizeAppend, PubsAppend DEF Share, Published
    <3>6. /\ SizeOf(Packets(c)) \in Nat /\ PublishedOf(Packets(c)) \in Nat /\ lag[c] \in Nat
          /\ PubsOf(Packets(c)) \in Seq(1..Pubs)
      BY <1>2, QueueTypes
    <3>7. Len(Packets(c)) \in Nat
      BY <3>4
    <3>8. SizeOf(Packets(c)') <= Bytes /\ Len(Packets(c)') <= Count
      <4>1. Bytes \in Nat /\ Count \in Nat
        BY FanoutAssumption
      <4>2. Bytes - SizeOf(Packets(c)) >= n /\ Count - Len(Packets(c)) >= 1
        BY <3>2 DEF FreeBytes, FreeCount
      <4>3. SizeOf(Packets(c)) + n <= Bytes
        BY <1>4, <3>6, <4>1, <4>2
      <4>4. Len(Packets(c)) + 1 <= Count
        BY <3>7, <4>1, <4>2
      <4> QED BY <3>5, <4>3, <4>4
    <3>9. GlobalOf(c)' <= GlobalOf(c) + n
      BY <1>4, <3>1, <3>5, <3>6 DEF GlobalOf
    <3>10. All(c)' = Append(All(c), pubs + 1)
      <4>1. got[c] \o Append(PubsOf(Packets(c)), pubs + 1) = Append(got[c] \o PubsOf(Packets(c)), pubs + 1)
        <5> DEFINE a == got[c]
                   b == PubsOf(Packets(c))
                   x == pubs + 1
        <5>1. a \in Seq(1..Pubs) /\ b \in Seq(1..Pubs) /\ x \in 1..Pubs
          BY <1>4, <2>2, <3>6
        <5> HIDE DEF a, b, x
        <5>2. Append(a \o b, x) = a \o Append(b, x)
          BY <5>1, ConcatAppend
        <5> QED BY <5>2 DEF a, b, x
      <4> QED BY <3>1, <3>5, <4>1 DEF All
    <3>11. FanQueue(c) /\ All(c) = due[c]
      BY <1>2, <2>4, <3>2 DEF FanQueue
    <3>12. All(c)' = due'[c] /\ Prefixed(All(c)', due'[c])
      <4>1. All(c)' = due'[c]
        BY <3>1, <3>10, <3>11
      <4>2. due'[c] \in Seq(1..Pubs)
        BY <2>2
      <4>3. Prefixed(due'[c], due'[c])
        BY <4>2, PrefixedSelf
      <4> QED BY <4>1, <4>3
    <3>13. Len(writing'[c]) <= 1 /\ (writing'[c] # <<>> => lag'[c] = 0)
      BY <3>1, <3>11 DEF FanQueue
    <3>14. FanQueue(c)'
      BY <3>1, <3>8, <3>12, <3>13 DEF FanQueue
    <3> QED BY <3>9, <3>14
  <2>5. ASSUME NEW c \in FanConn, ~(c \in takes /\ conn[c] = "open")
        PROVE  FanQueue(c)' /\ GlobalOf(c)' = GlobalOf(c)
    <3>1. /\ chan'[c] = chan[c] /\ writing'[c] = writing[c] /\ lag'[c] = lag[c]
          /\ got'[c] = got[c] /\ conn'[c] = conn[c] /\ (c \notin fanStop' => c \notin fanStop)
      BY <1>1, <2>2, <2>5
    <3>2. FanTypes /\ FanQueue(c)
      BY <1>2
    <3>3. CASE c \notin Subscribers
      <4>1. due'[c] = due[c]
        BY <2>2, <3>3
      <4> HIDE DEF takes, slow, enough, q
      <4> QED BY <3>1, <3>2, <4>1, QueueSame
    <3>4. CASE c \in Subscribers
      <4>1. /\ due'[c] = Append(due[c], pubs + 1) /\ conn[c] \in {"open", "dropped"}
            /\ (conn[c] = "open" => c \in fanStop')
        BY <1>1, <1>3, <2>2, <2>5, <3>4
      <4> HIDE DEF takes, slow, enough, q
      <4>2. Packets(c)' = Packets(c)
        BY <3>1 DEF Packets
      <4>3. All(c)' = All(c) /\ GlobalOf(c)' = GlobalOf(c)
        BY <3>1, <4>2 DEF All, GlobalOf
      <4>4. Prefixed(All(c), due'[c])
        <5>1. All(c) \in Seq(1..Pubs) /\ due[c] \in Seq(1..Pubs)
          BY <1>2, <2>2, QueueTypes
        <5>2. Prefixed(All(c), due[c])
          BY <3>2 DEF FanQueue
        <5> QED BY <1>4, <4>1, <5>1, <5>2, PrefixedLonger
      <4>5. FanQueue(c)'
        BY <3>1, <3>2, <4>1, <4>2, <4>3, <4>4 DEF FanQueue
      <4> QED BY <4>3, <4>5
    <3> QED BY <3>3, <3>4
  <2>6. (\A c \in FanConn : FanQueue(c))'
    BY <2>4, <2>5
  <2>7. (GlobalSum <= Global)'
    <3> DEFINE f == [c \in FanConn |-> GlobalOf(c)]
               g == [c \in FanConn |-> GlobalOf(c)']
    <3>1. \A c \in FanConn : GlobalOf(c) \in Nat /\ GlobalOf(c)' \in Nat
      BY <1>2, <2>3, QueueTypes, LaterGlobal
    <3>2. GlobalSum = SumFunctionOnSet(f, FanConn) /\ GlobalSum' = SumFunctionOnSet(g, FanConn)
      BY DEF GlobalSum, SumFunction
    <3>3. \A c \in FanConn : f[c] \in Nat /\ g[c] \in Nat
      BY <3>1
    <3>4. \A c \in takes : g[c] <= f[c] + n
      <4> SUFFICES ASSUME NEW c \in takes PROVE GlobalOf(c)' <= GlobalOf(c) + n
        BY <1>3
      <4>1. c \in FanConn
        BY <1>3
      <4>2. CASE conn[c] = "open"
        BY <2>4, <4>1, <4>2
      <4>3. CASE conn[c] # "open"
        BY <1>4, <2>5, <3>1, <4>1, <4>3
      <4> QED BY <4>2, <4>3
    <3>5. \A c \in FanConn \ takes : g[c] <= f[c]
      BY <2>5, <3>1
    <3>6. takes \in SUBSET FanConn /\ IsFiniteSet(FanConn) /\ Global \in Nat
      BY <1>3, FanoutAssumption
    <3>7. Global - SumFunctionOnSet(f, FanConn) >= n * Cardinality(takes)
      BY <1>6, <3>2 DEF FreeGlobal, GlobalSum
    <3> HIDE DEF takes, slow, enough, q, f, g
    <3>8. SumFunctionOnSet(g, FanConn) <= SumFunctionOnSet(f, FanConn) + n * Cardinality(takes)
      BY <1>4, <3>3, <3>4, <3>5, <3>6, SumRaised
    <3>9. SumFunctionOnSet(g, FanConn) \in Nat /\ SumFunctionOnSet(f, FanConn) \in Nat
      BY <3>3, <3>6, SumType
    <3>10. Cardinality(takes) \in Nat
      BY <3>6, FS_Subset, FS_CardinalityType
    <3>11. n * Cardinality(takes) \in Nat
      BY <1>4, <3>10
    <3> QED BY <3>2, <3>6, <3>7, <3>8, <3>9, <3>11
  <2> HIDE DEF takes, slow, enough, q
  <2> QED BY <1>1, <2>3, <2>6, <2>7, FanRestKept DEF FanInv
<1> QED BY <1>5, <1>6

\* Every step keeps the invariant.
LEMMA FanStep == FanInv /\ [FanNext]_fanVars => FanInv'
<1> SUFFICES ASSUME FanInv, [FanNext]_fanVars PROVE FanInv'
  OBVIOUS
<1>1. ASSUME UNCHANGED <<conn, ident, peers, fanStop, subs, due, chan, writing, lag, got, pubs, uneven>>,
             stopping' \in BOOLEAN
      PROVE  FanInv'
  <2>1. FanTypes'
    BY <1>1 DEF FanInv, FanTypes
  <2>2. \A c \in FanConn : FanQueue(c)' /\ GlobalOf(c)' = GlobalOf(c)
    BY <1>1 DEF FanInv, FanQueue, All, Packets, GlobalOf
  <2>3. GlobalSum' = GlobalSum
    BY <2>2 DEF GlobalSum
  <2> QED BY <1>1, <2>1, <2>2, <2>3, FanRestKept DEF FanInv
<1>2. CASE UNCHANGED fanVars
  BY <1>1, <1>2 DEF fanVars, FanInv, FanTypes
<1>3. CASE Shutdown
  BY <1>1, <1>3 DEF Shutdown
<1>4. ASSUME NEW c \in FanConn, Lives(c) PROVE FanInv'
  BY <1>4, ConnHolds, WriteHolds, WrittenHolds, ReleaseHolds, DropHolds, JoinHolds DEF Lives
<1>5. ASSUME NEW n \in Size, FanPublish(n) PROVE FanInv'
  BY <1>5, PublishHolds
<1>6. ASSUME NEW n \in Size, NEW c \in FanConn, FanReply(c, n) PROVE FanInv'
  BY <1>6, ReplyHolds
<1> QED BY <1>2, <1>3, <1>4, <1>5, <1>6 DEF FanNext

\* Server::publish and the connection tasks, for every number of connections, every limit
\* and every size of messages: a publication reaches all subscribers in order or none, the
\* credits stay within the limits, and the map knows exactly who lives.
THEOREM PublicationExact == FanSpec => []FanoutSound
<1>1. FanInv => FanoutSound
  <2> SUFFICES ASSUME FanInv PROVE FanoutSound
    OBVIOUS
  <2>1. FanTypes /\ MapExact /\ \A c \in FanConn : FanQueue(c)
    BY DEF FanInv
  <2>2. \A c \in FanConn : FreeBytes(c) \in 0 .. Bytes /\ FreeCount(c) \in 0 .. Count
    <3> SUFFICES ASSUME NEW c \in FanConn
                 PROVE  FreeBytes(c) \in 0 .. Bytes /\ FreeCount(c) \in 0 .. Count
      OBVIOUS
    <3>1. SizeOf(Packets(c)) \in Nat /\ Packets(c) \in Seq(Packet)
      BY <2>1, QueueTypes
    <3>2. Len(Packets(c)) \in Nat
      BY <3>1
    <3>3. SizeOf(Packets(c)) <= Bytes /\ Len(Packets(c)) <= Count
      BY <2>1 DEF FanQueue
    <3> QED BY <3>1, <3>2, <3>3, FanoutAssumption DEF FreeBytes, FreeCount
  <2>3. FanTypeOK
    <3>1. \A c \in FanConn : Len(writing[c]) <= 1
      BY <2>1 DEF FanQueue
    <3>2. \A c \in FanConn : lag[c] \in {0} \cup Size /\ got[c] \in Seq(1 .. Pubs) /\ due[c] \in Seq(1 .. Pubs)
      BY <2>1 DEF FanTypes
    <3> QED BY <2>1, <2>2, <3>1, <3>2 DEF FanTypes, FanTypeOK
  <2>4. NoGaps
    <3> SUFFICES ASSUME NEW c \in FanConn
                 PROVE  /\ IsPrefix(All(c), due[c])
                        /\ conn[c] = "open" /\ c \notin fanStop => All(c) = due[c]
      BY DEF NoGaps, All
    <3>1. All(c) \in Seq(1..Pubs) /\ due[c] \in Seq(1..Pubs)
      BY <2>1, QueueTypes DEF FanTypes
    <3>2. Prefixed(All(c), due[c]) /\ (conn[c] = "open" /\ c \notin fanStop => All(c) = due[c])
      BY <2>1 DEF FanQueue
    <3> QED BY <3>1, <3>2, PrefixedIs
  <2>5. WithinLimits
    <3> DEFINE f == [c \in FanConn |-> GlobalOf(c)]
    <3>1. \A c \in FanConn : f[c] \in Nat
      BY <2>1, QueueTypes
    <3>2. GlobalSum = SumFunctionOnSet(f, FanConn) /\ FreeGlobal = Global - GlobalSum
      BY DEF GlobalSum, FreeGlobal, SumFunction
    <3>3. IsFiniteSet(FanConn) /\ Global \in Nat
      BY FanoutAssumption
    <3> HIDE DEF f
    <3>4. SumFunctionOnSet(f, FanConn) \in Nat
      BY <3>1, <3>3, SumType
    <3>5. FreeGlobal \in 0 .. Global
      BY <3>2, <3>3, <3>4 DEF FanInv
    <3>6. ASSUME NEW c \in FanConn, conn[c] # "open" PROVE GlobalOf(c) = 0
      <4>1. chan[c] = <<>> /\ writing[c] = <<>> /\ lag[c] = 0
        BY <2>1, <3>6 DEF FanQueue
      <4>2. Packets(c) = <<>>
        BY <4>1 DEF Packets
      <4> QED BY <4>1, <4>2, SizeEmpty DEF GlobalOf
    <3> QED BY <3>5, <3>6 DEF WithinLimits, FanInv
  <2> QED BY <2>1, <2>3, <2>4, <2>5 DEF FanoutSound, NoPartialFanout, FanTypes
<1> QED BY <1>1, FanInitially, FanStep, PTL DEF FanSpec

(***************************************************************************)
(* Intake                                                                  *)
(***************************************************************************)

\* What a connection holds at each point of its loop.
IntakeAt(c) ==
    /\ reading[c] \in {"new", "idle", "closed", "joined"} =>
          total[c] = 0 /\ parts[c] = 0 /\ need[c] = 0 /\ held[c] = 0
    /\ reading[c] \in {"header", "handle"} => held[c] = total[c] /\ need[c] = 0
    /\ reading[c] = "header" => (parts[c] = 0 => total[c] = 0)
    /\ reading[c] = "acquire" =>
          parts[c] < Parts /\ held[c] = total[c] /\ total[c] + need[c] <= MessageCap
    /\ reading[c] = "body" =>
          parts[c] < Parts /\ held[c] = total[c] + need[c] /\ held[c] <= MessageCap

IntakeTypes ==
    /\ reading \in [IntakeConn -> {"new", "idle", "header", "acquire", "body", "handle", "closed",
                        "joined"}]
    /\ total \in [IntakeConn -> 0 .. MessageCap] /\ need \in [IntakeConn -> 0 .. MessageCap]
    /\ parts \in [IntakeConn -> 0 .. Parts] /\ held \in [IntakeConn -> 0 .. MessageCap]

IntakeInv ==
    /\ IntakeTypes
    /\ \A c \in IntakeConn : IntakeAt(c)
    /\ Cardinality(IntakeAdmitted) <= IntakeSlots

\* No connection yet.
LEMMA IntakeInitially == IntakeInit => IntakeInv
<1> SUFFICES ASSUME IntakeInit PROVE IntakeInv
  OBVIOUS
<1> USE IntakeAssumption DEF IntakeInit
<1>1. IntakeTypes
  BY DEF IntakeTypes
<1>2. \A c \in IntakeConn : IntakeAt(c)
  BY DEF IntakeAt
<1>3. IntakeAdmitted = {}
  BY DEF IntakeAdmitted
<1> QED BY <1>1, <1>2, <1>3, FS_EmptySet DEF IntakeInv

\* A step of one connection leaves the slots alone unless it opens the connection.
LEMMA IntakeSlotsKept ==
    ASSUME IntakeInv, IntakeTypes', NEW c \in IntakeConn,
           \A d \in IntakeConn \ {c} : reading'[d] = reading[d],
           reading[c] \in {"new", "joined"} => reading'[c] \in {"new", "joined"}
    PROVE  (Cardinality(IntakeAdmitted) <= IntakeSlots)'
<1>1. IntakeAdmitted' \subseteq IntakeAdmitted
  BY DEF IntakeAdmitted, IntakeInv, IntakeTypes
<1>2. IsFiniteSet(IntakeAdmitted)
  BY FS_Subset, IntakeAssumption DEF IntakeAdmitted
<1>3. Cardinality(IntakeAdmitted') <= Cardinality(IntakeAdmitted)
  BY <1>1, <1>2, FS_Subset
<1> QED BY <1>1, <1>2, <1>3, FS_Subset, FS_CardinalityType, IntakeAssumption DEF IntakeInv

\* Every step of a connection keeps the invariant.
LEMMA IntakeStep == IntakeInv /\ [IntakeNext]_intakeVars => IntakeInv'
<1> SUFFICES ASSUME IntakeInv, [IntakeNext]_intakeVars PROVE IntakeInv'
  OBVIOUS
<1> USE IntakeAssumption
<1>1. CASE UNCHANGED intakeVars
  BY <1>1 DEF intakeVars, IntakeInv, IntakeTypes, IntakeAt, IntakeAdmitted
<1>2. ASSUME NEW c \in IntakeConn, Open(c) PROVE IntakeInv'
  <2>1. IntakeTypes'
    BY <1>2 DEF IntakeInv, IntakeTypes, Open
  <2>2. (\A d \in IntakeConn : IntakeAt(d))'
    BY <1>2 DEF IntakeInv, IntakeTypes, IntakeAt, Open
  <2>3. IntakeAdmitted' = IntakeAdmitted \cup {c} /\ c \notin IntakeAdmitted
    BY <1>2 DEF IntakeInv, IntakeTypes, IntakeAdmitted, Open
  <2>4. IsFiniteSet(IntakeAdmitted)
    BY FS_Subset DEF IntakeAdmitted
  <2>5. Cardinality(IntakeAdmitted') = Cardinality(IntakeAdmitted) + 1
    BY <2>3, <2>4, FS_AddElement
  <2>6. (Cardinality(IntakeAdmitted) <= IntakeSlots)'
    BY <1>2, <2>4, <2>5, FS_CardinalityType DEF Open
  <2> QED BY <2>1, <2>2, <2>6 DEF IntakeInv
<1>3. ASSUME NEW c \in IntakeConn, ~Open(c),
             \/ First(c) \/ Command(c) \/ Acquire(c) \/ Body(c) \/ Handled(c)
             \/ IntakeFail(c) \/ IntakeJoin(c)
             \/ \E n \in Lengths : Header(c, n)
      PROVE  IntakeInv'
  <2> USE DEF IntakeInv, IntakeTypes
  <2>1. CASE First(c)
    <3>1. IntakeTypes' /\ (\A d \in IntakeConn : IntakeAt(d))'
      BY <2>1 DEF IntakeAt, First
    <3> QED BY <2>1, <3>1, IntakeSlotsKept DEF First
  <2>2. CASE Command(c)
    <3>1. IntakeTypes' /\ (\A d \in IntakeConn : IntakeAt(d))'
      BY <2>2 DEF IntakeAt, Command
    <3> QED BY <2>2, <3>1, IntakeSlotsKept DEF Command
  <2>3. CASE Acquire(c)
    <3>1. held[c] + need[c] \in 0 .. MessageCap
      BY <2>3 DEF IntakeAt, Acquire
    <3>2. IntakeTypes' /\ (\A d \in IntakeConn : IntakeAt(d))'
      BY <2>3, <3>1 DEF IntakeAt, Acquire
    <3> QED BY <2>3, <3>2, IntakeSlotsKept DEF Acquire
  <2>4. CASE Body(c)
    <3>1. total[c] + need[c] \in 0 .. MessageCap /\ parts[c] + 1 \in 1 .. Parts
      BY <2>4 DEF IntakeAt, Body
    <3>2. IntakeTypes' /\ (\A d \in IntakeConn : IntakeAt(d))'
      BY <2>4, <3>1 DEF IntakeAt, Body
    <3> QED BY <2>4, <3>2, IntakeSlotsKept DEF Body
  <2>5. CASE Handled(c)
    <3>1. IntakeTypes' /\ (\A d \in IntakeConn : IntakeAt(d))'
      BY <2>5 DEF IntakeAt, Handled
    <3> QED BY <2>5, <3>1, IntakeSlotsKept DEF Handled
  <2>6. CASE IntakeFail(c)
    <3>1. IntakeTypes' /\ (\A d \in IntakeConn : IntakeAt(d))'
      BY <2>6 DEF IntakeAt, IntakeFail, Closed
    <3> QED BY <2>6, <3>1, IntakeSlotsKept DEF IntakeFail, Closed
  <2>7. CASE IntakeJoin(c)
    <3>1. IntakeTypes' /\ (\A d \in IntakeConn : IntakeAt(d))'
      BY <2>7 DEF IntakeAt, IntakeJoin
    <3> QED BY <2>7, <3>1, IntakeSlotsKept DEF IntakeJoin
  <2>8. ASSUME NEW n \in Lengths, Header(c, n) PROVE IntakeInv'
    <3>1. n \in Nat
      OBVIOUS
    <3>2. IntakeTypes' /\ (\A d \in IntakeConn : IntakeAt(d))'
      BY <2>8, <3>1 DEF IntakeAt, Header, Closed, TooLarge
    <3> QED BY <2>8, <3>2, IntakeSlotsKept DEF Header, Closed
  <2> QED BY <1>3, <2>1, <2>2, <2>3, <2>4, <2>5, <2>6, <2>7, <2>8
<1> QED BY <1>1, <1>2, <1>3 DEF IntakeNext

\* What the others hold leaves one message's worth of credits to each connection.
LEMMA IntakeRoom ==
    ASSUME IntakeInv
    PROVE  /\ Available \in 0 .. IntakeCredits
           /\ \A c \in IntakeAdmitted : Available >= MessageCap - held[c]
<1> USE IntakeAssumption, CreditsAssumption
<1> DEFINE Sum(S) == SumFunctionOnSet(held, S)
           A == IntakeAdmitted
<1>1. A \in SUBSET IntakeConn /\ \A c \in IntakeConn : held[c] \in 0 .. MessageCap
  BY DEF IntakeAdmitted, IntakeInv, IntakeTypes
<1>2. \A c \in IntakeConn \ A : held[c] = 0
  BY DEF IntakeAdmitted, IntakeInv, IntakeAt
<1>3. IsFiniteSet(A) /\ Cardinality(A) \in Nat /\ Cardinality(A) <= IntakeSlots
  BY <1>1, FS_Subset, FS_CardinalityType DEF IntakeInv
<1> HIDE DEF A
<1>4. Sum(IntakeConn) = Sum(A) /\ Sum(A) \in Nat
  BY <1>1, <1>2, <1>3, SumPart, SumType
<1>5. Sum(A) <= MessageCap * Cardinality(A)
  BY <1>1, <1>3, SumBound
<1>6. \A n \in 0 .. IntakeSlots : MessageCap * n <= IntakeSlots * MessageCap
  <2> SUFFICES ASSUME NEW n \in 0 .. IntakeSlots PROVE MessageCap * n <= IntakeSlots * MessageCap
    OBVIOUS
  <2>1. IntakeSlots * MessageCap = MessageCap * n + MessageCap * (IntakeSlots - n)
    BY SMTT(20)
  <2>2. MessageCap * (IntakeSlots - n) \in Nat /\ MessageCap * n \in Nat
    BY SMTT(20)
  <2> QED BY <2>1, <2>2
<1>7. Available \in 0 .. IntakeCredits
  <2>1. Sum(A) <= IntakeSlots * MessageCap
    <3>1. MessageCap * Cardinality(A) <= IntakeSlots * MessageCap
      BY <1>3, <1>6
    <3>2. MessageCap * Cardinality(A) \in Nat /\ IntakeSlots * MessageCap \in Nat
      BY <1>3
    <3> QED BY <1>4, <1>5, <3>1, <3>2
  <2> QED BY <1>4, <2>1 DEF Available
<1>8. ASSUME NEW c \in A PROVE Available >= MessageCap - held[c]
  <2>1. IsFiniteSet(A \ {c}) /\ Cardinality(A \ {c}) = Cardinality(A) - 1
    BY <1>3, FS_Subset, FS_RemoveElement
  <2>2. Sum(A) = held[c] + Sum(A \ {c})
    BY <1>1, <1>3, SumTake
  <2>3. Sum(A \ {c}) <= MessageCap * Cardinality(A \ {c}) /\ Sum(A \ {c}) \in Nat
    <3> DEFINE B == A \ {c}
    <3>1. IsFiniteSet(B) /\ (\A x \in B : held[x] \in 0 .. MessageCap)
      BY <1>1, <2>1
    <3>2. \A x \in B : held[x] \in Nat
      BY <3>1
    <3> HIDE DEF B
    <3>3. Sum(B) <= MessageCap * Cardinality(B) /\ Sum(B) \in Nat
      BY <3>1, <3>2, SumBound, SumType
    <3> QED BY <3>3 DEF B
  <2>4. Cardinality(A) >= 1
    <3>1. Cardinality(A) # 0
      BY <1>3, FS_EmptySet
    <3> QED BY <1>3, <3>1
  <2>5. MessageCap * Cardinality(A \ {c}) + MessageCap <= IntakeSlots * MessageCap
    <3>1. MessageCap * Cardinality(A) <= IntakeSlots * MessageCap
      BY <1>3, <1>6
    <3>2. MessageCap * Cardinality(A \ {c}) + MessageCap = MessageCap * Cardinality(A)
      BY <1>3, <2>1, <2>4
    <3> QED BY <3>1, <3>2
  <2> QED
    <3> DEFINE m == MessageCap * Cardinality(A \ {c})
    <3>1. m \in Nat /\ IntakeSlots * MessageCap \in Nat /\ held[c] \in Nat
      BY <1>1, <1>3, <2>1, <2>4
    <3> HIDE DEF m
    <3> QED BY <1>4, <2>2, <2>3, <2>5, <3>1 DEF Available, m
<1> QED BY <1>7, <1>8 DEF A

\* connection() never waits for the credits of its endpoint, and what it reads stays
\* within the caps, for every number of slots and every size of a message.
THEOREM NobodyWaits == IntakeSpec => []IntakeSound
<1>1. IntakeInv => IntakeSound
  <2> SUFFICES ASSUME IntakeInv PROVE IntakeSound
    OBVIOUS
  <2>1. IntakeTypeOK
    BY IntakeRoom DEF IntakeInv, IntakeTypes, IntakeTypeOK
  <2>2. ASSUME NEW c \in IntakeConn, reading[c] = "acquire" PROVE Available >= need[c]
    <3>1. c \in IntakeAdmitted
      BY <2>2 DEF IntakeAdmitted
    <3>2. Available >= MessageCap - held[c] /\ Available \in 0 .. IntakeCredits
      BY <3>1, IntakeRoom
    <3>3. held[c] + need[c] <= MessageCap /\ held[c] \in Nat /\ need[c] \in Nat
      BY <2>2, IntakeAssumption DEF IntakeInv, IntakeTypes, IntakeAt
    <3> QED BY <3>2, <3>3, IntakeAssumption
  <2> QED BY <2>1, <2>2 DEF IntakeSound, NeverWaits
<1> QED BY <1>1, IntakeInitially, IntakeStep, PTL DEF IntakeSpec

=============================================================================
