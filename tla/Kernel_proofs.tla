--------------------------- MODULE Kernel_proofs ----------------------------
(***************************************************************************)
(* Proofs about the kernel process, for any cells, options, queue bound    *)
(* and credit:                                                             *)
(*   - an interrupt stops only the cell it was meant for;                  *)
(*   - every admitted request is answered by the time the kernel exits;    *)
(*   - cells run in the order of their admission, each at most once;       *)
(*   - what a client sees of a cell is one well-formed answer;             *)
(*   - a signal reaches only processes that are the kernel's own;          *)
(*   - the output of an operation is cut, kept and decoded as it would be  *)
(*     in one piece.                                                       *)
(* InterruptInv relates the interrupt state to the worker and its frames,  *)
(* CellInv tells where each cell is and what it got, OrderInv relates the  *)
(* queue, the job and what ran to the order of admission, TextInv relates  *)
(* what Capture holds and Text published to everything that was read.      *)
(***************************************************************************)
EXTENDS Kernel, Containment, Streams, FiniteSetTheorems, SequenceTheorems, TLAPS

\* Nothing is folded here.
Union(S, T) == S \cup T
Data == INSTANCE Data_proofs WITH Op <- Union

(***************************************************************************)
(* Kernel                                                                  *)
(***************************************************************************)

----------------------------------------------------------------------------
(* What is published *)

Statuses == [state : {"busy", "idle"}, by : {"cell", "info", "refusal", "start"}]
By == {"cell", "refusal"}

\* The latest of at most four states.
LEMMA LastState ==
    ASSUME NEW S \in SUBSET (1 .. 4), S # {} PROVE Max(S) \in S
<1>1. \E x \in S : \A y \in S : x >= y
  <2>1. CASE 4 \in S
    BY <2>1
  <2>2. CASE 4 \notin S /\ 3 \in S
    BY <2>2
  <2>3. CASE 4 \notin S /\ 3 \notin S /\ 2 \in S
    BY <2>3
  <2>4. CASE 4 \notin S /\ 3 \notin S /\ 2 \notin S
    <3>1. \A y \in S : y = 1
      BY <2>4
    <3>2. 1 \in S
      BY <3>1
    <3> QED
      BY <3>1, <3>2
  <2> QED
    BY <2>1, <2>2, <2>3, <2>4
<1> QED
  BY <1>1 DEF Max

\* Output::publish, status and reply, event by event.
LEMMA Published ==
    ASSUME log \in [Cell -> Seq(Event)], status \in Statuses, closed \in SUBSET Cell,
           NEW c \in Cell, NEW by \in By, NEW e \in Seq(Event), NEW n \in Events,
           Publish(c, by, e, n)
    PROVE  /\ n \in 0 .. Len(e)
           /\ log' \in [Cell -> Seq(Event)] /\ \A d \in Cell \ {c} : log'[d] = log[d]
           /\ log'[c] = log[c] \o SubSeq(e, 1, n)
           /\ status' \in Statuses /\ (status' = status \/ status'.by = by)
           /\ (\E i \in 1 .. n : e[i] \in {"busy", "idle"}) => status'.by = by
           /\ closed' \in SUBSET Cell /\ closed \subseteq closed'
           /\ choked' \in BOOLEAN /\ (choked => choked')
           /\ n < Len(e) => closed' # {} \/ choked'
           /\ n = Len(e) => closed' = closed /\ (choked' <=> choked)
<1> DEFINE stuck == IF n = Len(e) THEN "no" ELSE e[n + 1]
           states == {i \in 1 .. n : e[i] \in {"busy", "idle"}}
<1>1. /\ n \in 0 .. Len(e) /\ log' = [log EXCEPT ![c] = @ \o SubSeq(e, 1, n)]
      /\ status' = IF states = {} THEN status ELSE [state |-> e[Max(states)], by |-> by]
      /\ closed' = IF stuck = "reply" THEN closed \cup {c} ELSE closed
      /\ choked' = (choked \/ stuck \notin {"no", "reply"})
  BY DEF Publish
<1>2. SubSeq(e, 1, n) \in Seq(Event) /\ log[c] \o SubSeq(e, 1, n) \in Seq(Event)
  BY <1>1
<1>3. /\ log' \in [Cell -> Seq(Event)] /\ \A d \in Cell \ {c} : log'[d] = log[d]
      /\ log'[c] = log[c] \o SubSeq(e, 1, n)
  BY <1>1, <1>2
<1>4. /\ status' \in Statuses /\ (status' = status \/ status'.by = by)
      /\ (\E i \in 1 .. n : e[i] \in {"busy", "idle"}) => status'.by = by
  <2>1. CASE states = {}
    BY <1>1, <2>1 DEF Statuses
  <2>2. CASE states # {}
    <3>1. states \in SUBSET (1 .. 4)
      BY DEF Events
    <3>2. Max(states) \in states
      BY <2>2, <3>1, LastState
    <3> QED
      BY <1>1, <2>2, <3>2 DEF Statuses, By
  <2> QED
    BY <2>1, <2>2
<1>5. closed' \in SUBSET Cell /\ closed \subseteq closed'
  BY <1>1
<1>6. choked' \in BOOLEAN /\ (choked => choked')
  BY <1>1
<1>7. ASSUME n < Len(e) PROVE closed' # {} \/ choked'
  <2>1. stuck \in Event
    BY <1>1, <1>7
  <2>2. stuck # "no"
    BY <2>1 DEF Event
  <2> QED
    BY <1>1, <2>2
<1>8. ASSUME n = Len(e) PROVE closed' = closed /\ (choked' <=> choked)
  BY <1>1, <1>8
<1> QED
  BY <1>1, <1>3, <1>4, <1>5, <1>6, <1>7, <1>8

\* What a step published under the header of c.
LEMMA LogGrows ==
    ASSUME NEW s \in Seq(Event), NEW e \in Seq(Event), NEW n \in 0 .. Len(e)
    PROVE  /\ s \o SubSeq(e, 1, n) \in Seq(Event) /\ Len(s \o SubSeq(e, 1, n)) = Len(s) + n
           /\ \A i \in 1 .. Len(s) : (s \o SubSeq(e, 1, n))[i] = s[i]
           /\ \A i \in 1 .. n : (s \o SubSeq(e, 1, n))[Len(s) + i] = e[i]
  OBVIOUS

\* One sequence after another.
LEMMA Joined ==
    ASSUME NEW s \in Seq(Event), NEW t \in Seq(Event)
    PROVE  /\ s \o t \in Seq(Event) /\ Len(s \o t) = Len(s) + Len(t)
           /\ \A i \in 1 .. Len(s) : (s \o t)[i] = s[i]
           /\ \A i \in 1 .. Len(t) : (s \o t)[Len(s) + i] = t[i]
           /\ \A i \in 1 .. Len(s) + Len(t) :
                i \in 1 .. Len(s) \/ \E j \in 1 .. Len(t) : i = Len(s) + j
<1>1. ASSUME NEW i \in 1 .. Len(s) + Len(t), i \notin 1 .. Len(s)
      PROVE  \E j \in 1 .. Len(t) : i = Len(s) + j
  <2>1. i - Len(s) \in 1 .. Len(t) /\ i = Len(s) + (i - Len(s))
    BY <1>1
  <2> QED
    BY <2>1
<1> QED
  BY <1>1

\* A sequence of one event.
LEMMA OneEvent ==
    ASSUME NEW e \in Event
    PROVE  <<e>> \in Seq(Event) /\ Len(<<e>>) = 1 /\ <<e>>[1] = e
  OBVIOUS

\* An event that may be left out.
LEMMA UnlessIs ==
    ASSUME NEW b, NEW e \in Event
    PROVE  /\ Unless(b, e) \in Seq(Event) /\ Len(Unless(b, e)) \in 0 .. 1
           /\ \A i \in 1 .. Len(Unless(b, e)) : Unless(b, e)[i] = e
           /\ ~b => Len(Unless(b, e)) = 1
  BY DEF Unless

\* busy and execute_input.
BeginEvents(o) == <<"busy">> \o Unless(o.size = "oversized" \/ o.silent, "input")

\* App::execute: busy comes first, then at most the input.
LEMMA BeginEventsAre ==
    ASSUME NEW o
    PROVE  /\ BeginEvents(o) \in Seq(Event) /\ Len(BeginEvents(o)) \in 1 .. 2
           /\ BeginEvents(o)[1] = "busy"
           /\ \A i \in 2 .. Len(BeginEvents(o)) : BeginEvents(o)[i] = "input"
<1> DEFINE s == <<"busy">>
           t == Unless(o.size = "oversized" \/ o.silent, "input")
<1>1. s \in Seq(Event) /\ Len(s) = 1 /\ s[1] = "busy"
  BY DEF Event
<1>2. t \in Seq(Event) /\ Len(t) \in 0 .. 1 /\ \A i \in 1 .. Len(t) : t[i] = "input"
  BY UnlessIs DEF Event
<1>3. BeginEvents(o) = s \o t
  BY DEF BeginEvents
<1> HIDE DEF s, t
<1>4. /\ s \o t \in Seq(Event) /\ Len(s \o t) = Len(s) + Len(t)
      /\ \A i \in 1 .. Len(s) : (s \o t)[i] = s[i]
      /\ \A i \in 1 .. Len(t) : (s \o t)[Len(s) + i] = t[i]
      /\ \A i \in 1 .. Len(s) + Len(t) :
           i \in 1 .. Len(s) \/ \E j \in 1 .. Len(t) : i = Len(s) + j
  BY <1>1, <1>2, Joined
<1> QED
  BY <1>1, <1>2, <1>3, <1>4

\* Output::refusal: one busy at the beginning, one idle at the end, and a reply, unless the
\* route is closed.
LEMMA RefusalEventsAre ==
    ASSUME NEW c, NEW o, NEW e, e = RefusalEvents(c, o)
    PROVE  /\ e \in Seq(Event) /\ Len(e) \in 2 .. 4 /\ e[1] = "busy" /\ e[Len(e)] = "idle"
           /\ \A i \in 2 .. Len(e) : e[i] # "busy"
           /\ \A i \in 1 .. Len(e) - 1 : e[i] # "idle"
           /\ \A i, j \in 1 .. Len(e) : e[i] = "reply" /\ e[j] = "reply" => i = j
           /\ c \notin closed => \E i \in 1 .. Len(e) : e[i] = "reply"
<1> DEFINE b == <<"busy">>
           x == Unless(o.silent, "error")
           r == Unless(c \in closed, "reply")
           d == <<"idle">>
<1>1. /\ b \in Seq(Event) /\ Len(b) = 1 /\ b[1] = "busy"
      /\ d \in Seq(Event) /\ Len(d) = 1 /\ d[1] = "idle"
  BY DEF Event
<1>2. x \in Seq(Event) /\ Len(x) \in 0 .. 1 /\ \A i \in 1 .. Len(x) : x[i] = "error"
  BY UnlessIs DEF Event
<1>3. /\ r \in Seq(Event) /\ Len(r) \in 0 .. 1 /\ \A i \in 1 .. Len(r) : r[i] = "reply"
      /\ c \notin closed => Len(r) = 1
  BY UnlessIs DEF Event
<1>4. e = ((b \o x) \o r) \o d
  BY DEF RefusalEvents, ReplyEvents
<1> HIDE DEF b, x, r, d
<1>5. /\ b \o x \in Seq(Event) /\ Len(b \o x) = 1 + Len(x) /\ (b \o x)[1] = "busy"
      /\ \A i \in 2 .. Len(b \o x) : (b \o x)[i] = "error"
  <2>1. /\ b \o x \in Seq(Event) /\ Len(b \o x) = Len(b) + Len(x)
        /\ \A i \in 1 .. Len(b) : (b \o x)[i] = b[i]
        /\ \A i \in 1 .. Len(x) : (b \o x)[Len(b) + i] = x[i]
        /\ \A i \in 1 .. Len(b) + Len(x) :
             i \in 1 .. Len(b) \/ \E j \in 1 .. Len(x) : i = Len(b) + j
    BY <1>1, <1>2, Joined
  <2> QED
    BY <1>1, <1>2, <2>1
<1> DEFINE f == b \o x
           g == f \o r
<1>6. /\ g \in Seq(Event) /\ Len(g) = Len(f) + Len(r) /\ g[1] = "busy"
      /\ \A i \in 2 .. Len(f) : g[i] = "error"
      /\ \A i \in 1 .. Len(g) : i > Len(f) => g[i] = "reply" /\ i = Len(f) + 1
      /\ Len(r) = 1 => g[Len(f) + 1] = "reply"
  <2> HIDE DEF f
  <2>0. /\ f \in Seq(Event) /\ Len(f) = 1 + Len(x) /\ f[1] = "busy"
        /\ \A i \in 2 .. Len(f) : f[i] = "error"
    BY <1>5 DEF f
  <2>1. /\ f \o r \in Seq(Event) /\ Len(f \o r) = Len(f) + Len(r)
        /\ \A i \in 1 .. Len(f) : (f \o r)[i] = f[i]
        /\ \A i \in 1 .. Len(r) : (f \o r)[Len(f) + i] = r[i]
        /\ \A i \in 1 .. Len(f) + Len(r) :
             i \in 1 .. Len(f) \/ \E j \in 1 .. Len(r) : i = Len(f) + j
    BY <2>0, <1>3, Joined
  <2>2. Len(f) \in 1 .. 2
    BY <1>2, <2>0
  <2>3. g = f \o r
    OBVIOUS
  <2> HIDE DEF g
  <2>4. g \in Seq(Event) /\ Len(g) = Len(f) + Len(r) /\ g[1] = "busy"
    BY <1>3, <2>0, <2>1, <2>2, <2>3
  <2>5. \A i \in 2 .. Len(f) : g[i] = "error"
    BY <2>0, <2>1, <2>2, <2>3
  <2>6. ASSUME NEW i \in 1 .. Len(g), i > Len(f) PROVE g[i] = "reply" /\ i = Len(f) + 1
    <3>1. PICK j \in 1 .. Len(r) : i = Len(f) + j
      BY <2>1, <2>2, <2>3, <2>6
    <3>2. j = 1 /\ r[j] = "reply"
      BY <1>3, <3>1
    <3> QED
      BY <2>1, <2>3, <3>1, <3>2
  <2>7. Len(r) = 1 => g[Len(f) + 1] = "reply"
    BY <1>3, <2>1, <2>3
  <2> QED
    BY <2>4, <2>5, <2>6, <2>7
<1>7. Len(f) \in 1 .. 2 /\ Len(r) \in 0 .. 1
  BY <1>2, <1>3, <1>5
<1>8. e = g \o d
  BY <1>4
<1> HIDE DEF f, g
<1>9. /\ g \o d \in Seq(Event) /\ Len(g \o d) = Len(g) + Len(d)
      /\ \A i \in 1 .. Len(g) : (g \o d)[i] = g[i]
      /\ \A i \in 1 .. Len(d) : (g \o d)[Len(g) + i] = d[i]
  BY <1>1, <1>6, Joined
<1>10. /\ e \in Seq(Event) /\ Len(e) = Len(f) + Len(r) + 1 /\ e[1] = "busy"
       /\ e[Len(e)] = "idle"
       /\ \A i \in 1 .. Len(e) - 1 : e[i] = g[i]
  BY <1>1, <1>6, <1>7, <1>8, <1>9
<1>11. \A i \in 2 .. Len(e) - 1 : e[i] = "error" \/ (e[i] = "reply" /\ i = Len(f) + 1)
  BY <1>6, <1>7, <1>10
<1>12. Len(e) \in 2 .. 4 /\ Len(e) = Len(f) + Len(r) + 1
  <2>1. Len(e) = Len(f) + Len(r) + 1
    BY <1>10
  <2>2. \A a \in 1 .. 2, k \in 0 .. 1 : a + k + 1 \in 2 .. 4
    OBVIOUS
  <2> QED
    BY <1>7, <2>1, <2>2
<1>13. ASSUME NEW i \in 1 .. Len(e), e[i] = "reply" PROVE i = Len(f) + 1
  <2>1. i # 1 /\ i # Len(e)
    BY <1>10, <1>13
  <2>2. i \in 2 .. Len(e) - 1
    BY <1>12, <2>1
  <2> QED
    BY <1>11, <1>13, <2>2
<1>14. ASSUME c \notin closed PROVE \E i \in 1 .. Len(e) : e[i] = "reply"
  <2>1. Len(r) = 1 /\ Len(f) + 1 \in 1 .. Len(e) - 1
    BY <1>3, <1>7, <1>12, <1>14
  <2>2. e[Len(f) + 1] = "reply"
    BY <1>6, <1>10, <2>1
  <2> QED
    BY <1>12, <2>1, <2>2
<1>15. \A i \in 2 .. Len(e) : e[i] # "busy"
  BY <1>10, <1>11, <1>12
<1>16. \A i \in 1 .. Len(e) - 1 : e[i] # "idle"
  BY <1>10, <1>11, <1>12
<1> QED
  BY <1>10, <1>12, <1>13, <1>14, <1>15, <1>16

\* App::settle: an error or a result and the reply, which is last.
AnswerEvents(c, o, r) ==
    (IF o.silent THEN << >>
     ELSE IF r.failed THEN <<"error">> ELSE IF r.shown THEN <<"result">> ELSE << >>)
    \o ReplyEvents(c)

\* App::settle: at most one reply, and it comes last.
LEMMA AnswerEventsAre ==
    ASSUME NEW c, NEW o, NEW r, NEW e, e = AnswerEvents(c, o, r)
    PROVE  /\ e \in Seq(Event) /\ Len(e) \in 0 .. 2
           /\ \A i \in 1 .. Len(e) : e[i] \notin {"busy", "idle"}
           /\ \A i \in 1 .. Len(e) : e[i] = "reply" => i = Len(e)
           /\ c \notin closed => Len(e) > 0 /\ e[Len(e)] = "reply"
<1> DEFINE x == IF o.silent THEN << >>
                ELSE IF r.failed THEN <<"error">> ELSE IF r.shown THEN <<"result">> ELSE << >>
           y == Unless(c \in closed, "reply")
<1>0. x = << >> \/ x = <<"error">> \/ x = <<"result">>
  OBVIOUS
<1>1. /\ x \in Seq(Event) /\ Len(x) \in 0 .. 1
      /\ \A i \in 1 .. Len(x) : x[i] \in {"error", "result"}
  <2> HIDE DEF x
  <2>1. CASE x = << >>
    BY <2>1
  <2>2. CASE x = <<"error">>
    BY <2>2 DEF Event
  <2>3. CASE x = <<"result">>
    BY <2>3 DEF Event
  <2> QED
    BY <1>0, <2>1, <2>2, <2>3
<1>2. /\ y \in Seq(Event) /\ Len(y) \in 0 .. 1 /\ \A i \in 1 .. Len(y) : y[i] = "reply"
      /\ c \notin closed => Len(y) = 1
  BY UnlessIs DEF Event
<1>3. e = x \o y
  BY DEF AnswerEvents, ReplyEvents
<1> HIDE DEF x, y
<1>4. /\ x \o y \in Seq(Event) /\ Len(x \o y) = Len(x) + Len(y)
      /\ \A i \in 1 .. Len(x) : (x \o y)[i] = x[i]
      /\ \A i \in 1 .. Len(y) : (x \o y)[Len(x) + i] = y[i]
      /\ \A i \in 1 .. Len(x) + Len(y) :
           i \in 1 .. Len(x) \/ \E j \in 1 .. Len(y) : i = Len(x) + j
  BY <1>1, <1>2, Joined
<1>5. Len(e) = Len(x) + Len(y)
  BY <1>3, <1>4
<1>6. ASSUME NEW i \in 1 .. Len(e)
      PROVE  e[i] \in {"error", "result"} \/ (e[i] = "reply" /\ i = Len(e))
  <2>1. CASE i \in 1 .. Len(x)
    BY <1>1, <1>3, <1>4, <2>1
  <2>2. CASE \E j \in 1 .. Len(y) : i = Len(x) + j
    <3>1. PICK j \in 1 .. Len(y) : i = Len(x) + j
      BY <2>2
    <3>2. j = 1 /\ Len(y) = 1 /\ y[j] = "reply"
      BY <1>2, <3>1
    <3> QED
      BY <1>3, <1>4, <1>5, <3>1, <3>2
  <2> QED
    BY <1>4, <1>5, <2>1, <2>2
<1>7. ASSUME c \notin closed PROVE Len(e) > 0 /\ e[Len(e)] = "reply"
  <2>1. Len(y) = 1 /\ y[1] = "reply"
    BY <1>2, <1>7
  <2> QED
    BY <1>1, <1>3, <1>4, <1>5, <2>1
<1>8. e \in Seq(Event) /\ Len(e) \in 0 .. 2
  <2>1. \A a, k \in 0 .. 1 : a + k \in 0 .. 2
    OBVIOUS
  <2> QED
    BY <1>1, <1>2, <1>3, <1>4, <1>5, <2>1
<1> QED
  BY <1>6, <1>7, <1>8
----------------------------------------------------------------------------
(* The interrupt *)

Signal == [active : BOOLEAN, armed : BOOLEAN, pending : BOOLEAN, disabled : BOOLEAN]

\* Interrupt::request
LEMMA Requested ==
    ASSUME interrupt \in Signal, flag \in BOOLEAN, NEW queued \in BOOLEAN, Request(queued)
    PROVE  /\ interrupt' \in Signal /\ flag' \in BOOLEAN
           /\ interrupt'.active = interrupt.active /\ interrupt'.armed = interrupt.armed
           /\ interrupt'.disabled = interrupt.disabled
           /\ interrupt'.pending =>
                interrupt.pending \/ (~interrupt.disabled /\ (interrupt.active \/ queued))
           /\ flag' => flag \/ (~interrupt.disabled /\ interrupt.armed)
           /\ interrupt.disabled => interrupt' = interrupt
<1>1. CASE ~interrupt.disabled /\ (interrupt.active \/ queued)
  BY <1>1 DEF Request, Signal
<1>2. CASE ~(~interrupt.disabled /\ (interrupt.active \/ queued))
  BY <1>2 DEF Request, Signal
<1> QED
  BY <1>1, <1>2

\* Interrupt::armed
LEMMA ArmedIs ==
    ASSUME interrupt \in Signal, flag \in BOOLEAN, Armed
    PROVE  /\ interrupt' \in Signal /\ flag' \in BOOLEAN
           /\ interrupt'.active = interrupt.active /\ interrupt'.armed
           /\ interrupt'.disabled = interrupt.disabled
           /\ interrupt'.pending => interrupt.pending
           /\ flag' => flag \/ interrupt.pending
  BY DEF Armed, Signal

\* Interrupt::begin, finish and disable
LEMMA SignalSet ==
    ASSUME interrupt \in Signal
    PROVE  /\ BeginInterrupt =>
                /\ interrupt' \in Signal /\ interrupt'.active /\ ~interrupt'.armed
                /\ interrupt'.pending = interrupt.pending
                /\ interrupt'.disabled = interrupt.disabled
           /\ FinishInterrupt =>
                /\ interrupt' \in Signal /\ ~interrupt'.active /\ ~interrupt'.armed
                /\ ~interrupt'.pending /\ interrupt'.disabled = interrupt.disabled
           /\ DisableInterrupt =>
                /\ interrupt' \in Signal /\ ~interrupt'.active /\ ~interrupt'.armed
                /\ ~interrupt'.pending /\ interrupt'.disabled
<1>1. ASSUME BeginInterrupt
      PROVE  /\ interrupt' \in Signal /\ interrupt'.active /\ ~interrupt'.armed
             /\ interrupt'.pending = interrupt.pending
             /\ interrupt'.disabled = interrupt.disabled
  BY <1>1 DEF BeginInterrupt, Signal
<1>2. ASSUME FinishInterrupt
      PROVE  /\ interrupt' \in Signal /\ ~interrupt'.active /\ ~interrupt'.armed
             /\ ~interrupt'.pending /\ interrupt'.disabled = interrupt.disabled
  BY <1>2 DEF FinishInterrupt, Signal
<1>3. ASSUME DisableInterrupt
      PROVE  /\ interrupt' \in Signal /\ ~interrupt'.active /\ ~interrupt'.armed
             /\ ~interrupt'.pending /\ interrupt'.disabled
  BY <1>3 DEF DisableInterrupt, Signal
<1> QED
  BY <1>1, <1>2, <1>3

\* Where no job is, where one is begun and not finished, where the worker executes nothing, and where
\* interrupts are disabled.
Resting == {"top", "pop", "sleep"}
Serving == {"begin", "send", "wait", "take", "publish", "idle", "abort", "ack", "finish"}
Still == {"top", "pop", "sleep", "begin", "send", "take", "publish", "idle", "abort", "ack",
          "finish"}
Over == {"collect", "fail", "close", "exit"}
WorkerAt == {"ready", "got", "run", "settled", "dead"}

SignalTypes ==
    /\ interrupt \in Signal /\ flag \in BOOLEAN /\ worker \in WorkerAt /\ pc \in Place
    /\ pending \in Seq(Cell)

\* An interrupt that waits is meant for the job that is active or, when none is, for the
\* first of the queue.
Waiting ==
    /\ interrupt.armed => interrupt.active
    /\ interrupt.pending /\ interrupt.active => cur \in target
    /\ interrupt.pending /\ ~interrupt.active => pending # << >> /\ Head(pending) \in target
    /\ pc \in Serving => interrupt.active
    /\ pc \in Resting => ~interrupt.active
    /\ pc \in Over => interrupt.disabled /\ ~interrupt.pending

\* The worker's frames are those of the job that was sent, and settled is the last one.
Frames ==
    /\ wire \in Seq(Frame)
    /\ \A i \in 1 .. Len(wire) :
          wire[i].type = "settled" => i = Len(wire) /\ worker \in {"settled", "dead"}
    /\ pc \in Still => wire = << >> /\ worker \notin {"got", "run"}

InterruptInv == SignalTypes /\ Waiting /\ Frames /\ InterruptOnTarget

\* It holds at the start.
LEMMA InterruptStarts ==
    ASSUME Init PROVE InterruptInv
<1> USE DEF Init
<1>1. SignalTypes
  <2>1. interrupt \in Signal
    BY DEF Signal
  <2>2. flag \in BOOLEAN
    OBVIOUS
  <2> QED
    BY <2>1, <2>2 DEF SignalTypes, WorkerAt, Place
<1>2. Waiting
  BY DEF Waiting, Serving, Over
<1>3. Frames
  BY DEF Frames
<1>4. InterruptOnTarget
  BY DEF InterruptOnTarget
<1> QED
  BY <1>1, <1>2, <1>3, <1>4 DEF InterruptInv

signalVars == <<interrupt, flag, worker, cur, target, pending, wire>>

\* Steps of the main loop, and handlers, that the interrupt does not see.
LEMMA InterruptFrame ==
    ASSUME InterruptInv, UNCHANGED signalVars, pc' \in Place,
           pc' \in Serving => pc \in Serving, pc' \in Over => pc \in Over,
           pc' \in Still => pc \in Still, pc' \in Resting => pc \in Resting
    PROVE  InterruptInv'
<1> USE DEF InterruptInv, signalVars
<1>1. SignalTypes'
  BY DEF SignalTypes
<1>2. Waiting'
  BY DEF Waiting
<1>3. Frames'
  BY DEF Frames
<1>4. InterruptOnTarget'
  BY DEF InterruptOnTarget
<1> QED
  BY <1>1, <1>2, <1>3, <1>4

Unseen ==
    \/ Top \/ Sleep \/ Wake \/ SendRefused \/ OperationFails \/ StreamRefused \/ SettleDone
    \/ AcknowledgeFails \/ GraceExpires \/ Drain \/ FailDone \/ Exit \/ Exited
    \/ ReadersFail \/ ShutdownRequest \/ UNCHANGED vars
    \/ \E n \in Events : Begin(n) \/ SettleReply(n) \/ SettleIdle(n) \/ SettleAbort(n)
                            \/ FailPending(n)
    \/ \E c \in Cell, o \in Option, n \in Events : Refuse(c, o, n)
    \/ \E c \in Cell : Disconnect(c)
    \/ \E state \in {"busy", "idle"} : ShellInfo(state) \/ ControlInfo(state)
    \/ \E shown, delivered \in BOOLEAN : ReportLost(shown, delivered)

\* They keep it.
LEMMA UnseenHolds ==
    ASSUME InterruptInv, Unseen PROVE InterruptInv'
<1> SUFFICES /\ UNCHANGED signalVars /\ pc' \in Place
             /\ pc' \in Serving => pc \in Serving
             /\ pc' \in Over => pc \in Over
             /\ pc' \in Still => pc \in Still
             /\ pc' \in Resting => pc \in Resting
  BY InterruptFrame
<1>0. pc \in Place
  BY DEF InterruptInv, SignalTypes
<1> USE <1>0 DEF Place, Resting, Serving, Over, Still, signalVars, Err, frontVars, appVars,
      loopVars, linkVars, workVars, histVars
<1>1. CASE Top \/ Sleep \/ Wake \/ SendRefused \/ OperationFails \/ StreamRefused \/ SettleDone
  BY <1>1 DEF Top, Sleep, Wake, SendRefused, OperationFails, StreamRefused, SettleDone
<1>2. CASE AcknowledgeFails \/ GraceExpires \/ Drain \/ FailDone \/ Exit \/ Exited
  BY <1>2 DEF AcknowledgeFails, GraceExpires, Drain, FailDone, Exit, Exited, vars
<1>3. CASE ReadersFail \/ ShutdownRequest \/ UNCHANGED vars
  BY <1>3 DEF ReadersFail, ShutdownRequest, vars
<1>4. ASSUME NEW n \in Events, Begin(n) \/ SettleReply(n) \/ SettleIdle(n)
      PROVE  /\ UNCHANGED signalVars /\ pc' \in Place
             /\ pc' \in Serving => pc \in Serving
             /\ pc' \in Over => pc \in Over
             /\ pc' \in Still => pc \in Still
             /\ pc' \in Resting => pc \in Resting
  BY <1>4 DEF Begin, SettleReply, SettleIdle
<1>5. ASSUME NEW n \in Events, SettleAbort(n) \/ FailPending(n)
      PROVE  /\ UNCHANGED signalVars /\ pc' \in Place
             /\ pc' \in Serving => pc \in Serving
             /\ pc' \in Over => pc \in Over
             /\ pc' \in Still => pc \in Still
             /\ pc' \in Resting => pc \in Resting
  BY <1>5 DEF SettleAbort, FailPending, FailOne
<1>6. CASE \E c \in Cell, o \in Option, n \in Events : Refuse(c, o, n)
  BY <1>6 DEF Refuse
<1>7. CASE \E c \in Cell : Disconnect(c)
  BY <1>7 DEF Disconnect
<1>8. CASE \E state \in {"busy", "idle"} : ShellInfo(state) \/ ControlInfo(state)
  BY <1>8 DEF ShellInfo, ControlInfo
<1>9. CASE \E shown, delivered \in BOOLEAN : ReportLost(shown, delivered)
  BY <1>9 DEF ReportLost
<1> QED
  BY <1>1, <1>2, <1>3, <1>4, <1>5, <1>6, <1>7, <1>8, <1>9 DEF Unseen

----------------------------------------------------------------------------
(* The steps that it sees *)

\* App::pop: what waited for the first of the queue waits for the job.
LEMMA PopInterrupt ==
    ASSUME InterruptInv, Pop PROVE InterruptInv'
<1>0. /\ SignalTypes /\ Waiting /\ Frames /\ InterruptOnTarget
      /\ interrupt \in Signal /\ flag \in BOOLEAN /\ pc \in Place /\ worker \in WorkerAt
      /\ pending \in Seq(Cell)
  BY DEF InterruptInv, SignalTypes
<1>a. /\ pc = "pop" /\ pending # << >> /\ cur' = Head(pending) /\ pending' = Tail(pending)
      /\ BeginInterrupt /\ pc' = "begin" /\ UNCHANGED <<flag, worker, target, wire>>
  BY DEF Pop, frontVars, appVars, loopVars, linkVars, workVars, histVars
<1>b. /\ interrupt' \in Signal /\ interrupt'.active /\ ~interrupt'.armed
      /\ interrupt'.pending = interrupt.pending
  BY <1>0, <1>a, SignalSet
<1>c. worker \notin {"got", "run"} /\ wire = << >>
  BY <1>0, <1>a DEF Frames, Still
<1>1. SignalTypes'
  BY <1>0, <1>a, <1>b DEF SignalTypes, Place, WorkerAt
<1>2. Waiting'
  BY <1>0, <1>a, <1>b DEF Waiting, Resting, Serving, Over
<1>3. Frames'
  BY <1>0, <1>a, <1>c DEF Frames, Still
<1>4. InterruptOnTarget'
  BY <1>0, <1>a, <1>c DEF InterruptOnTarget
<1> QED
  BY <1>1, <1>2, <1>3, <1>4 DEF InterruptInv

\* The request is written: the worker had nothing left to say.
LEMMA SendInterrupt ==
    ASSUME InterruptInv, Send PROVE InterruptInv'
<1>0. /\ SignalTypes /\ Waiting /\ Frames /\ InterruptOnTarget
      /\ interrupt \in Signal /\ flag \in BOOLEAN /\ pc \in Place /\ worker \in WorkerAt
      /\ pending \in Seq(Cell)
  BY DEF InterruptInv, SignalTypes
<1>a. /\ pc = "send" /\ UNCHANGED <<interrupt, flag, target, wire, cur, pending>>
      /\ \/ worker' = worker /\ pc' \in {"drain", "lost"}
         \/ worker' = "got" /\ pc' = "wait"
  BY DEF Send, Err, frontVars, appVars, loopVars, linkVars, workVars, histVars
<1>c. worker \notin {"got", "run"} /\ wire = << >>
  BY <1>0, <1>a DEF Frames, Still
<1>1. SignalTypes'
  BY <1>0, <1>a DEF SignalTypes, Place, WorkerAt
<1>2. Waiting'
  BY <1>0, <1>a DEF Waiting, Resting, Serving, Over
<1>3. Frames'
  BY <1>0, <1>a, <1>c DEF Frames, Still
<1>4. InterruptOnTarget'
  BY <1>0, <1>a, <1>c DEF InterruptOnTarget
<1> QED
  BY <1>1, <1>2, <1>3, <1>4 DEF InterruptInv

\* Interrupt::armed, for the job that is active.
LEMMA ReceiveArmedInterrupt ==
    ASSUME InterruptInv, ReceiveArmed PROVE InterruptInv'
<1>0. /\ SignalTypes /\ Waiting /\ Frames /\ InterruptOnTarget
      /\ interrupt \in Signal /\ flag \in BOOLEAN /\ pc \in Place /\ worker \in WorkerAt
      /\ pending \in Seq(Cell)
  BY DEF InterruptInv, SignalTypes
<1>a. /\ pc = "wait" /\ wire # << >> /\ wire' = Tail(wire) /\ Armed
      /\ UNCHANGED <<worker, target, cur, pending, pc>>
  BY DEF ReceiveArmed, frontVars, appVars, loopVars, linkVars, workVars, histVars
<1>b. /\ interrupt' \in Signal /\ flag' \in BOOLEAN
      /\ interrupt'.active = interrupt.active /\ interrupt'.armed
      /\ interrupt'.disabled = interrupt.disabled
      /\ interrupt'.pending => interrupt.pending
      /\ flag' => flag \/ interrupt.pending
  BY <1>0, <1>a, ArmedIs
<1>c. /\ wire' \in Seq(Frame) /\ Len(wire') = Len(wire) - 1
      /\ \A n \in 1 .. Len(wire') : n + 1 \in 1 .. Len(wire) /\ wire'[n] = wire[n + 1]
  BY <1>0, <1>a DEF Frames
<1>d. interrupt.active /\ (interrupt.pending => cur \in target)
  BY <1>0, <1>a DEF Waiting, Serving
<1>1. SignalTypes'
  BY <1>0, <1>a, <1>b DEF SignalTypes, Place, WorkerAt
<1>2. Waiting'
  BY <1>0, <1>a, <1>b, <1>d DEF Waiting, Resting, Serving, Over
<1>3. Frames'
  <2>1. ASSUME NEW n \in 1 .. Len(wire'), wire'[n].type = "settled"
        PROVE  n = Len(wire') /\ worker' \in {"settled", "dead"}
    <3>1. n + 1 \in 1 .. Len(wire) /\ wire[n + 1].type = "settled"
      BY <1>c, <2>1
    <3>2. n + 1 = Len(wire) /\ worker \in {"settled", "dead"}
      BY <1>0, <3>1 DEF Frames
    <3>3. n = Len(wire')
      BY <1>c, <2>1, <3>1, <3>2
    <3> QED
      BY <1>a, <3>2, <3>3
  <2> QED
    BY <1>a, <1>c, <2>1 DEF Frames, Still
<1>4. InterruptOnTarget'
  BY <1>0, <1>a, <1>b, <1>d DEF InterruptOnTarget
<1> QED
  BY <1>1, <1>2, <1>3, <1>4 DEF InterruptInv

\* The settlement is the last frame of the job.
LEMMA ReceiveSettledInterrupt ==
    ASSUME InterruptInv, ReceiveSettled PROVE InterruptInv'
<1>0. /\ SignalTypes /\ Waiting /\ Frames /\ InterruptOnTarget
      /\ interrupt \in Signal /\ flag \in BOOLEAN /\ pc \in Place /\ worker \in WorkerAt
      /\ pending \in Seq(Cell)
  BY DEF InterruptInv, SignalTypes
<1>a. /\ pc = "wait" /\ wire # << >> /\ Head(wire).type = "settled" /\ wire' = Tail(wire)
      /\ pc' = "take" /\ UNCHANGED <<interrupt, flag, worker, target, cur, pending>>
  BY DEF ReceiveSettled, frontVars, appVars, loopVars, linkVars, workVars, histVars
<1>c. wire' = << >> /\ worker \in {"settled", "dead"}
  <2>1. wire \in Seq(Frame) /\ 1 \in 1 .. Len(wire) /\ wire[1] = Head(wire)
    BY <1>0, <1>a DEF Frames
  <2>2. 1 = Len(wire) /\ worker \in {"settled", "dead"}
    BY <1>0, <1>a, <2>1 DEF Frames
  <2> QED
    BY <1>a, <2>1, <2>2
<1>1. SignalTypes'
  BY <1>0, <1>a DEF SignalTypes, Place, WorkerAt
<1>2. Waiting'
  BY <1>0, <1>a DEF Waiting, Resting, Serving, Over
<1>3. Frames'
  BY <1>0, <1>a, <1>c DEF Frames, Still
<1>4. InterruptOnTarget'
  BY <1>0, <1>a DEF InterruptOnTarget
<1> QED
  BY <1>1, <1>2, <1>3, <1>4 DEF InterruptInv

\* The queue is taken while the job is active.
LEMMA SettleTakeInterrupt ==
    ASSUME InterruptInv, SettleTake PROVE InterruptInv'
<1>0. /\ SignalTypes /\ Waiting /\ Frames /\ InterruptOnTarget
      /\ interrupt \in Signal /\ flag \in BOOLEAN /\ pc \in Place /\ worker \in WorkerAt
      /\ pending \in Seq(Cell)
  BY DEF InterruptInv, SignalTypes
<1>a. /\ pc = "take" /\ pc' = "publish" /\ (pending' = pending \/ pending' = << >>)
      /\ UNCHANGED <<interrupt, flag, worker, target, cur, wire>>
  BY DEF SettleTake, frontVars, appVars, loopVars, linkVars, workVars, histVars
<1>b. pending' \in Seq(Cell)
  <2>1. << >> \in Seq(Cell)
    OBVIOUS
  <2> QED
    BY <1>0, <1>a, <2>1
<1>1. SignalTypes'
  BY <1>0, <1>a, <1>b DEF SignalTypes, Place, WorkerAt
<1>2. Waiting'
  BY <1>0, <1>a DEF Waiting, Resting, Serving, Over
<1>3. Frames'
  BY <1>0, <1>a DEF Frames, Still
<1>4. InterruptOnTarget'
  BY <1>0, <1>a DEF InterruptOnTarget
<1> QED
  BY <1>1, <1>2, <1>3, <1>4 DEF InterruptInv

\* The worker is ready again.
LEMMA AcknowledgeInterrupt ==
    ASSUME InterruptInv, Acknowledge PROVE InterruptInv'
<1>0. /\ SignalTypes /\ Waiting /\ Frames /\ InterruptOnTarget
      /\ interrupt \in Signal /\ flag \in BOOLEAN /\ pc \in Place /\ worker \in WorkerAt
      /\ pending \in Seq(Cell)
  BY DEF InterruptInv, SignalTypes
<1>a. /\ pc = "ack" /\ pc' = "finish" /\ worker' \in {"dead", "ready"}
      /\ UNCHANGED <<interrupt, flag, target, cur, wire, pending>>
  BY DEF Acknowledge, frontVars, appVars, loopVars, linkVars, workVars, histVars
<1>c. wire = << >>
  BY <1>0, <1>a DEF Frames, Still
<1>1. SignalTypes'
  BY <1>0, <1>a DEF SignalTypes, Place, WorkerAt
<1>2. Waiting'
  BY <1>0, <1>a DEF Waiting, Resting, Serving, Over
<1>3. Frames'
  BY <1>0, <1>a, <1>c DEF Frames, Still
<1>4. InterruptOnTarget'
  BY <1>0, <1>a, <1>c DEF InterruptOnTarget
<1> QED
  BY <1>1, <1>2, <1>3, <1>4 DEF InterruptInv

\* Interrupt::finish: nothing that was meant for the job outlives it.
LEMMA FinishInterrupts ==
    ASSUME InterruptInv, Finish PROVE InterruptInv'
<1>0. /\ SignalTypes /\ Waiting /\ Frames /\ InterruptOnTarget
      /\ interrupt \in Signal /\ flag \in BOOLEAN /\ pc \in Place /\ worker \in WorkerAt
      /\ pending \in Seq(Cell)
  BY DEF InterruptInv, SignalTypes
<1>a. /\ pc = "finish" /\ FinishInterrupt /\ pc' \in {"drain", "lost", "top"}
      /\ UNCHANGED <<flag, worker, target, wire, pending>>
  BY DEF Finish, Err, frontVars, appVars, loopVars, linkVars, workVars, histVars
<1>b. /\ interrupt' \in Signal /\ ~interrupt'.active /\ ~interrupt'.armed
      /\ ~interrupt'.pending
  BY <1>0, <1>a, SignalSet
<1>c. worker \notin {"got", "run"} /\ wire = << >>
  BY <1>0, <1>a DEF Frames, Still
<1>1. SignalTypes'
  BY <1>0, <1>a, <1>b DEF SignalTypes, Place, WorkerAt
<1>2. Waiting'
  BY <1>0, <1>a, <1>b DEF Waiting, Resting, Serving, Over
<1>3. Frames'
  BY <1>0, <1>a, <1>c DEF Frames, Still
<1>4. InterruptOnTarget'
  BY <1>0, <1>a, <1>c DEF InterruptOnTarget
<1> QED
  BY <1>1, <1>2, <1>3, <1>4 DEF InterruptInv

\* A shutdown interrupts the job that is active.
LEMMA NoticeStopInterrupt ==
    ASSUME InterruptInv, NoticeStop PROVE InterruptInv'
<1>0. /\ SignalTypes /\ Waiting /\ Frames /\ InterruptOnTarget
      /\ interrupt \in Signal /\ flag \in BOOLEAN /\ pc \in Place /\ worker \in WorkerAt
      /\ pending \in Seq(Cell)
  BY DEF InterruptInv, SignalTypes
<1>a. /\ pc \in {"begin", "send", "wait", "ack"} /\ Request(TRUE) /\ target' = target \cup {cur}
      /\ UNCHANGED <<worker, wire, pending, cur, pc>>
  BY DEF NoticeStop, frontVars, appVars, loopVars, linkVars, workVars, histVars
<1>b. /\ interrupt' \in Signal /\ flag' \in BOOLEAN
      /\ interrupt'.active = interrupt.active /\ interrupt'.armed = interrupt.armed
      /\ interrupt'.disabled = interrupt.disabled
  BY <1>0, <1>a, Requested
<1>c. interrupt.active
  BY <1>0, <1>a DEF Waiting, Serving
<1>1. SignalTypes'
  BY <1>0, <1>a, <1>b DEF SignalTypes, Place, WorkerAt
<1>2. Waiting'
  BY <1>0, <1>a, <1>b, <1>c DEF Waiting, Resting, Serving, Over
<1>3. Frames'
  BY <1>0, <1>a DEF Frames, Still
<1>4. InterruptOnTarget'
  BY <1>0, <1>a DEF InterruptOnTarget
<1> QED
  BY <1>1, <1>2, <1>3, <1>4 DEF InterruptInv

\* The worker is asked to shut down, or is not.
LEMMA ShutdownWorkerInterrupt ==
    ASSUME InterruptInv, ShutdownWorker PROVE InterruptInv'
<1>0. /\ SignalTypes /\ Waiting /\ Frames /\ InterruptOnTarget
      /\ interrupt \in Signal /\ flag \in BOOLEAN /\ pc \in Place /\ worker \in WorkerAt
      /\ pending \in Seq(Cell)
  BY DEF InterruptInv, SignalTypes
<1>a. /\ pc = "shutdown" /\ pc' = "kill" /\ UNCHANGED <<flag, target, wire, pending, cur>>
      /\ \/ FinishInterrupt /\ worker' = "dead"
         \/ UNCHANGED <<worker, interrupt>>
  BY DEF ShutdownWorker, frontVars, appVars, loopVars, linkVars, workVars, histVars
<1>b. \/ /\ interrupt' \in Signal /\ ~interrupt'.active /\ ~interrupt'.armed
         /\ ~interrupt'.pending
      \/ UNCHANGED interrupt
  BY <1>0, <1>a, SignalSet
<1>1. SignalTypes'
  BY <1>0, <1>a, <1>b DEF SignalTypes, Place, WorkerAt
<1>2. Waiting'
  BY <1>0, <1>a, <1>b DEF Waiting, Resting, Serving, Over
<1>3. Frames'
  BY <1>0, <1>a DEF Frames, Still
<1>4. InterruptOnTarget'
  BY <1>0, <1>a DEF InterruptOnTarget
<1> QED
  BY <1>1, <1>2, <1>3, <1>4 DEF InterruptInv

\* Interrupt::disable, and the worker is killed.
LEMMA TerminateInterrupt ==
    ASSUME InterruptInv, Terminate PROVE InterruptInv'
<1>0. /\ SignalTypes /\ Waiting /\ Frames /\ InterruptOnTarget
      /\ interrupt \in Signal /\ flag \in BOOLEAN /\ pc \in Place /\ worker \in WorkerAt
      /\ pending \in Seq(Cell)
  BY DEF InterruptInv, SignalTypes
<1>a. /\ pc = "kill" /\ pc' = "collect" /\ DisableInterrupt /\ worker' = "dead"
      /\ UNCHANGED <<flag, target, wire, pending, cur>>
  BY DEF Terminate, frontVars, appVars, loopVars, linkVars, workVars, histVars
<1>b. /\ interrupt' \in Signal /\ ~interrupt'.active /\ ~interrupt'.armed
      /\ ~interrupt'.pending /\ interrupt'.disabled
  BY <1>0, <1>a, SignalSet
<1>1. SignalTypes'
  BY <1>0, <1>a, <1>b DEF SignalTypes, Place, WorkerAt
<1>2. Waiting'
  BY <1>0, <1>a, <1>b DEF Waiting, Resting, Serving, Over
<1>3. Frames'
  BY <1>0, <1>a DEF Frames, Still
<1>4. InterruptOnTarget'
  BY <1>0, <1>a DEF InterruptOnTarget
<1> QED
  BY <1>1, <1>2, <1>3, <1>4 DEF InterruptInv

\* The queue is taken when nothing waits for it any more.
LEMMA CollectInterrupt ==
    ASSUME InterruptInv, Collect PROVE InterruptInv'
<1>0. /\ SignalTypes /\ Waiting /\ Frames /\ InterruptOnTarget
      /\ interrupt \in Signal /\ flag \in BOOLEAN /\ pc \in Place /\ worker \in WorkerAt
      /\ pending \in Seq(Cell)
  BY DEF InterruptInv, SignalTypes
<1>a. /\ pc = "collect" /\ pc' = "fail" /\ pending' = << >>
      /\ UNCHANGED <<interrupt, flag, worker, target, wire, cur>>
  BY DEF Collect, frontVars, appVars, loopVars, linkVars, workVars, histVars
<1>1. SignalTypes'
  BY <1>0, <1>a DEF SignalTypes, Place, WorkerAt
<1>2. Waiting'
  BY <1>0, <1>a DEF Waiting, Resting, Serving, Over
<1>3. Frames'
  BY <1>0, <1>a DEF Frames, Still
<1>4. InterruptOnTarget'
  BY <1>0, <1>a DEF InterruptOnTarget
<1> QED
  BY <1>1, <1>2, <1>3, <1>4 DEF InterruptInv

\* interrupt_request: the job that is active, or else the first of the queue.
LEMMA RequestInterrupt ==
    ASSUME InterruptInv, InterruptRequest PROVE InterruptInv'
<1>0. /\ SignalTypes /\ Waiting /\ Frames /\ InterruptOnTarget
      /\ interrupt \in Signal /\ flag \in BOOLEAN /\ pc \in Place /\ worker \in WorkerAt
      /\ pending \in Seq(Cell)
  BY DEF InterruptInv, SignalTypes
<1>a. /\ Request(pending # << >>) /\ UNCHANGED <<worker, wire, pending, cur, pc>>
      /\ target' = IF interrupt.disabled THEN target
                   ELSE IF interrupt.active THEN target \cup {cur}
                   ELSE IF pending # << >> THEN target \cup {Head(pending)}
                   ELSE target
  BY DEF InterruptRequest, frontVars, appVars, loopVars, linkVars, workVars, histVars
<1>b. /\ interrupt' \in Signal /\ flag' \in BOOLEAN
      /\ interrupt'.active = interrupt.active /\ interrupt'.armed = interrupt.armed
      /\ interrupt'.disabled = interrupt.disabled
      /\ interrupt'.pending => interrupt.pending
           \/ (~interrupt.disabled /\ (interrupt.active \/ pending # << >>))
      /\ flag' => flag \/ (~interrupt.disabled /\ interrupt.armed)
      /\ interrupt.disabled => interrupt' = interrupt
  <2>1. (pending # << >>) \in BOOLEAN
    OBVIOUS
  <2> QED
    BY <1>0, <1>a, <2>1, Requested
<1>c. /\ target \subseteq target' /\ (interrupt.armed => interrupt.active)
      /\ ~interrupt.disabled /\ interrupt.active => cur \in target'
      /\ ~interrupt.disabled /\ ~interrupt.active /\ pending # << >> => Head(pending) \in target'
  BY <1>0, <1>a DEF Waiting
<1>1. SignalTypes'
  BY <1>0, <1>a, <1>b DEF SignalTypes, Place, WorkerAt
<1>2. Waiting'
  BY <1>0, <1>a, <1>b, <1>c DEF Waiting, Resting, Serving, Over
<1>3. Frames'
  BY <1>0, <1>a DEF Frames, Still
<1>4. InterruptOnTarget'
  BY <1>0, <1>a, <1>b, <1>c DEF InterruptOnTarget
<1> QED
  BY <1>1, <1>2, <1>3, <1>4 DEF InterruptInv

\* The first of the queue stays the first.
LEMMA AdmitInterrupt ==
    ASSUME InterruptInv, NEW c \in Cell, NEW o \in Option, Admit(c, o) PROVE InterruptInv'
<1>0. /\ SignalTypes /\ Waiting /\ Frames /\ InterruptOnTarget
      /\ interrupt \in Signal /\ flag \in BOOLEAN /\ pc \in Place /\ worker \in WorkerAt
      /\ pending \in Seq(Cell)
  BY DEF InterruptInv, SignalTypes
<1>a. /\ pc # "exit" /\ pending' = Append(pending, c)
      /\ UNCHANGED <<interrupt, flag, worker, wire, target, cur, pc>>
  BY DEF Admit, frontVars, appVars, loopVars, linkVars, workVars, histVars
<1>b. /\ pending' \in Seq(Cell)
      /\ pending # << >> => pending' # << >> /\ Head(pending') = Head(pending)
  BY <1>0, <1>a
<1>1. SignalTypes'
  BY <1>0, <1>a, <1>b DEF SignalTypes, Place, WorkerAt
<1>2. Waiting'
  BY <1>0, <1>a, <1>b DEF Waiting, Resting, Serving, Over
<1>3. Frames'
  BY <1>0, <1>a DEF Frames, Still
<1>4. InterruptOnTarget'
  BY <1>0, <1>a DEF InterruptOnTarget
<1> QED
  BY <1>1, <1>2, <1>3, <1>4 DEF InterruptInv

\* clear_interrupt: what was signalled before is forgotten.
LEMMA WorkerArmInterrupt ==
    ASSUME InterruptInv, WorkerArm PROVE InterruptInv'
<1>0. /\ SignalTypes /\ Waiting /\ Frames /\ InterruptOnTarget
      /\ interrupt \in Signal /\ flag \in BOOLEAN /\ pc \in Place /\ worker \in WorkerAt
      /\ pending \in Seq(Cell)
  BY DEF InterruptInv, SignalTypes
<1>a. /\ worker = "got" /\ worker' = "run" /\ flag' = FALSE
      /\ wire' = Append(wire, [type |-> "armed"])
      /\ UNCHANGED <<interrupt, target, cur, pending, pc>>
  BY DEF WorkerArm, frontVars, appVars, loopVars, linkVars, workVars, histVars
<1>b. /\ [type |-> "armed"] \in Frame /\ [type |-> "armed"].type = "armed"
      /\ wire' \in Seq(Frame) /\ Len(wire') = Len(wire) + 1 /\ wire'[Len(wire) + 1].type = "armed"
      /\ \A n \in 1 .. Len(wire) : wire'[n] = wire[n]
  <2>1. [type |-> "armed"] \in Frame /\ [type |-> "armed"].type = "armed"
    BY DEF Frame
  <2> QED
    BY <1>0, <1>a, <2>1 DEF Frames
<1>1. SignalTypes'
  BY <1>0, <1>a DEF SignalTypes, Place, WorkerAt
<1>2. Waiting'
  BY <1>0, <1>a DEF Waiting, Resting, Serving, Over
<1>3. Frames'
  BY <1>0, <1>a, <1>b DEF Frames, Still
<1>4. InterruptOnTarget'
  BY <1>0, <1>a DEF InterruptOnTarget
<1> QED
  BY <1>1, <1>2, <1>3, <1>4 DEF InterruptInv

\* The worker refuses the request before it is armed.
LEMMA WorkerRefuseInterrupt ==
    ASSUME InterruptInv, WorkerRefuse PROVE InterruptInv'
<1>0. /\ SignalTypes /\ Waiting /\ Frames /\ InterruptOnTarget
      /\ interrupt \in Signal /\ flag \in BOOLEAN /\ pc \in Place /\ worker \in WorkerAt
      /\ pending \in Seq(Cell)
  BY DEF InterruptInv, SignalTypes
<1>a. /\ worker = "got" /\ worker' = "settled"
      /\ wire' = Append(wire, [type |-> "settled",
                              reply |-> [NoReply EXCEPT !.failed = TRUE, !.remote = TRUE]])
      /\ UNCHANGED <<interrupt, flag, target, cur, pending, pc>>
  BY DEF WorkerRefuse, frontVars, appVars, loopVars, linkVars, workVars, histVars
<1>b. wire' \in Seq(Frame) /\ Len(wire') = Len(wire) + 1 /\ \A n \in 1 .. Len(wire) : wire'[n] = wire[n]
  <2>1. [type |-> "settled", reply |-> [NoReply EXCEPT !.failed = TRUE, !.remote = TRUE]] \in Frame
    BY DEF Frame, Reply, NoReply
  <2> QED
    BY <1>0, <1>a, <2>1 DEF Frames
<1>1. SignalTypes'
  BY <1>0, <1>a DEF SignalTypes, Place, WorkerAt
<1>2. Waiting'
  BY <1>0, <1>a DEF Waiting, Resting, Serving, Over
<1>3. Frames'
  BY <1>0, <1>a, <1>b DEF Frames, Still
<1>4. InterruptOnTarget'
  BY <1>0, <1>a DEF InterruptOnTarget
<1> QED
  BY <1>1, <1>2, <1>3, <1>4 DEF InterruptInv

\* Execution ends.
LEMMA WorkerSettleInterrupt ==
    ASSUME InterruptInv, NEW r \in Reply, WorkerSettle(r) PROVE InterruptInv'
<1>0. /\ SignalTypes /\ Waiting /\ Frames /\ InterruptOnTarget
      /\ interrupt \in Signal /\ flag \in BOOLEAN /\ pc \in Place /\ worker \in WorkerAt
      /\ pending \in Seq(Cell)
  BY DEF InterruptInv, SignalTypes
<1>a. /\ worker = "run" /\ worker' = "settled"
      /\ wire' = Append(wire, [type |-> "settled", reply |-> r])
      /\ UNCHANGED <<interrupt, flag, target, cur, pending, pc>>
  BY DEF WorkerSettle, frontVars, appVars, loopVars, linkVars, workVars, histVars
<1>b. wire' \in Seq(Frame) /\ Len(wire') = Len(wire) + 1 /\ \A n \in 1 .. Len(wire) : wire'[n] = wire[n]
  <2>1. [type |-> "settled", reply |-> r] \in Frame
    BY DEF Frame, Reply, NoReply
  <2> QED
    BY <1>0, <1>a, <2>1 DEF Frames
<1>1. SignalTypes'
  BY <1>0, <1>a DEF SignalTypes, Place, WorkerAt
<1>2. Waiting'
  BY <1>0, <1>a DEF Waiting, Resting, Serving, Over
<1>3. Frames'
  BY <1>0, <1>a, <1>b DEF Frames, Still
<1>4. InterruptOnTarget'
  BY <1>0, <1>a DEF InterruptOnTarget
<1> QED
  BY <1>1, <1>2, <1>3, <1>4 DEF InterruptInv

\* The worker dies.
LEMMA WorkerDiesInterrupt ==
    ASSUME InterruptInv, WorkerDies PROVE InterruptInv'
<1>0. /\ SignalTypes /\ Waiting /\ Frames /\ InterruptOnTarget
      /\ interrupt \in Signal /\ flag \in BOOLEAN /\ pc \in Place /\ worker \in WorkerAt
      /\ pending \in Seq(Cell)
  BY DEF InterruptInv, SignalTypes
<1>a. /\ worker' = "dead" /\ UNCHANGED <<interrupt, flag, target, cur, pending, pc, wire>>
  BY DEF WorkerDies, frontVars, appVars, loopVars, linkVars, workVars, histVars
<1>1. SignalTypes'
  BY <1>0, <1>a DEF SignalTypes, Place, WorkerAt
<1>2. Waiting'
  BY <1>0, <1>a DEF Waiting, Resting, Serving, Over
<1>3. Frames'
  BY <1>0, <1>a DEF Frames, Still
<1>4. InterruptOnTarget'
  BY <1>0, <1>a DEF InterruptOnTarget
<1> QED
  BY <1>1, <1>2, <1>3, <1>4 DEF InterruptInv

\* Every step keeps it.
LEMMA InterruptStep ==
    ASSUME InterruptInv, [Next]_vars PROVE InterruptInv'
<1>1. CASE Unseen
  BY <1>1, UnseenHolds
<1>2. CASE Pop \/ Send \/ ReceiveArmed \/ ReceiveSettled \/ SettleTake \/ Acknowledge \/ Finish
  BY <1>2, PopInterrupt, SendInterrupt, ReceiveArmedInterrupt, ReceiveSettledInterrupt,
     SettleTakeInterrupt, AcknowledgeInterrupt, FinishInterrupts
<1>3. CASE NoticeStop \/ ShutdownWorker \/ Terminate \/ Collect \/ InterruptRequest
  BY <1>3, NoticeStopInterrupt, ShutdownWorkerInterrupt, TerminateInterrupt, CollectInterrupt,
     RequestInterrupt
<1>4. CASE \E c \in Cell, o \in Option : Admit(c, o)
  BY <1>4, AdmitInterrupt
<1>5. CASE Evaluation \/ WorkerDies
  BY <1>5, WorkerArmInterrupt, WorkerRefuseInterrupt, WorkerSettleInterrupt, WorkerDiesInterrupt
     DEF Evaluation
<1> QED
  BY <1>1, <1>2, <1>3, <1>4, <1>5 DEF Next, Handler, MainLoop, Unseen

\* Interrupt and clear_interrupt: whenever signals, frames and deaths cross, an interrupt stops
\* only the cell it was meant for.
THEOREM InterruptsHitTheirTarget == Spec => []InterruptOnTarget
<1>1. Init => InterruptInv
  BY InterruptStarts
<1>2. InterruptInv /\ [Next]_vars => InterruptInv'
  BY InterruptStep
<1>3. InterruptInv => InterruptOnTarget
  BY DEF InterruptInv
<1> QED
  BY <1>1, <1>2, <1>3, PTL DEF Spec

----------------------------------------------------------------------------
(* What a cell got *)

BusyFirst(s) == \A i \in 1 .. Len(s) : s[i] = "busy" => i = 1
NoReplyIn(s) == \A i \in 1 .. Len(s) : s[i] # "reply"
NoIdleIn(s) == \A i \in 1 .. Len(s) : s[i] # "idle"
HasReply(s) == \E i \in 1 .. Len(s) : s[i] = "reply"
OneReply(s) == \A i, j \in 1 .. Len(s) : s[i] = "reply" /\ s[j] = "reply" => i = j
LastIdle(s) == \A i \in 1 .. Len(s) : s[i] = "idle" => i = Len(s)
WellFormed(s) == BusyFirst(s) /\ OneReply(s) /\ LastIdle(s)

\* An answer that has not begun.
LEMMA Nothing ==
    ASSUME NEW s, s = << >>
    PROVE  BusyFirst(s) /\ NoReplyIn(s) /\ NoIdleIn(s) /\ WellFormed(s) /\ s \in Seq(Event)
  BY DEF BusyFirst, NoReplyIn, NoIdleIn, WellFormed, OneReply, LastIdle

\* What has no idle has no misplaced one.
LEMMA Unended ==
    ASSUME NEW s, BusyFirst(s), NoIdleIn(s), OneReply(s) PROVE WellFormed(s)
  BY DEF NoIdleIn, OneReply, LastIdle, WellFormed

\* No reply is at most one.
LEMMA NoneIsOne ==
    ASSUME NEW s, NoReplyIn(s) PROVE OneReply(s)
  BY DEF NoReplyIn, OneReply

\* The first n of the events e, after s.
Then(s, e, n) == s \o SubSeq(e, 1, n)

\* A log and the first n events after it, position by position.
LEMMA ThenIs ==
    ASSUME NEW s \in Seq(Event), NEW e \in Seq(Event), NEW n \in 0 .. Len(e)
    PROVE  /\ Then(s, e, n) \in Seq(Event) /\ Len(Then(s, e, n)) = Len(s) + n
           /\ \A i \in 1 .. Len(s) : Then(s, e, n)[i] = s[i]
           /\ \A i \in 1 .. Len(s) + n : i \in 1 .. Len(s) \/
                (i - Len(s) \in 1 .. n /\ Then(s, e, n)[i] = e[i - Len(s)])
           /\ \A i \in 1 .. n : Then(s, e, n)[Len(s) + i] = e[i]
<1> DEFINE t == s \o SubSeq(e, 1, n)
<1>1. /\ t \in Seq(Event) /\ Len(t) = Len(s) + n
      /\ \A i \in 1 .. Len(s) : t[i] = s[i]
      /\ \A i \in 1 .. n : t[Len(s) + i] = e[i]
  BY LogGrows
<1>2. Then(s, e, n) = t
  BY DEF Then
<1> HIDE DEF t
<1>3. ASSUME NEW i \in 1 .. Len(s) + n, i \notin 1 .. Len(s)
      PROVE  i - Len(s) \in 1 .. n /\ t[i] = e[i - Len(s)]
  <2>1. i - Len(s) \in 1 .. n /\ i = Len(s) + (i - Len(s))
    BY <1>3
  <2> QED
    BY <1>1, <2>1
<1> QED
  BY <1>1, <1>2, <1>3

\* busy and execute_input open an answer.
LEMMA BeginLog ==
    ASSUME NEW s, s = << >>, NEW o, NEW n \in 0 .. Len(BeginEvents(o))
    PROVE  LET t == Then(s, BeginEvents(o), n)
           IN  BusyFirst(t) /\ NoReplyIn(t) /\ NoIdleIn(t)
<1> DEFINE e == BeginEvents(o)
           t == Then(s, e, n)
<1>1. /\ e \in Seq(Event) /\ e[1] = "busy" /\ \A i \in 2 .. Len(e) : e[i] = "input"
  BY BeginEventsAre
<1>2. s \in Seq(Event) /\ Len(s) = 0
  OBVIOUS
<1> HIDE DEF e
<1>3. /\ Len(t) = n /\ \A i \in 1 .. n : t[i] = e[i]
  <2>1. n \in 0 .. Len(e)
    BY DEF e
  <2>2. /\ Len(t) = Len(s) + n /\ \A i \in 1 .. n : t[Len(s) + i] = e[i]
    <3>1. e \in Seq(Event) /\ s \in Seq(Event)
      BY <1>1, <1>2
    <3> QED
      BY <2>1, <3>1, ThenIs
  <2> QED
    BY <1>2, <2>1, <2>2
<1> HIDE DEF t
<1>4. ASSUME NEW i \in 1 .. Len(t) PROVE (i = 1 /\ t[i] = "busy") \/ t[i] = "input"
  <2>1. n \in 0 .. Len(e)
    BY DEF e
  <2> QED
    BY <1>1, <1>3, <2>1
<1>5. BusyFirst(t) /\ NoReplyIn(t) /\ NoIdleIn(t)
  BY <1>4 DEF BusyFirst, NoReplyIn, NoIdleIn
<1> QED
  BY <1>5 DEF e, t

\* A refusal is a whole answer, wherever it is cut off.
LEMMA RefusalLog ==
    ASSUME NEW s, s = << >>, NEW c, NEW o, NEW n \in 0 .. Len(RefusalEvents(c, o))
    PROVE  LET t == Then(s, RefusalEvents(c, o), n)
           IN  /\ WellFormed(t)
               /\ c \notin closed /\ n = Len(RefusalEvents(c, o)) => HasReply(t)
<1> DEFINE e == RefusalEvents(c, o)
           t == Then(s, e, n)
<1>1. /\ e \in Seq(Event) /\ e[1] = "busy"
      /\ \A i \in 2 .. Len(e) : e[i] # "busy"
      /\ \A i \in 1 .. Len(e) - 1 : e[i] # "idle"
      /\ \A i, j \in 1 .. Len(e) : e[i] = "reply" /\ e[j] = "reply" => i = j
      /\ c \notin closed => \E i \in 1 .. Len(e) : e[i] = "reply"
  BY RefusalEventsAre
<1>2. s \in Seq(Event) /\ Len(s) = 0 /\ n \in 0 .. Len(e)
  OBVIOUS
<1> HIDE DEF e
<1>3. /\ Len(t) = n /\ \A i \in 1 .. n : t[i] = e[i]
  <2>1. e \in Seq(Event) /\ s \in Seq(Event) /\ n \in 0 .. Len(e)
    BY <1>1, <1>2
  <2>2. /\ Len(t) = Len(s) + n /\ \A i \in 1 .. n : t[Len(s) + i] = e[i]
    BY <2>1, ThenIs
  <2> QED
    BY <1>2, <2>2
<1> HIDE DEF t
<1>4. BusyFirst(t)
  BY <1>1, <1>2, <1>3 DEF BusyFirst
<1>5. OneReply(t)
  BY <1>1, <1>2, <1>3 DEF OneReply
<1>6. LastIdle(t)
  BY <1>1, <1>2, <1>3 DEF LastIdle
<1>7. c \notin closed /\ n = Len(e) => HasReply(t)
  BY <1>1, <1>2, <1>3 DEF HasReply
<1>8. WellFormed(t) /\ (c \notin closed /\ n = Len(e) => HasReply(t))
  BY <1>4, <1>5, <1>6, <1>7 DEF WellFormed
<1> QED
  BY <1>8 DEF e, t

\* An error or a result and the reply, in an open answer.
LEMMA AnswerLog ==
    ASSUME NEW s \in Seq(Event), BusyFirst(s), NoReplyIn(s), NoIdleIn(s),
           NEW c, NEW o, NEW r, NEW n \in 0 .. Len(AnswerEvents(c, o, r))
    PROVE  LET t == Then(s, AnswerEvents(c, o, r), n)
           IN  /\ BusyFirst(t) /\ NoIdleIn(t) /\ OneReply(t)
               /\ c \notin closed /\ n = Len(AnswerEvents(c, o, r)) => HasReply(t)
<1> DEFINE e == AnswerEvents(c, o, r)
           t == Then(s, e, n)
<1>1. /\ e \in Seq(Event) /\ \A i \in 1 .. Len(e) : e[i] \notin {"busy", "idle"}
      /\ \A i \in 1 .. Len(e) : e[i] = "reply" => i = Len(e)
      /\ c \notin closed => Len(e) > 0 /\ e[Len(e)] = "reply"
  BY AnswerEventsAre
<1>2. n \in 0 .. Len(e)
  OBVIOUS
<1> HIDE DEF e
<1>3. /\ Len(t) = Len(s) + n
      /\ \A i \in 1 .. Len(s) : t[i] = s[i]
      /\ \A i \in 1 .. Len(s) + n : i \in 1 .. Len(s) \/
           (i - Len(s) \in 1 .. n /\ t[i] = e[i - Len(s)])
      /\ \A i \in 1 .. n : t[Len(s) + i] = e[i]
  BY <1>1, <1>2, ThenIs
<1> HIDE DEF t
<1>4. ASSUME NEW i \in 1 .. Len(t)
      PROVE  /\ t[i] = "busy" => i = 1
             /\ t[i] # "idle"
             /\ t[i] = "reply" => i = Len(s) + Len(e)
  <2>1. CASE i \in 1 .. Len(s)
    BY <1>3, <2>1 DEF BusyFirst, NoReplyIn, NoIdleIn
  <2>2. CASE i - Len(s) \in 1 .. n /\ t[i] = e[i - Len(s)]
    <3>1. i - Len(s) \in 1 .. Len(e)
      BY <1>2, <2>2
    <3>2. t[i] \notin {"busy", "idle"} /\ (t[i] = "reply" => i - Len(s) = Len(e))
      BY <1>1, <2>2, <3>1
    <3> QED
      BY <3>1, <3>2
  <2> QED
    BY <1>3, <2>1, <2>2
<1>5. BusyFirst(t) /\ NoIdleIn(t) /\ OneReply(t)
  BY <1>4 DEF BusyFirst, NoIdleIn, OneReply
<1>6. ASSUME c \notin closed, n = Len(e) PROVE HasReply(t)
  <2>1. n \in 1 .. n /\ e[n] = "reply" /\ Len(s) + n \in 1 .. Len(t)
    BY <1>1, <1>2, <1>3, <1>6
  <2> QED
    BY <1>3, <2>1 DEF HasReply
<1> QED
  BY <1>5, <1>6 DEF e, t

\* Output::status("idle") ends an answer.
LEMMA IdleLog ==
    ASSUME NEW s \in Seq(Event), BusyFirst(s), OneReply(s), NoIdleIn(s), NEW n \in 0 .. 1
    PROVE  LET t == Then(s, <<"idle">>, n)
           IN  WellFormed(t) /\ (HasReply(s) => HasReply(t))
<1> DEFINE e == <<"idle">>
           t == Then(s, e, n)
<1>1. e \in Seq(Event) /\ Len(e) = 1 /\ e[1] = "idle" /\ n \in 0 .. Len(e)
  BY DEF Event
<1> HIDE DEF e
<1>3. /\ Len(t) = Len(s) + n
      /\ \A i \in 1 .. Len(s) : t[i] = s[i]
      /\ \A i \in 1 .. Len(s) + n : i \in 1 .. Len(s) \/
           (i - Len(s) \in 1 .. n /\ t[i] = e[i - Len(s)])
  BY <1>1, ThenIs
<1> HIDE DEF t
<1>4. ASSUME NEW i \in 1 .. Len(t), i \notin 1 .. Len(s)
      PROVE  t[i] = "idle" /\ i = Len(t)
  <2>1. i - Len(s) \in 1 .. n /\ t[i] = e[i - Len(s)]
    BY <1>3, <1>4
  <2>2. i - Len(s) = 1 /\ n = 1
    BY <2>1
  <2> QED
    BY <1>1, <1>3, <2>1, <2>2
<1>5. BusyFirst(t)
  BY <1>3, <1>4 DEF BusyFirst
<1>6. OneReply(t)
  BY <1>3, <1>4 DEF OneReply
<1>7. LastIdle(t)
  BY <1>3, <1>4 DEF LastIdle, NoIdleIn
<1>8. HasReply(s) => HasReply(t)
  BY <1>3 DEF HasReply
<1>9. WellFormed(t) /\ (HasReply(s) => HasReply(t))
  BY <1>5, <1>6, <1>7, <1>8 DEF WellFormed
<1> QED
  BY <1>9 DEF e, t

\* run() reports a lost job after whatever was answered before.
LEMMA LostLog ==
    ASSUME NEW s \in Seq(Event), BusyFirst(s), NEW b, NEW d
    PROVE  LET t == s \o Unless(b, "error") \o Unless(d, "reply")
           IN  /\ t \in Seq(Event) /\ BusyFirst(t) /\ (HasReply(s) => HasReply(t))
               /\ ~d => HasReply(t)
<1> DEFINE x == Unless(b, "error")
           y == Unless(d, "reply")
           u == s \o x
           t == u \o y
<1>1. /\ x \in Seq(Event) /\ Len(x) \in 0 .. 1 /\ \A i \in 1 .. Len(x) : x[i] = "error"
      /\ y \in Seq(Event) /\ Len(y) \in 0 .. 1 /\ \A i \in 1 .. Len(y) : y[i] = "reply"
      /\ ~d => Len(y) = 1
  BY UnlessIs DEF Event
<1> HIDE DEF x, y
<1>2. /\ u \in Seq(Event) /\ Len(u) = Len(s) + Len(x)
      /\ \A i \in 1 .. Len(s) : u[i] = s[i]
      /\ \A i \in 1 .. Len(x) : u[Len(s) + i] = x[i]
      /\ \A i \in 1 .. Len(s) + Len(x) :
           i \in 1 .. Len(s) \/ \E j \in 1 .. Len(x) : i = Len(s) + j
  BY <1>1, Joined
<1> HIDE DEF u
<1>3. /\ t \in Seq(Event) /\ Len(t) = Len(u) + Len(y)
      /\ \A i \in 1 .. Len(u) : t[i] = u[i]
      /\ \A i \in 1 .. Len(y) : t[Len(u) + i] = y[i]
      /\ \A i \in 1 .. Len(u) + Len(y) :
           i \in 1 .. Len(u) \/ \E j \in 1 .. Len(y) : i = Len(u) + j
  BY <1>1, <1>2, Joined
<1> HIDE DEF t
<1>4. BusyFirst(u)
  <2>1. ASSUME NEW i \in 1 .. Len(u), i \notin 1 .. Len(s) PROVE u[i] = "error"
    <3>1. PICK j \in 1 .. Len(x) : i = Len(s) + j
      BY <1>2, <2>1
    <3> QED
      BY <1>1, <1>2, <3>1
  <2> QED
    BY <1>2, <2>1 DEF BusyFirst
<1>5. BusyFirst(t)
  <2>1. ASSUME NEW i \in 1 .. Len(t), i \notin 1 .. Len(u) PROVE t[i] = "reply"
    <3>1. PICK j \in 1 .. Len(y) : i = Len(u) + j
      BY <1>3, <2>1
    <3> QED
      BY <1>1, <1>3, <3>1
  <2> QED
    BY <1>3, <1>4, <2>1 DEF BusyFirst
<1>6. ASSUME HasReply(s) PROVE HasReply(t)
  <2>1. PICK i \in 1 .. Len(s) : s[i] = "reply"
    BY <1>6 DEF HasReply
  <2>2. i \in 1 .. Len(u) /\ u[i] = "reply"
    BY <1>1, <1>2, <2>1
  <2>3. i \in 1 .. Len(t) /\ t[i] = "reply"
    BY <1>1, <1>2, <1>3, <2>2
  <2> QED
    BY <2>3 DEF HasReply
<1>7. ASSUME ~d PROVE HasReply(t)
  <2>1. Len(y) = 1 /\ 1 \in 1 .. Len(y) /\ y[1] = "reply"
    BY <1>1, <1>7
  <2>2. Len(u) \in Nat /\ Len(t) = Len(u) + 1
    BY <1>2, <1>3, <2>1
  <2>3. Len(u) + 1 \in 1 .. Len(t)
    BY <2>2
  <2>4. t[Len(u) + 1] = "reply"
    BY <1>3, <2>1
  <2> QED
    BY <2>3, <2>4 DEF HasReply
<1> QED
  BY <1>3, <1>5, <1>6, <1>7 DEF t, u, x, y

----------------------------------------------------------------------------
(* Queues *)

Injective(s) == \A i, j \in 1 .. Len(s) : s[i] = s[j] => i = j

\* What a sequence holds.
LEMMA InRange ==
    ASSUME NEW S, NEW s \in Seq(S), NEW x
    PROVE  x \in Range(s) <=> \E i \in 1 .. Len(s) : s[i] = x
  BY DEF Range

\* The empty queue.
LEMMA EmptyQueue ==
    ASSUME NEW s, s = << >> PROVE Range(s) = {} /\ Injective(s) /\ s \in Seq(Cell)
  BY DEF Range, Injective

\* A cell put at the end of a queue.
LEMMA Longer ==
    ASSUME NEW s \in Seq(Cell), NEW c \in Cell
    PROVE  /\ Append(s, c) \in Seq(Cell) /\ Range(Append(s, c)) = Range(s) \cup {c}
           /\ Injective(s) /\ c \notin Range(s) => Injective(Append(s, c))
<1> DEFINE t == Append(s, c)
<1>1. /\ t \in Seq(Cell) /\ Len(t) = Len(s) + 1 /\ t[Len(s) + 1] = c
      /\ \A i \in 1 .. Len(s) : t[i] = s[i]
  OBVIOUS
<1> HIDE DEF t
<1>2. \A i \in 1 .. Len(t) : i \in 1 .. Len(s) \/ i = Len(s) + 1
  BY <1>1
<1>3. ASSUME NEW x PROVE x \in Range(t) <=> x \in Range(s) \cup {c}
  <2>1. ASSUME x \in Range(t) PROVE x \in Range(s) \cup {c}
    <3>1. PICK i \in 1 .. Len(t) : t[i] = x
      BY <1>1, <2>1, InRange
    <3>2. CASE i \in 1 .. Len(s)
      <4>1. s[i] = x
        BY <1>1, <3>1, <3>2
      <4> QED
        BY <3>2, <4>1, InRange
    <3> QED
      BY <1>1, <1>2, <3>1, <3>2
  <2>2. ASSUME x \in Range(s) PROVE x \in Range(t)
    <3>1. PICK i \in 1 .. Len(s) : s[i] = x
      BY <2>2, InRange
    <3>2. i \in 1 .. Len(t) /\ t[i] = x
      BY <1>1, <3>1
    <3> QED
      BY <1>1, <3>2, InRange
  <2>3. c \in Range(t)
    <3>1. Len(s) + 1 \in 1 .. Len(t) /\ t[Len(s) + 1] = c
      BY <1>1
    <3> QED
      BY <1>1, <3>1, InRange
  <2> QED
    BY <2>1, <2>2, <2>3
<1>4. ASSUME Injective(s), c \notin Range(s) PROVE Injective(t)
  <2>1. \A i \in 1 .. Len(s) : s[i] # c
    BY <1>4, InRange
  <2> QED
    BY <1>1, <1>2, <1>4, <2>1 DEF Injective
<1>5. Range(t) = Range(s) \cup {c}
  BY <1>3
<1> QED
  BY <1>1, <1>4, <1>5 DEF t

\* A queue without its first cell.
LEMMA Shorter ==
    ASSUME NEW s \in Seq(Cell), s # << >>, Injective(s)
    PROVE  /\ Tail(s) \in Seq(Cell) /\ Head(s) \in Cell /\ Head(s) \in Range(s)
           /\ Range(Tail(s)) = Range(s) \ {Head(s)} /\ Injective(Tail(s))
<1> DEFINE t == Tail(s)
           h == Head(s)
<1>1. /\ t \in Seq(Cell) /\ Len(t) = Len(s) - 1 /\ h = s[1] /\ h \in Cell /\ Len(s) \in Nat
      /\ \A i \in 1 .. Len(t) : t[i] = s[i + 1] /\ i + 1 \in 1 .. Len(s)
      /\ 1 \in 1 .. Len(s)
  OBVIOUS
<1> HIDE DEF t, h
<1>2. \A i \in 1 .. Len(s) : i = 1 \/ (i - 1 \in 1 .. Len(t) /\ (i - 1) + 1 = i)
  BY <1>1
<1>3. h \in Range(s)
  BY <1>1, InRange
<1>4. ASSUME NEW x PROVE x \in Range(t) <=> x \in Range(s) /\ x # h
  <2>1. ASSUME x \in Range(t) PROVE x \in Range(s) /\ x # h
    <3>1. PICK i \in 1 .. Len(t) : t[i] = x
      BY <1>1, <2>1, InRange
    <3>2. i + 1 \in 1 .. Len(s) /\ s[i + 1] = x /\ i + 1 # 1
      BY <1>1, <3>1
    <3>3. x # h
      BY <1>1, <3>2 DEF Injective
    <3> QED
      BY <3>2, <3>3, InRange
  <2>2. ASSUME x \in Range(s), x # h PROVE x \in Range(t)
    <3>1. PICK i \in 1 .. Len(s) : s[i] = x
      BY <2>2, InRange
    <3>2. i - 1 \in 1 .. Len(t) /\ t[i - 1] = x
      BY <1>1, <1>2, <2>2, <3>1
    <3> QED
      BY <1>1, <3>2, InRange
  <2> QED
    BY <2>1, <2>2
<1>5. Injective(t)
  <2>1. ASSUME NEW i \in 1 .. Len(t), NEW j \in 1 .. Len(t), t[i] = t[j] PROVE i = j
    <3>1. i + 1 \in 1 .. Len(s) /\ j + 1 \in 1 .. Len(s) /\ s[i + 1] = s[j + 1]
      BY <1>1, <2>1
    <3>2. i + 1 = j + 1
      BY <3>1 DEF Injective
    <3> QED
      BY <3>2
  <2> QED
    BY <2>1 DEF Injective
<1>6. Range(t) = Range(s) \ {h}
  BY <1>4
<1> QED
  BY <1>1, <1>3, <1>5, <1>6 DEF t, h

----------------------------------------------------------------------------
(* Cells: where each one is, and what it got *)

Open == {"send", "wait", "take", "publish"}
Unreplied == {"begin", "send", "wait", "take", "publish", "lost"}
Replied == {"idle", "abort", "ack", "finish"}
Dead == {"drain", "kill", "collect", "fail", "close", "exit"}
Closing == {"shutdown", "kill", "collect", "fail", "close", "exit"}
Emptied == {"fail", "close", "exit"}

CellTypes ==
    /\ option \in [Cell -> Option \cup {NoOption}] /\ log \in [Cell -> Seq(Event)]
    /\ status \in Statuses /\ closed \in SUBSET Cell
    /\ pending \in Seq(Cell) /\ aborted \in Seq(Cell) /\ admitted \in Seq(Cell)
    /\ cur \in Cell \cup {NoCell} /\ before \in SUBSET Cell /\ pc \in Place

\* A cell is in the queue, taken from it to be aborted, or the job; it was sent.
Queues ==
    /\ Injective(pending) /\ Injective(aborted)
    /\ Range(pending) \cap Range(aborted) = {}
    /\ cur \notin Range(pending) /\ cur \notin Range(aborted)
    /\ Range(pending) \subseteq Sent /\ Range(aborted) \subseteq Sent
    /\ Range(admitted) \subseteq Sent /\ (cur \in Cell => cur \in Sent)

\* What the place of the main loop says of them.
Places ==
    /\ aborted # << >> => pc \in {"publish", "idle", "abort", "fail"}
    /\ AbortsOnlyEarlier
    /\ Executing => cur \in Cell
    /\ pc \in Resting => cur = NoCell
    /\ pc \in Closing => retiring
    /\ pc \in Emptied => pending = << >>
    /\ pc = "shutdown" => ~failure
    /\ Running => ~idle /\ status.by # "info"

\* What the cell got so far.
Got(c) ==
    /\ BusyFirst(log[c])
    /\ c \notin Sent \/ c \in Range(pending) \/ c \in Range(aborted) => log[c] = << >>
    /\ c = cur /\ pc = "begin" => log[c] = << >>
    /\ c = cur /\ pc \in Open => NoReplyIn(log[c]) /\ NoIdleIn(log[c])
    /\ c = cur /\ pc = "idle" => NoIdleIn(log[c])
    /\ (c = cur /\ pc \in Dead /\ failure) \/ WellFormed(log[c])

\* Unless something was refused, a cell that was admitted waits, is executed or has its reply.
Accounted(c) ==
    \/ c \in Range(pending) \/ c \in Range(aborted) \/ HasReply(log[c])
    \/ c = cur /\ (pc \in Unreplied \/ (grace /\ pc \notin Replied))

Answering ==
    closed = {} /\ ~choked =>
        /\ \A c \in Range(admitted) : Accounted(c)
        /\ pc \in Replied => HasReply(log[cur])

CellInv == CellTypes /\ Queues /\ Places /\ (\A d \in Cell : Got(d)) /\ Answering

cellVars == <<option, log, status, closed, pending, aborted, admitted, cur, before, idle>>

\* Steps that leave the cells where they are.
Moves ==
    /\ UNCHANGED cellVars /\ pc' \in Place
    /\ pc' = "begin" => pc = "begin"
    /\ pc' \in Open => pc \in Open
    /\ pc' = "idle" => pc = "idle"
    /\ pc' \in {"idle", "abort"} => pc \in {"idle", "abort"}
    /\ aborted = << >> \/ pc' = pc
    /\ pc' \in Serving \cup {"lost"} => pc \in Serving \cup {"lost"}
    /\ pc' \in Resting => pc \in Resting
    /\ pc' \in Closing => retiring'
    /\ pc' \in Emptied => pc \in Emptied
    /\ pc' = "shutdown" => ~failure'
    /\ pc \in Dead /\ failure => pc' \in Dead /\ failure'
    /\ pc \in Unreplied => pc' \in Unreplied \/ (grace' /\ pc' \notin Replied) \/ choked'
    /\ pc' \in Replied => pc \in Replied
    /\ (choked => choked') /\ (grace => grace')

\* They keep what is known of the cells.
LEMMA MovesHolds ==
    ASSUME CellInv, Moves PROVE CellInv'
<1>0. CellTypes /\ Queues /\ Places /\ (\A d \in Cell : Got(d)) /\ Answering
  BY DEF CellInv
<1>1. CellTypes'
  BY <1>0 DEF CellTypes, Moves, cellVars
<1>2. Sent' = Sent /\ UNCHANGED cellVars
  BY DEF Moves, Sent, cellVars
<1>3. Queues'
  BY <1>0, <1>2 DEF Queues, cellVars
<1>4. Places'
  <2> USE <1>0, <1>2 DEF Places, Moves, cellVars
  <2>1. (aborted # << >> => pc \in {"publish", "idle", "abort", "fail"})'
    OBVIOUS
  <2>2. AbortsOnlyEarlier'
    BY DEF AbortsOnlyEarlier
  <2>3. (Executing => cur \in Cell)' /\ (pc \in Resting => cur = NoCell)'
    BY DEF Executing, Serving
  <2>4. (pc \in Closing => retiring)' /\ (pc \in Emptied => pending = << >>)'
    OBVIOUS
  <2>5. (pc = "shutdown" => ~failure)'
    OBVIOUS
  <2>6. (Running => ~idle /\ status.by # "info")'
    BY DEF Running, Open
  <2> QED
    BY <2>1, <2>2, <2>3, <2>4, <2>5, <2>6
<1>5. ASSUME NEW c \in Cell PROVE Got(c)'
  <2>1. Got(c)
    BY <1>0
  <2> QED
    BY <1>2, <2>1 DEF Got, Moves, cellVars
<1>6. Answering'
  <2> SUFFICES ASSUME closed' = {}, ~choked'
               PROVE  /\ \A c \in Range(admitted)' : Accounted(c)'
                      /\ pc' \in Replied => HasReply(log'[cur'])
    BY DEF Answering
  <2>1. closed = {} /\ ~choked
    BY <1>2 DEF Moves, cellVars
  <2>2. ASSUME NEW c \in Range(admitted)' PROVE Accounted(c)'
    <3>1. Accounted(c)
      BY <1>0, <1>2, <2>1, <2>2 DEF Answering, cellVars
    <3> QED
      BY <1>2, <3>1 DEF Accounted, Moves, cellVars
  <2>3. pc' \in Replied => HasReply(log'[cur'])
    BY <1>0, <1>2, <2>1 DEF Answering, Moves, cellVars
  <2> QED
    BY <2>2, <2>3
<1> QED
  BY <1>1, <1>3, <1>4, <1>5, <1>6 DEF CellInv

\* The steps that do so.
Elsewhere ==
    \/ Top \/ Sleep \/ Wake \/ Send \/ SendRefused \/ ReceiveArmed \/ ReceiveSettled
    \/ OperationFails \/ StreamRefused \/ SettleDone \/ Acknowledge \/ AcknowledgeFails
    \/ NoticeStop \/ GraceExpires \/ Drain \/ ShutdownWorker \/ Terminate \/ FailDone \/ Exit
    \/ Exited \/ InterruptRequest \/ ShutdownRequest \/ Evaluation \/ WorkerDies \/ ReadersFail
    \/ UNCHANGED vars

\* Each of them is such a step.
LEMMA ElsewhereMoves ==
    ASSUME CellInv, Elsewhere PROVE Moves
<1>0. /\ pc \in Place /\ (aborted # << >> => pc \in {"publish", "idle", "abort", "fail"})
      /\ pc \in Closing => retiring
      /\ pc = "shutdown" => ~failure
  BY DEF CellInv, CellTypes, Places
<1> USE <1>0 DEF Moves, cellVars, Place, Open, Serving, Resting, Closing, Emptied, Dead, Unreplied,
                 Replied, Err, frontVars, appVars, loopVars, linkVars, workVars, histVars
<1>1. CASE Top \/ Sleep \/ Wake
  BY <1>1 DEF Top, Sleep, Wake
<1>2. CASE Send \/ SendRefused
  BY <1>2 DEF Send, SendRefused
<1>3. CASE ReceiveArmed \/ ReceiveSettled
  BY <1>3 DEF ReceiveArmed, ReceiveSettled
<1>4. CASE OperationFails
  BY <1>4 DEF OperationFails
<1>5. CASE StreamRefused
  BY <1>5 DEF StreamRefused
<1>6. CASE SettleDone \/ Acknowledge \/ AcknowledgeFails
  BY <1>6 DEF SettleDone, Acknowledge, AcknowledgeFails
<1>7. CASE GraceExpires
  BY <1>7 DEF GraceExpires
<1>8. CASE Drain \/ ShutdownWorker
  BY <1>8 DEF Drain, ShutdownWorker
<1>9. CASE Terminate \/ FailDone \/ Exit
  BY <1>9 DEF Terminate, FailDone, Exit
<1>10. CASE InterruptRequest \/ ShutdownRequest
  BY <1>10 DEF InterruptRequest, ShutdownRequest
<1>11. CASE Evaluation \/ WorkerDies \/ ReadersFail
  <2>1. UNCHANGED <<cellVars, pc, failure, choked, retiring, grace>>
    BY <1>11 DEF Evaluation, WorkerArm, WorkerRefuse, WorkerSettle, WorkerDies, ReadersFail
  <2> QED
    BY <2>1
<1>13. CASE NoticeStop
  <2>1. /\ UNCHANGED <<cellVars, pc, failure, choked, retiring>> /\ grace' = TRUE
    BY <1>13 DEF NoticeStop
  <2> QED
    BY <2>1
<1>12. CASE Exited \/ UNCHANGED vars
  BY <1>12 DEF Exited, vars
<1> QED
  BY <1>1, <1>2, <1>3, <1>4, <1>5, <1>6, <1>7, <1>8, <1>9, <1>10, <1>11, <1>12, <1>13 DEF Elsewhere

----------------------------------------------------------------------------
(* The steps that move a cell or write its log *)

\* App::pop
LEMMA PopCells ==
    ASSUME CellInv, Pop PROVE CellInv'
<1>0. CellTypes /\ Queues /\ Places /\ (\A d \in Cell : Got(d)) /\ Answering
  BY DEF CellInv
<1>a. /\ pc = "pop" /\ pc' = "begin" /\ pending # << >>
      /\ cur' = Head(pending) /\ pending' = Tail(pending)
      /\ UNCHANGED <<option, log, status, closed, aborted, admitted, before, idle, choked, grace,
                     failure, retiring>>
  BY DEF Pop, frontVars, appVars, loopVars, linkVars, workVars, histVars
<1>b. /\ pending' \in Seq(Cell) /\ cur' \in Cell /\ cur' \in Range(pending)
      /\ Range(pending') = Range(pending) \ {cur'} /\ Injective(pending')
  BY <1>0, <1>a, Shorter DEF CellTypes, Queues
<1>c. cur = NoCell /\ aborted = << >> /\ Sent' = Sent
  BY <1>0, <1>a DEF Places, Resting, Sent
<1>1. CellTypes'
  BY <1>0, <1>a, <1>b DEF CellTypes, Place
<1>3. Queues'
  BY <1>0, <1>a, <1>b, <1>c DEF Queues
<1>4. Places'
  BY <1>0, <1>a, <1>b, <1>c
     DEF Places, AbortsOnlyEarlier, Executing, Resting, Closing, Emptied, Running
<1>5. ASSUME NEW c \in Cell PROVE Got(c)'
  <2>1. Got(c) /\ (c = cur' => log[c] = << >>) /\ c # cur
    BY <1>0, <1>a, <1>b, <1>c, KernelAssumption DEF Got
  <2> QED
    BY <1>a, <1>b, <1>c, <2>1 DEF Got, Open, Dead
<1>6. Answering'
  <2>1. \A c \in Range(admitted) : c # cur
    BY <1>0, <1>c, KernelAssumption DEF Queues, Sent
  <2> QED
    BY <1>0, <1>a, <1>b, <2>1 DEF Answering, Accounted, Unreplied, Replied
<1> QED
  BY <1>1, <1>3, <1>4, <1>5, <1>6 DEF CellInv

\* App::settle takes the queue, or leaves it.
LEMMA SettleTakeCells ==
    ASSUME CellInv, SettleTake PROVE CellInv'
<1>0. CellTypes /\ Queues /\ Places /\ (\A d \in Cell : Got(d)) /\ Answering
  BY DEF CellInv
<1>a. /\ pc = "take" /\ pc' = "publish"
      /\ \/ aborted' = pending /\ pending' = << >>
         \/ aborted' = << >> /\ pending' = pending
      /\ UNCHANGED <<option, log, status, closed, cur, admitted, before, idle, choked, grace,
                     failure, retiring>>
  BY DEF SettleTake, frontVars, appVars, loopVars, linkVars, workVars, histVars
<1>b. Range(<< >>) = {} /\ Injective(<< >>) /\ << >> \in Seq(Cell)
  BY EmptyQueue
<1>c. aborted = << >> /\ Sent' = Sent
  BY <1>0, <1>a DEF Places, Sent
<1>1. CellTypes'
  BY <1>0, <1>a, <1>b DEF CellTypes, Place
<1>3. Queues'
  BY <1>0, <1>a, <1>b, <1>c DEF Queues
<1>4. Places'
  BY <1>0, <1>a, <1>c
     DEF Places, AbortsOnlyEarlier, Executing, Resting, Closing, Emptied, Running
<1>5. ASSUME NEW c \in Cell PROVE Got(c)'
  <2>1. Got(c)
    BY <1>0
  <2> QED
    BY <1>a, <1>b, <1>c, <2>1 DEF Got, Open, Dead
<1>6. Answering'
  BY <1>0, <1>a, <1>b, <1>c DEF Answering, Accounted, Unreplied, Replied
<1> QED
  BY <1>1, <1>3, <1>4, <1>5, <1>6 DEF CellInv

\* take_pending after the loop.
LEMMA CollectCells ==
    ASSUME CellInv, Collect PROVE CellInv'
<1>0. CellTypes /\ Queues /\ Places /\ (\A d \in Cell : Got(d)) /\ Answering
  BY DEF CellInv
<1>a. /\ pc = "collect" /\ pc' = "fail" /\ aborted' = pending /\ pending' = << >>
      /\ retiring' = TRUE
      /\ UNCHANGED <<option, log, status, closed, cur, admitted, before, idle, choked, grace,
                     failure>>
  BY DEF Collect, frontVars, appVars, loopVars, linkVars, workVars, histVars
<1>b. Range(<< >>) = {} /\ Injective(<< >>) /\ << >> \in Seq(Cell)
  BY EmptyQueue
<1>c. aborted = << >> /\ Sent' = Sent
  BY <1>0, <1>a DEF Places, Sent
<1>1. CellTypes'
  BY <1>0, <1>a, <1>b DEF CellTypes, Place
<1>3. Queues'
  BY <1>0, <1>a, <1>b, <1>c DEF Queues
<1>4. Places'
  BY <1>0, <1>a, <1>c
     DEF Places, AbortsOnlyEarlier, Executing, Resting, Closing, Emptied, Running
<1>5. ASSUME NEW c \in Cell PROVE Got(c)'
  <2>1. Got(c)
    BY <1>0
  <2> QED
    BY <1>a, <1>b, <1>c, <2>1 DEF Got, Open, Dead
<1>6. Answering'
  BY <1>0, <1>a, <1>b, <1>c DEF Answering, Accounted, Unreplied, Replied
<1> QED
  BY <1>1, <1>3, <1>4, <1>5, <1>6 DEF CellInv

\* The end of the job.
LEMMA FinishCells ==
    ASSUME CellInv, Finish PROVE CellInv'
<1>0. CellTypes /\ Queues /\ Places /\ (\A d \in Cell : Got(d)) /\ Answering
  BY DEF CellInv
<1>a. /\ pc = "finish"
      /\ \/ pc' = "lost" /\ cur' = cur
         \/ pc' = "drain" /\ grace /\ (cur' = cur \/ cur' = NoCell)
         \/ pc' = "top" /\ cur' = NoCell
      /\ UNCHANGED <<option, log, status, closed, pending, aborted, admitted, before, idle, choked,
                     grace, failure, retiring>>
  BY DEF Finish, Err, frontVars, appVars, loopVars, linkVars, workVars, histVars
<1>b. aborted = << >> /\ Sent' = Sent /\ cur \in Cell /\ NoCell \notin Cell
  BY <1>0, <1>a, KernelAssumption DEF Places, Sent, Executing
<1>c. Range(aborted) = {} /\ NoCell \notin Range(pending)
  BY <1>0, <1>b, EmptyQueue DEF Queues, Sent
<1>1. CellTypes'
  BY <1>0, <1>a DEF CellTypes, Place
<1>3. Queues'
  BY <1>0, <1>a, <1>b, <1>c DEF Queues
<1>4. Places'
  BY <1>0, <1>a, <1>b
     DEF Places, AbortsOnlyEarlier, Executing, Resting, Closing, Emptied, Running
<1>5. ASSUME NEW c \in Cell PROVE Got(c)'
  <2>1. Got(c)
    BY <1>0
  <2> QED
    BY <1>a, <1>b, <2>1 DEF Got, Open, Dead
<1>6. Answering'
  BY <1>0, <1>a, <1>b DEF Answering, Accounted, Unreplied, Replied
<1> QED
  BY <1>1, <1>3, <1>4, <1>5, <1>6 DEF CellInv

\* An option that was sent.
LEMMA OptionSent ==
    ASSUME option \in [Cell -> Option \cup {NoOption}], NEW c \in Cell, NEW o \in Option,
           option' = [option EXCEPT ![c] = o]
    PROVE  option' \in [Cell -> Option \cup {NoOption}] /\ Sent' = Sent \cup {c}
<1>1. o # NoOption
  BY KernelAssumption DEF OptionType, NoOption
<1> QED
  BY <1>1 DEF Sent

\* Admission
LEMMA AdmitCells ==
    ASSUME CellInv, NEW c \in Cell, NEW o \in Option, Admit(c, o) PROVE CellInv'
<1>0. CellTypes /\ Queues /\ Places /\ (\A d \in Cell : Got(d)) /\ Answering
  BY DEF CellInv
<1>a. /\ c \notin Sent /\ ~retiring /\ option' = [option EXCEPT ![c] = o]
      /\ pending' = Append(pending, c) /\ admitted' = Append(admitted, c)
      /\ UNCHANGED <<log, status, closed, aborted, cur, pc, before, idle, choked, grace, failure,
                     retiring>>
  BY DEF Admit, Full, frontVars, appVars, loopVars, linkVars, workVars, histVars
<1>b. option' \in [Cell -> Option \cup {NoOption}] /\ Sent' = Sent \cup {c}
  BY <1>0, <1>a, OptionSent DEF CellTypes
<1>c. /\ c \notin Range(pending) /\ c \notin Range(aborted) /\ c # cur /\ log[c] = << >>
  BY <1>0, <1>a DEF Queues, Got
<1>d. /\ pending' \in Seq(Cell) /\ Range(pending') = Range(pending) \cup {c} /\ Injective(pending')
      /\ admitted' \in Seq(Cell) /\ Range(admitted') = Range(admitted) \cup {c}
  BY <1>0, <1>a, <1>c, Longer DEF CellTypes, Queues
<1>1. CellTypes'
  BY <1>0, <1>a, <1>b, <1>d DEF CellTypes
<1>3. Queues'
  BY <1>0, <1>a, <1>b, <1>c, <1>d DEF Queues
<1>4. Places'
  BY <1>0, <1>a DEF Places, AbortsOnlyEarlier, Executing, Closing, Emptied, Running
<1>5. ASSUME NEW d \in Cell PROVE Got(d)'
  <2>1. Got(d)
    BY <1>0
  <2> QED
    BY <1>a, <1>b, <1>c, <1>d, <2>1 DEF Got
<1>6. Answering'
  BY <1>0, <1>a, <1>d DEF Answering, Accounted
<1> QED
  BY <1>1, <1>3, <1>4, <1>5, <1>6 DEF CellInv

\* A connection ends, or a kernel_info request is answered.
LEMMA AsideCells ==
    ASSUME CellInv,
           \/ \E c \in Cell : Disconnect(c)
           \/ \E state \in {"busy", "idle"} : ShellInfo(state) \/ ControlInfo(state)
    PROVE  CellInv'
<1>0. CellTypes /\ Queues /\ Places /\ (\A d \in Cell : Got(d)) /\ Answering
  BY DEF CellInv
<1>a. /\ UNCHANGED <<option, log, pending, aborted, cur, pc, admitted, before, idle, choked, grace,
                     failure, retiring>>
      /\ \/ status' = status
         \/ idle /\ \E state \in {"busy", "idle"} : status' = [state |-> state, by |-> "info"]
      /\ closed' = closed \/ \E c \in Cell : closed' = closed \cup {c}
  BY DEF Disconnect, ShellInfo, ControlInfo, frontVars, appVars, loopVars, linkVars, workVars, histVars
<1>b. Sent' = Sent
  BY <1>a DEF Sent
<1>c. status' \in Statuses /\ closed' \in SUBSET Cell
  BY <1>0, <1>a DEF CellTypes, Statuses
<1>1. CellTypes'
  BY <1>0, <1>a, <1>c DEF CellTypes
<1>3. Queues'
  BY <1>0, <1>a, <1>b DEF Queues
<1>4. Places'
  BY <1>0, <1>a DEF Places, AbortsOnlyEarlier, Executing, Running
<1>5. ASSUME NEW d \in Cell PROVE Got(d)'
  <2>1. Got(d)
    BY <1>0
  <2> QED
    BY <1>a, <1>b, <2>1 DEF Got
<1>6. Answering'
  BY <1>0, <1>a DEF Answering, Accounted
<1> QED
  BY <1>1, <1>3, <1>4, <1>5, <1>6 DEF CellInv

\* run() answers for the job that failed.
LEMMA ReportLostCells ==
    ASSUME CellInv, NEW shown \in BOOLEAN, NEW delivered \in BOOLEAN, ReportLost(shown, delivered)
    PROVE  CellInv'
<1>0. CellTypes /\ Queues /\ Places /\ (\A d \in Cell : Got(d)) /\ Answering
  BY DEF CellInv
<1> DEFINE x == ~(~option[cur].silent) \/ ~shown
           t == log[cur] \o Unless(x, "error") \o Unless(~delivered, "reply")
<1>a. /\ pc = "lost" /\ pc' = "drain" /\ failure' = TRUE
      /\ log' = [log EXCEPT ![cur] = t]
      /\ closed' = (IF delivered THEN closed ELSE closed \cup {cur})
      /\ (choked => choked')
      /\ UNCHANGED <<option, status, pending, aborted, cur, admitted, before, idle, grace, retiring>>
  BY DEF ReportLost, frontVars, appVars, loopVars, linkVars, workVars, histVars
<1>b. cur \in Cell /\ aborted = << >> /\ Range(aborted) = {} /\ Sent' = Sent /\ cur \in Sent
  BY <1>0, <1>a, EmptyQueue DEF Places, Executing, Sent, Queues
<1>c. /\ t \in Seq(Event) /\ BusyFirst(t) /\ (HasReply(log[cur]) => HasReply(t))
      /\ delivered => HasReply(t)
  <2>1. log[cur] \in Seq(Event) /\ BusyFirst(log[cur])
    BY <1>0, <1>b DEF CellTypes, Got
  <2> QED
    BY <2>1, LostLog
<1> HIDE DEF t
<1>d. log' \in [Cell -> Seq(Event)] /\ log'[cur] = t /\ \A d \in Cell \ {cur} : log'[d] = log[d]
  BY <1>0, <1>a, <1>b, <1>c DEF CellTypes
<1>1. CellTypes'
  BY <1>0, <1>a, <1>b, <1>d DEF CellTypes, Place
<1>3. Queues'
  BY <1>0, <1>a, <1>b DEF Queues
<1>4. Places'
  BY <1>0, <1>a, <1>b
     DEF Places, AbortsOnlyEarlier, Executing, Resting, Closing, Emptied, Running
<1>5. ASSUME NEW d \in Cell PROVE Got(d)'
  <2>1. Got(d)
    BY <1>0
  <2>2. CASE d = cur
    BY <1>0, <1>a, <1>b, <1>c, <1>d, <2>1, <2>2 DEF Got, Open, Dead, Queues
  <2>3. CASE d # cur
    BY <1>a, <1>b, <1>d, <2>1, <2>3 DEF Got
  <2> QED
    BY <2>2, <2>3
<1>6. Answering'
  <2> SUFFICES ASSUME closed' = {}, ~choked'
               PROVE  \A c \in Range(admitted)' : Accounted(c)'
    BY <1>a DEF Answering, Replied
  <2>1. closed = {} /\ ~choked /\ delivered
    BY <1>a
  <2>2. ASSUME NEW c \in Range(admitted)' PROVE Accounted(c)'
    <3>1. Accounted(c) /\ c \in Cell
      BY <1>0, <1>a, <2>1, <2>2 DEF Answering, Queues, Sent
    <3>2. CASE c = cur
      BY <1>a, <1>c, <1>d, <2>1, <3>2 DEF Accounted
    <3>3. CASE c # cur
      BY <1>a, <1>d, <3>1, <3>3 DEF Accounted
    <3> QED
      BY <3>2, <3>3
  <2> QED
    BY <2>2
<1> QED
  BY <1>1, <1>3, <1>4, <1>5, <1>6 DEF CellInv

\* KernelBusy or InvalidRequest
LEMMA RefuseCells ==
    ASSUME CellInv, NEW c \in Cell, NEW o \in Option, NEW n \in Events, Refuse(c, o, n)
    PROVE  CellInv'
<1>0. CellTypes /\ Queues /\ Places /\ (\A d \in Cell : Got(d)) /\ Answering
  BY DEF CellInv
<1> DEFINE e == RefusalEvents(c, o)
<1>a. /\ c \notin Sent /\ option' = [option EXCEPT ![c] = o] /\ Publish(c, "refusal", e, n)
      /\ UNCHANGED <<pending, aborted, cur, pc, admitted, before, idle, grace, failure, retiring>>
  BY DEF Refuse, frontVars, appVars, loopVars, linkVars, workVars, histVars
<1>e. e \in Seq(Event)
  BY RefusalEventsAre
<1>p. /\ n \in 0 .. Len(e)
      /\ log' \in [Cell -> Seq(Event)] /\ \A d \in Cell \ {c} : log'[d] = log[d]
      /\ log'[c] = Then(log[c], e, n)
      /\ status' \in Statuses /\ (status' = status \/ status'.by = "refusal")
      /\ (\E k \in 1 .. n : e[k] \in {"busy", "idle"}) => status'.by = "refusal"
      /\ closed' \in SUBSET Cell /\ closed \subseteq closed' /\ (choked => choked')
      /\ n < Len(e) => closed' # {} \/ choked'
  <2>1. /\ log \in [Cell -> Seq(Event)] /\ status \in Statuses /\ closed \in SUBSET Cell
    BY <1>0 DEF CellTypes
  <2>2. "refusal" \in By
    BY DEF By
  <2>3. Publish(c, "refusal", e, n)
    BY <1>a
  <2>4. c \in Cell
    BY <1>a, <1>e
  <2>5. e \in Seq(Event)
    BY <1>e
  <2> HIDE DEF e
  <2> QED
    BY <2>5, <2>1, <2>2, <2>3, <2>4, Published DEF Then
<1>b. option' \in [Cell -> Option \cup {NoOption}] /\ Sent' = Sent \cup {c}
  BY <1>0, <1>a, OptionSent DEF CellTypes
<1>c. /\ c \notin Range(pending) /\ c \notin Range(aborted) /\ c # cur /\ log[c] = << >>
      /\ c \notin Range(admitted)
  BY <1>0, <1>a DEF Queues, Got
<1>d. WellFormed(log'[c])
  BY <1>c, <1>p, RefusalLog
<1>1. CellTypes'
  BY <1>0, <1>a, <1>b, <1>p DEF CellTypes
<1>3. Queues'
  BY <1>0, <1>a, <1>b DEF Queues
<1>4. Places'
  BY <1>0, <1>a, <1>p DEF Places, AbortsOnlyEarlier, Executing, Running
<1>5. ASSUME NEW d \in Cell PROVE Got(d)'
  <2>1. Got(d)
    BY <1>0
  <2>2. CASE d = c
    BY <1>a, <1>b, <1>c, <1>d, <2>2 DEF Got, WellFormed
  <2>3. CASE d # c
    BY <1>a, <1>b, <1>p, <2>1, <2>3 DEF Got
  <2> QED
    BY <2>2, <2>3
<1>6. Answering'
  <2> SUFFICES ASSUME closed' = {}, ~choked'
               PROVE  /\ \A d \in Range(admitted)' : Accounted(d)'
                      /\ pc' \in Replied => HasReply(log'[cur'])
    BY DEF Answering
  <2>1. closed = {} /\ ~choked
    BY <1>p
  <2>2. ASSUME NEW d \in Range(admitted)' PROVE Accounted(d)'
    <3>1. Accounted(d) /\ d \in Cell /\ d # c
      BY <1>0, <1>a, <1>c, <2>1, <2>2 DEF Answering, Queues, Sent
    <3> QED
      BY <1>a, <1>p, <3>1 DEF Accounted
  <2>3. pc' \in Replied => HasReply(log'[cur'])
    <3>1. pc \in Replied => cur \in Cell
      BY <1>0 DEF Places, Executing, Replied
    <3> QED
      BY <1>0, <1>a, <1>c, <1>p, <2>1, <3>1 DEF Answering
  <2> QED
    BY <2>2, <2>3
<1> QED
  BY <1>1, <1>3, <1>4, <1>5, <1>6 DEF CellInv

\* App::execute up to the worker.
LEMMA BeginCells ==
    ASSUME CellInv, NEW n \in Events, Begin(n) PROVE CellInv'
<1>0. CellTypes /\ Queues /\ Places /\ (\A d \in Cell : Got(d)) /\ Answering
  BY DEF CellInv
<1> DEFINE e == BeginEvents(option[cur])
<1>a. /\ pc = "begin" /\ Publish(cur, "cell", e, n) /\ ~idle'
      /\ \/ n < Len(e) /\ pc' \in {"drain", "lost"}
         \/ ~(n < Len(e)) /\ pc' \in {"take", "send"}
      /\ UNCHANGED <<option, pending, aborted, cur, admitted, before, grace, failure, retiring>>
  BY DEF Begin, BeginEvents, Err, frontVars, appVars, loopVars, linkVars, workVars, histVars
<1>e. e \in Seq(Event) /\ Len(e) \in 1 .. 2 /\ e[1] = "busy"
  BY BeginEventsAre
<1>b. /\ cur \in Cell /\ aborted = << >> /\ Range(aborted) = {} /\ Sent' = Sent /\ cur \in Sent
      /\ log[cur] = << >>
  BY <1>0, <1>a, EmptyQueue DEF Places, Executing, Sent, Queues, Got
<1>p. /\ n \in 0 .. Len(e)
      /\ log' \in [Cell -> Seq(Event)] /\ \A d \in Cell \ {cur} : log'[d] = log[d]
      /\ log'[cur] = Then(log[cur], e, n)
      /\ status' \in Statuses /\ (status' = status \/ status'.by = "cell")
      /\ (\E k \in 1 .. n : e[k] \in {"busy", "idle"}) => status'.by = "cell"
      /\ closed' \in SUBSET Cell /\ closed \subseteq closed' /\ (choked => choked')
      /\ n < Len(e) => closed' # {} \/ choked'
  <2>1. /\ log \in [Cell -> Seq(Event)] /\ status \in Statuses /\ closed \in SUBSET Cell
    BY <1>0 DEF CellTypes
  <2>2. "cell" \in By
    BY DEF By
  <2>3. Publish(cur, "cell", e, n)
    BY <1>a
  <2>4. cur \in Cell
    BY <1>a, <1>b, <1>e
  <2>5. e \in Seq(Event)
    BY <1>e
  <2> HIDE DEF e
  <2> QED
    BY <2>5, <2>1, <2>2, <2>3, <2>4, Published DEF Then
<1>d. /\ BusyFirst(log'[cur]) /\ NoReplyIn(log'[cur]) /\ NoIdleIn(log'[cur])
      /\ WellFormed(log'[cur])
  <2>1. BusyFirst(log'[cur]) /\ NoReplyIn(log'[cur]) /\ NoIdleIn(log'[cur])
    BY <1>b, <1>p, BeginLog
  <2> QED
    BY <2>1, NoneIsOne, Unended
<1>f. pc' \in {"take", "send"} => status'.by = "cell"
  <2>1. pc' \in {"take", "send"} => n = Len(e) /\ 1 \in 1 .. n
    BY <1>a, <1>e, <1>p
  <2> QED
    BY <1>e, <1>p, <2>1
<1>1. CellTypes'
  BY <1>0, <1>a, <1>p DEF CellTypes, Place
<1>3. Queues'
  BY <1>0, <1>a, <1>b DEF Queues
<1>4. Places'
  BY <1>0, <1>a, <1>b, <1>f
     DEF Places, AbortsOnlyEarlier, Executing, Resting, Closing, Emptied, Running
<1>5. ASSUME NEW d \in Cell PROVE Got(d)'
  <2>1. Got(d)
    BY <1>0
  <2>2. CASE d = cur
    BY <1>0, <1>a, <1>b, <1>d, <2>2 DEF Got, Queues
  <2>3. CASE d # cur
    BY <1>a, <1>b, <1>p, <2>1, <2>3 DEF Got, Dead
  <2> QED
    BY <2>2, <2>3
<1>6. Answering'
  <2> SUFFICES ASSUME closed' = {}, ~choked'
               PROVE  \A c \in Range(admitted)' : Accounted(c)'
    BY <1>a DEF Answering, Replied
  <2>1. closed = {} /\ ~choked /\ pc' \in {"take", "send"}
    BY <1>a, <1>p
  <2>2. ASSUME NEW c \in Range(admitted)' PROVE Accounted(c)'
    <3>1. Accounted(c) /\ c \in Cell
      BY <1>0, <1>a, <2>1, <2>2 DEF Answering, Queues, Sent
    <3>2. CASE c = cur
      BY <1>a, <2>1, <3>2 DEF Accounted, Unreplied
    <3>3. CASE c # cur
      BY <1>a, <1>p, <3>1, <3>3 DEF Accounted
    <3> QED
      BY <3>2, <3>3
  <2> QED
    BY <2>2
<1> QED
  BY <1>1, <1>3, <1>4, <1>5, <1>6 DEF CellInv

\* The result and the execute_reply.
LEMMA SettleReplyCells ==
    ASSUME CellInv, NEW n \in Events, SettleReply(n) PROVE CellInv'
<1>0. CellTypes /\ Queues /\ Places /\ (\A d \in Cell : Got(d)) /\ Answering
  BY DEF CellInv
<1> DEFINE e == AnswerEvents(cur, option[cur], reply)
<1>a. /\ pc = "publish" /\ Publish(cur, "cell", e, n)
      /\ \/ n < Len(e) /\ pc' \in {"drain", "lost"} /\ aborted' = << >> /\ before' = before
         \/ ~(n < Len(e)) /\ pc' = "idle" /\ aborted' = aborted /\ before' = Sent
      /\ UNCHANGED <<option, pending, cur, admitted, idle, grace, failure, retiring>>
  BY DEF SettleReply, AnswerEvents, Err, frontVars, appVars, loopVars, linkVars, workVars, histVars
<1>e. e \in Seq(Event)
  BY AnswerEventsAre
<1>b. /\ cur \in Cell /\ Sent' = Sent /\ cur \in Sent
      /\ log[cur] \in Seq(Event) /\ BusyFirst(log[cur]) /\ NoReplyIn(log[cur]) /\ NoIdleIn(log[cur])
  BY <1>0, <1>a DEF Places, Executing, Sent, Queues, Got, CellTypes, Open
<1>c. /\ Range(<< >>) = {} /\ Injective(<< >>) /\ << >> \in Seq(Cell)
  BY EmptyQueue
<1>p. /\ n \in 0 .. Len(e)
      /\ log' \in [Cell -> Seq(Event)] /\ \A d \in Cell \ {cur} : log'[d] = log[d]
      /\ log'[cur] = Then(log[cur], e, n)
      /\ status' \in Statuses /\ (status' = status \/ status'.by = "cell")
      /\ (\E k \in 1 .. n : e[k] \in {"busy", "idle"}) => status'.by = "cell"
      /\ closed' \in SUBSET Cell /\ closed \subseteq closed' /\ (choked => choked')
      /\ n < Len(e) => closed' # {} \/ choked'
  <2>1. /\ log \in [Cell -> Seq(Event)] /\ status \in Statuses /\ closed \in SUBSET Cell
    BY <1>0 DEF CellTypes
  <2>2. "cell" \in By
    BY DEF By
  <2>3. Publish(cur, "cell", e, n)
    BY <1>a
  <2>4. cur \in Cell
    BY <1>a, <1>b, <1>e
  <2>5. e \in Seq(Event)
    BY <1>e
  <2> HIDE DEF e
  <2> QED
    BY <2>5, <2>1, <2>2, <2>3, <2>4, Published DEF Then
<1>d. /\ BusyFirst(log'[cur]) /\ NoIdleIn(log'[cur]) /\ WellFormed(log'[cur])
      /\ cur \notin closed /\ n = Len(e) => HasReply(log'[cur])
  <2>1. /\ BusyFirst(log'[cur]) /\ NoIdleIn(log'[cur]) /\ OneReply(log'[cur])
        /\ cur \notin closed /\ n = Len(e) => HasReply(log'[cur])
    BY <1>b, <1>p, AnswerLog
  <2> QED
    BY <2>1, Unended
<1> HIDE DEF e
<1>1. CellTypes'
  BY <1>0, <1>a, <1>c, <1>p DEF CellTypes, Place, Sent
<1>3. Queues'
  BY <1>0, <1>a, <1>b, <1>c DEF Queues
<1>4. Places'
  <2>1. Running
    BY <1>a DEF Running
  <2> QED
    BY <1>0, <1>a, <1>b, <1>c, <1>p, <2>1
       DEF Places, AbortsOnlyEarlier, Executing, Resting, Closing, Emptied, Running, Queues
<1>5. ASSUME NEW d \in Cell PROVE Got(d)'
  <2>1. Got(d)
    BY <1>0
  <2>2. CASE d = cur
    BY <1>0, <1>a, <1>b, <1>c, <1>d, <2>2 DEF Got, Queues, Open
  <2>3. CASE d # cur
    BY <1>a, <1>b, <1>c, <1>p, <2>1, <2>3 DEF Got, Dead
  <2> QED
    BY <2>2, <2>3
<1>6. Answering'
  <2> SUFFICES ASSUME closed' = {}, ~choked'
               PROVE  /\ \A c \in Range(admitted)' : Accounted(c)'
                      /\ pc' \in Replied => HasReply(log'[cur'])
    BY DEF Answering
  <2>1. closed = {} /\ ~choked /\ pc' = "idle" /\ aborted' = aborted /\ n = Len(e)
    BY <1>a, <1>e, <1>p
  <2>2. HasReply(log'[cur])
    BY <1>d, <2>1
  <2>3. ASSUME NEW c \in Range(admitted)' PROVE Accounted(c)'
    <3>1. Accounted(c) /\ c \in Cell
      BY <1>0, <1>a, <2>1, <2>3 DEF Answering, Queues, Sent
    <3>2. CASE c = cur
      BY <1>a, <2>2, <3>2 DEF Accounted
    <3>3. CASE c # cur
      BY <1>a, <1>p, <2>1, <3>1, <3>3 DEF Accounted
    <3> QED
      BY <3>2, <3>3
  <2> QED
    BY <1>a, <2>2, <2>3
<1> QED
  BY <1>1, <1>3, <1>4, <1>5, <1>6 DEF CellInv

\* Output::status("idle")
LEMMA SettleIdleCells ==
    ASSUME CellInv, NEW n \in Events, SettleIdle(n) PROVE CellInv'
<1>0. CellTypes /\ Queues /\ Places /\ (\A d \in Cell : Got(d)) /\ Answering
  BY DEF CellInv
<1> DEFINE e == <<"idle">>
<1>a. /\ pc = "idle" /\ Publish(cur, "cell", e, n)
      /\ \/ n = 0 /\ pc' \in {"drain", "lost"} /\ aborted' = << >>
         \/ n # 0 /\ pc' = "abort" /\ aborted' = aborted
      /\ UNCHANGED <<option, pending, cur, admitted, before, grace, failure, retiring>>
  BY DEF SettleIdle, Err, frontVars, appVars, loopVars, linkVars, workVars, histVars
<1>e. e \in Seq(Event) /\ Len(e) = 1
  BY OneEvent DEF Event
<1>b. /\ cur \in Cell /\ Sent' = Sent /\ cur \in Sent
      /\ log[cur] \in Seq(Event) /\ BusyFirst(log[cur]) /\ WellFormed(log[cur])
      /\ NoIdleIn(log[cur])
  BY <1>0, <1>a DEF Places, Executing, Sent, Queues, Got, CellTypes, Dead
<1>c. /\ Range(<< >>) = {} /\ Injective(<< >>) /\ << >> \in Seq(Cell)
  BY EmptyQueue
<1>p. /\ n \in 0 .. Len(e)
      /\ log' \in [Cell -> Seq(Event)] /\ \A d \in Cell \ {cur} : log'[d] = log[d]
      /\ log'[cur] = Then(log[cur], e, n)
      /\ status' \in Statuses /\ (status' = status \/ status'.by = "cell")
      /\ (\E k \in 1 .. n : e[k] \in {"busy", "idle"}) => status'.by = "cell"
      /\ closed' \in SUBSET Cell /\ closed \subseteq closed' /\ (choked => choked')
      /\ n < Len(e) => closed' # {} \/ choked'
  <2>1. /\ log \in [Cell -> Seq(Event)] /\ status \in Statuses /\ closed \in SUBSET Cell
    BY <1>0 DEF CellTypes
  <2>2. "cell" \in By
    BY DEF By
  <2>3. Publish(cur, "cell", e, n)
    BY <1>a
  <2>4. cur \in Cell
    BY <1>a, <1>b, <1>e
  <2>5. e \in Seq(Event)
    BY <1>e
  <2> HIDE DEF e
  <2> QED
    BY <2>5, <2>1, <2>2, <2>3, <2>4, Published DEF Then
<1>d. WellFormed(log'[cur]) /\ (HasReply(log[cur]) => HasReply(log'[cur]))
  <2>1. OneReply(log[cur]) /\ n \in 0 .. 1
    BY <1>b, <1>e, <1>p DEF WellFormed
  <2> QED
    BY <1>b, <1>p, <2>1, IdleLog
<1>f. n = 0 => closed' # {} \/ choked'
  BY <1>e, <1>p
<1> HIDE DEF e
<1>1. CellTypes'
  BY <1>0, <1>a, <1>c, <1>p DEF CellTypes, Place
<1>3. Queues'
  BY <1>0, <1>a, <1>b, <1>c DEF Queues
<1>4. Places'
  BY <1>0, <1>a, <1>b, <1>c
     DEF Places, AbortsOnlyEarlier, Executing, Resting, Closing, Emptied, Running
<1>5. ASSUME NEW d \in Cell PROVE Got(d)'
  <2>1. Got(d)
    BY <1>0
  <2>2. CASE d = cur
    BY <1>0, <1>a, <1>b, <1>c, <1>d, <2>2 DEF Got, Queues, Open, WellFormed
  <2>3. CASE d # cur
    BY <1>a, <1>b, <1>c, <1>p, <2>1, <2>3 DEF Got, Dead
  <2> QED
    BY <2>2, <2>3
<1>6. Answering'
  <2> SUFFICES ASSUME closed' = {}, ~choked'
               PROVE  /\ \A c \in Range(admitted)' : Accounted(c)'
                      /\ pc' \in Replied => HasReply(log'[cur'])
    BY DEF Answering
  <2>1. closed = {} /\ ~choked /\ pc' = "abort" /\ aborted' = aborted
    BY <1>a, <1>f, <1>p
  <2>2. HasReply(log'[cur])
    BY <1>0, <1>a, <1>d, <2>1 DEF Answering, Replied
  <2>3. ASSUME NEW c \in Range(admitted)' PROVE Accounted(c)'
    <3>1. Accounted(c) /\ c \in Cell
      BY <1>0, <1>a, <2>1, <2>3 DEF Answering, Queues, Sent
    <3>2. CASE c = cur
      BY <1>a, <2>2, <3>2 DEF Accounted
    <3>3. CASE c # cur
      BY <1>a, <1>p, <2>1, <3>1, <3>3 DEF Accounted
    <3> QED
      BY <3>2, <3>3
  <2> QED
    BY <1>a, <2>2, <2>3
<1> QED
  BY <1>1, <1>3, <1>4, <1>5, <1>6 DEF CellInv

\* fail_pending, one job.
LEMMA FailOneCells ==
    ASSUME CellInv, NEW n \in Events, SettleAbort(n) \/ FailPending(n) PROVE CellInv'
<1>0. CellTypes /\ Queues /\ Places /\ (\A d \in Cell : Got(d)) /\ Answering
  BY DEF CellInv
<1> DEFINE c == Head(aborted)
           e == RefusalEvents(c, option[c])
<1>a. /\ aborted # << >> /\ Publish(c, "refusal", e, n)
      /\ \/ n < Len(e) /\ aborted' = << >>
         \/ ~(n < Len(e)) /\ aborted' = Tail(aborted) /\ pc' = pc
      /\ \/ pc = "abort" /\ pc' \in {"abort", "drain", "lost"}
         \/ pc = "fail" /\ pc' = "fail"
      /\ UNCHANGED <<option, pending, cur, admitted, before, idle, grace, failure, retiring>>
  BY DEF SettleAbort, FailPending, FailOne, Err, frontVars, appVars, loopVars, linkVars, workVars,
     histVars
<1>e. e \in Seq(Event)
  BY RefusalEventsAre
<1>b. /\ c \in Cell /\ c \in Range(aborted) /\ Tail(aborted) \in Seq(Cell)
      /\ Range(Tail(aborted)) = Range(aborted) \ {c} /\ Injective(Tail(aborted))
  BY <1>0, <1>a, Shorter DEF CellTypes, Queues
<1>c. /\ Range(<< >>) = {} /\ Injective(<< >>) /\ << >> \in Seq(Cell)
  BY EmptyQueue
<1>g. c \in Sent /\ Sent' = Sent /\ c # cur /\ c \notin Range(pending) /\ log[c] = << >>
  BY <1>0, <1>a, <1>b DEF Queues, Sent, Got
<1> HIDE DEF c
<1>p. /\ n \in 0 .. Len(e)
      /\ log' \in [Cell -> Seq(Event)] /\ \A d \in Cell \ {c} : log'[d] = log[d]
      /\ log'[c] = Then(log[c], e, n)
      /\ status' \in Statuses /\ (status' = status \/ status'.by = "refusal")
      /\ (\E k \in 1 .. n : e[k] \in {"busy", "idle"}) => status'.by = "refusal"
      /\ closed' \in SUBSET Cell /\ closed \subseteq closed' /\ (choked => choked')
      /\ n < Len(e) => closed' # {} \/ choked'
  <2>1. /\ log \in [Cell -> Seq(Event)] /\ status \in Statuses /\ closed \in SUBSET Cell
    BY <1>0 DEF CellTypes
  <2>2. "refusal" \in By
    BY DEF By
  <2>3. Publish(c, "refusal", e, n)
    BY <1>a
  <2>4. c \in Cell
    BY <1>a, <1>b, <1>e
  <2>5. e \in Seq(Event)
    BY <1>e
  <2> HIDE DEF e
  <2> QED
    BY <2>5, <2>1, <2>2, <2>3, <2>4, Published DEF Then
<1>d. WellFormed(log'[c]) /\ (c \notin closed /\ n = Len(e) => HasReply(log'[c]))
  BY <1>g, <1>p, RefusalLog
<1> HIDE DEF e
<1>h. /\ aborted' \in Seq(Cell) /\ Injective(aborted')
      /\ Range(aborted') \subseteq Range(aborted) /\ c \notin Range(aborted')
      /\ ~(n < Len(e)) => Range(aborted') = Range(aborted) \ {c}
  BY <1>a, <1>b, <1>c
<1>1. CellTypes'
  BY <1>0, <1>a, <1>h, <1>p DEF CellTypes, Place
<1>3. Queues'
  BY <1>0, <1>a, <1>g, <1>h DEF Queues
<1>4. Places'
  BY <1>0, <1>a, <1>h
     DEF Places, AbortsOnlyEarlier, Executing, Resting, Closing, Emptied, Running
<1>5. ASSUME NEW d \in Cell PROVE Got(d)'
  <2>1. Got(d)
    BY <1>0
  <2>2. CASE d = c
    BY <1>a, <1>d, <1>g, <1>h, <2>2 DEF Got, WellFormed
  <2>3. CASE d # c
    BY <1>a, <1>g, <1>h, <1>p, <2>1, <2>3 DEF Got, Dead, Open
  <2> QED
    BY <2>2, <2>3
<1>6. Answering'
  <2> SUFFICES ASSUME closed' = {}, ~choked'
               PROVE  /\ \A d \in Range(admitted)' : Accounted(d)'
                      /\ pc' \in Replied => HasReply(log'[cur'])
    BY DEF Answering
  <2>1. closed = {} /\ ~choked /\ n = Len(e) /\ pc' = pc
    BY <1>a, <1>e, <1>p
  <2>2. HasReply(log'[c])
    BY <1>d, <2>1
  <2>3. ASSUME NEW d \in Range(admitted)' PROVE Accounted(d)'
    <3>1. Accounted(d) /\ d \in Cell
      BY <1>0, <1>a, <2>1, <2>3 DEF Answering, Queues, Sent
    <3>2. CASE d = c
      BY <2>2, <3>2 DEF Accounted
    <3>3. CASE d # c
      <4>1. Range(aborted') = Range(aborted) \ {c}
        BY <1>e, <1>h, <2>1
      <4> QED
        BY <1>a, <1>p, <2>1, <3>1, <3>3, <4>1 DEF Accounted
    <3> QED
      BY <3>2, <3>3
  <2>4. pc' \in Replied => HasReply(log'[cur'])
    <3>1. pc \in Replied => cur \in Cell
      BY <1>0 DEF Places, Executing, Replied
    <3> QED
      BY <1>0, <1>a, <1>g, <1>p, <2>1, <3>1 DEF Answering
  <2> QED
    BY <2>3, <2>4
<1> QED
  BY <1>1, <1>3, <1>4, <1>5, <1>6 DEF CellInv

----------------------------------------------------------------------------
(* What every step keeps of the cells *)

\* It holds at the start.
LEMMA CellStarts ==
    ASSUME Init PROVE CellInv
<1>1. CellTypes
  BY EmptyQueue DEF Init, CellTypes, Statuses, Place
<1>2. /\ Range(pending) = {} /\ Range(aborted) = {} /\ Range(admitted) = {}
      /\ Injective(pending) /\ Injective(aborted)
  BY EmptyQueue DEF Init
<1>3. Queues
  BY <1>2, KernelAssumption DEF Init, Queues
<1>4. Places
  BY <1>2 DEF Init, Places, AbortsOnlyEarlier, Executing, Resting, Closing, Emptied, Running
<1>5. ASSUME NEW c \in Cell PROVE Got(c)
  <2>1. log[c] = << >> /\ pc = "top"
    BY DEF Init
  <2>2. BusyFirst(log[c]) /\ WellFormed(log[c])
    BY <2>1, Nothing DEF WellFormed
  <2> QED
    BY <2>1, <2>2 DEF Got, Open, Dead
<1>6. Answering
  BY <1>2 DEF Init, Answering, Replied
<1> QED
  BY <1>1, <1>3, <1>4, <1>5, <1>6 DEF CellInv

\* Every step keeps it.
LEMMA CellStep ==
    ASSUME CellInv, [Next]_vars PROVE CellInv'
<1>1. CASE Elsewhere
  BY <1>1, ElsewhereMoves, MovesHolds
<1>2. CASE Pop \/ SettleTake \/ Collect \/ Finish
  BY <1>2, PopCells, SettleTakeCells, CollectCells, FinishCells
<1>3. CASE \E c \in Cell, o \in Option : Admit(c, o) \/ \E n \in Events : Refuse(c, o, n)
  BY <1>3, AdmitCells, RefuseCells
<1>4. CASE \/ \E c \in Cell : Disconnect(c)
           \/ \E state \in {"busy", "idle"} : ShellInfo(state) \/ ControlInfo(state)
  BY <1>4, AsideCells
<1>5. CASE \E n \in Events : Begin(n) \/ SettleReply(n) \/ SettleIdle(n)
  BY <1>5, BeginCells, SettleReplyCells, SettleIdleCells
<1>6. CASE \E n \in Events : SettleAbort(n) \/ FailPending(n)
  BY <1>6, FailOneCells
<1>7. CASE \E shown, delivered \in BOOLEAN : ReportLost(shown, delivered)
  BY <1>7, ReportLostCells
<1> QED
  BY <1>1, <1>2, <1>3, <1>4, <1>5, <1>6, <1>7 DEF Next, Handler, MainLoop, Elsewhere

\* When the kernel has exited, both queues are empty.
LEMMA AdmittedCells ==
    ASSUME CellInv PROVE AdmittedAnswered
<1>1. CellTypes /\ Queues /\ Places /\ Answering
  BY DEF CellInv
<1> SUFFICES ASSUME pc = "exit", closed = {}, ~choked, NEW c \in Range(admitted)
             PROVE  Answered(c) \/ (grace /\ c = cur)
  BY DEF AdmittedAnswered
<1>2. Range(pending) = {} /\ Range(aborted) = {}
  BY <1>1, EmptyQueue DEF Places, Emptied
<1>3. HasReply(log[c]) \/ (grace /\ c = cur)
  BY <1>1, <1>2 DEF Answering, Accounted, Unreplied
<1>4. c \in Cell /\ log[c] \in Seq(Event)
  BY <1>1 DEF Queues, Sent, CellTypes
<1> QED
  BY <1>3, <1>4, InRange DEF Answered, HasReply

\* run() after its loop: every admitted request has its reply when the kernel exits, unless one
\* was refused; only the job that a shutdown abandons has none.
THEOREM EveryRequestIsAnswered == Spec => []AdmittedAnswered
<1>1. Init => CellInv
  BY CellStarts
<1>2. CellInv /\ [Next]_vars => CellInv'
  BY CellStep
<1>3. CellInv => AdmittedAnswered
  BY AdmittedCells
<1> QED
  BY <1>1, <1>2, <1>3, PTL DEF Spec

----------------------------------------------------------------------------
(* The order of the cells *)

\* How many left the queue.
Gone == Len(admitted) - Len(pending)

\* Everything the worker armed was admitted among the first n.
RanWithin(n) == \A i \in 1 .. Len(ran) : \E k \in 1 .. n : admitted[k] = ran[i]

Ordered(c, d) ==
    \E k, l \in 1 .. Len(admitted) : k < l /\ admitted[k] = c /\ admitted[l] = d

InOrder == \A i, j \in 1 .. Len(ran) : i < j => Ordered(ran[i], ran[j])

\* A job that the worker may still arm.
Due == pc \in {"begin", "send"} \/ worker = "got"

\* The queue is the end of what was admitted, what ran comes before it, and a job that may still
\* be armed comes after what ran.
OrderTypes ==
    /\ pending \in Seq(Cell) /\ admitted \in Seq(Cell) /\ ran \in Seq(Cell)
    /\ Len(pending) <= Len(admitted)

OrderInv ==
    /\ OrderTypes
    /\ \A i \in 1 .. Len(pending) : pending[i] = admitted[Gone + i]
    /\ RanWithin(Gone)
    /\ InOrder
    /\ Due => \E l \in 1 .. Gone : admitted[l] = cur /\ RanWithin(l - 1)

\* It holds at the start.
LEMMA OrderStarts ==
    ASSUME Init PROVE OrderInv
  BY EmptyQueue DEF Init, OrderInv, OrderTypes, RanWithin, InOrder, Due, Gone

\* Steps that neither admit, take nor arm a cell.
LEMMA OrderFrame ==
    ASSUME OrderInv, UNCHANGED <<pending, admitted, ran>>, Due' => Due /\ cur' = cur
    PROVE  OrderInv'
<1>1. OrderTypes' /\ Gone' = Gone /\ \A n : RanWithin(n)' <=> RanWithin(n)
  BY DEF OrderInv, OrderTypes, Gone, RanWithin
<1>2. InOrder'
  <2>1. \A c, d : Ordered(c, d)' <=> Ordered(c, d)
    BY DEF Ordered
  <2> QED
    BY <2>1 DEF OrderInv, InOrder
<1> QED
  BY <1>1, <1>2 DEF OrderInv

\* App::pop: the first of the queue follows everything that ran.
LEMMA PopOrder ==
    ASSUME OrderInv, Pop PROVE OrderInv'
<1>a. /\ pending # << >> /\ cur' = Head(pending) /\ pending' = Tail(pending)
      /\ UNCHANGED <<admitted, ran>>
  BY DEF Pop, frontVars, appVars, loopVars, linkVars, workVars, histVars
<1>b. OrderTypes /\ RanWithin(Gone) /\ InOrder
  BY DEF OrderInv
<1>c. /\ pending' \in Seq(Cell) /\ Len(pending) \in Nat /\ Len(pending) >= 1
      /\ Len(pending') = Len(pending) - 1
      /\ \A i \in 1 .. Len(pending') : pending'[i] = pending[i + 1] /\ i + 1 \in 1 .. Len(pending)
      /\ cur' = pending[1] /\ Len(admitted) \in Nat /\ Len(ran) \in Nat
  BY <1>a, <1>b DEF OrderTypes
<1>d. Gone' = Gone + 1 /\ Gone \in Nat /\ Gone' <= Len(admitted)
  BY <1>a, <1>b, <1>c DEF Gone, OrderTypes
<1>1. OrderTypes' /\ InOrder'
  <2>1. \A x, y : Ordered(x, y)' <=> Ordered(x, y)
    BY <1>a DEF Ordered
  <2> QED
    BY <1>a, <1>b, <1>c, <2>1 DEF OrderTypes, InOrder
<1>2. ASSUME NEW i \in 1 .. Len(pending') PROVE pending'[i] = admitted'[Gone' + i]
  <2>1. pending[i + 1] = admitted[Gone + (i + 1)]
    BY <1>c DEF OrderInv
  <2>2. Gone + (i + 1) = Gone' + i
    BY <1>c, <1>d
  <2> QED
    BY <1>a, <1>c, <2>1, <2>2
<1>3. RanWithin(Gone)'
  BY <1>a, <1>b, <1>d DEF RanWithin
<1>4. admitted[Gone + 1] = cur'
  BY <1>c DEF OrderInv
<1>5. Gone + 1 \in 1 .. Gone' /\ admitted'[Gone + 1] = cur' /\ (Gone + 1) - 1 = Gone
  BY <1>a, <1>d, <1>4
<1>6. \E l \in 1 .. Gone' : admitted'[l] = cur' /\ RanWithin(l - 1)'
  BY <1>a, <1>b, <1>5 DEF RanWithin
<1> QED
  BY <1>1, <1>2, <1>3, <1>6 DEF OrderInv

\* Admission: at the end of both.
LEMMA AdmitOrder ==
    ASSUME OrderInv, NEW c \in Cell, NEW o \in Option, Admit(c, o) PROVE OrderInv'
<1>a. /\ pending' = Append(pending, c) /\ admitted' = Append(admitted, c)
      /\ UNCHANGED <<ran, cur, pc, worker>>
  BY DEF Admit, frontVars, appVars, loopVars, linkVars, workVars, histVars
<1>b. OrderTypes /\ RanWithin(Gone) /\ InOrder
  BY DEF OrderInv
<1>c. /\ pending' \in Seq(Cell) /\ Len(pending') = Len(pending) + 1 /\ Len(pending) \in Nat
      /\ \A i \in 1 .. Len(pending) : pending'[i] = pending[i]
      /\ pending'[Len(pending) + 1] = c
      /\ admitted' \in Seq(Cell) /\ Len(admitted') = Len(admitted) + 1 /\ Len(admitted) \in Nat
      /\ \A i \in 1 .. Len(admitted) : admitted'[i] = admitted[i]
      /\ admitted'[Len(admitted) + 1] = c
  BY <1>a, <1>b DEF OrderTypes
<1>d. Gone' = Gone /\ Gone \in Nat /\ Gone <= Len(admitted) /\ Gone + Len(pending) = Len(admitted)
  BY <1>b, <1>c DEF Gone, OrderTypes
<1>1. OrderTypes'
  BY <1>a, <1>b, <1>c DEF OrderTypes
<1>2. ASSUME NEW i \in 1 .. Len(pending') PROVE pending'[i] = admitted'[Gone' + i]
  <2>1. CASE i \in 1 .. Len(pending)
    <3>1. pending[i] = admitted[Gone + i] /\ Gone + i \in 1 .. Len(admitted)
      BY <1>c, <1>d, <2>1 DEF OrderInv
    <3> QED
      BY <1>c, <1>d, <2>1, <3>1
  <2>2. CASE i = Len(pending) + 1
    <3>1. Gone + i = Len(admitted) + 1
      BY <1>c, <1>d, <2>2
    <3> QED
      BY <1>c, <1>d, <2>2, <3>1
  <2> QED
    BY <1>c, <2>1, <2>2
<1>3. ASSUME NEW n \in 0 .. Gone, RanWithin(n) PROVE RanWithin(n)'
  <2> SUFFICES ASSUME NEW i \in 1 .. Len(ran) PROVE \E k \in 1 .. n : admitted'[k] = ran[i]
    BY <1>a DEF RanWithin
  <2>1. PICK k \in 1 .. n : admitted[k] = ran[i]
    BY <1>3 DEF RanWithin
  <2>2. k \in 1 .. Len(admitted)
    BY <1>c, <1>d
  <2> QED
    BY <1>c, <2>1, <2>2
<1>4. InOrder'
  <2> SUFFICES ASSUME NEW i \in 1 .. Len(ran), NEW j \in 1 .. Len(ran), i < j
               PROVE  Ordered(ran[i], ran[j])'
    BY <1>a DEF InOrder
  <2>1. PICK k \in 1 .. Len(admitted), l \in 1 .. Len(admitted) :
               k < l /\ admitted[k] = ran[i] /\ admitted[l] = ran[j]
    BY <1>b DEF InOrder, Ordered
  <2>2. k \in 1 .. Len(admitted') /\ l \in 1 .. Len(admitted')
    BY <1>c
  <2> QED
    BY <1>a, <1>c, <2>1, <2>2 DEF Ordered
<1>5. ASSUME Due' PROVE \E l \in 1 .. Gone' : admitted'[l] = cur' /\ RanWithin(l - 1)'
  <2>1. Due
    BY <1>a, <1>5 DEF Due
  <2>2. PICK l \in 1 .. Gone : admitted[l] = cur /\ RanWithin(l - 1)
    BY <2>1 DEF OrderInv
  <2>3. l \in 1 .. Len(admitted) /\ l - 1 \in 0 .. Gone
    BY <1>c, <1>d
  <2> QED
    BY <1>a, <1>c, <1>d, <1>3, <2>2, <2>3
<1>6. RanWithin(Gone)'
  BY <1>b, <1>d, <1>3
<1> QED
  BY <1>1, <1>2, <1>4, <1>5, <1>6 DEF OrderInv

\* The queue is taken, and nothing can be armed until the next job.
LEMMA TakenOrder ==
    ASSUME OrderInv, pending' = pending \/ pending' = << >>, UNCHANGED <<admitted, ran>>,
           Due' => Due /\ cur' = cur
    PROVE  OrderInv'
<1>1. CASE pending' = pending
  BY <1>1, OrderFrame
<1>2. CASE pending' = << >>
  <2>a. OrderTypes /\ RanWithin(Gone) /\ InOrder
    BY DEF OrderInv
  <2>b. /\ pending' \in Seq(Cell) /\ Len(pending') = 0 /\ Len(pending) \in Nat
        /\ Len(admitted) \in Nat
    BY <1>2, <2>a DEF OrderTypes
  <2>c. Gone' = Len(admitted) /\ Gone <= Gone' /\ Gone \in Nat /\ Gone' \in Nat
    BY <2>a, <2>b DEF Gone, OrderTypes
  <2>1. OrderTypes' /\ InOrder'
    <3>1. \A x, y : Ordered(x, y)' <=> Ordered(x, y)
      BY DEF Ordered
    <3> QED
      BY <2>a, <2>b, <3>1 DEF OrderTypes, InOrder
  <2>2. \A n \in Nat : RanWithin(n) => RanWithin(n)'
    BY DEF RanWithin
  <2>3. RanWithin(Gone)'
    BY <2>a, <2>c DEF RanWithin
  <2>4. ASSUME Due' PROVE \E l \in 1 .. Gone' : admitted'[l] = cur' /\ RanWithin(l - 1)'
    <3>1. PICK l \in 1 .. Gone : admitted[l] = cur /\ RanWithin(l - 1)
      BY <2>4 DEF OrderInv
    <3>2. l \in 1 .. Gone' /\ l - 1 \in Nat
      BY <2>c
    <3> QED
      BY <2>2, <2>4, <3>1, <3>2
  <2> QED
    BY <2>1, <2>3, <2>4, <2>b DEF OrderInv
<1> QED
  BY <1>1, <1>2

\* The worker arms the job, which comes after what it armed before.
LEMMA WorkerArmOrder ==
    ASSUME OrderInv, InterruptInv, WorkerArm PROVE OrderInv'
<1>a. /\ worker = "got" /\ worker' = "run" /\ ran' = Append(ran, cur)
      /\ UNCHANGED <<pending, admitted, cur, pc>>
  BY DEF WorkerArm, frontVars, appVars, loopVars, linkVars, workVars, histVars
<1>b. OrderTypes /\ RanWithin(Gone) /\ InOrder /\ Gone' = Gone
  BY <1>a DEF OrderInv, Gone
<1>c. PICK l \in 1 .. Gone : admitted[l] = cur /\ RanWithin(l - 1)
  BY <1>a DEF OrderInv, Due
<1>d. /\ Len(pending) \in Nat /\ Len(admitted) \in Nat /\ Len(ran) \in Nat /\ Gone \in Nat
      /\ Gone <= Len(admitted) /\ l \in 1 .. Len(admitted) /\ cur \in Cell
  BY <1>b, <1>c DEF OrderTypes, Gone
<1>e. /\ ran' \in Seq(Cell) /\ Len(ran') = Len(ran) + 1 /\ ran'[Len(ran) + 1] = cur
      /\ \A i \in 1 .. Len(ran) : ran'[i] = ran[i]
  BY <1>a, <1>b, <1>d DEF OrderTypes
<1>1. OrderTypes'
  BY <1>a, <1>b, <1>e DEF OrderTypes
<1>2. RanWithin(Gone)'
  <2> SUFFICES ASSUME NEW i \in 1 .. Len(ran') PROVE \E k \in 1 .. Gone : admitted[k] = ran'[i]
    BY <1>a, <1>b DEF RanWithin
  <2>1. CASE i \in 1 .. Len(ran)
    BY <1>b, <1>e, <2>1 DEF RanWithin
  <2>2. CASE i = Len(ran) + 1
    BY <1>c, <1>e, <2>2
  <2> QED
    BY <1>d, <1>e, <2>1, <2>2
<1>3. InOrder'
  <2> SUFFICES ASSUME NEW i \in 1 .. Len(ran'), NEW j \in 1 .. Len(ran'), i < j
               PROVE  Ordered(ran'[i], ran'[j])
    <3>1. \A c, d : Ordered(c, d)' <=> Ordered(c, d)
      BY <1>a DEF Ordered
    <3> QED
      BY <3>1 DEF InOrder
  <2>1. i \in 1 .. Len(ran) /\ ran'[i] = ran[i]
    BY <1>d, <1>e
  <2>2. CASE j \in 1 .. Len(ran)
    BY <1>b, <1>e, <2>1, <2>2 DEF InOrder
  <2>3. CASE j = Len(ran) + 1
    <3>1. PICK k \in 1 .. (l - 1) : admitted[k] = ran[i]
      BY <1>c, <2>1 DEF RanWithin
    <3>2. k \in 1 .. Len(admitted) /\ k < l
      BY <1>d
    <3> QED
      BY <1>c, <1>d, <1>e, <2>1, <2>3, <3>1, <3>2 DEF Ordered
  <2> QED
    BY <1>d, <1>e, <2>2, <2>3
<1>4. ~Due'
  BY <1>a DEF Due, InterruptInv, Frames, Still
<1> QED
  BY <1>a, <1>b, <1>1, <1>2, <1>3, <1>4 DEF OrderInv

\* The steps interrupts do not see are among them.
LEMMA UnseenOrder ==
    ASSUME pc \in Place, Unseen
    PROVE  UNCHANGED <<pending, admitted, ran, cur>> /\ (Due' => Due)
<1> USE DEF Place, Due, Err, frontVars, appVars, loopVars, linkVars, workVars, histVars
<1>1. CASE Top \/ Sleep \/ Wake \/ SendRefused \/ OperationFails \/ StreamRefused \/ SettleDone
  BY <1>1 DEF Top, Sleep, Wake, SendRefused, OperationFails, StreamRefused, SettleDone
<1>2. CASE AcknowledgeFails \/ GraceExpires \/ Drain \/ FailDone \/ Exit \/ Exited
  BY <1>2 DEF AcknowledgeFails, GraceExpires, Drain, FailDone, Exit, Exited, vars
<1>3. CASE ReadersFail \/ ShutdownRequest \/ UNCHANGED vars
  BY <1>3 DEF ReadersFail, ShutdownRequest, vars
<1>4. CASE \E n \in Events : Begin(n) \/ SettleReply(n) \/ SettleIdle(n)
  BY <1>4 DEF Begin, SettleReply, SettleIdle
<1>5. CASE \E n \in Events : SettleAbort(n) \/ FailPending(n)
  BY <1>5 DEF SettleAbort, FailPending, FailOne
<1>6. CASE \E c \in Cell, o \in Option, n \in Events : Refuse(c, o, n)
  BY <1>6 DEF Refuse
<1>7. CASE \E c \in Cell : Disconnect(c)
  BY <1>7 DEF Disconnect
<1>8. CASE \E state \in {"busy", "idle"} : ShellInfo(state) \/ ControlInfo(state)
  BY <1>8 DEF ShellInfo, ControlInfo
<1>9. CASE \E shown, delivered \in BOOLEAN : ReportLost(shown, delivered)
  BY <1>9 DEF ReportLost
<1> QED
  BY <1>1, <1>2, <1>3, <1>4, <1>5, <1>6, <1>7, <1>8, <1>9 DEF Unseen

\* Every step keeps the order.
LEMMA OrderStep ==
    ASSUME OrderInv, InterruptInv, [Next]_vars PROVE OrderInv'
<1>0. (pc \in Still => worker # "got") /\ pc \in Place
  BY DEF InterruptInv, Frames, SignalTypes
<1> DEFINE Goal == /\ UNCHANGED <<admitted, ran>> /\ (pending' = pending \/ pending' = << >>)
                   /\ Due' => Due /\ cur' = cur
<1>1. CASE Pop \/ WorkerArm \/ \E c \in Cell, o \in Option : Admit(c, o)
  BY <1>1, PopOrder, WorkerArmOrder, AdmitOrder
<1>2. ASSUME Unseen PROVE Goal
  BY <1>0, <1>2, UnseenOrder
<1>3. ASSUME Send \/ ReceiveArmed \/ ReceiveSettled \/ Acknowledge \/ Finish PROVE Goal
  BY <1>0, <1>3 DEF Send, ReceiveArmed, ReceiveSettled, Acknowledge, Finish, Due, Still, Err,
     frontVars, appVars, loopVars, linkVars, workVars, histVars
<1>4. ASSUME SettleTake \/ Collect PROVE Goal
  BY <1>0, <1>4 DEF SettleTake, Collect, Due, Still, frontVars, appVars, loopVars, linkVars,
     workVars, histVars
<1>5. ASSUME NoticeStop \/ ShutdownWorker \/ Terminate \/ InterruptRequest PROVE Goal
  BY <1>5 DEF NoticeStop, ShutdownWorker, Terminate, InterruptRequest, Due, frontVars, appVars,
     loopVars, linkVars, workVars, histVars
<1>6. ASSUME WorkerRefuse \/ (\E r \in Reply : WorkerSettle(r)) \/ WorkerDies PROVE Goal
  BY <1>6 DEF WorkerRefuse, WorkerSettle, WorkerDies, Due, frontVars, appVars, loopVars, linkVars,
     workVars, histVars
<1>7. CASE Goal
  BY <1>7, TakenOrder
<1> HIDE DEF Goal
<1> QED
  BY <1>1, <1>2, <1>3, <1>4, <1>5, <1>6, <1>7 DEF Next, Handler, MainLoop, Unseen, Evaluation

\* A set whose elements are all the same has at most one.
LEMMA AtMostOne ==
    ASSUME NEW S, \A x, y \in S : x = y PROVE Cardinality(S) <= 1
<1>1. CASE S = {}
  BY <1>1, FS_EmptySet
<1>2. CASE S # {}
  <2>1. PICK x \in S : S = {x}
    BY <1>2
  <2> QED
    BY <2>1, FS_Singleton
<1> QED
  BY <1>1, <1>2

\* QueueSound follows.
LEMMA OrderedCells ==
    ASSUME CellInv, OrderInv PROVE QueueSound
<1>1. AbortsOnlyEarlier
  BY DEF CellInv, Places
<1>2. \A i, j \in DOMAIN ran : i < j =>
          \E k, l \in DOMAIN admitted : k < l /\ admitted[k] = ran[i] /\ admitted[l] = ran[j]
  <2>1. DOMAIN ran = 1 .. Len(ran) /\ DOMAIN admitted = 1 .. Len(admitted)
    BY DEF OrderInv, OrderTypes
  <2> SUFFICES ASSUME NEW i \in 1 .. Len(ran), NEW j \in 1 .. Len(ran), i < j
               PROVE  \E k, l \in 1 .. Len(admitted) :
                         k < l /\ admitted[k] = ran[i] /\ admitted[l] = ran[j]
    BY <2>1
  <2>2. Ordered(ran[i], ran[j])
    BY DEF OrderInv, InOrder
  <2> QED
    BY <2>2 DEF Ordered
<1>3. ASSUME NEW c \in Cell
      PROVE  Cardinality({i \in DOMAIN log[c] : log[c][i] = "busy"}) <= 1
  <2>1. DOMAIN log[c] = 1 .. Len(log[c]) /\ BusyFirst(log[c])
    BY DEF CellInv, CellTypes, Got
  <2>2. \A x, y \in {i \in DOMAIN log[c] : log[c][i] = "busy"} : x = y
    BY <2>1 DEF BusyFirst
  <2> QED
    BY <2>2, AtMostOne
<1> QED
  BY <1>1, <1>2, <1>3 DEF QueueSound, RunsInOrder

\* App::pop and App::settle: cells run in the order of their admission, each once, and a failure
\* aborts only what was sent before it was answered.
THEOREM QueueIsServedInOrder == Spec => []QueueSound
<1>1. Init => CellInv /\ OrderInv /\ InterruptInv
  BY CellStarts, OrderStarts, InterruptStarts
<1>2. CellInv /\ OrderInv /\ InterruptInv /\ [Next]_vars => (CellInv /\ OrderInv /\ InterruptInv)'
  BY CellStep, OrderStep, InterruptStep
<1>3. CellInv /\ OrderInv => QueueSound
  BY OrderedCells
<1> QED
  BY <1>1, <1>2, <1>3, PTL DEF Spec

----------------------------------------------------------------------------
(* The remaining types *)

Flags ==
    /\ permit \in BOOLEAN /\ retiring \in BOOLEAN /\ stop \in BOOLEAN /\ idle \in BOOLEAN
    /\ grace \in BOOLEAN /\ failure \in BOOLEAN /\ boundary \in BOOLEAN /\ error \in BOOLEAN
    /\ choked \in BOOLEAN

Counts == count \in Nat /\ reply \in Reply /\ Len(pending) <= QueueCap

\* An interrupt has a job to be meant for.
Targets == target \in SUBSET Cell /\ (interrupt.active => cur \in Cell)

\* They hold at the start.
LEMMA TypesStart ==
    ASSUME Init PROVE Flags /\ Counts /\ Targets
<1>1. Flags
  BY DEF Init, Flags
<1>2. Counts
  BY KernelAssumption DEF Init, Counts, Reply, NoReply
<1>3. Targets
  BY DEF Init, Targets
<1> QED
  BY <1>1, <1>2, <1>3

\* Every step keeps the flags Boolean.
LEMMA FlagsStep ==
    ASSUME Flags, [Next]_vars PROVE Flags'
<1> USE DEF Flags, frontVars, appVars, loopVars, linkVars, workVars, histVars
<1>1. CASE Top \/ Sleep \/ Wake
  <2>1. CASE Top
    BY <2>1 DEF Top
  <2>2. CASE Sleep
    BY <2>2 DEF Sleep
  <2>3. CASE Wake
    BY <2>3 DEF Wake
  <2> QED
    BY <1>1, <2>1, <2>2, <2>3
<1>2. CASE Pop
  BY <1>2 DEF Pop
<1>3. CASE Send \/ SendRefused
  BY <1>3 DEF Send, SendRefused
<1>4. CASE ReceiveArmed
  BY <1>4 DEF ReceiveArmed
<1>5. CASE ReceiveSettled
  BY <1>5 DEF ReceiveSettled
<1>6. CASE OperationFails \/ StreamRefused
  BY <1>6 DEF OperationFails, StreamRefused
<1>7. CASE SettleTake \/ SettleDone
  BY <1>7 DEF SettleTake, SettleDone
<1>8. CASE Acknowledge \/ AcknowledgeFails
  BY <1>8 DEF Acknowledge, AcknowledgeFails
<1>9. CASE Finish
  BY <1>9 DEF Finish
<1>10. CASE NoticeStop \/ GraceExpires
  BY <1>10 DEF NoticeStop, GraceExpires
<1>11. CASE Drain \/ ShutdownWorker
  BY <1>11 DEF Drain, ShutdownWorker
<1>12. CASE Terminate \/ Collect
  BY <1>12 DEF Terminate, Collect
<1>13. CASE FailDone \/ Exit \/ Exited \/ UNCHANGED vars
  BY <1>13 DEF FailDone, Exit, Exited, vars
<1>14. CASE \E n \in Events : Begin(n)
  BY <1>14 DEF Begin, Publish
<1>15. CASE \E n \in Events : SettleReply(n)
  BY <1>15 DEF SettleReply, Publish
<1>16. CASE \E n \in Events : SettleIdle(n)
  BY <1>16 DEF SettleIdle, Publish
<1>17. CASE \E n \in Events : SettleAbort(n) \/ FailPending(n)
  BY <1>17 DEF SettleAbort, FailPending, FailOne, Publish
<1>18. CASE \E shown, delivered \in BOOLEAN : ReportLost(shown, delivered)
  BY <1>18 DEF ReportLost
<1>19. CASE \E c \in Cell, o \in Option : Admit(c, o)
  BY <1>19 DEF Admit
<1>20. CASE \E c \in Cell, o \in Option, n \in Events : Refuse(c, o, n)
  BY <1>20 DEF Refuse, Publish
<1>21. CASE \E c \in Cell : Disconnect(c)
  BY <1>21 DEF Disconnect
<1>22. CASE InterruptRequest
  BY <1>22 DEF InterruptRequest
<1>23. CASE ShutdownRequest
  BY <1>23 DEF ShutdownRequest
<1>24. CASE \E state \in {"busy", "idle"} : ShellInfo(state) \/ ControlInfo(state)
  BY <1>24 DEF ShellInfo, ControlInfo
<1>25. CASE Evaluation
  <2>1. UNCHANGED <<permit, retiring, stop, idle, grace, failure, boundary, error, choked>>
    BY <1>25 DEF Evaluation, WorkerArm, WorkerRefuse, WorkerSettle
  <2> QED
    BY <2>1
<1>26. CASE WorkerDies \/ ReadersFail
  BY <1>26 DEF WorkerDies, ReadersFail
<1> QED
  BY <1>1, <1>2, <1>3, <1>4, <1>5, <1>6, <1>7, <1>8, <1>9, <1>10, <1>11, <1>12, <1>13, <1>14,
     <1>15, <1>16, <1>17, <1>18, <1>19, <1>20, <1>21, <1>22, <1>23, <1>24, <1>25, <1>26
     DEF Next, Handler, MainLoop

\* Every step keeps the count, the settlement and the bound of the queue.
LEMMA CountsStep ==
    ASSUME Counts, CellTypes, Frames, [Next]_vars PROVE Counts'
<1>0. pending \in Seq(Cell) /\ wire \in Seq(Frame) /\ QueueCap \in Nat /\ QueueCap > 0
  BY KernelAssumption DEF CellTypes, Frames
<1> USE DEF Counts, frontVars, appVars, loopVars, linkVars, workVars, histVars
<1>1. CASE Top \/ Sleep \/ Wake
  BY <1>1 DEF Top, Sleep, Wake
<1>2. CASE Pop
  <2>1. UNCHANGED <<count, reply>> /\ pending' = Tail(pending) /\ pending # << >>
    BY <1>2 DEF Pop
  <2>2. Len(pending') = Len(pending) - 1 /\ Len(pending) \in Nat
    BY <1>0, <2>1
  <2> QED
    BY <1>0, <2>1, <2>2
<1>3. CASE Send \/ SendRefused
  BY <1>3 DEF Send, SendRefused
<1>4. CASE ReceiveArmed
  BY <1>4 DEF ReceiveArmed
<1>5. CASE ReceiveSettled
  <2>1. /\ UNCHANGED <<count, pending>> /\ reply' = Head(wire).reply
        /\ wire # << >> /\ Head(wire).type = "settled"
    BY <1>5 DEF ReceiveSettled
  <2>2. Head(wire) \in Frame
    BY <1>0, <2>1
  <2>3. Head(wire).reply \in Reply
    BY <2>1, <2>2 DEF Frame
  <2> QED
    BY <2>1, <2>3
<1>6. CASE OperationFails \/ StreamRefused
  BY <1>6 DEF OperationFails, StreamRefused
<1>7. CASE SettleTake \/ SettleDone
  <2>1. UNCHANGED <<count, reply>> /\ (pending' = pending \/ pending' = << >>)
    BY <1>7 DEF SettleTake, SettleDone
  <2>2. Len(<< >>) = 0
    OBVIOUS
  <2> QED
    BY <1>0, <2>1, <2>2
<1>8. CASE Acknowledge \/ AcknowledgeFails
  BY <1>8 DEF Acknowledge, AcknowledgeFails
<1>9. CASE Finish
  BY <1>9 DEF Finish
<1>10. CASE NoticeStop \/ GraceExpires
  BY <1>10 DEF NoticeStop, GraceExpires
<1>11. CASE Drain \/ ShutdownWorker
  BY <1>11 DEF Drain, ShutdownWorker
<1>12. CASE Terminate \/ Collect
  <2>1. UNCHANGED <<count, reply>> /\ (pending' = pending \/ pending' = << >>)
    BY <1>12 DEF Terminate, Collect
  <2>2. Len(<< >>) = 0
    OBVIOUS
  <2> QED
    BY <1>0, <2>1, <2>2
<1>13. CASE FailDone \/ Exit \/ Exited \/ UNCHANGED vars
  BY <1>13 DEF FailDone, Exit, Exited, vars
<1>14. CASE \E n \in Events : Begin(n)
  <2>1. /\ pending' = pending /\ count' = count + (IF option[cur].store THEN 1 ELSE 0)
        /\ reply' = [NoReply EXCEPT !.failed = option[cur].size = "oversized"]
    BY <1>14 DEF Begin
  <2>2. [NoReply EXCEPT !.failed = option[cur].size = "oversized"] \in Reply
    BY DEF NoReply, Reply
  <2> QED
    BY <2>1, <2>2
<1>15. CASE \E n \in Events : SettleReply(n)
  BY <1>15 DEF SettleReply
<1>16. CASE \E n \in Events : SettleIdle(n)
  BY <1>16 DEF SettleIdle
<1>17. CASE \E n \in Events : SettleAbort(n) \/ FailPending(n)
  BY <1>17 DEF SettleAbort, FailPending, FailOne
<1>18. CASE \E shown, delivered \in BOOLEAN : ReportLost(shown, delivered)
  BY <1>18 DEF ReportLost
<1>19. CASE \E c \in Cell, o \in Option : Admit(c, o)
  <2>1. PICK c \in Cell : /\ UNCHANGED <<count, reply>> /\ pending' = Append(pending, c)
                          /\ Len(pending) # QueueCap
    BY <1>19 DEF Admit, Full
  <2>2. Len(pending') = Len(pending) + 1 /\ Len(pending) \in Nat
    BY <1>0, <2>1
  <2> QED
    BY <1>0, <2>1, <2>2
<1>20. CASE \E c \in Cell, o \in Option, n \in Events : Refuse(c, o, n)
  BY <1>20 DEF Refuse
<1>21. CASE \E c \in Cell : Disconnect(c)
  BY <1>21 DEF Disconnect
<1>22. CASE InterruptRequest
  BY <1>22 DEF InterruptRequest
<1>23. CASE ShutdownRequest
  BY <1>23 DEF ShutdownRequest
<1>24. CASE \E state \in {"busy", "idle"} : ShellInfo(state) \/ ControlInfo(state)
  BY <1>24 DEF ShellInfo, ControlInfo
<1>25. CASE Evaluation
  BY <1>25 DEF Evaluation, WorkerArm, WorkerRefuse, WorkerSettle
<1>26. CASE WorkerDies \/ ReadersFail
  BY <1>26 DEF WorkerDies, ReadersFail
<1> QED
  BY <1>1, <1>2, <1>3, <1>4, <1>5, <1>6, <1>7, <1>8, <1>9, <1>10, <1>11, <1>12, <1>13, <1>14,
     <1>15, <1>16, <1>17, <1>18, <1>19, <1>20, <1>21, <1>22, <1>23, <1>24, <1>25, <1>26
     DEF Next, Handler, MainLoop

\* Every step aims interrupts at cells.
LEMMA TargetsStep ==
    ASSUME Targets, CellTypes, Places, SignalTypes, [Next]_vars PROVE Targets'
<1>0. interrupt \in Signal /\ flag \in BOOLEAN /\ pending \in Seq(Cell) /\ (Executing => cur \in Cell)
  BY DEF SignalTypes, CellTypes, Places
<1> USE DEF Targets, frontVars, appVars, loopVars, linkVars, workVars, histVars
<1>1. CASE Top \/ Sleep \/ Wake
  BY <1>1 DEF Top, Sleep, Wake
<1>2. CASE Pop
  <2>1. target' = target /\ cur' = Head(pending) /\ pending # << >>
    BY <1>2 DEF Pop
  <2> QED
    BY <1>0, <2>1
<1>3. CASE Send \/ SendRefused
  BY <1>3 DEF Send, SendRefused
<1>4. CASE ReceiveArmed
  <2>1. UNCHANGED <<target, cur>> /\ Armed
    BY <1>4 DEF ReceiveArmed
  <2>2. interrupt'.active = interrupt.active
    BY <1>0, <2>1, ArmedIs
  <2> QED
    BY <2>1, <2>2
<1>5. CASE ReceiveSettled
  BY <1>5 DEF ReceiveSettled
<1>6. CASE OperationFails \/ StreamRefused
  BY <1>6 DEF OperationFails, StreamRefused
<1>7. CASE SettleTake \/ SettleDone
  BY <1>7 DEF SettleTake, SettleDone
<1>8. CASE Acknowledge \/ AcknowledgeFails
  BY <1>8 DEF Acknowledge, AcknowledgeFails
<1>9. CASE Finish
  <2>1. target' = target /\ FinishInterrupt
    BY <1>9 DEF Finish
  <2>2. ~interrupt'.active
    BY <1>0, <2>1, SignalSet DEF FinishInterrupt
  <2> QED
    BY <2>1, <2>2
<1>10. CASE NoticeStop \/ GraceExpires
  <2>1. CASE GraceExpires
    BY <2>1 DEF GraceExpires
  <2>2. CASE NoticeStop
    <3>1. cur' = cur /\ target' = target \cup {cur} /\ cur \in Cell
      BY <1>0, <2>2 DEF NoticeStop, Executing
    <3> QED
      BY <3>1
  <2> QED
    BY <1>10, <2>1, <2>2
<1>11. CASE Drain \/ ShutdownWorker
  <2>1. UNCHANGED <<target, cur>> /\ (FinishInterrupt \/ interrupt' = interrupt)
    BY <1>11 DEF Drain, ShutdownWorker
  <2>2. FinishInterrupt => ~interrupt'.active
    BY <1>0, SignalSet DEF FinishInterrupt
  <2> QED
    BY <2>1, <2>2
<1>12. CASE Terminate \/ Collect
  <2>1. UNCHANGED <<target, cur>> /\ (DisableInterrupt \/ interrupt' = interrupt)
    BY <1>12 DEF Terminate, Collect
  <2>2. DisableInterrupt => ~interrupt'.active
    BY DEF DisableInterrupt
  <2> QED
    BY <2>1, <2>2
<1>13. CASE FailDone \/ Exit \/ Exited \/ UNCHANGED vars
  BY <1>13 DEF FailDone, Exit, Exited, vars
<1>14. CASE \E n \in Events : Begin(n)
  BY <1>14 DEF Begin
<1>15. CASE \E n \in Events : SettleReply(n)
  BY <1>15 DEF SettleReply
<1>16. CASE \E n \in Events : SettleIdle(n)
  BY <1>16 DEF SettleIdle
<1>17. CASE \E n \in Events : SettleAbort(n) \/ FailPending(n)
  BY <1>17 DEF SettleAbort, FailPending, FailOne
<1>18. CASE \E shown, delivered \in BOOLEAN : ReportLost(shown, delivered)
  BY <1>18 DEF ReportLost
<1>19. CASE \E c \in Cell, o \in Option : Admit(c, o)
  BY <1>19 DEF Admit
<1>20. CASE \E c \in Cell, o \in Option, n \in Events : Refuse(c, o, n)
  BY <1>20 DEF Refuse
<1>21. CASE \E c \in Cell : Disconnect(c)
  BY <1>21 DEF Disconnect
<1>22. CASE InterruptRequest
  <2>1. /\ cur' = cur /\ Request(pending # << >>)
        /\ \/ target' = target
           \/ interrupt.active /\ target' = target \cup {cur}
           \/ pending # << >> /\ target' = target \cup {Head(pending)}
    BY <1>22 DEF InterruptRequest
  <2>2. interrupt'.active = interrupt.active
    <3>1. (pending # << >>) \in BOOLEAN
      OBVIOUS
    <3> QED
      BY <1>0, <2>1, <3>1, Requested
  <2>3. pending # << >> => Head(pending) \in Cell
    BY <1>0
  <2> QED
    BY <2>1, <2>2, <2>3
<1>23. CASE ShutdownRequest
  BY <1>23 DEF ShutdownRequest
<1>24. CASE \E state \in {"busy", "idle"} : ShellInfo(state) \/ ControlInfo(state)
  BY <1>24 DEF ShellInfo, ControlInfo
<1>25. CASE Evaluation
  BY <1>25 DEF Evaluation, WorkerArm, WorkerRefuse, WorkerSettle
<1>26. CASE WorkerDies \/ ReadersFail
  BY <1>26 DEF WorkerDies, ReadersFail
<1> QED
  BY <1>1, <1>2, <1>3, <1>4, <1>5, <1>6, <1>7, <1>8, <1>9, <1>10, <1>11, <1>12, <1>13, <1>14,
     <1>15, <1>16, <1>17, <1>18, <1>19, <1>20, <1>21, <1>22, <1>23, <1>24, <1>25, <1>26
     DEF Next, Handler, MainLoop

\* AnswersSound follows.
LEMMA SoundCells ==
    ASSUME CellInv, OrderInv, InterruptInv, Flags, Counts, Targets PROVE AnswersSound
<1>0. /\ CellTypes /\ Places /\ SignalTypes /\ wire \in Seq(Frame) /\ ran \in Seq(Cell)
      /\ \A c \in Cell : Got(c)
  BY DEF CellInv, InterruptInv, Frames, OrderInv, OrderTypes
<1>1. TypeOK
  BY <1>0 DEF TypeOK, CellTypes, Statuses, SignalTypes, Signal, WorkerAt, Flags, Counts, Targets
<1>2. InfoNeverObscures
  BY <1>0 DEF InfoNeverObscures, Places
<1>3. ASSUME NEW c \in Cell, WellFormed(log[c]) PROVE IdleLast(c) /\ AnsweredOnce(c)
  <2>1. DOMAIN log[c] = 1 .. Len(log[c])
    BY <1>0 DEF CellTypes
  <2>2. IdleLast(c)
    BY <1>3, <2>1 DEF IdleLast, WellFormed, LastIdle
  <2>3. \A x, y \in {i \in DOMAIN log[c] : log[c][i] = "reply"} : x = y
    BY <1>3, <2>1 DEF WellFormed, OneReply
  <2> QED
    BY <2>2, <2>3, AtMostOne DEF AnsweredOnce
<1>4. AnswersWellFormed
  BY <1>0, <1>3 DEF AnswersWellFormed, Got, Dead
<1> QED
  BY <1>1, <1>2, <1>4 DEF AnswersSound

\* App::settle, fail_pending, run() and kernel_info: whatever is refused, aborted or lost, a cell
\* is answered at most once, with nothing after its idle, and kernel_info never leaves an idle
\* over a cell that is busy; only the cell the kernel fails with may be answered for again.
THEOREM AnswersAreSound == Spec => []AnswersSound
<1> DEFINE Inv == CellInv /\ OrderInv /\ InterruptInv /\ Flags /\ Counts /\ Targets
<1>1. Init => Inv
  BY CellStarts, OrderStarts, InterruptStarts, TypesStart
<1>2. Inv /\ [Next]_vars => Inv'
  <2> SUFFICES ASSUME Inv, [Next]_vars PROVE Inv'
    OBVIOUS
  <2>1. CellInv' /\ OrderInv' /\ InterruptInv' /\ Flags'
    BY CellStep, OrderStep, InterruptStep, FlagsStep
  <2>2. CellTypes /\ Frames /\ Places /\ SignalTypes
    BY DEF CellInv, InterruptInv
  <2>3. Counts' /\ Targets'
    BY <2>2, CountsStep, TargetsStep
  <2> QED
    BY <2>1, <2>3
<1>3. Inv => AnswersSound
  BY SoundCells
<1> HIDE DEF Inv
<1> QED
  BY <1>1, <1>2, <1>3, PTL DEF Spec

(***************************************************************************)
(* Containment: processes and their numbers, which are used again          *)
(***************************************************************************)

USE DEF Everyone, Nobody

Kids == ChildrenOf("kernel")

\* Descendants are the kernel's, or have a parent that is alive.  Strangers are others'.
Family ==
    /\ \A q \in Stranger : parent[q] = "other"
    /\ \A p \in Process : p \in Present /\ parent[p] # "kernel" =>
            parent[p] \in Process /\ life[parent[p]] = "alive"
    /\ \A p \in Process : parent[p] # "other"
    /\ parent[Leader] = "kernel" /\ life[Leader] # "unborn"

\* Parents go back to the kernel: no set of descendants is its own parents.
Rooted ==
    \A S \in SUBSET (Process \cap Present) : S # {} => \E p \in S : parent[p] \notin S

\* A number is one process's as long as it was not waited for.
Numbers ==
    /\ \A p \in Present, q \in Present : pid[p] = pid[q] => p = q
    /\ \A q \in Stranger : q \in Present => pgrp[q] = pid[q]

\* What the kernel knows of the numbers it works with.
Sweeping ==
    /\ sweep \in {"serving", "group"} => Leader \in Present
    /\ sweep # "serving" => disabled
    /\ \A n \in listed : \E p \in Kids : pid[p] = n
    /\ sweep \in {"strike", "reap"} => pidfd \in Kids /\ pid[pidfd] = child /\ child \notin listed

ContainInv == SweepSound /\ Family /\ Rooted /\ Numbers /\ Sweeping

----------------------------------------------------------------------------
(* What a step of the processes leaves to the kernel. *)

\* The kernel's children remain, under their numbers, and so does what it knows.
KidsKept == \A p \in Kids : p \in Kids' /\ pid'[p] = pid[p]

\* The kernel finds its children where it left them.
LEMMA KernelKnows ==
    ASSUME ContainInv, UNCHANGED sweepVars, KidsKept
    PROVE  Sweeping'
<1> USE DEF sweepVars
<1>1. Leader \in Kids => Leader \in Present'
  BY ContainAssumption DEF KidsKept, Kids, ChildrenOf, Present
<1>2. Leader \in Present => Leader \in Kids
  BY DEF ContainInv, Family, Kids, ChildrenOf
<1>3. (sweep \in {"serving", "group"} => Leader \in Present)'
  BY <1>1, <1>2 DEF ContainInv, Sweeping
<1>4. (sweep # "serving" => disabled)'
  BY DEF ContainInv, Sweeping
<1>5. \A n \in listed' : \E p \in Kids' : pid'[p] = n
  BY DEF ContainInv, Sweeping, KidsKept
<1>6. sweep' \in {"strike", "reap"} => pidfd' \in Kids' /\ pid'[pidfd'] = child'
        /\ child' \notin listed'
  BY DEF ContainInv, Sweeping, KidsKept
<1> QED
  BY <1>3, <1>4, <1>5, <1>6 DEF Sweeping

\* A process starts, with a number that nobody has.
LEMMA StartsAlone ==
    ASSUME ContainInv, NEW q \in Everyone, life[q] = "unborn", NEW n \in FreePid, NEW g \in Pid,
           Starts(q, n, g), q \in Stranger => g = n,
           parent' \in [Everyone -> Process \cup {"kernel", "other"}],
           \A p \in Everyone \ {q} : parent'[p] = parent[p]
    PROVE  /\ ContainTypeOK' /\ StrangersSpared' /\ Numbers' /\ Sweeping'
           /\ Present' = Present \cup {q} /\ q \notin Present
           /\ life'[q] = "alive" /\ \A p \in Everyone \ {q} : life'[p] = life[p]
<1> USE DEF Starts
<1>1. n \in Pid /\ \A p \in Present : pid[p] # n
  BY DEF FreePid
<1>2. /\ life \in [Everyone -> {"unborn", "alive", "zombie", "gone"}]
      /\ pid \in [Everyone -> Pid] /\ pgrp \in [Everyone -> Pid]
  BY DEF ContainInv, SweepSound, ContainTypeOK
<1>3. /\ life'[q] = "alive" /\ pid'[q] = n /\ pgrp'[q] = g
      /\ \A p \in Everyone \ {q} : life'[p] = life[p] /\ pid'[p] = pid[p] /\ pgrp'[p] = pgrp[p]
  BY <1>2
<1>4. Present' = Present \cup {q} /\ q \notin Present
  BY <1>3 DEF Present
<1>5. ContainTypeOK'
  BY <1>1, <1>2 DEF ContainInv, SweepSound, ContainTypeOK, sweepVars
<1>6. StrangersSpared'
  BY DEF ContainInv, SweepSound, StrangersSpared
<1>7. Numbers'
  <2>1. ASSUME NEW p \in Present', NEW r \in Present', pid'[p] = pid'[r] PROVE p = r
    BY <1>1, <1>3, <1>4, <2>1 DEF ContainInv, Numbers, Present
  <2>2. ASSUME NEW r \in Stranger, r \in Present' PROVE pgrp'[r] = pid'[r]
    BY <1>3, <1>4, <2>2 DEF ContainInv, Numbers
  <2> QED
    BY <2>1, <2>2 DEF Numbers
<1>8. KidsKept
  BY <1>3, <1>4 DEF KidsKept, Kids, ChildrenOf, Present
<1>9. Sweeping'
  BY <1>8, KernelKnows
<1> QED
  BY <1>3, <1>4, <1>5, <1>6, <1>7, <1>9

\* A process of the worker forks.
LEMMA ForkHolds ==
    ASSUME ContainInv, NEW p \in Process, NEW q \in Process, Fork(p, q) PROVE ContainInv'
<1> USE DEF Fork
<1>1. PICK n \in FreePid : Starts(q, n, pgrp[p])
  OBVIOUS
<1>2. parent \in [Everyone -> Process \cup {"kernel", "other"}] /\ pgrp[p] \in Pid
  BY DEF ContainInv, SweepSound, ContainTypeOK
<1>3. /\ parent' \in [Everyone -> Process \cup {"kernel", "other"}] /\ parent'[q] = p
      /\ \A r \in Everyone \ {q} : parent'[r] = parent[r]
  BY <1>2
<1>4. /\ ContainTypeOK' /\ StrangersSpared' /\ Numbers' /\ Sweeping'
      /\ Present' = Present \cup {q} /\ q \notin Present
      /\ life'[q] = "alive" /\ \A r \in Everyone \ {q} : life'[r] = life[r]
  BY <1>1, <1>2, <1>3, StartsAlone, ContainAssumption
<1>5. p # q /\ q # Leader
  BY DEF ContainInv, Family
<1>6. Family'
  <2>1. ASSUME NEW r \in Process, r \in Present', parent'[r] # "kernel"
        PROVE  parent'[r] \in Process /\ life'[parent'[r]] = "alive"
    <3>1. CASE r = q
      BY <1>3, <1>4, <1>5, <3>1
    <3>2. CASE r # q
      BY <1>3, <1>4, <2>1, <3>2 DEF ContainInv, Family
    <3> QED
      BY <3>1, <3>2
  <2>2. \A r \in Process : parent'[r] # "other"
    BY <1>3, ContainAssumption DEF ContainInv, Family
  <2>3. \A r \in Stranger : parent'[r] = "other"
    BY <1>3, ContainAssumption DEF ContainInv, Family
  <2>4. parent'[Leader] = "kernel" /\ life'[Leader] # "unborn"
    BY <1>3, <1>4, <1>5, ContainAssumption DEF ContainInv, Family
  <2> QED
    BY <2>1, <2>2, <2>3, <2>4 DEF Family
<1>7. Rooted'
  <2>1. ASSUME NEW S \in SUBSET (Process \cap Present'), S # {}
        PROVE  \E r \in S : parent'[r] \notin S
    <3>1. CASE S = {q}
      BY <1>3, <1>5, <3>1
    <3>2. CASE S # {q}
      <4>1. S \ {q} # {} /\ S \ {q} \in SUBSET (Process \cap Present)
        BY <1>4, <2>1, <3>2
      <4>2. PICK r \in S \ {q} : parent[r] \notin S \ {q}
        BY <4>1 DEF ContainInv, Rooted
      <4>3. parent[r] # q
        BY <4>1, ContainAssumption DEF ContainInv, Family
      <4> QED
        BY <1>3, <4>1, <4>2, <4>3
    <3> QED
      BY <3>1, <3>2
  <2> QED
    BY <2>1 DEF Rooted
<1>8. SweptClean'
  <2>1. sweep' = sweep /\ p \in Process \cap Present
    BY <1>1 DEF Starts, sweepVars, Present
  <2> QED
    BY <2>1 DEF ContainInv, SweepSound, SweptClean
<1> QED
  BY <1>4, <1>6, <1>7, <1>8 DEF ContainInv, SweepSound

\* A process that is not of the worker starts, with a number that is free.
LEMMA StrangerStartsHolds ==
    ASSUME ContainInv, NEW q \in Stranger, StrangerStarts(q) PROVE ContainInv'
<1> USE DEF StrangerStarts
<1>1. PICK n \in FreePid : Starts(q, n, n)
  OBVIOUS
<1>2. parent' = parent /\ parent \in [Everyone -> Process \cup {"kernel", "other"}] /\ n \in Pid
  BY DEF ContainInv, SweepSound, ContainTypeOK, FreePid
<1>4. /\ ContainTypeOK' /\ StrangersSpared' /\ Numbers' /\ Sweeping'
      /\ Present' = Present \cup {q} /\ q \notin Present
      /\ life'[q] = "alive" /\ \A r \in Everyone \ {q} : life'[r] = life[r]
  BY <1>1, <1>2, StartsAlone
<1>5. Process \cap Present' = Process \cap Present /\ \A r \in Process : life'[r] = life[r]
  BY <1>4, ContainAssumption
<1>6. Family'
  BY <1>2, <1>5, ContainAssumption DEF ContainInv, Family
<1>7. Rooted'
  BY <1>2, <1>5 DEF ContainInv, Rooted
<1>8. SweptClean'
  BY <1>1, <1>5 DEF Starts, sweepVars, ContainInv, SweepSound, SweptClean
<1> QED
  BY <1>4, <1>6, <1>7, <1>8 DEF ContainInv, SweepSound

\* A process leaves the group of its leader.
LEMMA LeavesGroupHolds ==
    ASSUME ContainInv, NEW p \in Process, LeavesGroup(p) PROVE ContainInv'
<1> USE DEF LeavesGroup
<1>1. pgrp' \in [Everyone -> Pid] /\ \A q \in Stranger : pgrp'[q] = pgrp[q]
  BY ContainAssumption DEF ContainInv, SweepSound, ContainTypeOK
<1>2. Present' = Present /\ Kids' = Kids
  BY DEF Present, Kids, ChildrenOf
<1>3. Family' /\ Rooted' /\ Numbers' /\ StrangersSpared'
  BY <1>1, <1>2 DEF ContainInv, Family, Rooted, Numbers, SweepSound, StrangersSpared
<1>4. KidsKept
  BY <1>2 DEF KidsKept
<1>5. Sweeping'
  BY <1>4, KernelKnows
<1>6. ContainTypeOK' /\ SweptClean'
  BY <1>1, <1>2 DEF ContainInv, SweepSound, ContainTypeOK, SweptClean, sweepVars
<1> QED
  BY <1>3, <1>5, <1>6 DEF ContainInv, SweepSound

\* A process exits, and its children go to the subreaper.
LEMMA ExitsHolds ==
    ASSUME ContainInv, NEW p \in Everyone, Exits(p) PROVE ContainInv'
<1> USE DEF Exits
<1>0. /\ life \in [Everyone -> {"unborn", "alive", "zombie", "gone"}]
      /\ parent \in [Everyone -> Process \cup {"kernel", "other"}]
  BY DEF ContainInv, SweepSound, ContainTypeOK
<1>1. /\ life' \in [Everyone -> {"unborn", "alive", "zombie", "gone"}]
      /\ life'[p] = "zombie" /\ \A q \in Everyone \ {p} : life'[q] = life[q]
  BY <1>0
<1>2. Present' = Present
  BY <1>0, <1>1 DEF Present
<1>3. /\ parent' \in [Everyone -> Process \cup {"kernel", "other"}]
      /\ \A q \in Everyone : parent'[q] \in {parent[q], "kernel"}
      /\ \A q \in Present : parent'[q] = IF parent[q] = p THEN "kernel" ELSE parent[q]
      /\ \A q \in Everyone : parent[q] # p => parent'[q] = parent[q]
  BY <1>0 DEF ChildrenOf, Present
<1>4. Family'
  <2>1. \A q \in Stranger : parent'[q] = "other"
    <3>1. ASSUME NEW q \in Stranger PROVE parent'[q] = "other"
      <4>1. parent[q] = "other"
        BY DEF ContainInv, Family
      <4>2. q \notin ChildrenOf(p)
        BY <4>1, ContainAssumption DEF ChildrenOf
      <4> QED
        BY <4>1, <4>2
    <3> QED
      BY <3>1
  <2>2. ASSUME NEW q \in Process, q \in Present', parent'[q] # "kernel"
        PROVE  parent'[q] \in Process /\ life'[parent'[q]] = "alive"
    <3>1. parent'[q] = parent[q] /\ parent[q] # p /\ q \in Present
      BY <1>2, <1>3, <2>2
    <3> QED
      BY <1>1, <2>2, <3>1 DEF ContainInv, Family
  <2>3. \A q \in Process : parent'[q] # "other"
    BY <1>3 DEF ContainInv, Family
  <2>4. parent'[Leader] = "kernel" /\ life'[Leader] # "unborn"
    BY <1>1, <1>3, ContainAssumption DEF ContainInv, Family
  <2> QED
    BY <2>1, <2>2, <2>3, <2>4 DEF Family
<1>5. Rooted'
  <2>1. ASSUME NEW S \in SUBSET (Process \cap Present'), S # {}
        PROVE  \E r \in S : parent'[r] \notin S
    <3>1. PICK r \in S : parent[r] \notin S
      BY <1>2, <2>1 DEF ContainInv, Rooted
    <3> QED
      BY <1>3, <3>1, ContainAssumption
  <2> QED
    BY <2>1 DEF Rooted
<1>6. Numbers'
  BY <1>2 DEF ContainInv, Numbers
<1>7. KidsKept
  BY <1>2, <1>3 DEF KidsKept, Kids, ChildrenOf, Present
<1>8. Sweeping'
  BY <1>7, KernelKnows
<1>9. SweepSound'
  BY <1>1, <1>2, <1>3 DEF ContainInv, SweepSound, ContainTypeOK, StrangersSpared, SweptClean, sweepVars
<1> QED
  BY <1>4, <1>5, <1>6, <1>8, <1>9 DEF ContainInv

\* Some processes are waited for: they are zombies, and have no children.
LEMMA GoneHolds ==
    ASSUME ContainInv, NEW G \in SUBSET Everyone, \A p \in G : life[p] = "zombie",
           life' = [p \in Everyone |-> IF p \in G THEN "gone" ELSE life[p]],
           UNCHANGED <<parent, pid, pgrp, killed, struck, disabled>>
    PROVE  /\ life' \in [Everyone -> {"unborn", "alive", "zombie", "gone"}]
           /\ Family' /\ Rooted' /\ Numbers' /\ Present' = Present \ G
<1>0. life \in [Everyone -> {"unborn", "alive", "zombie", "gone"}]
  BY DEF ContainInv, SweepSound, ContainTypeOK
<1>1. Present' = Present \ G
  BY <1>0 DEF Present
<1>2. \A p \in Everyone : /\ life[p] = "alive" => life'[p] = "alive"
                          /\ life'[p] = "unborn" => life[p] = "unborn"
  BY <1>0
<1>3. Family'
  <2>1. ASSUME NEW q \in Process, q \in Present', parent'[q] # "kernel"
        PROVE  parent'[q] \in Process /\ life'[parent'[q]] = "alive"
    BY <1>1, <1>2, <2>1 DEF ContainInv, Family
  <2>2. life'[Leader] # "unborn"
    BY <1>2, ContainAssumption DEF ContainInv, Family
  <2> QED
    BY <2>1, <2>2 DEF ContainInv, Family
<1>4. Rooted'
  BY <1>1 DEF ContainInv, Rooted
<1>5. Numbers'
  BY <1>1 DEF ContainInv, Numbers
<1> QED
  BY <1>0, <1>1, <1>3, <1>4, <1>5

\* A process is waited for, and its number is free again.
LEMMA WaitedHolds ==
    ASSUME ContainInv, NEW p \in Everyone, Waited(p) PROVE ContainInv'
<1> USE DEF Waited
<1>0. life \in [Everyone -> {"unborn", "alive", "zombie", "gone"}]
  BY DEF ContainInv, SweepSound, ContainTypeOK
<1>1. life' = [q \in Everyone |-> IF q \in {p} THEN "gone" ELSE life[q]]
  BY <1>0
<1>2. parent[p] # "kernel"
  BY ContainAssumption
<1>3. /\ life' \in [Everyone -> {"unborn", "alive", "zombie", "gone"}]
      /\ Family' /\ Rooted' /\ Numbers' /\ Present' = Present \ {p}
  BY <1>1, GoneHolds DEF sweepVars
<1>4. KidsKept
  BY <1>2, <1>3 DEF KidsKept, Kids, ChildrenOf
<1>5. Sweeping'
  BY <1>4, KernelKnows
<1>6. SweepSound'
  BY <1>3 DEF ContainInv, SweepSound, ContainTypeOK, StrangersSpared, SweptClean, sweepVars
<1> QED
  BY <1>3, <1>5, <1>6 DEF ContainInv

----------------------------------------------------------------------------
(* The kernel. *)

\* A step of the kernel that waits for nobody.
LEMMA ProcessesKept ==
    ASSUME ContainInv, UNCHANGED processVars
    PROVE  /\ Family' /\ Rooted' /\ Numbers' /\ Present' = Present /\ Kids' = Kids
           /\ UNCHANGED <<life, parent, pid, pgrp>>
<1> USE DEF processVars
<1>1. Present' = Present /\ Kids' = Kids
  BY DEF Present, Kids, ChildrenOf
<1> QED
  BY <1>1 DEF ContainInv, Family, Rooted, Numbers

\* A child of the kernel is no stranger.
LEMMA KidsAreOurs ==
    ASSUME ContainInv PROVE Kids \subseteq Process
  BY DEF ContainInv, Family, Kids, ChildrenOf, Present

\* request and armed: as long as it is not disabled the worker was not waited for.
LEMMA SignalWorkerHolds ==
    ASSUME ContainInv, SignalWorker PROVE ContainInv'
<1> USE DEF SignalWorker, sweepVars
<1>1. {p \in Present : pid[p] = pid[Leader]} = {Leader}
  <2>1. Leader \in Present
    BY DEF ContainInv, Sweeping
  <2> QED
    BY <2>1 DEF ContainInv, Numbers
<1>2. /\ Family' /\ Rooted' /\ Numbers' /\ Present' = Present /\ Kids' = Kids
      /\ UNCHANGED <<life, parent, pid, pgrp>>
  BY ProcessesKept
<1>3. Sweeping'
  BY <1>2 DEF ContainInv, Sweeping
<1>4. SweepSound'
  BY <1>1, <1>2, ContainAssumption DEF ContainInv, SweepSound, ContainTypeOK, StrangersSpared,
     SweptClean
<1> QED
  BY <1>2, <1>3, <1>4 DEF ContainInv

\* The kernel kills the group of the worker and begins to sweep.
LEMMA TerminateWorkerHolds ==
    ASSUME ContainInv, TerminateWorker PROVE ContainInv'
<1> USE DEF TerminateWorker
<1>1. /\ Family' /\ Rooted' /\ Numbers' /\ Present' = Present /\ Kids' = Kids
      /\ UNCHANGED <<life, parent, pid, pgrp>>
  BY ProcessesKept
<1>2. Sweeping'
  BY <1>1 DEF ContainInv, Sweeping
<1>3. SweepSound'
  BY <1>1 DEF ContainInv, SweepSound, ContainTypeOK, StrangersSpared, SweptClean
<1> QED
  BY <1>1, <1>2, <1>3 DEF ContainInv

\* The group of the worker: strangers are in groups of their own numbers.
LEMMA KillGroupHolds ==
    ASSUME ContainInv, KillGroup PROVE ContainInv'
<1> USE DEF KillGroup
<1> DEFINE members == {p \in Present : pgrp[p] = pid[Leader]}
<1>1. members \cap Stranger = {} /\ members \subseteq Everyone
  <2>1. Leader \in Present
    BY DEF ContainInv, Sweeping
  <2>2. ASSUME NEW q \in Stranger, q \in members PROVE FALSE
    <3>1. pid[q] = pid[Leader] /\ q \in Present
      BY <2>2 DEF ContainInv, Numbers
    <3>2. q = Leader
      BY <2>1, <3>1 DEF ContainInv, Numbers
    <3> QED
      BY <3>2, ContainAssumption
  <2> QED
    BY <2>2 DEF Present
<1>2. killed' = killed \cup members /\ struck' = struck \cup members
  OBVIOUS
<1> HIDE DEF members
<1>3. /\ Family' /\ Rooted' /\ Numbers' /\ Present' = Present /\ Kids' = Kids
      /\ UNCHANGED <<life, parent, pid, pgrp>>
  BY ProcessesKept
<1>4. Sweeping'
  BY <1>3 DEF ContainInv, Sweeping
<1>5. SweepSound'
  BY <1>1, <1>2, <1>3 DEF ContainInv, SweepSound, ContainTypeOK, StrangersSpared, SweptClean
<1> QED
  BY <1>3, <1>4, <1>5 DEF ContainInv

\* The list is empty only if there is no descendant at all.
LEMMA ListChildrenHolds ==
    ASSUME ContainInv, ListChildren PROVE ContainInv'
<1> USE DEF ListChildren
<1>1. /\ Family' /\ Rooted' /\ Numbers' /\ Present' = Present /\ Kids' = Kids
      /\ UNCHANGED <<life, parent, pid, pgrp>>
  BY ProcessesKept
<1>2. listed' = {pid[p] : p \in Kids} /\ listed' \subseteq Pid
  BY DEF Kids, ChildrenOf, Present, ContainInv, SweepSound, ContainTypeOK
<1>3. sweep' = "clean" => Process \cap Present = {}
  <2>1. SUFFICES ASSUME Kids = {}, Process \cap Present # {} PROVE FALSE
    BY <1>2
  <2>2. PICK p \in Process \cap Present : parent[p] \notin Process \cap Present
    BY <2>1 DEF ContainInv, Rooted
  <2>3. CASE parent[p] = "kernel"
    BY <2>1, <2>3 DEF Kids, ChildrenOf
  <2>4. CASE parent[p] # "kernel"
    BY <2>2, <2>4 DEF ContainInv, Family, Present
  <2> QED
    BY <2>3, <2>4
<1>4. sweep' \in {"clean", "open"} /\ sweep = "list"
  OBVIOUS
<1>5. Sweeping'
  BY <1>1, <1>2, <1>4 DEF ContainInv, Sweeping
<1>6. SweepSound'
  BY <1>1, <1>2, <1>3, <1>4 DEF ContainInv, SweepSound, ContainTypeOK, StrangersSpared, SweptClean
<1> QED
  BY <1>1, <1>5, <1>6 DEF ContainInv

\* The sweep gives up at its deadline.
LEMMA SweepLateHolds ==
    ASSUME ContainInv, SweepLate PROVE ContainInv'
<1> USE DEF SweepLate
<1>1. /\ Family' /\ Rooted' /\ Numbers' /\ Present' = Present /\ Kids' = Kids
      /\ UNCHANGED <<life, parent, pid, pgrp>>
  BY ProcessesKept
<1>2. Sweeping'
  BY <1>1 DEF ContainInv, Sweeping
<1>3. SweepSound'
  BY <1>1 DEF ContainInv, SweepSound, ContainTypeOK, StrangersSpared, SweptClean
<1> QED
  BY <1>1, <1>2, <1>3 DEF ContainInv

\* The number of a child that is listed is that child's: the process that is opened is ours.
LEMMA OpenChildHolds ==
    ASSUME ContainInv, NEW n \in listed, OpenChild(n) PROVE ContainInv'
<1> USE DEF OpenChild
<1>1. /\ Family' /\ Rooted' /\ Numbers' /\ Present' = Present /\ Kids' = Kids
      /\ UNCHANGED <<life, parent, pid, pgrp>>
  BY ProcessesKept
<1>2. PICK k \in Kids : pid[k] = n
  BY DEF ContainInv, Sweeping
<1>3. k \in Present /\ k \in Process
  BY KidsAreOurs DEF Kids, ChildrenOf
<1>4. pidfd' = k /\ sweep' = "strike" /\ listed' = listed \ {n} /\ child' = n
  BY <1>2, <1>3 DEF ContainInv, Numbers
<1>5. Sweeping'
  BY <1>1, <1>2, <1>4 DEF ContainInv, Sweeping
<1>6. SweepSound'
  BY <1>1, <1>3, <1>4, ContainAssumption
     DEF ContainInv, SweepSound, ContainTypeOK, StrangersSpared, SweptClean
<1> QED
  BY <1>1, <1>5, <1>6 DEF ContainInv

\* A child that was found is killed through its pidfd.
LEMMA StrikeChildHolds ==
    ASSUME ContainInv, StrikeChild PROVE ContainInv'
<1> USE DEF StrikeChild
<1>1. /\ Family' /\ Rooted' /\ Numbers' /\ Present' = Present /\ Kids' = Kids
      /\ UNCHANGED <<life, parent, pid, pgrp>>
  BY ProcessesKept
<1>2. pidfd \in Kids /\ pidfd \in Process /\ pidfd \notin Stranger
  BY KidsAreOurs, ContainAssumption DEF ContainInv, Sweeping
<1>3. Sweeping'
  BY <1>1 DEF ContainInv, Sweeping
<1>4. SweepSound'
  BY <1>1, <1>2 DEF ContainInv, SweepSound, ContainTypeOK, StrangersSpared, SweptClean
<1> QED
  BY <1>1, <1>3, <1>4 DEF ContainInv

\* The one child that is waited for is not one of those still listed.
LEMMA ReapChildHolds ==
    ASSUME ContainInv, ReapChild PROVE ContainInv'
<1> USE DEF ReapChild
<1> DEFINE G == {p \in Kids : pid[p] = child /\ life[p] = "zombie"}
<1>1. life' = [p \in Everyone |-> IF p \in G THEN "gone" ELSE life[p]]
  BY DEF Kids
<1>2. G \in SUBSET Everyone /\ \A p \in G : life[p] = "zombie"
  BY DEF Kids, ChildrenOf, Present
<1>3. \A p \in Kids \ G : pid[p] = child => life[p] # "zombie"
  OBVIOUS
<1>4. \A p \in Kids : pid[p] # child => p \notin G
  OBVIOUS
<1> HIDE DEF G
<1>5. /\ life' \in [Everyone -> {"unborn", "alive", "zombie", "gone"}]
      /\ Family' /\ Rooted' /\ Numbers' /\ Present' = Present \ G
  BY <1>1, <1>2, GoneHolds
<1>6. \A p \in Kids \ G : p \in Kids'
  BY <1>5 DEF Kids, ChildrenOf
<1>7. listed' = listed /\ sweep' \in {"list", "open"} /\ child \notin listed /\ disabled
  BY DEF NextChild, ContainInv, Sweeping
<1>8. \A n \in listed' : \E p \in Kids' : pid'[p] = n
  <2>1. ASSUME NEW n \in listed PROVE \E p \in Kids' : pid[p] = n
    <3>1. PICK p \in Kids : pid[p] = n
      BY DEF ContainInv, Sweeping
    <3>2. p \notin G
      BY <1>4, <1>7, <3>1
    <3> QED
      BY <1>6, <3>1, <3>2
  <2> QED
    BY <1>7, <2>1
<1>9. Sweeping'
  BY <1>7, <1>8 DEF Sweeping
<1>10. SweepSound'
  BY <1>5, <1>7 DEF ContainInv, SweepSound, ContainTypeOK, StrangersSpared, SweptClean
<1> QED
  BY <1>5, <1>9, <1>10 DEF ContainInv

----------------------------------------------------------------------------
(* The theorem. *)

\* A worker that has just started.
LEMMA ContainStarts ==
    ASSUME ContainInit PROVE ContainInv
<1> USE DEF ContainInit
<1>1. Present = {Leader}
  BY ContainAssumption DEF Present
<1>2. ContainTypeOK
  BY ContainAssumption DEF ContainTypeOK
<1>3. Family
  BY <1>1, ContainAssumption DEF Family
<1>4. Rooted
  BY <1>1, ContainAssumption DEF Rooted
<1>5. Numbers
  BY <1>1, ContainAssumption DEF Numbers
<1>6. Sweeping
  BY <1>1 DEF Sweeping
<1>7. StrangersSpared /\ SweptClean
  BY DEF StrangersSpared, SweptClean
<1> QED
  BY <1>2, <1>3, <1>4, <1>5, <1>6, <1>7 DEF ContainInv, SweepSound

\* A step of nobody.
LEMMA ContainStutters ==
    ASSUME ContainInv, UNCHANGED containVars PROVE ContainInv'
<1> USE DEF containVars, sweepVars
<1>1. /\ Family' /\ Rooted' /\ Numbers' /\ Present' = Present /\ Kids' = Kids
      /\ UNCHANGED <<life, parent, pid, pgrp>>
  BY ProcessesKept
<1>2. Sweeping'
  BY <1>1 DEF ContainInv, Sweeping
<1>3. SweepSound'
  BY <1>1 DEF ContainInv, SweepSound, ContainTypeOK, StrangersSpared, SweptClean
<1> QED
  BY <1>1, <1>2, <1>3 DEF ContainInv

\* sweep, terminate and Interrupt: whatever forks, leaves its group, exits or takes a number
\* that became free, and however often, no stranger gets a signal of the kernel, and a sweep
\* that returns without an error leaves no descendant.
THEOREM SweepIsSound == ContainSpec => []SweepSound
<1>1. ContainInit => ContainInv
  BY ContainStarts
<1>2. ContainInv /\ [ContainNext]_containVars => ContainInv'
  <2> SUFFICES ASSUME ContainInv, [ContainNext]_containVars PROVE ContainInv'
    OBVIOUS
  <2>1. CASE Processes
    BY <2>1, ForkHolds, StrangerStartsHolds, LeavesGroupHolds, ExitsHolds, WaitedHolds DEF Processes
  <2>2. CASE Sweeps
    BY <2>2, SignalWorkerHolds, TerminateWorkerHolds, KillGroupHolds, ListChildrenHolds, SweepLateHolds,
       OpenChildHolds, StrikeChildHolds, ReapChildHolds DEF Sweeps
  <2>3. CASE UNCHANGED containVars
    BY <2>3, ContainStutters
  <2> QED
    BY <2>1, <2>2, <2>3 DEF ContainNext, ContainOver
<1>3. ContainInv => SweepSound
  BY DEF ContainInv
<1> QED
  BY <1>1, <1>2, <1>3, PTL DEF ContainSpec

HIDE DEF Everyone, Nobody

(***************************************************************************)
(* Streams: Capture and Text                                               *)
(***************************************************************************)

(***************************************************************************)
(* Capture: where the marker is                                            *)
(***************************************************************************)

M == Len(Mark)

\* The marker stands at i; the last m bytes begin it.
Occurs(s, i) == i + M - 1 <= Len(s) /\ \A j \in 1 .. M : s[i + j - 1] = Mark[j]
Ends(s, m) == m <= Len(s) /\ \A j \in 1 .. m : s[Len(s) - m + j] = Mark[j]
First(s, e) == e \in 1 .. Len(s) /\ Occurs(s, e) /\ \A i \in 1 .. (e - 1) : ~Occurs(s, i)
NoMark(s) == \A i \in 1 .. Len(s) : ~Occurs(s, i)

\* The marker is not empty.
LEMMA MarkFacts == M \in Nat /\ M >= 1 /\ DOMAIN Mark = 1 .. M /\ Mark \in Seq(Byte)
<1>1. Mark \in Seq(Byte) /\ Mark # << >>
  BY StreamsAssumption
<1>2. M \in Nat /\ DOMAIN Mark = 1 .. M
  BY <1>1 DEF M
<1>3. M # 0
  BY <1>1 DEF M
<1> QED BY <1>1, <1>2, <1>3

\* What a sequence is.
LEMMA SeqFacts ==
  ASSUME NEW X, NEW s \in Seq(X)
  PROVE  Len(s) \in Nat /\ DOMAIN s = 1 .. Len(s) /\ \A i \in 1 .. Len(s) : s[i] \in X
  OBVIOUS

\* What a part of a sequence is.
LEMMA PartFacts ==
  ASSUME NEW X, NEW s \in Seq(X), NEW i \in Nat, NEW k \in Nat, 1 <= i, i <= k + 1, k <= Len(s)
  PROVE  /\ SubSeq(s, i, k) \in Seq(X) /\ Len(SubSeq(s, i, k)) = k - i + 1
         /\ \A j \in 1 .. (k - i + 1) : SubSeq(s, i, k)[j] = s[i + j - 1]
<1>1. Len(s) \in Nat /\ \A j \in 1 .. Len(s) : s[j] \in X
  OBVIOUS
<1>2. \A j \in i .. k : s[j] \in X
  BY <1>1
<1>3. i \in Int /\ k \in Int
  OBVIOUS
<1>4. /\ SubSeq(s, i, k) \in Seq(X)
      /\ Len(SubSeq(s, i, k)) = IF i <= k THEN k - i + 1 ELSE 0
      /\ \A j \in 1 .. k - i + 1 : SubSeq(s, i, k)[j] = s[i + j - 1]
  BY <1>2, <1>3, SubSeqProperties
<1> QED BY <1>4

\* What two sequences joined are.
LEMMA JoinFacts ==
  ASSUME NEW X, NEW s \in Seq(X), NEW t \in Seq(X)
  PROVE  /\ s \o t \in Seq(X) /\ Len(s \o t) = Len(s) + Len(t)
         /\ \A i \in 1 .. Len(s) : (s \o t)[i] = s[i]
         /\ \A i \in 1 .. Len(t) : (s \o t)[Len(s) + i] = t[i]
  OBVIOUS

\* Sequences are equal place by place.
LEMMA SameBytes ==
  ASSUME NEW X, NEW s \in Seq(X), NEW t \in Seq(X), Len(s) = Len(t),
         \A i \in 1 .. Len(s) : s[i] = t[i]
  PROVE  s = t
  BY SeqEqual

\* A window of the bytes is the marker.
LEMMA WindowIs ==
  ASSUME NEW s \in Seq(Byte), NEW i \in 1 .. Len(s)
  PROVE  i + Len(Mark) - 1 <= Len(s) /\ SubSeq(s, i, i + Len(Mark) - 1) = Mark <=> Occurs(s, i)
<1> DEFINE w == SubSeq(s, i, i + M - 1)
<1>0. Len(s) \in Nat /\ i \in Nat /\ i >= 1 /\ i + M - 1 \in Nat /\ i <= (i + M - 1) + 1
      /\ (i + M - 1) - i + 1 = M
  BY MarkFacts, SeqFacts
<1>1. ASSUME i + M - 1 <= Len(s)
      PROVE  w \in Seq(Byte) /\ Len(w) = M /\ \A j \in 1 .. M : w[j] = s[i + j - 1]
  BY <1>0, <1>1, PartFacts
<1> HIDE DEF w
<1>2. ASSUME i + M - 1 <= Len(s), w = Mark PROVE Occurs(s, i)
  BY <1>1, <1>2 DEF Occurs
<1>3. ASSUME Occurs(s, i) PROVE w = Mark
  <2>1. i + M - 1 <= Len(s) /\ \A j \in 1 .. M : s[i + j - 1] = Mark[j]
    BY <1>3 DEF Occurs
  <2>2. w \in Seq(Byte) /\ Len(w) = M /\ \A j \in 1 .. M : w[j] = Mark[j]
    BY <1>1, <2>1
  <2>3. Mark \in Seq(Byte) /\ Len(w) = Len(Mark) /\ \A j \in 1 .. Len(w) : w[j] = Mark[j]
    BY <2>2, MarkFacts DEF M
  <2> QED BY <2>2, <2>3, SameBytes
<1> QED BY <1>2, <1>3 DEF w, M, Occurs

\* position() finds the first marker.
LEMMA PositionIs ==
  ASSUME NEW s \in Seq(Byte)
  PROVE  \/ Position(s) = 0 /\ NoMark(s)
         \/ First(s, Position(s))
<1> DEFINE at == {i \in 1 .. Len(s) : i + Len(Mark) - 1 <= Len(s)
                                      /\ SubSeq(s, i, i + Len(Mark) - 1) = Mark}
           p == Position(s)
<1>1. \A i \in 1 .. Len(s) : i \in at <=> Occurs(s, i)
  BY WindowIs
<1>2. p = IF at = {} THEN 0 ELSE CHOOSE i \in at : \A j \in at : i <= j
  BY DEF Position
<1>3. at \subseteq 1 .. Len(s)
  OBVIOUS
<1> HIDE DEF at, p
<1>4. CASE at = {}
  BY <1>1, <1>2, <1>4 DEF NoMark, p
<1>5. CASE at # {}
  <2>1. at \in SUBSET Nat
    BY <1>3
  <2>2. \E i \in at : \A j \in at : i <= j
    BY <1>5, <2>1, Data!LeastNat
  <2>3. p \in at /\ \A j \in at : p <= j
    BY <1>2, <1>5, <2>2
  <2>4. p \in 1 .. Len(s) /\ Occurs(s, p)
    BY <1>1, <1>3, <2>3
  <2>5. Len(s) \in Nat
    BY SeqFacts
  <2>6. \A i \in 1 .. (p - 1) : ~Occurs(s, i)
    <3> SUFFICES ASSUME NEW i \in 1 .. (p - 1), Occurs(s, i) PROVE FALSE
      OBVIOUS
    <3>1. i \in 1 .. Len(s) /\ ~(p <= i)
      BY <2>4, <2>5
    <3> QED BY <1>1, <2>3, <3>1
  <2> QED BY <2>4, <2>6 DEF First, p
<1> QED BY <1>4, <1>5

\* ... and is determined by it.
LEMMA PositionOf ==
  ASSUME NEW s \in Seq(Byte)
  PROVE  /\ NoMark(s) => Position(s) = 0
         /\ \A e : First(s, e) => Position(s) = e /\ e # 0
<1>1. Len(s) \in Nat
  BY SeqFacts
<1>2. \A e, p : First(s, e) /\ First(s, p) => e = p
  <2> SUFFICES ASSUME NEW e, NEW p, First(s, e), First(s, p) PROVE e = p
    OBVIOUS
  <2>1. /\ e \in Nat /\ p \in Nat /\ e >= 1 /\ p >= 1 /\ Occurs(s, e) /\ Occurs(s, p)
        /\ \A i \in 1 .. (e - 1) : ~Occurs(s, i)
        /\ \A i \in 1 .. (p - 1) : ~Occurs(s, i)
    BY <1>1 DEF First
  <2>2. ~(e < p)
    <3>1. e < p => e \in 1 .. (p - 1)
      BY <2>1
    <3> QED BY <2>1, <3>1
  <2>3. ~(p < e)
    <3>1. p < e => p \in 1 .. (e - 1)
      BY <2>1
    <3> QED BY <2>1, <3>1
  <2> QED BY <2>1, <2>2, <2>3
<1>3. \A e : First(s, e) => ~NoMark(s) /\ e # 0
  BY <1>1 DEF First, NoMark
<1> QED BY <1>2, <1>3, PositionIs

\* The bytes end with the beginning of the marker.
LEMMA EndsIs ==
  ASSUME NEW s \in Seq(Byte), NEW h \in Seq(Byte)
  PROVE  IsSuffix(h, s) <=> /\ Len(h) <= Len(s)
                            /\ \A j \in 1 .. Len(h) : s[Len(s) - Len(h) + j] = h[j]
<1> DEFINE n == Len(s)
           m == Len(h)
           r == Reverse(s)
           q == Reverse(h)
<1>0. n \in Nat /\ m \in Nat /\ (\A i \in 1 .. n : s[i] \in Byte) /\ (\A i \in 1 .. m : h[i] \in Byte)
  BY SeqFacts
<1>1. /\ r = [i \in 1 .. n |-> s[(n - i) + 1]] /\ q = [i \in 1 .. m |-> h[(m - i) + 1]]
  BY DEF Reverse
<1> HIDE DEF n, m, r, q
<1>2. /\ r \in Seq(Byte) /\ Len(r) = n /\ \A i \in 1 .. n : r[i] = s[(n - i) + 1]
  <2>1. \A i \in 1 .. n : (n - i) + 1 \in 1 .. n
    BY <1>0
  <2>2. r \in [1 .. n -> Byte] /\ \A i \in 1 .. n : r[i] = s[(n - i) + 1]
    BY <1>0, <1>1, <2>1
  <2>3. r \in Seq(Byte)
    BY <1>0, <2>2
  <2>4. DOMAIN r = 1 .. n
    BY <2>2
  <2>5. Len(r) = n
    BY <1>0, <2>3, <2>4
  <2> QED BY <2>2, <2>3, <2>5
<1>3. /\ q \in Seq(Byte) /\ Len(q) = m /\ \A i \in 1 .. m : q[i] = h[(m - i) + 1]
  <2>1. \A i \in 1 .. m : (m - i) + 1 \in 1 .. m
    BY <1>0
  <2>2. q \in [1 .. m -> Byte] /\ \A i \in 1 .. m : q[i] = h[(m - i) + 1]
    BY <1>0, <1>1, <2>1
  <2>3. q \in Seq(Byte)
    BY <1>0, <2>2
  <2>4. DOMAIN q = 1 .. m
    BY <2>2
  <2>5. Len(q) = m
    BY <1>0, <2>3, <2>4
  <2> QED BY <2>2, <2>3, <2>5
<1>4. IsSuffix(h, s) <=> m <= n /\ SubSeq(q, 1, m) = SubSeq(r, 1, m)
  BY <1>2, <1>3 DEF IsSuffix, IsPrefix, r, q
<1>5. ASSUME m <= n PROVE SubSeq(q, 1, m) = SubSeq(r, 1, m) <=> \A j \in 1 .. m : q[j] = r[j]
  <2> DEFINE a == SubSeq(q, 1, m)
             b == SubSeq(r, 1, m)
  <2>0. 1 \in Nat /\ 1 <= m + 1 /\ m - 1 + 1 = m /\ m <= Len(q) /\ m <= Len(r) /\ \A j \in 1 .. m : 1 + j - 1 = j
    BY <1>0, <1>2, <1>3, <1>5
  <2>1. a \in Seq(Byte) /\ Len(a) = m /\ \A j \in 1 .. m : a[j] = q[1 + j - 1]
    BY <1>0, <1>3, <2>0, PartFacts
  <2>2. b \in Seq(Byte) /\ Len(b) = m /\ \A j \in 1 .. m : b[j] = r[1 + j - 1]
    BY <1>0, <1>2, <2>0, PartFacts
  <2> HIDE DEF a, b
  <2>3. (\A j \in 1 .. m : a[j] = b[j]) => a = b
    BY <2>1, <2>2, SameBytes
  <2>4. a = b <=> \A j \in 1 .. m : q[j] = r[j]
    BY <2>0, <2>1, <2>2, <2>3
  <2> QED BY <2>4 DEF a, b
<1>6. ASSUME m <= n
      PROVE  (\A j \in 1 .. m : q[j] = r[j]) <=> \A j \in 1 .. m : s[n - m + j] = h[j]
  <2>0. /\ \A j \in 1 .. m : (m - j) + 1 \in 1 .. m /\ (m - ((m - j) + 1)) + 1 = j
        /\ \A j \in 1 .. m : j \in 1 .. n
        /\ \A j \in 1 .. m : (n - ((m - j) + 1)) + 1 = n - m + j
        /\ \A j \in 1 .. m : n - m + ((m - j) + 1) = (n - j) + 1
    BY <1>0, <1>6
  <2>1. ASSUME \A j \in 1 .. m : q[j] = r[j], NEW j \in 1 .. m PROVE s[n - m + j] = h[j]
    <3>1. q[(m - j) + 1] = r[(m - j) + 1]
      BY <2>0, <2>1
    <3>2. q[(m - j) + 1] = h[j]
      BY <1>3, <2>0
    <3>3. r[(m - j) + 1] = s[n - m + j]
      BY <1>2, <2>0
    <3> QED BY <3>1, <3>2, <3>3
  <2>2. ASSUME \A j \in 1 .. m : s[n - m + j] = h[j], NEW j \in 1 .. m PROVE q[j] = r[j]
    <3>1. s[n - m + ((m - j) + 1)] = h[(m - j) + 1]
      BY <2>0, <2>2
    <3> QED BY <1>2, <1>3, <2>0, <3>1, ZenonT(40)
  <2> QED BY <2>1, <2>2
<1> QED BY <1>4, <1>5, <1>6 DEF n, m

\* ... for the beginnings of the marker.
LEMMA BeginsIs ==
  ASSUME NEW s \in Seq(Byte), NEW m \in 0 .. M
  PROVE  IsSuffix(SubSeq(Mark, 1, m), s) <=> Ends(s, m)
<1> DEFINE h == SubSeq(Mark, 1, m)
<1>0. /\ m \in Nat /\ 1 \in Nat /\ 1 <= m + 1 /\ m - 1 + 1 = m /\ m <= Len(Mark) /\ Mark \in Seq(Byte)
      /\ \A j \in 1 .. m : 1 + j - 1 = j
  BY MarkFacts DEF M
<1>1. h \in Seq(Byte) /\ Len(h) = m /\ \A j \in 1 .. m : h[j] = Mark[1 + j - 1]
  BY <1>0, PartFacts
<1> HIDE DEF h
<1>2. IsSuffix(h, s) <=> m <= Len(s) /\ \A j \in 1 .. m : s[Len(s) - m + j] = h[j]
  BY <1>1, EndsIs
<1>3. IsSuffix(h, s) <=> Ends(s, m)
  BY <1>0, <1>1, <1>2 DEF Ends
<1> QED BY <1>3 DEF h

\* What is held back is the longest beginning of the marker that the bytes end with.
LEMMA SuffixIs ==
  ASSUME NEW s \in Seq(Byte)
  PROVE  /\ Suffix(s) \in 0 .. (M - 1) /\ Ends(s, Suffix(s))
         /\ \A m \in (Suffix(s) + 1) .. (M - 1) : ~Ends(s, m)
<1> DEFINE Good(n) == /\ IsSuffix(SubSeq(Mark, 1, n), s)
                      /\ \A m \in n + 1 .. Len(Mark) - 1 : ~IsSuffix(SubSeq(Mark, 1, m), s)
           T == {(M - 1) - n : n \in {n \in 0 .. (M - 1) : Ends(s, n)}}
           p == Suffix(s)
<1>0. M \in Nat /\ M >= 1 /\ Len(s) \in Nat
  BY MarkFacts, SeqFacts
<1>1. Ends(s, 0)
  BY <1>0 DEF Ends
<1>2. T \in SUBSET Nat /\ (M - 1) - 0 \in T
  BY <1>0, <1>1
<1>3. PICK t \in T : \A u \in T : t <= u
  <2> HIDE DEF T
  <2>1. T # {}
    BY <1>2
  <2> QED BY <1>2, <2>1, Data!LeastNat
<1>4. PICK n \in 0 .. (M - 1) : Ends(s, n) /\ t = (M - 1) - n
  OBVIOUS
<1>5. \A m \in (n + 1) .. (M - 1) : ~Ends(s, m)
  <2> SUFFICES ASSUME NEW m \in (n + 1) .. (M - 1), Ends(s, m) PROVE FALSE
    OBVIOUS
  <2>1. m \in 0 .. (M - 1)
    BY <1>0, <1>4
  <2>2. (M - 1) - m \in T
    BY <2>1
  <2>3. (M - 1) - n <= (M - 1) - m
    BY <1>3, <1>4, <2>2
  <2> QED BY <1>0, <2>1, <2>3
<1> HIDE DEF T
<1>6. \A m \in 0 .. (M - 1) : IsSuffix(SubSeq(Mark, 1, m), s) <=> Ends(s, m)
  <2>1. \A m \in 0 .. (M - 1) : m \in 0 .. M
    BY <1>0
  <2> QED BY <2>1, BeginsIs
<1>7. \A k \in 0 .. (M - 1) : Good(k) <=> Ends(s, k) /\ \A m \in (k + 1) .. (M - 1) : ~Ends(s, m)
  <2>1. \A k \in 0 .. (M - 1) : \A m \in (k + 1) .. (M - 1) : m \in 0 .. (M - 1)
    BY <1>0
  <2> QED BY <1>6, <2>1 DEF M
<1>8. p = CHOOSE k \in 0 .. Len(Mark) - 1 : Good(k)
  BY DEF Suffix
<1>9. Good(n) /\ n \in 0 .. Len(Mark) - 1
  <2>1. Good(n)
    BY <1>4, <1>5, <1>7
  <2> QED BY <2>1 DEF M
<1> HIDE DEF Good, p
<1>10. p \in 0 .. (M - 1) /\ Good(p)
  BY <1>8, <1>9 DEF M
<1> QED BY <1>7, <1>10 DEF p

\* g is f with one more piece of l bytes.  The last k bytes of f, behind the first n, were
\* held back, and all is what feed() looks at.
Piece(f, g, all, n, k, l) ==
    /\ f \in Seq(Byte) /\ g \in Seq(Byte) /\ all \in Seq(Byte)
    /\ n \in Nat /\ k \in Nat /\ l \in Nat
    /\ Len(f) = n + k /\ Len(g) = n + Len(all) /\ Len(all) = k + l
    /\ \A j \in 1 .. Len(f) : g[j] = f[j]
    /\ \A j \in 1 .. Len(all) : g[n + j] = all[j]

\* h is the end of g and begins the marker; t is what follows the marker at e.
HeldIs(h, g) ==
    /\ h \in Seq(Byte) /\ Len(h) <= Len(g)
    /\ \A j \in 1 .. Len(h) : g[Len(g) - Len(h) + j] = h[j] /\ h[j] = Mark[j]
TailIs(t, g, e) ==
    /\ t \in Seq(Byte) /\ Len(t) = Len(g) - (e + M - 1)
    /\ \A j \in 1 .. Len(t) : t[j] = g[(e + M - 1) + j]

\* No marker, and no longer end than k bytes that begins one.
Clean(f, k) == NoMark(f) /\ \A m \in (k + 1) .. (M - 1) : ~Ends(f, m)

\* One more piece behind bytes that end with what was held back.
LEMMA PieceFacts ==
  ASSUME NEW f \in Seq(Byte), NEW h \in Seq(Byte), NEW b \in Seq(Byte),
         Len(h) <= Len(f), \A j \in 1 .. Len(h) : f[Len(f) - Len(h) + j] = h[j]
  PROVE  Piece(f, f \o b, h \o b, Len(f) - Len(h), Len(h), Len(b))
<1> DEFINE g == f \o b
           all == h \o b
           n == Len(f) - Len(h)
<1>1. /\ g \in Seq(Byte) /\ Len(g) = Len(f) + Len(b) /\ (\A j \in 1 .. Len(f) : g[j] = f[j])
      /\ \A j \in 1 .. Len(b) : g[Len(f) + j] = b[j]
  BY JoinFacts
<1>2. /\ all \in Seq(Byte) /\ Len(all) = Len(h) + Len(b) /\ (\A j \in 1 .. Len(h) : all[j] = h[j])
      /\ \A j \in 1 .. Len(b) : all[Len(h) + j] = b[j]
  BY JoinFacts
<1>3. Len(f) \in Nat /\ Len(h) \in Nat /\ Len(b) \in Nat /\ n \in Nat
  BY SeqFacts
<1> HIDE DEF g, all
<1>4. ASSUME NEW j \in 1 .. Len(all) PROVE g[n + j] = all[j]
  <2>1. CASE j <= Len(h)
    <3>1. j \in 1 .. Len(h) /\ n + j \in 1 .. Len(f)
      BY <1>3, <2>1
    <3> QED BY <1>1, <1>2, <3>1
  <2>2. CASE j > Len(h)
    <3>1. j - Len(h) \in 1 .. Len(b) /\ n + j = Len(f) + (j - Len(h)) /\ j = Len(h) + (j - Len(h))
      BY <1>2, <1>3, <2>2
    <3>2. g[Len(f) + (j - Len(h))] = b[j - Len(h)] /\ all[Len(h) + (j - Len(h))] = b[j - Len(h)]
      BY <1>1, <1>2, <3>1
    <3> QED BY <3>1, <3>2
  <2> QED BY <1>3, <2>1, <2>2
<1>5. Len(g) = n + Len(all) /\ Len(f) = n + Len(h)
  BY <1>1, <1>2, <1>3
<1>6. f \in Seq(Byte)
  OBVIOUS
<1> HIDE DEF n
<1>7. Piece(f, g, all, n, Len(h), Len(b))
  BY ONLY <1>1, <1>2, <1>3, <1>4, <1>5, <1>6 DEF Piece
<1> QED BY ONLY <1>7 DEF g, all, n

\* The marker stands in the new bytes where feed() sees it, and nowhere else.
LEMMA PieceMarks ==
  ASSUME NEW f, NEW g, NEW all, NEW n, NEW k, NEW l, Piece(f, g, all, n, k, l), Clean(f, k)
  PROVE  /\ \A i \in 1 .. Len(g) : Occurs(g, i) => i > n
         /\ \A i \in 1 .. Len(all) : Occurs(g, n + i) <=> Occurs(all, i)
         /\ \A m \in 0 .. Len(all) : Ends(g, m) <=> Ends(all, m)
         /\ \A m \in 1 .. (M - 1) : Ends(g, m) => m <= Len(all)
<1>p. /\ n \in Nat /\ k \in Nat /\ l \in Nat
      /\ Len(f) = n + k /\ Len(g) = n + Len(all) /\ Len(all) = k + l
      /\ (\A j \in 1 .. Len(f) : g[j] = f[j]) /\ \A j \in 1 .. Len(all) : g[n + j] = all[j]
      /\ NoMark(f) /\ \A m \in (k + 1) .. (M - 1) : ~Ends(f, m)
  BY DEF Piece, Clean
<1> USE <1>p
<1>0. M \in Nat /\ M >= 1
  BY MarkFacts
<1>1. ASSUME NEW i \in 1 .. Len(g), Occurs(g, i), ~(i > n) PROVE FALSE
  <2>1. i + M - 1 <= Len(g) /\ (\A j \in 1 .. M : g[i + j - 1] = Mark[j]) /\ i \in Nat /\ i >= 1 /\ i <= n
    BY <1>1 DEF Occurs
  <2>2. CASE i + M - 1 <= Len(f)
    <3>1. \A j \in 1 .. M : i + j - 1 \in 1 .. Len(f)
      BY <1>0, <2>1, <2>2
    <3>2. Occurs(f, i)
      BY <2>1, <2>2, <3>1 DEF Occurs
    <3>3. i \in 1 .. Len(f)
      BY <2>1
    <3> QED BY <3>2, <3>3 DEF NoMark
  <2>3. CASE i + M - 1 > Len(f)
    <3> DEFINE m == Len(f) - i + 1
    <3>1. m \in (k + 1) .. (M - 1) /\ m <= Len(f)
      BY <1>0, <2>1, <2>3
    <3>2. ASSUME NEW j \in 1 .. m PROVE f[Len(f) - m + j] = Mark[j]
      <4>0. Len(f) \in Nat /\ j \in 1 .. (Len(f) - i + 1) /\ i \in Nat /\ i >= 1 /\ M \in Nat
            /\ i + M - 1 > Len(f)
        BY ONLY <1>p, <1>0, <2>1, <2>3, j \in 1 .. m
      <4>1. Len(f) - m + j = i + j - 1 /\ i + j - 1 \in 1 .. Len(f) /\ j \in 1 .. M
        BY ONLY <4>0
      <4> QED BY <2>1, <4>1
    <3>3. Ends(f, m)
      BY <3>1, <3>2 DEF Ends
    <3> QED BY <3>1, <3>3
  <2> QED BY <1>0, <2>1, <2>2, <2>3
<1>2. ASSUME NEW i \in 1 .. Len(all) PROVE Occurs(g, n + i) <=> Occurs(all, i)
  <2>1. (n + i) + M - 1 <= Len(g) <=> i + M - 1 <= Len(all)
    BY <1>0
  <2>2. ASSUME i + M - 1 <= Len(all), NEW j \in 1 .. M PROVE g[(n + i) + j - 1] = all[i + j - 1]
    <3>1. i + j - 1 \in 1 .. Len(all) /\ (n + i) + j - 1 = n + (i + j - 1)
      BY <1>0, <2>2
    <3> QED BY <3>1
  <2> QED BY <2>1, <2>2 DEF Occurs
<1>3. ASSUME NEW m \in 0 .. Len(all) PROVE Ends(g, m) <=> Ends(all, m)
  <2>1. m <= Len(g) /\ m <= Len(all)
    OBVIOUS
  <2>2. ASSUME NEW j \in 1 .. m PROVE g[Len(g) - m + j] = all[Len(all) - m + j]
    <3>1. Len(all) - m + j \in 1 .. Len(all) /\ Len(g) - m + j = n + (Len(all) - m + j)
      OBVIOUS
    <3> QED BY <3>1
  <2> QED BY <2>1, <2>2 DEF Ends
<1>4. ASSUME NEW m \in 1 .. (M - 1), Ends(g, m), ~(m <= Len(all)) PROVE FALSE
  <2> DEFINE q == m - l
  <2>1. /\ m <= Len(g) /\ (\A j \in 1 .. m : g[Len(g) - m + j] = Mark[j])
        /\ m \in Nat /\ m > k + l
    BY <1>0, <1>4 DEF Ends
  <2>2. q \in (k + 1) .. (M - 1) /\ q <= Len(f)
    BY <1>0, <2>1
  <2>3. ASSUME NEW j \in 1 .. q PROVE f[Len(f) - q + j] = Mark[j]
    <3>1. Len(f) - q + j = Len(g) - m + j /\ Len(g) - m + j \in 1 .. Len(f) /\ j \in 1 .. m
      BY <1>0, <2>1
    <3> QED BY <2>1, <3>1
  <2>4. Ends(f, q)
    BY <2>2, <2>3 DEF Ends
  <2> QED BY <2>2, <2>4
<1> QED BY <1>1, <1>2, <1>3, <1>4

\* Of the first n bytes of f, d is what fits and x the number of the others.
KeptIs(d, x, f, n) ==
    /\ Len(d) = (IF n < Limit THEN n ELSE Limit)
    /\ \A j \in 1 .. Len(d) : d[j] = f[j]
    /\ Len(d) + x = n

\* How many of c more bytes are kept, and how many are counted.
LEMMA KeepCounts ==
  ASSUME NEW n \in Nat, NEW c \in Nat, NEW l \in Nat, NEW x \in Nat, NEW k \in Nat, NEW r,
         l = (IF n < k THEN n ELSE k), l + x = n, r = (IF c < k - l THEN c ELSE k - l)
  PROVE  /\ r \in Nat /\ r <= c /\ l + r = (IF n + c < k THEN n + c ELSE k)
         /\ (l + r) + (x + (c - r)) = n + c /\ x + (c - r) \in Nat
         /\ l = k => r = 0
         /\ r # 0 => l = n
  OBVIOUS

\* Capture::keep of c more bytes.
LEMMA KeepGrows ==
  ASSUME NEW d \in Seq(Byte), NEW x \in Nat, NEW f, NEW g, NEW all, NEW n, NEW k, NEW l,
         Piece(f, g, all, n, k, l), KeptIs(d, x, f, n),
         NEW c \in 0 .. Len(all),
         NEW e, e = SubSeq(all, 1, c),
         NEW r, r = (IF Len(e) < Limit - Len(d) THEN Len(e) ELSE Limit - Len(d))
  PROVE  /\ r \in Nat /\ d \o SubSeq(e, 1, r) \in Seq(Byte) /\ x + (Len(e) - r) \in Nat
         /\ KeptIs(d \o SubSeq(e, 1, r), x + (Len(e) - r), g, n + c)
         /\ Len(d) = Limit => d \o SubSeq(e, 1, r) = d
<1> DEFINE p == SubSeq(e, 1, r)
           q == d \o p
<1>p. /\ f \in Seq(Byte) /\ all \in Seq(Byte) /\ n \in Nat /\ n <= Len(f)
      /\ (\A j \in 1 .. Len(f) : g[j] = f[j]) /\ \A j \in 1 .. Len(all) : g[n + j] = all[j]
  BY DEF Piece
<1> USE <1>p
<1>0. /\ Limit \in Nat /\ Len(d) \in Nat /\ Len(f) \in Nat /\ Len(all) \in Nat /\ c \in Nat /\ 1 \in Nat
      /\ Len(d) = (IF n < Limit THEN n ELSE Limit) /\ Len(d) + x = n
      /\ \A j \in 1 .. Len(d) : d[j] = f[j]
  BY StreamsAssumption, SeqFacts DEF KeptIs
<1>1. e \in Seq(Byte) /\ Len(e) = c /\ \A j \in 1 .. c : e[j] = all[j]
  <2>1. 1 <= c + 1 /\ c <= Len(all) /\ 1 <= 1 /\ c - 1 + 1 = c
    BY <1>0
  <2>2. e \in Seq(Byte) /\ Len(e) = c - 1 + 1 /\ \A j \in 1 .. (c - 1 + 1) : e[j] = all[1 + j - 1]
    BY <1>0, <2>1, PartFacts
  <2> QED BY <1>0, <2>1, <2>2
<1>2. /\ r \in Nat /\ r <= c /\ Len(d) + r = (IF n + c < Limit THEN n + c ELSE Limit)
      /\ (Len(d) + r) + (x + (c - r)) = n + c /\ x + (c - r) \in Nat
      /\ Len(d) = Limit => r = 0
      /\ r # 0 => Len(d) = n
  BY <1>0, <1>1, KeepCounts
<1>3. p \in Seq(Byte) /\ Len(p) = r /\ \A j \in 1 .. r : p[j] = e[j]
  <2>1. 1 <= r + 1 /\ r <= Len(e) /\ 1 <= 1 /\ r - 1 + 1 = r
    BY ONLY <1>0, <1>1, <1>2
  <2>2. p \in Seq(Byte) /\ Len(p) = r - 1 + 1 /\ \A j \in 1 .. (r - 1 + 1) : p[j] = e[1 + j - 1]
    <3>1. e \in Seq(Byte) /\ r \in Nat /\ 1 \in Nat
      BY ONLY <1>0, <1>1, <1>2
    <3> QED BY ONLY <2>1, <3>1, PartFacts
  <2> HIDE DEF p
  <2>3. \A j \in 1 .. r : j \in 1 .. (r - 1 + 1) /\ 1 + j - 1 = j
    <3>1. r \in Nat
      BY <1>2
    <3> QED BY ONLY <3>1
  <2> QED BY ONLY <2>1, <2>2, <2>3, SMTT(30)
<1> HIDE DEF p
<1>4. /\ q \in Seq(Byte) /\ Len(q) = Len(d) + r /\ (\A j \in 1 .. Len(d) : q[j] = d[j])
      /\ \A j \in 1 .. r : q[Len(d) + j] = p[j]
  <2>0. p \in Seq(Byte)
    BY ONLY <1>3
  <2>1. /\ q \in Seq(Byte) /\ Len(q) = Len(d) + Len(p) /\ (\A j \in 1 .. Len(d) : q[j] = d[j])
        /\ \A j \in 1 .. Len(p) : q[Len(d) + j] = p[j]
    BY ONLY d \in Seq(Byte), <2>0, JoinFacts
  <2> QED BY ONLY <1>3, <2>1
<1>5. Len(d) = Limit => q = d
  <2> SUFFICES ASSUME Len(d) = Limit PROVE q = d
    OBVIOUS
  <2>1. r = 0
    BY <1>2
  <2> HIDE DEF q
  <2>2. Len(q) = Len(d)
    BY ONLY Len(d) \in Nat, <1>0, <1>4, <2>1
  <2>3. q \in Seq(Byte) /\ \A j \in 1 .. Len(q) : q[j] = d[j]
    BY ONLY <1>4, <2>2
  <2> QED BY ONLY d \in Seq(Byte), <2>2, <2>3, SameBytes
<1> HIDE DEF q
<1>6. Len(q) = (IF n + c < Limit THEN n + c ELSE Limit)
  BY ONLY <1>2, <1>4
<1>7. Len(q) + (x + (Len(e) - r)) = n + c /\ x + (Len(e) - r) \in Nat
  BY ONLY <1>1, <1>2, <1>4
<1>8. ASSUME NEW j \in 1 .. Len(q) PROVE q[j] = g[j]
  <2>1. CASE j \in 1 .. Len(d)
    <3>1. j \in 1 .. Len(f)
      BY <1>0, <2>1
    <3> QED BY <1>0, <1>4, <2>1, <3>1
  <2>2. CASE j \notin 1 .. Len(d)
    <3>1. j - Len(d) \in 1 .. r /\ j = Len(d) + (j - Len(d))
      <4>1. Len(d) \in Nat /\ r \in Nat /\ Len(q) = Len(d) + r
        BY ONLY <1>0, <1>2, <1>4
      <4>2. j \in 1 .. (Len(d) + r)
        BY ONLY j \in 1 .. Len(q), <4>1
      <4> QED BY ONLY <2>2, <4>1, <4>2
    <3>2. r # 0 /\ Len(d) = n
      <4>1. r # 0
        BY ONLY <3>1
      <4> QED BY ONLY <1>2, <4>1
    <3>3. j - n \in 1 .. r /\ j - n \in 1 .. c /\ j - n \in 1 .. Len(all) /\ n + (j - n) = j
      BY <1>0, <1>2, <3>1, <3>2
    <3>4. q[j] = p[j - n] /\ p[j - n] = e[j - n] /\ e[j - n] = all[j - n] /\ g[n + (j - n)] = all[j - n]
      BY <1>1, <1>3, <1>4, <3>1, <3>2, <3>3
    <3> QED BY <3>3, <3>4
  <2> QED BY <2>1, <2>2
<1>9. KeptIs(q, x + (Len(e) - r), g, n + c)
  BY <1>6, <1>7, <1>8 DEF KeptIs
<1> QED BY <1>2, <1>4, <1>5, <1>7, <1>9 DEF q, p

\* What was held back is the end of what was read, and the longest end that begins the
\* marker; nothing before it is in the marker.
Unmarked ==
    /\ HeldIs(heldBack, fed) /\ Clean(fed, Len(heldBack))
    /\ KeptIs(data, discarded, fed, Len(fed) - Len(heldBack))
    /\ tail = << >>

\* The first marker was found at e.
Marked(e) ==
    /\ First(fed, e)
    /\ KeptIs(data, discarded, fed, e - 1)
    /\ TailIs(tail, fed, e)

CaptureInv ==
    /\ heldBack \in Seq(Byte) /\ Len(heldBack) < M
    /\ data \in Seq(Byte) /\ discarded \in Nat /\ streamEnded \in BOOLEAN
    /\ fed \in Seq(Byte) /\ tail \in Seq(Byte)
    /\ ~streamEnded => Unmarked
    /\ streamEnded => \E e : Marked(e)

\* Nothing was read yet.
LEMMA CaptureInitially == StreamInit => CaptureInv
<1> SUFFICES ASSUME StreamInit PROVE CaptureInv
  OBVIOUS
<1>0. heldBack = << >> /\ data = << >> /\ discarded = 0 /\ streamEnded = FALSE /\ fed = << >> /\ tail = << >>
  BY DEF StreamInit
<1>1. << >> \in Seq(Byte) /\ Len(<< >>) = 0 /\ M \in Nat /\ M >= 1 /\ Limit \in Nat
  BY MarkFacts, StreamsAssumption
<1>2. \A m \in 1 .. (M - 1) : ~Ends(fed, m)
  BY <1>0, <1>1 DEF Ends
<1>3. NoMark(fed)
  BY <1>0, <1>1 DEF NoMark
<1>4. KeptIs(data, discarded, fed, 0)
  BY <1>0, <1>1 DEF KeptIs
<1>5. Unmarked
  <2>1. Len(heldBack) = 0 /\ Len(fed) = 0 /\ 0 - 0 = 0 /\ 0 + 1 = 1
    BY <1>0, <1>1
  <2>2. KeptIs(data, discarded, fed, Len(fed) - Len(heldBack))
    BY <1>4, <2>1
  <2>3. \A m \in (Len(heldBack) + 1) .. (M - 1) : ~Ends(fed, m)
    BY <1>2, <2>1
  <2>4. \A j \in 1 .. Len(heldBack) : FALSE
    BY <2>1
  <2>5. Len(heldBack) <= Len(fed)
    BY <2>1
  <2>6. tail = << >>
    BY <1>0
  <2>7. heldBack \in Seq(Byte)
    BY <1>0, <1>1
  <2> QED BY ONLY <1>3, <2>2, <2>3, <2>4, <2>5, <2>6, <2>7 DEF Unmarked, HeldIs, Clean
<1>6. heldBack \in Seq(Byte) /\ Len(heldBack) < M /\ data \in Seq(Byte) /\ discarded \in Nat
      /\ fed \in Seq(Byte) /\ tail \in Seq(Byte)
  BY <1>0, <1>1
<1> QED BY <1>0, <1>5, <1>6 DEF CaptureInv

\* feed() after the marker: everything is late output.
LEMMA LateFeed ==
  ASSUME NEW f \in Seq(Byte), NEW b \in Seq(Byte), NEW d, NEW x, NEW t, NEW e,
         First(f, e), KeptIs(d, x, f, e - 1), Len(d) \in Nat, TailIs(t, f, e)
  PROVE  /\ f \o b \in Seq(Byte)
         /\ First(f \o b, e) /\ KeptIs(d, x, f \o b, e - 1) /\ TailIs(t \o b, f \o b, e)
<1> DEFINE g == f \o b
           u == t \o b
<1>p. /\ t \in Seq(Byte) /\ Len(t) = Len(f) - (e + M - 1)
      /\ \A j \in 1 .. Len(t) : t[j] = f[(e + M - 1) + j]
  BY DEF TailIs
<1> USE <1>p
<1>0. /\ Len(f) \in Nat /\ Len(b) \in Nat /\ Len(t) \in Nat /\ M \in Nat /\ M >= 1 /\ Limit \in Nat
      /\ e \in Nat /\ e >= 1 /\ e + M - 1 <= Len(f) /\ e <= Len(f)
      /\ (\A j \in 1 .. M : f[e + j - 1] = Mark[j]) /\ \A i \in 1 .. (e - 1) : ~Occurs(f, i)
  BY MarkFacts, SeqFacts, StreamsAssumption DEF First, Occurs
<1>1. /\ g \in Seq(Byte) /\ Len(g) = Len(f) + Len(b) /\ (\A j \in 1 .. Len(f) : g[j] = f[j])
      /\ \A j \in 1 .. Len(b) : g[Len(f) + j] = b[j]
  BY ONLY f \in Seq(Byte), b \in Seq(Byte), JoinFacts
<1>2. /\ u \in Seq(Byte) /\ Len(u) = Len(t) + Len(b) /\ (\A j \in 1 .. Len(t) : u[j] = t[j])
      /\ \A j \in 1 .. Len(b) : u[Len(t) + j] = b[j]
  BY ONLY t \in Seq(Byte), b \in Seq(Byte), JoinFacts
<1> HIDE DEF g, u
<1>3. First(g, e)
  <2>1. \A i \in 1 .. e : \A j \in 1 .. M : i + j - 1 \in 1 .. Len(f)
    BY <1>0
  <2>2. Occurs(g, e)
    <3>0. \A j \in 1 .. M : e + j - 1 \in 1 .. Len(f)
      BY ONLY <1>0
    <3>1. \A j \in 1 .. M : g[e + j - 1] = Mark[j]
      BY ONLY <1>0, <1>1, <3>0
    <3> QED BY <1>0, <1>1, <3>1 DEF Occurs
  <2>3. ASSUME NEW i \in 1 .. (e - 1) PROVE ~Occurs(g, i)
    <3>1. i + M - 1 <= Len(f) /\ i \in 1 .. e
      BY <1>0
    <3>2. Occurs(g, i) => Occurs(f, i)
      BY <1>1, <2>1, <3>1 DEF Occurs
    <3> QED BY <1>0, <3>2
  <2>4. e \in 1 .. Len(g)
    BY <1>0, <1>1
  <2> QED BY <2>2, <2>3, <2>4 DEF First
<1>4. KeptIs(d, x, g, e - 1)
  <2>1. Len(d) <= e - 1
    BY <1>0 DEF KeptIs
  <2>2. \A j \in 1 .. Len(d) : j \in 1 .. Len(f)
    BY <1>0, <2>1
  <2> QED BY <1>1, <2>2 DEF KeptIs
<1>5. Len(u) = Len(g) - (e + M - 1)
  BY <1>0, <1>1, <1>2
<1>6. ASSUME NEW j \in 1 .. Len(u) PROVE u[j] = g[(e + M - 1) + j]
  <2>1. CASE j \in 1 .. Len(t)
    <3>1. (e + M - 1) + j \in 1 .. Len(f)
      BY <1>0, <2>1
    <3> QED BY <1>1, <1>2, <2>1, <3>1
  <2>2. CASE j \notin 1 .. Len(t)
    <3>1. /\ j - Len(t) \in 1 .. Len(b) /\ j = Len(t) + (j - Len(t))
          /\ (e + M - 1) + j = Len(f) + (j - Len(t))
      BY <1>0, <1>2, <2>2
    <3>2. u[Len(t) + (j - Len(t))] = b[j - Len(t)] /\ g[Len(f) + (j - Len(t))] = b[j - Len(t)]
      BY <1>1, <1>2, <3>1
    <3> QED BY <3>1, <3>2
  <2> QED BY <2>1, <2>2
<1>7. TailIs(u, g, e)
  BY ONLY <1>2, <1>5, <1>6 DEF TailIs
<1>8. g \in Seq(Byte)
  BY <1>1
<1> QED BY ONLY <1>3, <1>4, <1>7, <1>8 DEF g, u

\* feed() finds the marker at a in what it looks at.
LEMMA MarkFeed ==
  ASSUME NEW f, NEW g, NEW all, NEW n, NEW k, NEW l, Piece(f, g, all, n, k, l), Clean(f, k),
         NEW a, First(all, a)
  PROVE  First(g, n + a) /\ TailIs(SubSeq(all, a + Len(Mark), Len(all)), g, n + a)
<1> DEFINE t == SubSeq(all, a + Len(Mark), Len(all))
<1>p. /\ g \in Seq(Byte) /\ all \in Seq(Byte) /\ n \in Nat /\ k \in Nat /\ l \in Nat
      /\ Len(f) = n + k /\ Len(g) = n + Len(all) /\ Len(all) = k + l
      /\ \A j \in 1 .. Len(all) : g[n + j] = all[j]
  BY DEF Piece
<1> USE <1>p
<1>0. /\ M \in Nat /\ M >= 1 /\ Len(all) \in Nat /\ a \in Nat /\ a >= 1 /\ a <= Len(all) /\ a + M - 1 <= Len(all)
      /\ a \in 1 .. Len(all) /\ Occurs(all, a) /\ \A i \in 1 .. (a - 1) : ~Occurs(all, i)
  BY MarkFacts, SeqFacts DEF First, Occurs
<1>1. /\ \A i \in 1 .. Len(g) : Occurs(g, i) => i > n
      /\ \A i \in 1 .. Len(all) : Occurs(g, n + i) <=> Occurs(all, i)
  BY PieceMarks
<1>2. First(g, n + a)
  <2>1. n + a \in 1 .. Len(g)
    BY <1>0
  <2>2. Occurs(g, n + a)
    BY <1>0, <1>1
  <2>3. ASSUME NEW i \in 1 .. ((n + a) - 1), Occurs(g, i) PROVE FALSE
    <3>1. i \in 1 .. Len(g)
      BY <1>0
    <3>2. i > n
      BY <1>1, <2>3, <3>1
    <3>3. i - n \in 1 .. Len(all) /\ i - n \in 1 .. (a - 1) /\ n + (i - n) = i
      BY <1>0, <3>2
    <3>4. Occurs(g, n + (i - n))
      BY <2>3, <3>3
    <3>5. Occurs(all, i - n)
      BY <1>1, <3>3, <3>4
    <3> QED BY <1>0, <3>3, <3>5
  <2> QED BY <2>1, <2>2, <2>3 DEF First
<1>3. /\ t \in Seq(Byte) /\ Len(t) = Len(all) - (a + M) + 1
      /\ \A j \in 1 .. (Len(all) - (a + M) + 1) : t[j] = all[(a + M) + j - 1]
  <2>1. a + M \in Nat /\ 1 <= a + M /\ a + M <= Len(all) + 1 /\ Len(all) <= Len(all)
    BY ONLY <1>0
  <2>2. t = SubSeq(all, a + M, Len(all))
    BY DEF M
  <2> HIDE DEF t
  <2> QED BY ONLY all \in Seq(Byte), <1>0, <2>1, <2>2, PartFacts
<1> HIDE DEF t
<1>4. Len(t) = Len(g) - ((n + a) + M - 1)
  BY <1>0, <1>3
<1>5. ASSUME NEW j \in 1 .. Len(t) PROVE t[j] = g[((n + a) + M - 1) + j]
  <2>1. /\ (a + M) + j - 1 \in 1 .. Len(all) /\ n + ((a + M) + j - 1) = ((n + a) + M - 1) + j
        /\ j \in 1 .. (Len(all) - (a + M) + 1)
    BY <1>0, <1>3
  <2> QED BY <1>3, <2>1
<1>6. TailIs(t, g, n + a)
  BY ONLY <1>3, <1>4, <1>5 DEF TailIs
<1> QED BY ONLY <1>2, <1>6 DEF t

\* feed() finds no marker, and holds back what may begin one.
LEMMA OpenFeed ==
  ASSUME NEW f, NEW g, NEW all, NEW n, NEW k, NEW l, Piece(f, g, all, n, k, l), Clean(f, k),
         NoMark(all)
  PROVE  /\ Suffix(all) \in 0 .. Len(all) /\ Suffix(all) < M /\ Clean(g, Suffix(all))
         /\ HeldIs(SubSeq(all, Len(all) - Suffix(all) + 1, Len(all)), g)
         /\ Len(SubSeq(all, Len(all) - Suffix(all) + 1, Len(all))) = Suffix(all)
<1> DEFINE p == Suffix(all)
           h == SubSeq(all, Len(all) - p + 1, Len(all))
<1>p. /\ g \in Seq(Byte) /\ all \in Seq(Byte) /\ n \in Nat /\ k \in Nat /\ l \in Nat
      /\ Len(f) = n + k /\ Len(g) = n + Len(all) /\ Len(all) = k + l
      /\ \A j \in 1 .. Len(all) : g[n + j] = all[j]
  BY DEF Piece
<1> USE <1>p
<1>0. /\ M \in Nat /\ M >= 1 /\ Len(all) \in Nat
  BY MarkFacts, SeqFacts
<1>1. p \in 0 .. (M - 1) /\ Ends(all, p) /\ \A m \in (p + 1) .. (M - 1) : ~Ends(all, m)
  BY SuffixIs
<1> HIDE DEF p
<1>2. /\ \A i \in 1 .. Len(g) : Occurs(g, i) => i > n
      /\ \A i \in 1 .. Len(all) : Occurs(g, n + i) <=> Occurs(all, i)
      /\ \A m \in 0 .. Len(all) : Ends(g, m) <=> Ends(all, m)
      /\ \A m \in 1 .. (M - 1) : Ends(g, m) => m <= Len(all)
  BY PieceMarks
<1>3. NoMark(g)
  <2> SUFFICES ASSUME NEW i \in 1 .. Len(g), Occurs(g, i) PROVE FALSE
    BY DEF NoMark
  <2>1. i > n
    BY <1>2
  <2>2. i - n \in 1 .. Len(all) /\ n + (i - n) = i
    BY <1>0, <2>1
  <2>3. Occurs(all, i - n)
    BY <1>2, <2>2
  <2> QED BY <2>2, <2>3 DEF NoMark
<1>4. p \in Nat /\ p <= Len(all) /\ p < M /\ \A j \in 1 .. p : all[Len(all) - p + j] = Mark[j]
  BY <1>0, <1>1 DEF Ends
<1>5. ASSUME NEW m \in (p + 1) .. (M - 1), Ends(g, m) PROVE FALSE
  <2>1. m \in 1 .. (M - 1)
    BY <1>0, <1>4
  <2>2. m <= Len(all)
    BY <1>2, <1>5, <2>1
  <2>3. m \in 0 .. Len(all)
    BY <1>0, <2>1, <2>2
  <2>4. Ends(all, m)
    BY <1>2, <1>5, <2>3
  <2> QED BY <1>1, <2>4
<1>6. /\ h \in Seq(Byte) /\ Len(h) = p /\ \A j \in 1 .. p : h[j] = all[Len(all) - p + j]
  <2> DEFINE i == Len(all) - p + 1
  <2>1. /\ i \in Nat /\ 1 <= i /\ i <= Len(all) + 1 /\ Len(all) <= Len(all) /\ Len(all) - i + 1 = p
        /\ \A j \in 1 .. p : i + j - 1 = Len(all) - p + j
    BY ONLY <1>0, <1>4
  <2> HIDE DEF i
  <2>2. h = SubSeq(all, i, Len(all))
    BY DEF i
  <2> HIDE DEF h
  <2>3. /\ h \in Seq(Byte) /\ Len(h) = Len(all) - i + 1
        /\ \A j \in 1 .. (Len(all) - i + 1) : h[j] = all[i + j - 1]
    BY ONLY all \in Seq(Byte), <1>0, <2>1, <2>2, PartFacts
  <2> QED BY ONLY <2>1, <2>3
<1> HIDE DEF h
<1>7. ASSUME NEW j \in 1 .. Len(h) PROVE g[Len(g) - Len(h) + j] = h[j] /\ h[j] = Mark[j]
  <2>1. j \in 1 .. p /\ Len(all) - p + j \in 1 .. Len(all) /\ n + (Len(all) - p + j) = Len(g) - Len(h) + j
    <3>1. /\ n \in Nat /\ Len(all) \in Nat /\ p \in Nat /\ p <= Len(all)
          /\ Len(g) = n + Len(all) /\ Len(h) = p /\ j \in 1 .. p
      BY <1>p, <1>0, <1>4, <1>6
    <3> QED BY ONLY <3>1
  <2> QED BY <1>4, <1>6, <2>1
<1>8. p \in 0 .. Len(all)
  BY <1>0, <1>4
<1>9. Clean(g, p)
  BY ONLY <1>3, <1>5 DEF Clean
<1>10. Len(h) <= Len(g)
  BY <1>0, <1>4, <1>6
<1>11. HeldIs(h, g) /\ Len(h) = p
  BY ONLY <1>6, <1>7, <1>10 DEF HeldIs
<1> QED BY ONLY <1>4, <1>8, <1>9, <1>11 DEF p, h

\* A read is a sequence of bytes.
LEMMA ReadFacts == ASSUME NEW b \in Read PROVE b \in Seq(Byte)
<1>1. PICK n \in 1 .. MaxRead : b \in [1 .. n -> Byte]
  BY DEF Read
<1>2. n \in Nat
  BY StreamsAssumption
<1> QED BY <1>1, <1>2

\* Capture::feed keeps to the first marker, whatever the pieces.
LEMMA FeedHolds == ASSUME CaptureInv, NEW b \in Read, Feed(b) PROVE CaptureInv'
<1>0. b \in Seq(Byte)
  BY ReadFacts
<1>1. /\ heldBack \in Seq(Byte) /\ Len(heldBack) < M
      /\ data \in Seq(Byte) /\ discarded \in Nat /\ streamEnded \in BOOLEAN
      /\ fed \in Seq(Byte) /\ tail \in Seq(Byte)
  BY DEF CaptureInv
<1>2. fed' = fed \o b
  BY DEF Feed
<1>3. CASE streamEnded
  <2>1. tail' = tail \o b /\ UNCHANGED <<heldBack, data, discarded, streamEnded>>
    BY <1>3 DEF Feed
  <2>2. PICK e : Marked(e)
    BY <1>3 DEF CaptureInv
  <2>3. PICK f, d, x, t : f = fed /\ d = data /\ x = discarded /\ t = tail
    OBVIOUS
  <2>4. f \in Seq(Byte) /\ Len(d) \in Nat
    BY <1>1, <2>3
  <2>5. First(f, e) /\ KeptIs(d, x, f, e - 1) /\ TailIs(t, f, e)
    BY <2>2, <2>3 DEF Marked
  <2>6. f \o b \in Seq(Byte) /\ First(f \o b, e) /\ KeptIs(d, x, f \o b, e - 1) /\ TailIs(t \o b, f \o b, e)
    BY ONLY <1>0, <2>4, <2>5, LateFeed
  <2>7. fed' = f \o b /\ tail' = t \o b /\ data' = d /\ discarded' = x /\ heldBack' = heldBack /\ streamEnded'
    BY <1>2, <1>3, <2>1, <2>3
  <2>8. Marked(e)'
    BY ONLY <2>6, <2>7 DEF Marked
  <2>9. t \o b \in Seq(Byte) /\ d \in Seq(Byte) /\ x \in Nat
    BY <1>1, <2>3, <2>6 DEF TailIs
  <2> QED BY ONLY <1>1, <2>6, <2>7, <2>8, <2>9 DEF CaptureInv
<1>4. CASE ~streamEnded
  <2>1. Unmarked
    BY <1>4 DEF CaptureInv
  <2>2. PICK f, h, d, x : f = fed /\ h = heldBack /\ d = data /\ x = discarded
    OBVIOUS
  <2> DEFINE g == f \o b
             all == h \o b
             n == Len(f) - Len(h)
             k == Len(h)
             l == Len(b)
  <2>3. /\ f \in Seq(Byte) /\ d \in Seq(Byte) /\ x \in Nat /\ tail = << >>
        /\ Clean(f, k) /\ KeptIs(d, x, f, n)
    BY <1>1, <2>1, <2>2 DEF Unmarked
  <2>4. /\ h \in Seq(Byte) /\ Len(h) <= Len(f) /\ \A j \in 1 .. Len(h) : f[Len(f) - Len(h) + j] = h[j]
    BY <2>1, <2>2 DEF Unmarked, HeldIs
  <2>5. Piece(f, g, all, n, k, l)
    BY ONLY <1>0, <2>3, <2>4, PieceFacts
  <2>6. all \in Seq(Byte) /\ Len(all) \in Nat /\ n \in Nat
    BY ONLY <2>5, SeqFacts DEF Piece
  <2>8. /\ fed' = g
        /\ \/ /\ Position(all) # 0
              /\ StreamKeep(SubSeq(all, 1, Position(all) - 1))
              /\ heldBack' = << >> /\ streamEnded' = TRUE
              /\ tail' = SubSeq(all, Position(all) + Len(Mark), Len(all))
           \/ /\ Position(all) = 0
              /\ StreamKeep(SubSeq(all, 1, Len(all) - Suffix(all)))
              /\ heldBack' = SubSeq(all, Len(all) - Suffix(all) + 1, Len(all))
              /\ UNCHANGED <<streamEnded, tail>>
    BY <1>4, <2>2 DEF Feed
  <2> HIDE DEF g, all, n, k, l
  <2>9. ASSUME NEW c \in 0 .. Len(all), StreamKeep(SubSeq(all, 1, c))
        PROVE  data' \in Seq(Byte) /\ discarded' \in Nat /\ KeptIs(data', discarded', g, n + c)
    <3>1. PICK e : e = SubSeq(all, 1, c)
      OBVIOUS
    <3>2. PICK r : r = (IF Len(e) < Limit - Len(d) THEN Len(e) ELSE Limit - Len(d))
      OBVIOUS
    <3>3. /\ d \o SubSeq(e, 1, r) \in Seq(Byte) /\ x + (Len(e) - r) \in Nat
          /\ KeptIs(d \o SubSeq(e, 1, r), x + (Len(e) - r), g, n + c)
      BY ONLY <2>3, <2>5, c \in 0 .. Len(all), <3>1, <3>2, KeepGrows
    <3>4. data' = d \o SubSeq(e, 1, r) /\ discarded' = x + (Len(e) - r)
      BY <2>2, <2>9, <3>1, <3>2 DEF StreamKeep
    <3> QED BY <3>3, <3>4
  <2>10. CASE /\ Position(all) # 0
              /\ StreamKeep(SubSeq(all, 1, Position(all) - 1))
              /\ heldBack' = << >> /\ streamEnded' = TRUE
              /\ tail' = SubSeq(all, Position(all) + Len(Mark), Len(all))
    <3>1. PICK a : a = Position(all)
      OBVIOUS
    <3>2. First(all, a)
      BY <2>6, <2>10, <3>1, PositionIs
    <3>3. First(g, n + a) /\ TailIs(SubSeq(all, a + Len(Mark), Len(all)), g, n + a)
      BY ONLY <2>3, <2>5, <3>2, MarkFeed
    <3>4. TailIs(tail', g, n + a) /\ tail' \in Seq(Byte)
      BY <2>10, <3>1, <3>3 DEF TailIs
    <3>5. a - 1 \in 0 .. Len(all) /\ n + (a - 1) = (n + a) - 1
      BY ONLY <2>6, <3>2 DEF First
    <3>6. data' \in Seq(Byte) /\ discarded' \in Nat /\ KeptIs(data', discarded', g, n + (a - 1))
      BY <2>9, <2>10, <3>1, <3>5
    <3>7. Marked(n + a)'
      BY ONLY <2>8, <3>3, <3>4, <3>5, <3>6 DEF Marked
    <3>8. heldBack' \in Seq(Byte) /\ Len(heldBack') < M /\ streamEnded' = TRUE /\ fed' \in Seq(Byte)
      BY <2>5, <2>8, <2>10, MarkFacts DEF Piece
    <3> QED BY ONLY <3>4, <3>6, <3>7, <3>8 DEF CaptureInv
  <2>11. CASE /\ Position(all) = 0
              /\ StreamKeep(SubSeq(all, 1, Len(all) - Suffix(all)))
              /\ heldBack' = SubSeq(all, Len(all) - Suffix(all) + 1, Len(all))
              /\ UNCHANGED <<streamEnded, tail>>
    <3>1. NoMark(all)
      <4>1. Len(all) \in Nat /\ ~First(all, 0)
        BY <2>6 DEF First
      <4> QED BY <2>6, <2>11, <4>1, PositionIs
    <3>2. PICK p : p = Suffix(all)
      OBVIOUS
    <3>3. /\ p \in 0 .. Len(all) /\ p < M /\ Clean(g, p)
          /\ HeldIs(SubSeq(all, Len(all) - p + 1, Len(all)), g)
          /\ Len(SubSeq(all, Len(all) - p + 1, Len(all))) = p
      BY ONLY <2>3, <2>5, <3>1, <3>2, OpenFeed
    <3>4. HeldIs(heldBack', g) /\ Len(heldBack') = p /\ heldBack' \in Seq(Byte)
      BY <2>11, <3>2, <3>3 DEF HeldIs
    <3>5. Len(all) - p \in 0 .. Len(all) /\ n + (Len(all) - p) = Len(g) - p
      BY ONLY <2>5, <2>6, <3>3 DEF Piece
    <3>6. data' \in Seq(Byte) /\ discarded' \in Nat /\ KeptIs(data', discarded', g, n + (Len(all) - p))
      BY <2>9, <2>11, <3>2, <3>5
    <3>7. tail' = << >> /\ streamEnded' = FALSE /\ tail' \in Seq(Byte)
      BY <1>1, <1>4, <2>3, <2>11
    <3>8. Unmarked'
      BY ONLY <2>8, <3>3, <3>4, <3>5, <3>6, <3>7 DEF Unmarked
    <3>9. fed' \in Seq(Byte)
      BY <2>5, <2>8 DEF Piece
    <3> QED BY ONLY <3>3, <3>4, <3>6, <3>7, <3>8, <3>9 DEF CaptureInv
  <2> QED BY <2>8, <2>10, <2>11
<1> QED BY <1>1, <1>3, <1>4

\* Capture: the marker, what is kept, what is counted and what is late.
LEMMA BarrierHolds == CaptureInv => BarrierExact /\ HeldBackOnlyForMark
<1> SUFFICES ASSUME CaptureInv PROVE BarrierExact /\ HeldBackOnlyForMark
  OBVIOUS
<1>0. /\ heldBack \in Seq(Byte) /\ data \in Seq(Byte) /\ discarded \in Nat /\ streamEnded \in BOOLEAN
      /\ fed \in Seq(Byte) /\ tail \in Seq(Byte) /\ Len(heldBack) < M
  BY DEF CaptureInv
<1>1. PICK f, d, x, h, t : f = fed /\ d = data /\ x = discarded /\ h = heldBack /\ t = tail
  OBVIOUS
<1>2. /\ h \in Seq(Byte) /\ d \in Seq(Byte) /\ x \in Nat /\ f \in Seq(Byte) /\ t \in Seq(Byte) /\ Len(h) < M
      /\ Limit \in Nat /\ Len(f) \in Nat /\ Len(h) \in Nat /\ Len(d) \in Nat /\ 1 \in Nat
      /\ M \in Nat /\ M >= 1 /\ Mark \in Seq(Byte) /\ Len(Mark) = M
  BY <1>0, <1>1, StreamsAssumption, SeqFacts, MarkFacts DEF M
<1>3. ASSUME NEW n \in 0 .. Len(f), KeptIs(d, x, f, n)
      PROVE  d = SubSeq(f, 1, IF n < Limit THEN n ELSE Limit) /\ Len(d) + x = n
  <2> DEFINE m == IF n < Limit THEN n ELSE Limit
  <2>1. Len(d) = m /\ (\A j \in 1 .. Len(d) : d[j] = f[j]) /\ Len(d) + x = n
    BY ONLY <1>3 DEF KeptIs
  <2>2. m \in Nat /\ m <= Len(f) /\ 1 <= m + 1 /\ m - 1 + 1 = m /\ 1 <= 1
    BY ONLY <1>2, n \in 0 .. Len(f)
  <2> HIDE DEF m
  <2>3. /\ SubSeq(f, 1, m) \in Seq(Byte) /\ Len(SubSeq(f, 1, m)) = m - 1 + 1
        /\ \A j \in 1 .. (m - 1 + 1) : SubSeq(f, 1, m)[j] = f[1 + j - 1]
    BY ONLY <1>2, <2>2, PartFacts
  <2>4. Len(d) = Len(SubSeq(f, 1, m)) /\ \A j \in 1 .. Len(d) : d[j] = SubSeq(f, 1, m)[j]
    BY ONLY <2>1, <2>2, <2>3
  <2>5. d = SubSeq(f, 1, m)
    BY ONLY <1>2, <2>3, <2>4, SameBytes
  <2> QED BY ONLY <2>1, <2>5 DEF m
<1>4. CASE streamEnded
  <2>1. PICK e : Marked(e)
    BY <1>4 DEF CaptureInv
  <2>2. First(f, e) /\ KeptIs(d, x, f, e - 1) /\ TailIs(t, f, e)
    BY <1>1, <2>1 DEF Marked
  <2>3. Position(f) = e /\ e # 0
    BY ONLY <1>2, <2>2, PositionOf
  <2>4. e \in Nat /\ e >= 1 /\ e <= Len(f) /\ e - 1 \in 0 .. Len(f) /\ e + M - 1 <= Len(f)
    BY ONLY <1>2, <2>2 DEF First, Occurs
  <2>5. d = SubSeq(f, 1, IF e - 1 < Limit THEN e - 1 ELSE Limit) /\ Len(d) + x = e - 1
    BY <1>3, <2>2, <2>4
  <2>6. t = SubSeq(f, e + M, Len(f))
    <3> DEFINE u == SubSeq(f, e + M, Len(f))
    <3>1. e + M \in Nat /\ 1 <= e + M /\ e + M <= Len(f) + 1 /\ Len(f) <= Len(f)
      BY ONLY <1>2, <2>4
    <3>2. u \in Seq(Byte) /\ Len(u) = Len(f) - (e + M) + 1
          /\ \A j \in 1 .. (Len(f) - (e + M) + 1) : u[j] = f[(e + M) + j - 1]
      BY ONLY <1>2, <3>1, PartFacts
    <3> HIDE DEF u
    <3>3. Len(t) = Len(u)
      BY ONLY <1>2, <2>2, <2>4, <3>2 DEF TailIs
    <3>4. ASSUME NEW j \in 1 .. Len(t) PROVE t[j] = u[j]
      <4>1. (e + M - 1) + j = (e + M) + j - 1 /\ j \in 1 .. (Len(f) - (e + M) + 1)
        BY ONLY <1>2, <2>4, <3>2, <3>3, j \in 1 .. Len(t)
      <4>2. t[j] = f[(e + M - 1) + j]
        BY ONLY <2>2, j \in 1 .. Len(t) DEF TailIs
      <4> QED BY ONLY <3>2, <4>1, <4>2
    <3>5. t = u
      BY ONLY <1>2, <3>2, <3>3, <3>4, SameBytes
    <3> QED BY <3>5 DEF u
  <2> QED BY <1>1, <1>2, <1>4, <2>3, <2>5, <2>6 DEF BarrierExact, HeldBackOnlyForMark, Kept
<1>5. CASE ~streamEnded
  <2>1. HeldIs(h, f) /\ Clean(f, Len(h)) /\ KeptIs(d, x, f, Len(f) - Len(h)) /\ t = << >>
    BY <1>1, <1>5 DEF CaptureInv, Unmarked
  <2>2. Position(f) = 0
    BY ONLY <1>2, <2>1, PositionOf DEF Clean
  <2>3. Len(f) - Len(h) \in 0 .. Len(f) /\ Len(h) <= Len(f)
    BY ONLY <1>2, <2>1 DEF HeldIs
  <2> DEFINE n == Len(f) - Len(h)
  <2>4. d = SubSeq(f, 1, IF n < Limit THEN n ELSE Limit) /\ Len(d) + x = n
    BY <1>3, <2>1, <2>3
  <2>5. Len(d) + x + Len(h) = Len(f)
    BY ONLY <1>2, <2>3, <2>4
  <2>6. IsSuffix(h, f)
    <3>1. \A j \in 1 .. Len(h) : f[Len(f) - Len(h) + j] = h[j]
      BY ONLY <2>1 DEF HeldIs
    <3> QED BY ONLY <1>2, <2>3, <3>1, EndsIs
  <2>7. IsPrefix(h, Mark)
    <3> DEFINE m == Len(h)
               a == SubSeq(h, 1, m)
               b == SubSeq(Mark, 1, m)
    <3>1. m \in Nat /\ 1 <= m + 1 /\ m - 1 + 1 = m /\ 1 <= 1 /\ m <= Len(h) /\ m <= Len(Mark)
      BY ONLY <1>2
    <3> HIDE DEF m
    <3>2. a \in Seq(Byte) /\ Len(a) = m - 1 + 1 /\ \A j \in 1 .. (m - 1 + 1) : a[j] = h[1 + j - 1]
      BY ONLY <1>2, <3>1, PartFacts
    <3>3. b \in Seq(Byte) /\ Len(b) = m - 1 + 1 /\ \A j \in 1 .. (m - 1 + 1) : b[j] = Mark[1 + j - 1]
      BY ONLY <1>2, <3>1, PartFacts
    <3>4. \A j \in 1 .. m : h[j] = Mark[j]
      BY ONLY <2>1 DEF HeldIs, m
    <3> HIDE DEF a, b
    <3>5. Len(a) = Len(b) /\ \A j \in 1 .. Len(a) : a[j] = b[j]
      BY ONLY <3>1, <3>2, <3>3, <3>4
    <3>6. a = b
      BY ONLY <3>2, <3>3, <3>5, SameBytes
    <3> QED BY ONLY <3>1, <3>6 DEF IsPrefix, a, b, m
  <2>8. data = Kept(Len(fed) - Len(heldBack))
    BY ONLY <1>1, <2>4 DEF Kept
  <2>9. Len(data) + discarded + Len(heldBack) = Len(fed) /\ tail = << >> /\ Position(fed) = 0
    BY ONLY <1>1, <2>1, <2>2, <2>5
  <2>10. streamEnded = FALSE
    BY <1>0, <1>5
  <2>11. BarrierExact
    BY ONLY <2>8, <2>9, <2>10 DEF BarrierExact
  <2> QED BY ONLY <1>1, <2>6, <2>7, <2>11 DEF HeldBackOnlyForMark
<1> QED BY <1>0, <1>4, <1>5

(***************************************************************************)
(* Text: what decoding the pieces gives                                    *)
(***************************************************************************)

\* The byte at i begins a character that n of the next bytes continue, and no more.
Continues(s, i, n) ==
    /\ n \in 0 .. (Length(s[i]) - 1) /\ i + n <= Len(s)
    /\ \A j \in 1 .. n : s[i + j] = "k"
    /\ n < Length(s[i]) - 1 => i + n = Len(s) \/ s[i + n + 1] # "k"

\* A character has one to three bytes.
LEMMA LengthFacts == \A b : Length(b) \in 1 .. 3 /\ (b = "k" => Length(b) = 1)
  BY DEF Length

\* How many bytes continue a character is determined.
LEMMA ContinuesOnce ==
  ASSUME NEW s \in Seq(Byte), NEW i \in 1 .. Len(s), NEW n, NEW m, Continues(s, i, n), Continues(s, i, m)
  PROVE  n = m
<1>0. Length(s[i]) \in Nat /\ Len(s) \in Nat /\ n \in Nat /\ m \in Nat /\ i \in Nat
  BY LengthFacts, SeqFacts DEF Continues
<1>1. ASSUME NEW x, NEW y, Continues(s, i, x), Continues(s, i, y), x < y PROVE FALSE
  <2>1. /\ x \in Nat /\ y \in Nat /\ y <= Length(s[i]) - 1 /\ i + y <= Len(s)
        /\ \A j \in 1 .. y : s[i + j] = "k"
    BY <1>0, <1>1 DEF Continues
  <2>2. x < Length(s[i]) - 1 /\ i + x # Len(s) /\ x + 1 \in 1 .. y /\ i + (x + 1) = i + x + 1
    BY <1>0, <1>1, <2>1
  <2>3. s[i + x + 1] # "k"
    BY <1>1, <2>2 DEF Continues
  <2> QED BY <2>1, <2>2, <2>3
<1>2. ~(n < m) /\ ~(m < n)
  BY <1>1
<1> QED BY <1>0, <1>2

\* ... and there is such a number.
LEMMA ContinuesSome ==
  ASSUME NEW s \in Seq(Byte), NEW i \in 1 .. Len(s)
  PROVE  \E n : Continues(s, i, n)
<1> DEFINE l == Length(s[i])
           c == Len(s)
<1>0. l \in 1 .. 3 /\ c \in Nat /\ i \in Nat /\ i <= c
  BY LengthFacts, SeqFacts
<1> HIDE DEF l, c
<1>1. CASE l = 1 \/ i = c \/ s[i + 1] # "k"
  <2>1. Continues(s, i, 0)
    BY <1>0, <1>1 DEF Continues, l, c
  <2> QED BY <2>1
<1>2. CASE ~(l = 1 \/ i = c \/ s[i + 1] # "k") /\ (l = 2 \/ i + 1 = c \/ s[i + 2] # "k")
  <2>1. Continues(s, i, 1)
    BY <1>0, <1>2 DEF Continues, l, c
  <2> QED BY <2>1
<1>3. CASE ~(l = 1 \/ i = c \/ s[i + 1] # "k") /\ ~(l = 2 \/ i + 1 = c \/ s[i + 2] # "k")
  <2>1. Continues(s, i, 2)
    BY <1>0, <1>3 DEF Continues, l, c
  <2> QED BY <2>1
<1> QED BY <1>1, <1>2, <1>3

\* What Continued computes.
LEMMA ContinuedIs ==
  ASSUME NEW s \in Seq(Byte), NEW i \in 1 .. Len(s)
  PROVE  Continues(s, i, Continued(s, i))
<1> DEFINE Fits(n) == i + n <= Len(s) /\ \A j \in i + 1 .. i + n : s[j] = "k"
           Most(n) == Fits(n) /\ \A m \in n + 1 .. Length(s[i]) - 1 : ~Fits(m)
<1>0. Length(s[i]) \in 1 .. 3 /\ Len(s) \in Nat /\ i \in Nat
  BY LengthFacts, SeqFacts
<1>1. \A n \in Nat : Fits(n) <=> i + n <= Len(s) /\ \A j \in 1 .. n : s[i + j] = "k"
  <2> SUFFICES ASSUME NEW n \in Nat
               PROVE  (\A j \in i + 1 .. i + n : s[j] = "k") <=> \A j \in 1 .. n : s[i + j] = "k"
    OBVIOUS
  <2>1. (\A j \in 1 .. n : i + j \in i + 1 .. i + n) /\ \A j \in i + 1 .. i + n : j - i \in 1 .. n /\ i + (j - i) = j
    BY <1>0
  <2> QED BY <2>1
<1> HIDE DEF Fits
<1>2. ASSUME NEW n \in 0 .. (Length(s[i]) - 1) PROVE Most(n) <=> Continues(s, i, n)
  <2>0. n \in Nat /\ n + 1 \in Nat /\ i + (n + 1) = i + n + 1
    BY <1>0
  <2>1. ASSUME Most(n) PROVE Continues(s, i, n)
    <3>1. ASSUME n < Length(s[i]) - 1, i + n # Len(s), s[i + n + 1] = "k" PROVE FALSE
      <4>1. n + 1 \in n + 1 .. Length(s[i]) - 1 /\ i + (n + 1) <= Len(s)
        BY <1>0, <1>1, <2>0, <2>1, <3>1
      <4>2. \A j \in 1 .. (n + 1) : j \in 1 .. n \/ j = n + 1
        BY <2>0
      <4>3. Fits(n + 1)
        BY <1>1, <2>0, <2>1, <3>1, <4>1, <4>2
      <4> QED BY <2>1, <4>1, <4>3
    <3> QED BY <1>1, <2>0, <2>1, <3>1 DEF Continues
  <2>2. ASSUME Continues(s, i, n) PROVE Most(n)
    <3>1. Fits(n)
      BY <1>1, <2>0, <2>2 DEF Continues
    <3>2. ASSUME NEW m \in n + 1 .. Length(s[i]) - 1, Fits(m) PROVE FALSE
      <4>1. m \in Nat /\ n + 1 \in 1 .. m /\ n < Length(s[i]) - 1 /\ i + n # Len(s)
        BY <1>0, <1>1, <2>0, <3>2
      <4>2. s[i + (n + 1)] = "k"
        BY <1>1, <3>2, <4>1
      <4> QED BY <2>0, <2>2, <4>1, <4>2 DEF Continues
    <3> QED BY <3>1, <3>2
  <2> QED BY <2>1, <2>2
<1>3. Continued(s, i) = CHOOSE n \in 0 .. Length(s[i]) - 1 : Most(n)
  BY DEF Continued, Fits
<1>4. PICK n : Continues(s, i, n)
  BY ContinuesSome
<1>5. n \in 0 .. Length(s[i]) - 1 /\ Most(n)
  BY <1>2, <1>4 DEF Continues
<1> HIDE DEF Most
<1>6. Continued(s, i) \in 0 .. Length(s[i]) - 1 /\ Most(Continued(s, i))
  BY <1>3, <1>5
<1> QED BY <1>2, <1>6

\* ... and it is determined by that.
LEMMA ContinuedOf ==
  ASSUME NEW s \in Seq(Byte), NEW i \in 1 .. Len(s), NEW n, Continues(s, i, n)
  PROVE  Continued(s, i) = n
  BY ContinuedIs, ContinuesOnce

\* Scan's recursion.
NoText == [text |-> << >>, rest |-> << >>, replaced |-> FALSE]
Ahead(symbols, bad, r) == [text |-> symbols \o r.text, rest |-> r.rest, replaced |-> r.replaced \/ bad]
ScanStep(s, end, f, i) ==
    IF i > Len(s) THEN NoText
    ELSE IF s[i] # "k" /\ Continued(s, i) = Length(s[i]) - 1
    THEN Ahead(<<s[i]>>, FALSE, f[i + Continued(s, i) + 1])
    ELSE IF i + Continued(s, i) < Len(s) \/ s[i] = "k"
    THEN Ahead(<<"?">>, TRUE, f[i + Continued(s, i) + 1])
    ELSE IF end THEN [text |-> <<"?">>, rest |-> << >>, replaced |-> TRUE]
    ELSE [text |-> << >>, rest |-> SubSeq(s, i, Len(s)), replaced |-> FALSE]

\* Each step looks ahead only.
LEMMA ScanLocal ==
  ASSUME NEW s \in Seq(Byte), NEW end, NEW f, NEW g, NEW i \in 1 .. (Len(s) + 1),
         \A j \in (i + 1) .. (Len(s) + 1) : f[j] = g[j]
  PROVE  ScanStep(s, end, f, i) = ScanStep(s, end, g, i)
<1>0. Len(s) \in Nat /\ i \in Nat
  BY SeqFacts
<1>1. CASE i > Len(s)
  BY <1>1 DEF ScanStep
<1>2. CASE ~(i > Len(s))
  <2>1. i \in 1 .. Len(s)
    BY <1>0, <1>2
  <2>2. Continues(s, i, Continued(s, i))
    BY <2>1, ContinuedIs
  <2>3. Continued(s, i) \in Nat /\ i + Continued(s, i) <= Len(s)
    BY <2>2, LengthFacts DEF Continues
  <2>4. i + Continued(s, i) + 1 \in (i + 1) .. (Len(s) + 1)
    BY <1>0, <2>3
  <2>5. f[i + Continued(s, i) + 1] = g[i + Continued(s, i) + 1]
    BY <2>4
  <2> QED BY <2>5 DEF ScanStep
<1> QED BY <1>1, <1>2

\* The recursion defines a function.
LEMMA ScanDefined ==
  ASSUME NEW s \in Seq(Byte), NEW end
  PROVE  \E f : /\ \A i \in 1 .. (Len(s) + 1) : f[i] = ScanStep(s, end, f, i)
                /\ Scan(s, end) = f[1]
<1> DEFINE n == Len(s)
           Body(f) == [i \in 1 .. n + 1 |-> ScanStep(s, end, f, i)]
           Good(f, k) == \A i \in 1 .. (n + 1) : i + k > n => f[i] = ScanStep(s, end, f, i)
           S == {k \in Nat : \E f : Good(f, k)}
<1>0. n \in Nat
  BY SeqFacts
<1>1. 0 \in S
  <2> DEFINE f == [i \in 1 .. n + 1 |-> NoText]
  <2>1. Good(f, 0)
    BY <1>0 DEF ScanStep
  <2> HIDE DEF Good, f
  <2> QED BY <2>1
<1>2. ASSUME NEW k \in Nat, k \in S PROVE k + 1 \in S
  <2>1. PICK f : Good(f, k)
    BY <1>2
  <2> DEFINE h == Body(f)
  <2>2. ASSUME NEW i \in 1 .. (n + 1), i + (k + 1) > n PROVE h[i] = ScanStep(s, end, h, i)
    <3>1. \A j \in (i + 1) .. (n + 1) : j \in 1 .. (n + 1) /\ j + k > n
      BY <1>0, <2>2
    <3>2. \A j \in (i + 1) .. (n + 1) : h[j] = f[j]
      BY <2>1, <3>1
    <3>3. h[i] = ScanStep(s, end, f, i)
      OBVIOUS
    <3> HIDE DEF h
    <3>4. ScanStep(s, end, h, i) = ScanStep(s, end, f, i)
      BY <3>2, ScanLocal
    <3> QED BY <3>3, <3>4
  <2> HIDE DEF h
  <2>3. Good(h, k + 1)
    BY <2>2
  <2> HIDE DEF Good
  <2> QED BY <2>3
<1>3. PICK f : Good(f, n)
  <2>1. n \in S
    <3> HIDE DEF S
    <3> QED BY <1>0, <1>1, <1>2, Data!InductionNat
  <2> HIDE DEF Good
  <2> QED BY <2>1
<1>4. \E h : h = Body(h)
  <2> DEFINE h == Body(f)
  <2>1. ASSUME NEW i \in 1 .. (n + 1) PROVE h[i] = f[i]
    BY <1>0, <1>3
  <2>2. ASSUME NEW i \in 1 .. (n + 1) PROVE ScanStep(s, end, f, i) = ScanStep(s, end, h, i)
    <3>1. \A j \in (i + 1) .. (n + 1) : j \in 1 .. (n + 1)
      BY <1>0
    <3> HIDE DEF h
    <3>2. \A j \in (i + 1) .. (n + 1) : f[j] = h[j]
      BY <2>1, <3>1
    <3> QED BY <3>2, ScanLocal
  <2>3. h = Body(h)
    <3>1. Body(f) = Body(h)
      <4> HIDE DEF h
      <4> QED BY <2>2
    <3> QED BY <3>1
  <2> QED BY <2>3
<1> DEFINE g == CHOOSE h : h = Body(h)
<1>5. g = Body(g)
  <2> HIDE DEF Body
  <2> QED BY <1>4
<1>6. Scan(s, end) = g[1]
  BY DEF Scan, ScanStep, Ahead, NoText
<1>7. \A i \in 1 .. (n + 1) : g[i] = ScanStep(s, end, g, i)
  <2> HIDE DEF g
  <2> QED BY <1>5
<1> HIDE DEF g
<1> QED BY <1>6, <1>7

\* t is what is left of s behind the first d bytes.
Behind(s, t, d) ==
    /\ s \in Seq(Byte) /\ t \in Seq(Byte) /\ d \in Nat /\ Len(s) = d + Len(t)
    /\ \A j \in 1 .. Len(t) : s[d + j] = t[j]

\* SubSeq gives what is left.
LEMMA BehindPart ==
  ASSUME NEW s \in Seq(Byte), NEW d \in 0 .. Len(s)
  PROVE  Behind(s, SubSeq(s, d + 1, Len(s)), d)
<1>0. /\ Len(s) \in Nat /\ d \in Nat /\ d + 1 \in Nat /\ 1 <= d + 1 /\ d + 1 <= Len(s) + 1 /\ Len(s) <= Len(s)
      /\ Len(s) - (d + 1) + 1 = Len(s) - d /\ \A j \in 1 .. (Len(s) - d) : (d + 1) + j - 1 = d + j
  BY SeqFacts
<1> DEFINE t == SubSeq(s, d + 1, Len(s))
<1>1. /\ t \in Seq(Byte) /\ Len(t) = Len(s) - (d + 1) + 1
      /\ \A j \in 1 .. (Len(s) - (d + 1) + 1) : t[j] = s[(d + 1) + j - 1]
  BY ONLY s \in Seq(Byte), <1>0, PartFacts, ZenonT(40)
<1> HIDE DEF t
<1>2. Behind(s, t, d)
  BY <1>0, <1>1 DEF Behind
<1> QED BY <1>2 DEF t

\* What is left is determined.
LEMMA BehindSame ==
  ASSUME NEW s, NEW t, NEW u, NEW d, Behind(s, t, d), Behind(s, u, d)
  PROVE  t = u
<1>1. /\ t \in Seq(Byte) /\ u \in Seq(Byte) /\ Len(t) \in Nat /\ Len(u) \in Nat /\ Len(t) = Len(u)
  BY SeqFacts DEF Behind
<1>2. \A j \in 1 .. Len(t) : t[j] = u[j]
  BY <1>1 DEF Behind
<1> QED BY <1>1, <1>2, SameBytes

\* What is left of what is left.
LEMMA BehindTwice ==
  ASSUME NEW s, NEW t, NEW u, NEW d, NEW e, Behind(s, t, d), Behind(t, u, e)
  PROVE  Behind(s, u, d + e)
<1>1. /\ s \in Seq(Byte) /\ t \in Seq(Byte) /\ u \in Seq(Byte) /\ d \in Nat /\ e \in Nat
      /\ Len(s) = d + Len(t) /\ Len(t) = e + Len(u) /\ Len(u) \in Nat
      /\ (\A j \in 1 .. Len(t) : s[d + j] = t[j]) /\ \A j \in 1 .. Len(u) : t[e + j] = u[j]
  BY SeqFacts DEF Behind
<1>2. ASSUME NEW j \in 1 .. Len(u) PROVE s[(d + e) + j] = u[j]
  <2>1. e + j \in 1 .. Len(t) /\ d + (e + j) = (d + e) + j
    BY <1>1
  <2> QED BY <1>1, <2>1
<1> QED BY <1>1, <1>2 DEF Behind

\* What continues a character is the same in what is left.
LEMMA BehindContinued ==
  ASSUME NEW s, NEW t, NEW d, Behind(s, t, d), NEW i \in 1 .. Len(t)
  PROVE  Continued(s, d + i) = Continued(t, i)
<1>1. /\ s \in Seq(Byte) /\ t \in Seq(Byte) /\ d \in Nat /\ Len(s) = d + Len(t) /\ Len(t) \in Nat /\ i \in Nat
      /\ \A j \in 1 .. Len(t) : s[d + j] = t[j]
  BY SeqFacts DEF Behind
<1> DEFINE n == Continued(t, i)
<1>2. Continues(t, i, n)
  BY <1>1, ContinuedIs
<1> HIDE DEF n
<1>3. /\ n \in Nat /\ n <= Length(t[i]) - 1 /\ i + n <= Len(t) /\ (\A j \in 1 .. n : t[i + j] = "k")
      /\ n < Length(t[i]) - 1 => i + n = Len(t) \/ t[i + n + 1] # "k"
  BY <1>2, LengthFacts DEF Continues
<1>4. s[d + i] = t[i] /\ d + i \in 1 .. Len(s)
  BY <1>1
<1>5. ASSUME NEW j \in 1 .. n PROVE s[(d + i) + j] = "k"
  <2>1. i + j \in 1 .. Len(t) /\ d + (i + j) = (d + i) + j
    BY <1>1, <1>3
  <2> QED BY <1>1, <1>3, <2>1
<1>6. ASSUME n < Length(t[i]) - 1, (d + i) + n # Len(s) PROVE s[(d + i) + n + 1] # "k"
  <2>0. /\ n \in Nat /\ i + n <= Len(t) /\ (d + i) + n # d + Len(t)
        /\ i \in Nat /\ d \in Nat /\ Len(t) \in Nat
    BY ONLY <1>1, <1>3, <1>6
  <2>1. i + n # Len(t)
    BY ONLY <2>0
  <2>2. i + n + 1 \in 1 .. Len(t) /\ d + (i + n + 1) = (d + i) + n + 1
    BY ONLY <2>0, <2>1
  <2> QED BY <1>1, <1>3, <1>6, <2>1, <2>2
<1>7. (d + i) + n <= Len(s)
  BY <1>1, <1>3
<1>8. Continues(s, d + i, n)
  BY <1>3, <1>4, <1>5, <1>6, <1>7, LengthFacts DEF Continues
<1>9. Continued(s, d + i) = n
  BY <1>1, <1>4, <1>8, ContinuedOf
<1> QED BY <1>9 DEF n

\* Scanning from d + 1 on is scanning what is left there.
LEMMA ScanBehind ==
  ASSUME NEW s, NEW t, NEW d, Behind(s, t, d), NEW end, NEW f,
         \A i \in 1 .. (Len(s) + 1) : f[i] = ScanStep(s, end, f, i)
  PROVE  f[d + 1] = Scan(t, end)
<1>1. /\ s \in Seq(Byte) /\ t \in Seq(Byte) /\ d \in Nat /\ Len(s) = d + Len(t) /\ Len(t) \in Nat
      /\ \A j \in 1 .. Len(t) : s[d + j] = t[j]
  BY SeqFacts DEF Behind
<1>2. PICK g : /\ \A i \in 1 .. (Len(t) + 1) : g[i] = ScanStep(t, end, g, i)
               /\ Scan(t, end) = g[1]
  BY <1>1, ScanDefined
<1> DEFINE S == {k \in Nat : \A i \in 1 .. (Len(t) + 1) : i + k > Len(t) => f[d + i] = g[i]}
<1>3. ASSUME NEW i \in 1 .. (Len(t) + 1), \A j \in (i + 1) .. (Len(t) + 1) : f[d + j] = g[j]
      PROVE  f[d + i] = g[i]
  <2>1. f[d + i] = ScanStep(s, end, f, d + i) /\ g[i] = ScanStep(t, end, g, i)
    <3>1. d + i \in 1 .. (Len(s) + 1)
      BY <1>1
    <3> QED BY <1>2, <3>1
  <2>2. CASE i > Len(t)
    <3>1. d + i > Len(s)
      BY <1>1, <2>2
    <3> QED BY <2>1, <2>2, <3>1 DEF ScanStep
  <2>3. CASE ~(i > Len(t))
    <3>1. i \in 1 .. Len(t) /\ ~(d + i > Len(s))
      BY <1>1, <2>3
    <3> DEFINE n == Continued(t, i)
    <3>2. Continued(s, d + i) = n /\ s[d + i] = t[i]
      BY <1>1, <3>1, BehindContinued
    <3>3. Continues(t, i, n)
      BY <1>1, <3>1, ContinuedIs
    <3>4. n \in Nat /\ i + n <= Len(t)
      BY <3>3, LengthFacts DEF Continues
    <3>5. PICK e : e = i - 1
      OBVIOUS
    <3>6. SubSeq(s, d + i, Len(s)) = SubSeq(t, i, Len(t))
      <4>1. e \in 0 .. Len(t) /\ d + e \in 0 .. Len(s) /\ e + 1 = i /\ (d + e) + 1 = d + i
        BY <1>1, <3>1, <3>5
      <4>2. Behind(t, SubSeq(t, e + 1, Len(t)), e) /\ Behind(s, SubSeq(s, (d + e) + 1, Len(s)), d + e)
        BY <1>1, <4>1, BehindPart
      <4>3. Behind(s, SubSeq(t, e + 1, Len(t)), d + e)
        BY <4>2, BehindTwice
      <4>4. SubSeq(t, e + 1, Len(t)) = SubSeq(s, (d + e) + 1, Len(s))
        BY <4>2, <4>3, BehindSame
      <4> QED BY <4>1, <4>4
    <3> HIDE DEF n
    <3>7. f[(d + i) + n + 1] = g[i + n + 1]
      <4>1. i + n + 1 \in (i + 1) .. (Len(t) + 1) /\ d + (i + n + 1) = (d + i) + n + 1
        BY <1>1, <3>1, <3>4
      <4> QED BY <1>3, <4>1
    <3>8. (d + i) + n < Len(s) <=> i + n < Len(t)
      BY <1>1, <3>1, <3>4
    <3>9. ScanStep(s, end, f, d + i) = ScanStep(t, end, g, i)
      BY <3>1, <3>2, <3>6, <3>7, <3>8, <2>3 DEF ScanStep, n
    <3> QED BY <2>1, <3>9
  <2> QED BY <2>2, <2>3
<1>4. 0 \in S
  <2>1. \A i \in 1 .. (Len(t) + 1) : i + 0 > Len(t) => \A j \in (i + 1) .. (Len(t) + 1) : FALSE
    BY <1>1
  <2> QED BY <1>3, <2>1
<1>5. ASSUME NEW k \in Nat, k \in S PROVE k + 1 \in S
  <2> SUFFICES ASSUME NEW i \in 1 .. (Len(t) + 1), i + (k + 1) > Len(t) PROVE f[d + i] = g[i]
    OBVIOUS
  <2>1. \A j \in (i + 1) .. (Len(t) + 1) : j \in 1 .. (Len(t) + 1) /\ j + k > Len(t)
    BY <1>1
  <2>2. \A j \in (i + 1) .. (Len(t) + 1) : f[d + j] = g[j]
    BY <1>5, <2>1
  <2> QED BY <1>3, <2>2
<1>6. Len(t) \in S
  <2> HIDE DEF S
  <2> QED BY <1>1, <1>4, <1>5, Data!InductionNat
<1>7. 1 \in 1 .. (Len(t) + 1) /\ 1 + Len(t) > Len(t)
  BY <1>1
<1> QED BY <1>2, <1>6, <1>7

\* A first character, or invalid part, that no later byte can change; the n bytes that continue
\* its first one; and what it gives.
Decided(s, n) == Continues(s, 1, n) /\ (n = Length(s[1]) - 1 \/ 1 + n < Len(s))
Symbol(s, n) == IF s[1] # "k" /\ n = Length(s[1]) - 1 THEN s[1] ELSE "?"

\* Scan, one character at a time.
LEMMA ScanDecided ==
  ASSUME NEW s \in Seq(Byte), s # << >>, NEW n, Decided(s, n), NEW t, Behind(s, t, n + 1), NEW end
  PROVE  Scan(s, end) = Ahead(<<Symbol(s, n)>>, Symbol(s, n) = "?", Scan(t, end))
<1>0. Len(s) \in Nat /\ 1 \in 1 .. Len(s) /\ ~(1 > Len(s)) /\ 1 \in 1 .. (Len(s) + 1)
  <2>1. Len(s) \in Nat /\ Len(s) # 0
    BY SeqFacts
  <2> QED BY <2>1
<1>1. PICK f : /\ \A i \in 1 .. (Len(s) + 1) : f[i] = ScanStep(s, end, f, i)
               /\ Scan(s, end) = f[1]
  BY ScanDefined
<1>2. Continued(s, 1) = n /\ n \in Nat
  <2>1. Continues(s, 1, n)
    BY DEF Decided
  <2>2. n \in Nat
    BY <2>1, LengthFacts DEF Continues
  <2> QED BY <1>0, <2>1, <2>2, ContinuedOf
<1>3. f[(n + 1) + 1] = Scan(t, end) /\ (n + 1) + 1 = 1 + n + 1
  BY <1>1, <1>2, ScanBehind
<1>4. Scan(s, end) = ScanStep(s, end, f, 1)
  BY <1>0, <1>1
<1>5. s[1] # "?"
  <2>1. s[1] \in {"a", "L", "T", "k"}
    BY <1>0, SeqFacts, StreamsAssumption
  <2> QED BY <2>1
<1>6. n = Length(s[1]) - 1 \/ 1 + n < Len(s)
  BY DEF Decided
<1>7. CASE s[1] # "k" /\ n = Length(s[1]) - 1
  <2>1. Symbol(s, n) = s[1] /\ (Symbol(s, n) = "?") = FALSE
    BY <1>5, <1>7 DEF Symbol
  <2> QED BY <1>0, <1>2, <1>3, <1>4, <1>7, <2>1 DEF ScanStep
<1>8. CASE ~(s[1] # "k" /\ n = Length(s[1]) - 1)
  <2>1. Symbol(s, n) = "?" /\ (Symbol(s, n) = "?") = TRUE
    BY <1>8 DEF Symbol
  <2>2. 1 + n < Len(s) \/ s[1] = "k"
    BY <1>6, <1>8
  <2> QED BY <1>0, <1>2, <1>3, <1>4, <1>8, <2>1, <2>2 DEF ScanStep
<1> QED BY <1>7, <1>8

\* A last incomplete character stays, or is flushed at the end.
LEMMA ScanUndecided ==
  ASSUME NEW s \in Seq(Byte), s # << >>, \A n : ~Decided(s, n), NEW end
  PROVE  /\ Scan(s, end) = IF end THEN [text |-> <<"?">>, rest |-> << >>, replaced |-> TRUE]
                           ELSE [text |-> << >>, rest |-> s, replaced |-> FALSE]
         /\ Len(s) <= 2
<1>0. Len(s) \in Nat /\ 1 \in 1 .. Len(s) /\ ~(1 > Len(s)) /\ 1 \in 1 .. (Len(s) + 1)
  <2>1. Len(s) \in Nat /\ Len(s) # 0
    BY SeqFacts
  <2> QED BY <2>1
<1>1. PICK f : /\ \A i \in 1 .. (Len(s) + 1) : f[i] = ScanStep(s, end, f, i)
               /\ Scan(s, end) = f[1]
  BY ScanDefined
<1> DEFINE n == Continued(s, 1)
<1>2. Continues(s, 1, n)
  BY <1>0, ContinuedIs
<1> HIDE DEF n
<1>3. n \in Nat /\ n # Length(s[1]) - 1 /\ ~(1 + n < Len(s)) /\ 1 + n <= Len(s) /\ n <= Length(s[1]) - 1
  BY <1>2, LengthFacts DEF Decided, Continues
<1>4. s[1] # "k"
  BY <1>3, LengthFacts
<1>5. SubSeq(s, 1, Len(s)) = s
  <2>1. /\ 1 \in Nat /\ 1 <= Len(s) + 1 /\ Len(s) <= Len(s) /\ 1 <= 1 /\ Len(s) - 1 + 1 = Len(s)
        /\ \A j \in 1 .. Len(s) : 1 + j - 1 = j
    BY <1>0
  <2> DEFINE u == SubSeq(s, 1, Len(s))
  <2>2. u \in Seq(Byte) /\ Len(u) = Len(s) - 1 + 1 /\ \A j \in 1 .. (Len(s) - 1 + 1) : u[j] = s[1 + j - 1]
    BY ONLY s \in Seq(Byte), <1>0, <2>1, PartFacts
  <2> HIDE DEF u
  <2>3. u = s
    BY <2>1, <2>2, SameBytes
  <2> QED BY <2>3 DEF u
<1>6. Scan(s, end) = ScanStep(s, end, f, 1)
  BY <1>0, <1>1
<1>7. Length(s[1]) \in 1 .. 3
  BY LengthFacts
<1>8. Len(s) <= 2
  BY <1>0, <1>3, <1>7
<1> QED BY <1>0, <1>3, <1>4, <1>5, <1>6, <1>8 DEF ScanStep, n

\* No bytes.
LEMMA ScanEmpty == \A end : Scan(<< >>, end) = NoText
<1> SUFFICES ASSUME NEW end PROVE Scan(<< >>, end) = NoText
  OBVIOUS
<1> DEFINE s == << >>
<1>0. s \in Seq(Byte) /\ Len(s) = 0 /\ 1 \in 1 .. (Len(s) + 1) /\ 1 > Len(s)
  OBVIOUS
<1> HIDE DEF s
<1>1. PICK f : /\ \A i \in 1 .. (Len(s) + 1) : f[i] = ScanStep(s, end, f, i)
               /\ Scan(s, end) = f[1]
  BY <1>0, ScanDefined
<1>2. Scan(s, end) = NoText
  BY <1>0, <1>1 DEF ScanStep
<1> QED BY <1>2 DEF s

Symbols == {"a", "L", "T", "?"}
Scanned == [text : Seq(Symbols), rest : Seq(Byte), replaced : BOOLEAN]

\* A symbol ahead of a result is a result.
LEMMA AheadType ==
  ASSUME NEW y \in Symbols, NEW b \in BOOLEAN, NEW r \in Scanned
  PROVE  Ahead(<<y>>, b, r) \in Scanned
<1>1. <<y>> \o r.text \in Seq(Symbols) /\ r.rest \in Seq(Byte) /\ r.replaced \in BOOLEAN
  BY DEF Scanned
<1>2. PICK c \in BOOLEAN : c = (r.replaced \/ b)
  BY <1>1
<1>3. [text |-> <<y>> \o r.text, rest |-> r.rest, replaced |-> c] \in Scanned
  BY <1>1 DEF Scanned
<1> QED BY ONLY <1>2, <1>3, Zenon DEF Ahead

\* What a byte is decoded to.
LEMMA SymbolType ==
  ASSUME NEW s \in Seq(Byte), s # << >>, NEW n
  PROVE  Symbol(s, n) \in Symbols
<1>1. Len(s) \in Nat /\ Len(s) # 0
  BY SeqFacts
<1>2. s[1] \in {"a", "L", "T", "k"}
  <2>1. 1 \in 1 .. Len(s)
    BY <1>1
  <2>2. s[1] \in Byte
    BY <2>1, SeqFacts
  <2> QED BY <2>2, StreamsAssumption
<1> QED BY <1>2 DEF Symbol, Symbols

\* What a first character leaves.
LEMMA DecidedLeaves ==
  ASSUME NEW s \in Seq(Byte), s # << >>, NEW n, Decided(s, n)
  PROVE  \E t \in Seq(Byte) : Behind(s, t, n + 1) /\ Len(t) < Len(s)
<1>1. Len(s) \in Nat /\ n \in Nat /\ 1 + n <= Len(s)
  BY SeqFacts, LengthFacts DEF Decided, Continues
<1>2. n + 1 \in 0 .. Len(s)
  BY <1>1
<1>3. Behind(s, SubSeq(s, (n + 1) + 1, Len(s)), n + 1)
  BY <1>2, BehindPart
<1>4. PICK t : t = SubSeq(s, (n + 1) + 1, Len(s))
  OBVIOUS
<1>5. t \in Seq(Byte) /\ Behind(s, t, n + 1) /\ Len(s) = (n + 1) + Len(t) /\ Len(t) \in Nat
  BY <1>3, <1>4, SeqFacts DEF Behind
<1>6. Len(t) < Len(s)
  BY <1>1, <1>5
<1> QED BY <1>5, <1>6

\* Decoding gives symbols, keeps at most two bytes, and none at the end.
LEMMA ScanType ==
  ASSUME NEW s \in Seq(Byte), NEW end \in BOOLEAN
  PROVE  Scan(s, end) \in Scanned /\ Len(Scan(s, end).rest) <= 2 /\ (end => Scan(s, end).rest = << >>)
<1> DEFINE Good(u) == Scan(u, end) \in Scanned /\ Len(Scan(u, end).rest) <= 2 /\ (end => Scan(u, end).rest = << >>)
           S == {k \in Nat : \A u \in Seq(Byte) : Len(u) <= k => Good(u)}
<1>0. << >> \in Seq(Symbols) /\ << >> \in Seq(Byte) /\ <<"?">> \in Seq(Symbols) /\ Len(<< >>) = 0
  BY DEF Symbols
<1>1. Good(<< >>)
  <2>1. Scan(<< >>, end) = NoText
    BY ScanEmpty
  <2>2. NoText \in Scanned /\ NoText.rest = << >>
    BY <1>0 DEF NoText, Scanned
  <2> QED BY <1>0, <2>1, <2>2
<1>2. 0 \in S
  <2>1. \A u \in Seq(Byte) : Len(u) <= 0 => u = << >>
    OBVIOUS
  <2> HIDE DEF Good
  <2> QED BY <1>1, <2>1
<1>3. ASSUME NEW k \in Nat, k \in S PROVE k + 1 \in S
  <2> SUFFICES ASSUME NEW u \in Seq(Byte), Len(u) <= k + 1 PROVE Good(u)
    OBVIOUS
  <2>1. CASE u = << >>
    <3> HIDE DEF Good
    <3> QED BY <1>1, <2>1
  <2>2. CASE u # << >> /\ \A n : ~Decided(u, n)
    <3>1. /\ Scan(u, end) = (IF end THEN [text |-> <<"?">>, rest |-> << >>, replaced |-> TRUE]
                             ELSE [text |-> << >>, rest |-> u, replaced |-> FALSE])
          /\ Len(u) <= 2
      BY <2>2, ScanUndecided
    <3> QED BY <1>0, <3>1 DEF Scanned
  <2>3. CASE u # << >> /\ \E n : Decided(u, n)
    <3>1. PICK n : Decided(u, n)
      BY <2>3
    <3>2. PICK t \in Seq(Byte) : Behind(u, t, n + 1) /\ Len(t) < Len(u)
      BY <2>3, <3>1, DecidedLeaves
    <3>3. Len(t) <= k
      <4>1. Len(t) \in Nat /\ Len(u) \in Nat
        BY SeqFacts
      <4> QED BY <3>2, <4>1
    <3>4. Good(t)
      <4> HIDE DEF Good
      <4> QED BY <1>3, <3>3
    <3>5. Scan(u, end) = Ahead(<<Symbol(u, n)>>, Symbol(u, n) = "?", Scan(t, end))
      BY <2>3, <3>1, <3>2, ScanDecided
    <3>6. Symbol(u, n) \in Symbols
      BY <2>3, SymbolType
    <3>7. PICK y, b, r : y = Symbol(u, n) /\ b = (Symbol(u, n) = "?") /\ r = Scan(t, end)
      OBVIOUS
    <3>8. y \in Symbols /\ b \in BOOLEAN /\ r \in Scanned
      BY <3>4, <3>6, <3>7
    <3>9. Ahead(<<y>>, b, r) \in Scanned /\ Ahead(<<y>>, b, r).rest = r.rest
      <4>1. Ahead(<<y>>, b, r) \in Scanned
        BY ONLY <3>8, AheadType
      <4>2. Ahead(<<y>>, b, r).rest = r.rest
        BY ONLY <3>8 DEF Ahead
      <4> QED BY <4>1, <4>2
    <3>10. Scan(u, end) = Ahead(<<y>>, b, r)
      BY <3>5, <3>7
    <3>11. Scan(u, end) \in Scanned /\ Scan(u, end).rest = Scan(t, end).rest
      BY ONLY <3>7, <3>9, <3>10
    <3> QED BY <3>4, <3>11
  <2> QED BY <2>1, <2>2, <2>3
<1>4. Len(s) \in S /\ Len(s) \in Nat
  <2>1. Len(s) \in Nat
    BY SeqFacts
  <2> HIDE DEF S
  <2> QED BY <1>2, <1>3, <2>1, Data!InductionNat
<1>5. Good(s)
  <2> HIDE DEF Good
  <2> QED BY <1>4
<1> QED BY <1>5

\* One result behind another.
After(r, u) == [text |-> r.text \o u.text, rest |-> u.rest, replaced |-> r.replaced \/ u.replaced]

\* A symbol ahead of two results is ahead of the first.
LEMMA AfterAhead ==
  ASSUME NEW y \in Symbols, NEW b \in BOOLEAN, NEW r \in Scanned, NEW u \in Scanned
  PROVE  /\ Ahead(<<y>>, b, After(r, u)) = After(Ahead(<<y>>, b, r), u)
         /\ After(r, u) \in Scanned
<1>1. /\ <<y>> \in Seq(Symbols) /\ r.text \in Seq(Symbols) /\ u.text \in Seq(Symbols)
      /\ r.replaced \in BOOLEAN /\ u.replaced \in BOOLEAN /\ u.rest \in Seq(Byte)
  BY DEF Scanned
<1>2. PICK p, x, v, c, d : p = <<y>> /\ x = r.text /\ v = u.text /\ c = r.replaced /\ d = u.replaced
  OBVIOUS
<1>3. p \in Seq(Symbols) /\ x \in Seq(Symbols) /\ v \in Seq(Symbols) /\ c \in BOOLEAN /\ d \in BOOLEAN
  BY <1>1, <1>2
<1>4. (p \o x) \o v = p \o (x \o v) /\ x \o v \in Seq(Symbols)
  BY ONLY <1>3, ConcatAssociative
<1>5. ((c \/ d) \/ b) = ((c \/ b) \/ d) /\ (c \/ d) \in BOOLEAN
  BY ONLY <1>3, b \in BOOLEAN
<1>6. After(r, u) = [text |-> x \o v, rest |-> u.rest, replaced |-> c \/ d]
  BY ONLY <1>2 DEF After
<1>7. After(r, u) \in Scanned
  <2>1. PICK e \in BOOLEAN : e = (c \/ d)
    BY <1>5
  <2>2. [text |-> x \o v, rest |-> u.rest, replaced |-> e] \in Scanned
    BY <1>1, <1>4 DEF Scanned
  <2> QED BY ONLY <1>6, <2>1, <2>2, Zenon
<1>8. Ahead(p, b, After(r, u)) = [text |-> p \o (x \o v), rest |-> u.rest, replaced |-> (c \/ d) \/ b]
  <2>1. After(r, u).text = x \o v /\ After(r, u).rest = u.rest /\ After(r, u).replaced = (c \/ d)
    BY ONLY <1>2 DEF After
  <2> QED BY ONLY <2>1, Zenon DEF Ahead
<1>9. After(Ahead(p, b, r), u) = [text |-> (p \o x) \o v, rest |-> u.rest, replaced |-> (c \/ b) \/ d]
  BY ONLY <1>2 DEF Ahead, After
<1>10. Ahead(p, b, After(r, u)) = After(Ahead(p, b, r), u)
  BY ONLY <1>4, <1>5, <1>8, <1>9, Zenon
<1> QED BY ONLY <1>2, <1>7, <1>10

\* More bytes do not change a decided first character.
LEMMA DecidedStays ==
  ASSUME NEW s \in Seq(Byte), s # << >>, NEW q \in Seq(Byte), NEW n, Decided(s, n), NEW t, Behind(s, t, n + 1)
  PROVE  /\ s \o q \in Seq(Byte) /\ s \o q # << >> /\ Decided(s \o q, n) /\ Symbol(s \o q, n) = Symbol(s, n)
         /\ Behind(s \o q, t \o q, n + 1)
<1> DEFINE v == s \o q
           w == t \o q
<1>0. /\ t \in Seq(Byte) /\ Len(s) = (n + 1) + Len(t) /\ (\A j \in 1 .. Len(t) : s[(n + 1) + j] = t[j])
      /\ n + 1 \in Nat /\ Len(s) \in Nat /\ Len(t) \in Nat /\ Len(q) \in Nat
  BY SeqFacts DEF Behind
<1>1. /\ v \in Seq(Byte) /\ Len(v) = Len(s) + Len(q) /\ (\A i \in 1 .. Len(s) : v[i] = s[i])
      /\ \A i \in 1 .. Len(q) : v[Len(s) + i] = q[i]
  BY JoinFacts
<1>2. /\ w \in Seq(Byte) /\ Len(w) = Len(t) + Len(q) /\ (\A i \in 1 .. Len(t) : w[i] = t[i])
      /\ \A i \in 1 .. Len(q) : w[Len(t) + i] = q[i]
  BY <1>0, JoinFacts
<1> HIDE DEF v, w
<1>3. /\ n \in Nat /\ n <= Length(s[1]) - 1 /\ 1 + n <= Len(s) /\ (\A j \in 1 .. n : s[1 + j] = "k")
      /\ n < Length(s[1]) - 1 => 1 + n = Len(s) \/ s[1 + n + 1] # "k"
      /\ n = Length(s[1]) - 1 \/ 1 + n < Len(s)
      /\ Length(s[1]) \in Nat
  BY LengthFacts DEF Decided, Continues
<1>4. v[1] = s[1] /\ Len(v) # 0
  <2>1. 1 \in 1 .. Len(s) /\ Len(v) # 0
    BY ONLY <1>0, <1>1, <1>3
  <2> QED BY ONLY <1>1, <2>1
<1>5. ASSUME NEW j \in 1 .. n PROVE v[1 + j] = "k"
  <2>1. 1 + j \in 1 .. Len(s)
    BY ONLY <1>0, <1>3, j \in 1 .. n
  <2> QED BY ONLY <1>1, <1>3, <2>1, j \in 1 .. n
<1>6. ASSUME n < Length(s[1]) - 1 PROVE v[1 + n + 1] # "k"
  <2>1. 1 + n < Len(s)
    BY ONLY <1>3, <1>6
  <2>2. 1 + n # Len(s) /\ 1 + n + 1 \in 1 .. Len(s)
    BY ONLY <1>0, <1>3, <2>1
  <2> QED BY ONLY <1>1, <1>3, <1>6, <2>2
<1>7. 1 + n <= Len(v) /\ (n = Length(s[1]) - 1 \/ 1 + n < Len(v))
  BY ONLY <1>0, <1>1, <1>3
<1>8. Decided(v, n)
  BY ONLY <1>3, <1>4, <1>5, <1>6, <1>7 DEF Decided, Continues
<1>9. Symbol(v, n) = Symbol(s, n)
  BY ONLY <1>4 DEF Symbol
<1>10. ASSUME NEW j \in 1 .. Len(w) PROVE v[(n + 1) + j] = w[j]
  <2>1. CASE j \in 1 .. Len(t)
    <3>1. (n + 1) + j \in 1 .. Len(s)
      BY ONLY <1>0, <2>1
    <3> QED BY ONLY <1>0, <1>1, <1>2, <2>1, <3>1
  <2>2. CASE j \notin 1 .. Len(t)
    <3>1. j - Len(t) \in 1 .. Len(q) /\ Len(t) + (j - Len(t)) = j /\ Len(s) + (j - Len(t)) = (n + 1) + j
      BY ONLY <1>0, <1>2, <2>2, j \in 1 .. Len(w)
    <3>2. v[Len(s) + (j - Len(t))] = q[j - Len(t)] /\ w[Len(t) + (j - Len(t))] = q[j - Len(t)]
      BY ONLY <1>1, <1>2, <3>1
    <3> QED BY ONLY <3>1, <3>2
  <2> QED BY <2>1, <2>2
<1>11. Len(v) = (n + 1) + Len(w)
  BY ONLY <1>0, <1>1, <1>2
<1>12. Behind(v, w, n + 1)
  BY ONLY <1>0, <1>1, <1>2, <1>10, <1>11 DEF Behind
<1>13. v # << >>
  BY <1>4
<1> QED BY <1>1, <1>8, <1>9, <1>12, <1>13 DEF v, w

\* Decoding s and then, with what it left, q gives what decoding s and q at once gives.
LEMMA ScanInPieces ==
  ASSUME NEW s \in Seq(Byte), NEW q \in Seq(Byte), NEW end \in BOOLEAN, NEW no \in BOOLEAN, ~no
  PROVE  Scan(s \o q, end) = After(Scan(s, no), Scan(Scan(s, no).rest \o q, end))
<1> DEFINE Good(u) == Scan(u \o q, end) = After(Scan(u, no), Scan(Scan(u, no).rest \o q, end))
           S == {k \in Nat : \A u \in Seq(Byte) : Len(u) <= k => Good(u)}
<1>0. ASSUME NEW u \in Seq(Byte), Scan(u, no) = [text |-> << >>, rest |-> u, replaced |-> no]
      PROVE  Good(u)
  <2>1. u \o q \in Seq(Byte)
    OBVIOUS
  <2>2. PICK r : r = Scan(u \o q, end)
    OBVIOUS
  <2>3. r \in Scanned
    BY <2>1, <2>2, ScanType
  <2>4. << >> \o r.text = r.text /\ (no \/ r.replaced) = r.replaced
        /\ r = [text |-> r.text, rest |-> r.rest, replaced |-> r.replaced]
    BY ONLY <2>3, ~no DEF Scanned
  <2>5. PICK a : a = Scan(u, no)
    OBVIOUS
  <2>6. a.text = << >> /\ a.rest = u /\ a.replaced = no
    BY <1>0, <2>5
  <2>7. After(a, r) = r
    BY ONLY <2>4, <2>6, Zenon DEF After
  <2> QED BY ONLY <2>2, <2>5, <2>6, <2>7
<1>1. Good(<< >>)
  <2>1. Scan(<< >>, no) = [text |-> << >>, rest |-> << >>, replaced |-> no] /\ << >> \in Seq(Byte)
    <3>1. Scan(<< >>, no) = NoText
      BY ScanEmpty
    <3>2. no = FALSE /\ << >> \in Seq(Byte)
      OBVIOUS
    <3> QED BY ONLY <3>1, <3>2 DEF NoText
  <2> HIDE DEF Good
  <2> QED BY <1>0, <2>1
<1>2. 0 \in S
  <2>1. \A u \in Seq(Byte) : Len(u) <= 0 => u = << >>
    OBVIOUS
  <2> HIDE DEF Good
  <2> QED BY <1>1, <2>1
<1>3. ASSUME NEW k \in Nat, k \in S PROVE k + 1 \in S
  <2> SUFFICES ASSUME NEW u \in Seq(Byte), Len(u) <= k + 1 PROVE Good(u)
    OBVIOUS
  <2>1. CASE u = << >>
    <3> HIDE DEF Good
    <3> QED BY <1>1, <2>1
  <2>2. CASE u # << >> /\ \A n : ~Decided(u, n)
    <3>1. Scan(u, no) = [text |-> << >>, rest |-> u, replaced |-> no]
      <4>1. Scan(u, no) = IF no THEN [text |-> <<"?">>, rest |-> << >>, replaced |-> TRUE]
                          ELSE [text |-> << >>, rest |-> u, replaced |-> FALSE]
        BY <2>2, ScanUndecided
      <4>2. no = FALSE
        OBVIOUS
      <4> QED BY <4>1, <4>2
    <3> HIDE DEF Good
    <3> QED BY <1>0, <3>1
  <2>3. CASE u # << >> /\ \E n : Decided(u, n)
    <3>1. PICK n : Decided(u, n)
      BY <2>3
    <3>2. PICK t \in Seq(Byte) : Behind(u, t, n + 1) /\ Len(t) < Len(u)
      BY <2>3, <3>1, DecidedLeaves
    <3>3. Len(t) <= k
      <4>1. Len(t) \in Nat /\ Len(u) \in Nat
        BY SeqFacts
      <4> QED BY <3>2, <4>1
    <3>4. Good(t)
      <4> HIDE DEF Good
      <4> QED BY <1>3, <3>3
    <3>5. PICK y, b, r : y = Symbol(u, n) /\ b = (Symbol(u, n) = "?") /\ r = Scan(t, no)
      OBVIOUS
    <3>6. y \in Symbols /\ b \in BOOLEAN /\ r \in Scanned
      <4>1. Symbol(u, n) \in Symbols
        BY <2>3, SymbolType
      <4>2. Scan(t, no) \in Scanned
        BY ScanType
      <4> QED BY <3>5, <4>1, <4>2
    <3>7. PICK v : v = Scan(r.rest \o q, end)
      OBVIOUS
    <3>8. v \in Scanned
      <4>1. r.rest \in Seq(Byte)
        BY <3>6 DEF Scanned
      <4>2. r.rest \o q \in Seq(Byte)
        BY <4>1
      <4> QED BY <3>7, <4>2, ScanType
    <3>9. Scan(u, no) = Ahead(<<y>>, b, r)
      <4>1. Scan(u, no) = Ahead(<<Symbol(u, n)>>, Symbol(u, n) = "?", Scan(t, no))
        BY <2>3, <3>1, <3>2, ScanDecided
      <4> QED BY <3>5, <4>1
    <3>10. Scan(u \o q, end) = Ahead(<<y>>, b, Scan(t \o q, end))
      <4>1. PICK w, x : w = u \o q /\ x = t \o q
        OBVIOUS
      <4>2. w \in Seq(Byte) /\ w # << >> /\ Decided(w, n) /\ Symbol(w, n) = Symbol(u, n) /\ Behind(w, x, n + 1)
        BY <2>3, <3>1, <3>2, <4>1, DecidedStays
      <4>3. Scan(w, end) = Ahead(<<Symbol(w, n)>>, Symbol(w, n) = "?", Scan(x, end))
        BY ONLY <4>2, ScanDecided
      <4> QED BY <3>5, <4>1, <4>2, <4>3
    <3>11. Scan(t \o q, end) = After(r, v)
      BY <3>4, <3>5, <3>7
    <3>12. Ahead(<<y>>, b, After(r, v)) = After(Ahead(<<y>>, b, r), v)
      BY ONLY <3>6, <3>8, AfterAhead
    <3>13. Ahead(<<y>>, b, r).rest = r.rest
      BY ONLY <3>6 DEF Ahead
    <3> QED BY ONLY <3>7, <3>9, <3>10, <3>11, <3>12, <3>13
  <2> QED BY <2>1, <2>2, <2>3
<1>4. Len(s) \in S /\ Len(s) \in Nat
  <2>1. Len(s) \in Nat
    BY SeqFacts
  <2> HIDE DEF S
  <2> QED BY <1>2, <1>3, <2>1, Data!InductionNat
<1>5. Good(s)
  <2> HIDE DEF Good
  <2> QED BY <1>4
<1> QED BY <1>5

(***************************************************************************)
(* Capture and Text together                                               *)
(***************************************************************************)

TextInv == CaptureInv /\ sent \in 0 .. Len(data) /\ over \in BOOLEAN /\ TextExact

\* Capture keeps at most its limit.
LEMMA CaptureLimit == CaptureInv => data \in Seq(Byte) /\ Len(data) \in Nat /\ Limit \in Nat /\ Len(data) <= Limit
<1> SUFFICES ASSUME CaptureInv PROVE data \in Seq(Byte) /\ Len(data) \in Nat /\ Limit \in Nat /\ Len(data) <= Limit
  OBVIOUS
<1>1. data \in Seq(Byte) /\ heldBack \in Seq(Byte) /\ fed \in Seq(Byte) /\ Limit \in Nat /\ streamEnded \in BOOLEAN
  BY StreamsAssumption DEF CaptureInv
<1>2. PICK n, x : n \in Int /\ KeptIs(data, x, fed, n)
  <2>1. CASE streamEnded
    <3>1. PICK e : Marked(e)
      BY <2>1 DEF CaptureInv
    <3>2. KeptIs(data, discarded, fed, e - 1) /\ e \in 1 .. Len(fed)
      BY <3>1 DEF Marked, First
    <3>3. e - 1 \in Int
      BY <1>1, <3>2, SeqFacts
    <3> QED BY <3>2, <3>3
  <2>2. CASE ~streamEnded
    <3>1. KeptIs(data, discarded, fed, Len(fed) - Len(heldBack))
      BY <2>2 DEF CaptureInv, Unmarked
    <3>2. Len(fed) - Len(heldBack) \in Int
      <4>1. Len(fed) \in Nat /\ Len(heldBack) \in Nat
        BY <1>1, SeqFacts
      <4> QED BY <4>1
    <3> QED BY <3>1, <3>2
  <2> QED BY <2>1, <2>2
<1>3. Len(data) = (IF n < Limit THEN n ELSE Limit)
  BY <1>2 DEF KeptIs
<1>4. Len(data) \in Nat
  BY <1>1, SeqFacts
<1> QED BY <1>1, <1>2, <1>3, <1>4

\* More bytes behind leave a beginning as it was.
LEMMA PrefixOfJoin ==
  ASSUME NEW d \in Seq(Byte), NEW p \in Seq(Byte), NEW m \in 0 .. Len(d)
  PROVE  SubSeq(d \o p, 1, m) = SubSeq(d, 1, m) /\ Len(d) <= Len(d \o p) /\ SubSeq(d, 1, m) \in Seq(Byte)
<1> DEFINE q == d \o p
           a == SubSeq(d, 1, m)
           b == SubSeq(q, 1, m)
<1>0. Len(d) \in Nat /\ Len(p) \in Nat /\ m \in Nat /\ 1 \in Nat /\ 1 <= 1 /\ 1 <= m + 1 /\ m <= Len(d) /\ m - 1 + 1 = m
      /\ \A j \in 1 .. m : 1 + j - 1 = j
  BY SeqFacts
<1>1. q \in Seq(Byte) /\ Len(q) = Len(d) + Len(p) /\ \A i \in 1 .. Len(d) : q[i] = d[i]
  BY JoinFacts
<1> HIDE DEF q
<1>2. m <= Len(q) /\ Len(d) <= Len(q) /\ \A j \in 1 .. m : j \in 1 .. Len(d)
  BY ONLY <1>0, <1>1
<1>3. a \in Seq(Byte) /\ Len(a) = m - 1 + 1 /\ \A j \in 1 .. (m - 1 + 1) : a[j] = d[1 + j - 1]
  BY ONLY d \in Seq(Byte), <1>0, PartFacts
<1>4. b \in Seq(Byte) /\ Len(b) = m - 1 + 1 /\ \A j \in 1 .. (m - 1 + 1) : b[j] = q[1 + j - 1]
  BY ONLY <1>0, <1>1, <1>2, PartFacts
<1> HIDE DEF a, b
<1>5. Len(a) = Len(b) /\ \A j \in 1 .. Len(a) : a[j] = b[j]
  BY ONLY <1>0, <1>1, <1>2, <1>3, <1>4
<1>6. a = b
  BY ONLY <1>3, <1>4, <1>5, SameBytes
<1> QED BY <1>2, <1>3, <1>6 DEF a, b, q

\* The kept bytes only grow, and no more when a stream has ended or is full.
LEMMA FeedKeeps ==
  ASSUME CaptureInv, NEW b \in Read, Feed(b), sent \in 0 .. Len(data)
  PROVE  /\ SubSeq(data', 1, sent) = SubSeq(data, 1, sent) /\ Len(data) <= Len(data')
         /\ (Len(data) = Limit \/ streamEnded) => data' = data /\ (streamEnded => streamEnded')
         /\ UNCHANGED textVars
<1>0. data \in Seq(Byte) /\ Len(data) \in Nat /\ Limit \in Nat /\ Len(data) <= Limit
  BY CaptureLimit
<1>1. UNCHANGED textVars
  BY DEF Feed
<1>2. CASE streamEnded
  <2>1. data' = data /\ streamEnded' = streamEnded
    BY <1>2 DEF Feed
  <2> QED BY <1>0, <1>1, <2>1
<1>3. CASE ~streamEnded
  <2>1. PICK d, h, m : d = data /\ h = heldBack /\ m = sent
    OBVIOUS
  <2>2. h \o b \in Seq(Byte)
    <3>1. h \in Seq(Byte) /\ b \in Seq(Byte)
      BY <2>1, ReadFacts DEF CaptureInv
    <3> QED BY <3>1
  <2>3. PICK all : all = h \o b
    OBVIOUS
  <2>4. PICK c \in 0 .. Len(all) : StreamKeep(SubSeq(all, 1, c))
    <3>0. all \in Seq(Byte) /\ Len(all) \in Nat
      BY <2>2, <2>3, SeqFacts
    <3>1. CASE Position(all) # 0
      <4>1. StreamKeep(SubSeq(all, 1, Position(all) - 1))
        BY <1>3, <2>1, <2>3, <3>1 DEF Feed
      <4>2. First(all, Position(all))
        BY <3>0, <3>1, PositionIs
      <4>3. Position(all) - 1 \in 0 .. Len(all)
        BY ONLY <3>0, <4>2 DEF First
      <4> QED BY <4>1, <4>3
    <3>2. CASE Position(all) = 0
      <4>1. StreamKeep(SubSeq(all, 1, Len(all) - Suffix(all)))
        BY <1>3, <2>1, <2>3, <3>2 DEF Feed
      <4>2. Suffix(all) \in 0 .. (M - 1) /\ Ends(all, Suffix(all)) /\ M \in Nat
        BY <3>0, SuffixIs, MarkFacts
      <4>3. Len(all) - Suffix(all) \in 0 .. Len(all)
        BY ONLY <3>0, <4>2 DEF Ends
      <4> QED BY <4>1, <4>3
    <3> QED BY <3>1, <3>2
  <2>5. PICK e : e = SubSeq(all, 1, c)
    OBVIOUS
  <2>6. e \in Seq(Byte) /\ Len(e) \in Nat
    <3>0. all \in Seq(Byte) /\ Len(all) \in Nat
      BY <2>2, <2>3, SeqFacts
    <3>1. 1 <= c + 1 /\ c <= Len(all) /\ c \in Nat /\ 1 \in Nat /\ 1 <= 1
      BY ONLY <3>0, c \in 0 .. Len(all)
    <3>2. e \in Seq(Byte)
      BY ONLY <2>5, <3>0, <3>1, PartFacts
    <3> QED BY <3>2, SeqFacts
  <2>7. PICK r : r = (IF Len(e) < Limit - Len(d) THEN Len(e) ELSE Limit - Len(d))
    OBVIOUS
  <2>8. r \in 0 .. Len(e) /\ (Len(d) = Limit => r = 0) /\ r \in Nat /\ 1 <= r + 1 /\ r <= Len(e) /\ 1 \in Nat /\ 1 <= 1
    <3>1. Len(d) \in Nat /\ Len(d) <= Limit /\ Limit \in Nat /\ Len(e) \in Nat
      BY <1>0, <2>1, <2>6
    <3> QED BY ONLY <2>7, <3>1
  <2>9. PICK p : p = SubSeq(e, 1, r)
    OBVIOUS
  <2>10. p \in Seq(Byte) /\ Len(p) = r - 1 + 1
    BY ONLY <2>6, <2>8, <2>9, PartFacts
  <2>11. data' = d \o p
    BY <2>1, <2>4, <2>5, <2>7, <2>9 DEF StreamKeep
  <2>12. d \in Seq(Byte) /\ m \in 0 .. Len(d)
    BY <1>0, <2>1
  <2>13. SubSeq(d \o p, 1, m) = SubSeq(d, 1, m) /\ Len(d) <= Len(d \o p)
    BY ONLY <2>10, <2>12, PrefixOfJoin
  <2>14. Len(d) = Limit => d \o p = d
    <3>1. Len(d) = Limit => Len(p) = 0
      BY ONLY <2>8, <2>10
    <3> QED BY ONLY <2>10, <2>12, <3>1
  <2> QED BY ONLY <1>1, <1>3, <2>1, <2>11, <2>13, <2>14
<1> QED BY <1>2, <1>3

\* feed() does not touch what was published, nor bring back what was finished.
LEMMA FeedText == ASSUME TextInv, NEW b \in Read, Feed(b) PROVE TextInv'
<1>0. CaptureInv /\ sent \in 0 .. Len(data) /\ over \in BOOLEAN /\ TextExact
  BY DEF TextInv
<1>1. CaptureInv'
  BY <1>0, FeedHolds
<1>2. /\ SubSeq(data', 1, sent) = SubSeq(data, 1, sent) /\ Len(data) <= Len(data')
      /\ (Len(data) = Limit \/ streamEnded) => data' = data /\ (streamEnded => streamEnded')
      /\ sent' = sent /\ partial' = partial /\ replaced' = replaced /\ over' = over /\ text' = text
  BY <1>0, FeedKeeps DEF textVars
<1>3. Len(data') \in Nat /\ Len(data) \in Nat
  <2>1. data \in Seq(Byte) /\ data' \in Seq(Byte)
    BY <1>0, <1>1 DEF CaptureInv
  <2> QED BY <2>1, SeqFacts
<1>4. sent' \in 0 .. Len(data') /\ over' \in BOOLEAN
  BY ONLY <1>0, <1>2, <1>3
<1>5. PICK end \in BOOLEAN :
         /\ end => Finished(sent)
         /\ over \/ sent = Limit => end
         /\ text = Scan(SubSeq(data, 1, sent), end).text
         /\ partial = Scan(SubSeq(data, 1, sent), end).rest
         /\ replaced = Scan(SubSeq(data, 1, sent), end).replaced
  BY <1>0 DEF TextExact
<1>6. end => Finished(sent)'
  BY ONLY <1>2, <1>5 DEF Finished
<1>7. TextExact'
  BY ONLY <1>2, <1>5, <1>6 DEF TextExact
<1> QED BY <1>1, <1>4, <1>7 DEF TextInv

\* The bytes taken in one turn follow those that were taken before.
LEMMA TakeFacts ==
  ASSUME NEW d \in Seq(Byte), NEW m \in 0 .. Len(d), NEW k, k = (IF m + Chunk < Len(d) THEN m + Chunk ELSE Len(d))
  PROVE  /\ k \in m .. Len(d) /\ SubSeq(d, m + 1, k) \in Seq(Byte) /\ SubSeq(d, 1, m) \in Seq(Byte)
         /\ SubSeq(d, 1, k) = SubSeq(d, 1, m) \o SubSeq(d, m + 1, k)
         /\ SubSeq(d, m + 1, k) = << >> => k = m /\ m = Len(d)
<1>0. /\ Len(d) \in Nat /\ Chunk \in Nat /\ Chunk # 0 /\ m \in Nat /\ m <= Len(d)
  BY SeqFacts, StreamsAssumption
<1>1. /\ k \in Nat /\ m <= k /\ k <= Len(d) /\ m + 1 \in Nat /\ 1 \in Nat /\ 1 <= 1 /\ 1 <= m + 1 /\ m + 1 <= k + 1 /\ 1 <= k + 1
      /\ k - (m + 1) + 1 = k - m /\ m - 1 + 1 = m /\ k - 1 + 1 = k /\ (k = m => m = Len(d))
  BY <1>0
<1>2. PICK a, p, q : a = SubSeq(d, 1, k) /\ p = SubSeq(d, 1, m) /\ q = SubSeq(d, m + 1, k)
  OBVIOUS
<1>3. a \in Seq(Byte) /\ Len(a) = k /\ \A j \in 1 .. k : a[j] = d[1 + j - 1]
  <2>1. a \in Seq(Byte) /\ Len(a) = k - 1 + 1 /\ \A j \in 1 .. (k - 1 + 1) : a[j] = d[1 + j - 1]
    BY ONLY d \in Seq(Byte), <1>1, <1>2, PartFacts
  <2> QED BY ONLY <1>1, <2>1
<1>4. p \in Seq(Byte) /\ Len(p) = m /\ \A j \in 1 .. m : p[j] = d[1 + j - 1]
  <2>1. p \in Seq(Byte) /\ Len(p) = m - 1 + 1 /\ \A j \in 1 .. (m - 1 + 1) : p[j] = d[1 + j - 1]
    BY ONLY d \in Seq(Byte), <1>0, <1>1, <1>2, PartFacts
  <2> QED BY ONLY <1>1, <2>1
<1>5. q \in Seq(Byte) /\ Len(q) = k - m /\ \A j \in 1 .. (k - m) : q[j] = d[(m + 1) + j - 1]
  <2>1. q \in Seq(Byte) /\ Len(q) = k - (m + 1) + 1 /\ \A j \in 1 .. (k - (m + 1) + 1) : q[j] = d[(m + 1) + j - 1]
    BY ONLY d \in Seq(Byte), <1>1, <1>2, PartFacts
  <2> QED BY ONLY <1>1, <2>1
<1>6. PICK v : v = p \o q
  OBVIOUS
<1>7. /\ v \in Seq(Byte) /\ Len(v) = Len(p) + Len(q) /\ (\A i \in 1 .. Len(p) : v[i] = p[i])
      /\ \A i \in 1 .. Len(q) : v[Len(p) + i] = q[i]
  <2>1. p \in Seq(Byte) /\ q \in Seq(Byte)
    BY ONLY <1>4, <1>5
  <2> QED BY ONLY <1>6, <2>1, JoinFacts
<1>8. Len(a) = Len(v)
  BY ONLY <1>0, <1>1, <1>3, <1>4, <1>5, <1>7
<1>9. ASSUME NEW j \in 1 .. Len(a) PROVE a[j] = v[j]
  <2>1. CASE j \in 1 .. m
    <3>1. j \in 1 .. k
      BY ONLY <1>0, <1>1, <2>1
    <3> QED BY ONLY <1>3, <1>4, <1>7, <2>1, <3>1
  <2>2. CASE j \notin 1 .. m
    <3>1. /\ j - m \in 1 .. (k - m) /\ m + (j - m) = j /\ (m + 1) + (j - m) - 1 = 1 + j - 1 /\ j \in 1 .. k
      BY ONLY <1>0, <1>1, <1>3, <2>2, j \in 1 .. Len(a)
    <3>2. v[m + (j - m)] = q[j - m] /\ q[j - m] = d[(m + 1) + (j - m) - 1] /\ a[j] = d[1 + j - 1]
      BY ONLY <1>3, <1>4, <1>5, <1>7, <3>1
    <3> QED BY ONLY <3>1, <3>2
  <2> QED BY <2>1, <2>2
<1>10. a = v
  BY ONLY <1>3, <1>7, <1>8, <1>9, SameBytes
<1>11. q = << >> => k = m
  <2>1. q = << >> => Len(q) = 0
    OBVIOUS
  <2> QED BY ONLY <1>0, <1>1, <1>5, <2>1
<1>12. k \in m .. Len(d)
  BY ONLY <1>0, <1>1
<1> QED BY ONLY <1>1, <1>2, <1>4, <1>5, <1>6, <1>10, <1>11, <1>12

\* Capture::take and Text::decode.
LEMMA PublishText == ASSUME TextInv, StreamPublish PROVE TextInv'
<1>0. CaptureInv /\ sent \in 0 .. Len(data) /\ TextExact
  BY DEF TextInv
<1>1. data \in Seq(Byte) /\ Len(data) \in Nat /\ Limit \in Nat /\ Len(data) <= Limit
  BY <1>0, CaptureLimit
<1>2. UNCHANGED captureVars
  BY DEF StreamPublish
<1>3. CaptureInv'
  BY <1>0, <1>2 DEF CaptureInv, Unmarked, Marked, captureVars
<1>4. PICK d, m, k : d = data /\ m = sent /\ k = (IF m + Chunk < Len(d) THEN m + Chunk ELSE Len(d))
  OBVIOUS
<1>5. d \in Seq(Byte) /\ m \in 0 .. Len(d)
  BY <1>0, <1>1, <1>4
<1>6. PICK q, p : q = SubSeq(d, m + 1, k) /\ p = SubSeq(d, 1, m)
  OBVIOUS
<1>7. /\ k \in m .. Len(d) /\ q \in Seq(Byte) /\ p \in Seq(Byte) /\ SubSeq(d, 1, k) = p \o q
      /\ q = << >> => k = m /\ m = Len(d)
  BY ONLY <1>4, <1>5, <1>6, TakeFacts
<1>8. PICK fin \in BOOLEAN : fin = Finished(k)
  <2>1. Finished(k) \in BOOLEAN
    BY DEF Finished
  <2> QED BY <2>1
<1>9. PICK r : r = Scan(partial \o q, fin)
  OBVIOUS
<1>10. /\ sent' = k /\ text' = text \o r.text /\ partial' = r.rest /\ replaced' = (replaced \/ r.replaced)
       /\ over' = (streamEnded /\ q = << >>)
  BY <1>4, <1>6, <1>8, <1>9, Zenon DEF StreamPublish, Decode
<1>11. data' = d /\ streamEnded' = streamEnded /\ streamEnded \in BOOLEAN
  BY <1>0, <1>2, <1>4 DEF captureVars, CaptureInv
<1>12. sent' \in 0 .. Len(data') /\ over' \in BOOLEAN
  <2>1. m \in Nat /\ Len(d) \in Nat
    BY <1>1, <1>4, <1>5
  <2>2. k \in 0 .. Len(d)
    BY ONLY <1>7, <2>1
  <2>3. over' \in BOOLEAN
    BY <1>10, <1>11
  <2> QED BY <1>10, <1>11, <2>2, <2>3
<1>13. PICK end \in BOOLEAN :
         /\ end => Finished(sent)
         /\ over \/ sent = Limit => end
         /\ text = Scan(SubSeq(data, 1, sent), end).text
         /\ partial = Scan(SubSeq(data, 1, sent), end).rest
         /\ replaced = Scan(SubSeq(data, 1, sent), end).replaced
  BY <1>0 DEF TextExact
<1>14. PICK o : o = Scan(p, end)
  OBVIOUS
<1>15. text = o.text /\ partial = o.rest /\ replaced = o.replaced /\ o \in Scanned /\ (end => o.rest = << >>)
  <2>1. p = SubSeq(data, 1, sent)
    BY <1>4, <1>6
  <2>2. o \in Scanned /\ (end => o.rest = << >>)
    BY <1>7, <1>14, ScanType
  <2> QED BY <1>13, <1>14, <2>1, <2>2
<1>16. Finished(k)' = Finished(k)
  BY <1>4, <1>11 DEF Finished
<1>17. /\ fin => Finished(sent)'
       /\ over' \/ sent' = Limit => fin
  <2>1. fin => Finished(sent)'
    BY <1>8, <1>10, <1>16 DEF Finished
  <2>2. over' => Finished(k)
    <3>1. over' => streamEnded /\ k = Len(data)
      BY <1>4, <1>7, <1>10
    <3> QED BY <3>1 DEF Finished
  <2>3. k = Limit => Finished(k)
    <3>1. k = Limit => Len(data) = Limit
      <4>1. m \in Nat /\ Len(d) \in Nat /\ Len(d) <= Limit /\ Limit \in Nat /\ Len(d) = Len(data)
        BY <1>1, <1>4, <1>5
      <4> QED BY ONLY <1>7, <4>1
    <3> QED BY <3>1 DEF Finished
  <2> QED BY <1>8, <1>10, <2>1, <2>2, <2>3
<1>18. ASSUME NEW e \in BOOLEAN, NEW u, u = Scan(SubSeq(d, 1, k), e), e => Finished(sent)', over' \/ sent' = Limit => e,
              text' = u.text, partial' = u.rest, replaced' = u.replaced
       PROVE  TextExact'
  <2>1. SubSeq(data', 1, sent') = SubSeq(d, 1, k)
    BY <1>10, <1>11
  <2> QED BY <1>18, <2>1 DEF TextExact
<1>19. CASE end
  <2>1. sent = Len(data) /\ (Len(data) = Limit \/ streamEnded)
    BY <1>13, <1>19 DEF Finished
  <2>2. k = m /\ m = Len(d)
    BY ONLY <1>1, <1>4, <1>7, <2>1
  <2>3. q = << >>
    <3>1. q = SubSeq(d, m + 1, m)
      BY <1>6, <2>2
    <3>2. m \in Nat
      BY <1>1, <1>4, <2>2
    <3>3. m \in Nat /\ m + 1 \in Nat /\ 1 <= m + 1 /\ m + 1 <= m + 1 /\ m <= Len(d) /\ m - (m + 1) + 1 = 0
      BY ONLY <2>2, <3>2
    <3>4. Len(q) = m - (m + 1) + 1
      BY ONLY <1>5, <3>1, <3>3, PartFacts
    <3> QED BY <1>7, <3>3, <3>4
  <2>4. partial \o q = << >>
    BY <1>15, <1>19, <2>3
  <2>5. r = NoText
    BY <1>9, <2>4, ScanEmpty
  <2>6. SubSeq(d, 1, k) = p
    BY <1>6, <2>2
  <2>7. text' = o.text /\ partial' = o.rest /\ replaced' = o.replaced
    <3>1. o.text \in Seq(Symbols) /\ o.replaced \in BOOLEAN
      BY <1>15 DEF Scanned
    <3>2. r.text = << >> /\ r.rest = << >> /\ r.replaced = FALSE
      BY <2>5 DEF NoText
    <3>3. o.text \o << >> = o.text
      BY <3>1, ConcatEmptySeq
    <3>4. (o.replaced \/ FALSE) = o.replaced
      BY <3>1
    <3>5. o.rest = << >>
      BY <1>15, <1>19
    <3>6. text' = o.text
      BY ONLY <1>10, <1>15, <3>2, <3>3
    <3>7. replaced' = o.replaced
      BY ONLY <1>10, <1>15, <3>2, <3>4, Zenon
    <3> QED BY <1>10, <3>2, <3>5, <3>6, <3>7
  <2>8. o = Scan(SubSeq(d, 1, k), end)
    BY <1>14, <2>6
  <2>9. end => Finished(sent)'
    BY <1>4, <1>10, <1>11, <2>1, <2>2 DEF Finished
  <2>10. TextExact'
    BY ONLY <1>18, <1>19, end \in BOOLEAN, <2>7, <2>8, <2>9
  <2> QED BY <1>3, <1>12, <2>10 DEF TextInv
<1>20. CASE ~end
  <2>1. Scan(p \o q, fin) = After(Scan(p, end), Scan(Scan(p, end).rest \o q, fin))
    BY ONLY <1>7, fin \in BOOLEAN, end \in BOOLEAN, <1>20, ScanInPieces
  <2>2. Scan(SubSeq(d, 1, k), fin) = After(o, r)
    BY <1>7, <1>9, <1>14, <1>15, <2>1
  <2>3. PICK u : u = After(o, r)
    OBVIOUS
  <2>4. u.text = o.text \o r.text /\ u.rest = r.rest /\ u.replaced = (o.replaced \/ r.replaced)
    BY ONLY <2>3 DEF After
  <2>5. text' = u.text /\ partial' = u.rest /\ replaced' = u.replaced
    BY ONLY <1>10, <1>15, <2>4, Zenon
  <2>6. u = Scan(SubSeq(d, 1, k), fin)
    BY <2>2, <2>3
  <2>7. TextExact'
    BY ONLY <1>17, <1>18, fin \in BOOLEAN, <2>5, <2>6
  <2> QED BY <1>3, <1>12, <2>7 DEF TextInv
<1> QED BY <1>19, <1>20

\* Nothing was published yet.
LEMMA TextInitially == StreamInit => TextInv
<1> SUFFICES ASSUME StreamInit PROVE TextInv
  OBVIOUS
<1>1. CaptureInv
  BY CaptureInitially
<1>2. /\ data = << >> /\ sent = 0 /\ streamEnded = FALSE /\ partial = << >> /\ replaced = FALSE
      /\ over = FALSE /\ text = << >> /\ Len(data) = 0 /\ Limit \in Nat
  BY StreamsAssumption DEF StreamInit
<1>3. SubSeq(data, 1, sent) = << >>
  BY <1>2
<1>4. PICK end \in BOOLEAN : end = (Limit = 0)
  OBVIOUS
<1>5. Scan(SubSeq(data, 1, sent), end) = NoText
  BY <1>3, ScanEmpty
<1>6. end => Finished(sent)
  BY <1>2, <1>4 DEF Finished
<1>7. over \/ sent = Limit => end
  BY <1>2, <1>4
<1>8. text = NoText.text /\ partial = NoText.rest /\ replaced = NoText.replaced
  BY <1>2 DEF NoText
<1>9. TextExact
  BY ONLY <1>5, <1>6, <1>7, <1>8, end \in BOOLEAN DEF TextExact
<1>10. sent \in 0 .. Len(data) /\ over \in BOOLEAN
  <2>1. sent = 0 /\ Len(data) = 0
    BY ONLY <1>2
  <2>2. over \in BOOLEAN
    BY ONLY <1>2
  <2> QED BY ONLY <2>1, <2>2
<1> QED BY <1>1, <1>9, <1>10 DEF TextInv

\* The types follow from what decoding gives.
LEMMA TextTypes == TextInv => StreamTypeOK
<1> SUFFICES ASSUME TextInv PROVE StreamTypeOK
  OBVIOUS
<1>0. CaptureInv /\ sent \in 0 .. Len(data) /\ over \in BOOLEAN /\ TextExact
  BY DEF TextInv
<1>1. data \in Seq(Byte) /\ Len(data) \in Nat /\ Limit \in Nat /\ Len(data) <= Limit
  BY <1>0, CaptureLimit
<1>2. PICK end \in BOOLEAN :
         /\ text = Scan(SubSeq(data, 1, sent), end).text
         /\ partial = Scan(SubSeq(data, 1, sent), end).rest
         /\ replaced = Scan(SubSeq(data, 1, sent), end).replaced
  BY <1>0 DEF TextExact
<1>3. PICK p, m, d : p = SubSeq(d, 1, m) /\ m = sent /\ d = data
  OBVIOUS
<1>4. p \in Seq(Byte)
  <2>1. d \in Seq(Byte) /\ m \in 0 .. Len(d)
    BY <1>0, <1>1, <1>3
  <2>2. SubSeq(d, 1, m) \in Seq(Byte)
    BY ONLY <2>1, PrefixOfJoin
  <2> QED BY <1>3, <2>2
<1>5. PICK r : r = Scan(p, end)
  OBVIOUS
<1>6. r \in Scanned /\ Len(r.rest) <= 2
  BY <1>4, <1>5, ScanType
<1>7. text = r.text /\ partial = r.rest /\ replaced = r.replaced
  BY <1>2, <1>3, <1>5
<1>8. r.text \in Seq(Symbols) /\ r.rest \in Seq(Byte) /\ r.replaced \in BOOLEAN /\ Len(r.rest) <= 3
  <2>1. r.text \in Seq(Symbols) /\ r.rest \in Seq(Byte) /\ r.replaced \in BOOLEAN
    BY <1>6 DEF Scanned
  <2>2. Len(r.rest) \in Nat
    BY <2>1, SeqFacts
  <2>3. Len(r.rest) <= 3
    BY ONLY <1>6, <2>2
  <2> QED BY <2>1, <2>3
<1>9. text \in Seq({"a", "L", "T", "?"}) /\ partial \in Seq(Byte) /\ Len(partial) <= 3 /\ replaced \in BOOLEAN
  BY ONLY <1>7, <1>8 DEF Symbols
<1>10. /\ heldBack \in Seq(Byte) /\ Len(heldBack) < Len(Mark) /\ discarded \in Nat /\ streamEnded \in BOOLEAN
       /\ fed \in Seq(Byte) /\ tail \in Seq(Byte)
  BY <1>0 DEF CaptureInv, M
<1> QED BY ONLY <1>0, <1>1, <1>9, <1>10 DEF StreamTypeOK

\* Capture and Text, for every marker, limit, chunk and way to cut the reads: the first
\* marker of the whole input ends the output, what is kept, counted and late is exactly what
\* is before and behind it, and the published text is that of the kept bytes decoded at once.
THEOREM StreamIsExact == StreamSpec => []OutputExact
<1>1. StreamInit => TextInv
  BY TextInitially
<1>2. TextInv /\ [StreamNext]_streamVars => TextInv'
  <2> SUFFICES ASSUME TextInv, [StreamNext]_streamVars PROVE TextInv'
    OBVIOUS
  <2>1. CASE StreamPublish
    BY <2>1, PublishText
  <2>2. ASSUME NEW b \in Read, Feed(b) PROVE TextInv'
    BY <2>2, FeedText
  <2>3. CASE UNCHANGED streamVars
    <3>1. UNCHANGED <<captureVars, textVars>>
      BY <2>3 DEF streamVars
    <3>2. CaptureInv'
      BY <3>1 DEF TextInv, CaptureInv, Unmarked, Marked, captureVars
    <3>3. TextExact'
      BY <3>1 DEF TextInv, TextExact, Finished, captureVars, textVars
    <3> QED BY <3>1, <3>2, <3>3 DEF TextInv, captureVars, textVars
  <2> QED BY <2>1, <2>2, <2>3 DEF StreamNext
<1>3. TextInv => OutputExact
  BY TextTypes, BarrierHolds DEF TextInv, OutputExact
<1> QED BY <1>1, <1>2, <1>3, PTL DEF StreamSpec

=============================================================================
