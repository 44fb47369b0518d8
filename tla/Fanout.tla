------------------------------- MODULE Fanout -------------------------------
(***************************************************************************)
(* Publication and replies of the kernel's transport                       *)
(* (jupyter/src/transport.rs): an endpoint of kind PUB with its            *)
(* connections.                                                            *)
(*                                                                         *)
(* A connection is admitted by a slot, registered under its identity after *)
(* its handshake, subscribes, and ends for many reasons.  publish()        *)
(* reserves the bytes and the count of every subscriber and the global     *)
(* bytes of the whole fanout before any packet enters a writer queue; a    *)
(* subscriber without room is stopped.  A packet gives its credits back    *)
(* when it was written, the subscriber's first and the global ones after,  *)
(* or when its queue is dropped with the connection.                       *)
(*                                                                         *)
(* Replies are what the other kinds of endpoint queue on the same peers; a *)
(* PUB endpoint answers heartbeats only.  Topics are one prefix.           *)
(***************************************************************************)
EXTENDS Naturals, Sequences, FiniteSets, SequencesExt, Functions

CONSTANTS
    FanConn,   \* connections, each a generation of its own
    Ident,     \* identities they announce
    None,
    FanSlots,  \* connections an endpoint admits
    Bytes,     \* Peer.bytes
    Count,     \* Peer.count, and the length of its channel
    Global,    \* State.publication
    Size,      \* sizes of encoded messages
    Pubs       \* bound on the number of publications

ASSUME FanoutAssumption ==
    /\ IsFiniteSet(FanConn) /\ None \notin FanConn
    /\ {FanSlots, Bytes, Count, Global, Pubs} \subseteq Nat
    /\ Size \subseteq Nat \ {0}

VARIABLES
    conn,      \* "new", "greeting", "open", "dropped" (its queue is gone), "closed", "joined"
    ident,     \* the identity of a connection
    peers,     \* Endpoint.peers: the connection registered for an identity
    fanStop,   \* Peer.stop
    subs,      \* connections with a subscription
    due,       \* history: the publications made while it was subscribed and not stopped
    chan,      \* its packets: [size, pub], pub = 0 for a reply
    writing,   \* the packet being written, or <<>>
    lag,       \* global bytes of a written packet that are not yet given back
    got,       \* publications written to the connection
    pubs,      \* publications that succeeded
    stopping,  \* Server.stop
    uneven     \* history: a refused publication reached somebody

fanVars == <<conn, ident, peers, fanStop, subs, due, chan, writing, lag, got, pubs, stopping,
             uneven>>

Packets(c) == writing[c] \o chan[c]
SizeOf(s) == SumFunction([i \in DOMAIN s |-> s[i].size])
PublishedOf(s) == SumFunction([i \in DOMAIN s |-> IF s[i].pub = 0 THEN 0 ELSE s[i].size])
GlobalOf(c) == lag[c] + PublishedOf(Packets(c))

\* What the semaphores have left.
FreeBytes(c) == Bytes - SizeOf(Packets(c))
FreeCount(c) == Count - Len(Packets(c))
FreeGlobal == Global - SumFunction([c \in FanConn |-> GlobalOf(c)])

Registered == {peers[i] : i \in Ident} \ {None}

FanTypeOK ==
    /\ conn \in [FanConn -> {"new", "greeting", "open", "dropped", "closed", "joined"}]
    /\ ident \in [FanConn -> Ident] /\ peers \in [Ident -> FanConn \cup {None}]
    /\ fanStop \subseteq FanConn /\ subs \subseteq FanConn
    /\ \A c \in FanConn :
        /\ FreeBytes(c) \in 0 .. Bytes /\ FreeCount(c) \in 0 .. Count
        /\ Len(writing[c]) <= 1 /\ lag[c] \in {0} \cup Size
        /\ got[c] \in Seq(1 .. Pubs) /\ due[c] \in Seq(1 .. Pubs)
    /\ pubs \in 0 .. Pubs /\ stopping \in BOOLEAN /\ uneven \in BOOLEAN

FanInit ==
    /\ conn = [c \in FanConn |-> "new"] /\ ident \in [FanConn -> Ident]
    /\ peers = [i \in Ident |-> None] /\ fanStop = {}
    /\ subs = {} /\ due = [c \in FanConn |-> <<>>]
    /\ chan = [c \in FanConn |-> <<>>] /\ writing = [c \in FanConn |-> <<>>]
    /\ lag = [c \in FanConn |-> 0] /\ got = [c \in FanConn |-> <<>>]
    /\ pubs = 0 /\ stopping = FALSE /\ uneven = FALSE

\* Connections that have a slot: one that ended keeps it until it is joined.
FanAdmitted == {c \in FanConn : conn[c] \notin {"new", "joined"}}

----------------------------------------------------------------------------
(* connection() *)

\* A slot for the handshake and all that follows.
Accept(c) ==
    /\ conn[c] = "new" /\ ~stopping /\ Cardinality(FanAdmitted) < FanSlots
    /\ conn' = [conn EXCEPT ![c] = "greeting"]
    /\ UNCHANGED <<ident, peers, fanStop, subs, due, chan, writing, lag, got, pubs, stopping,
                   uneven>>

\* The handshake fails, takes too long or is shut down.
Rejected(c) ==
    /\ conn[c] = "greeting"
    /\ conn' = [conn EXCEPT ![c] = "closed"]
    /\ UNCHANGED <<ident, peers, fanStop, subs, due, chan, writing, lag, got, pubs, stopping,
                   uneven>>

\* A place in the map; a live identity is refused.
Register(c) ==
    /\ conn[c] = "greeting"
    /\ IF peers[ident[c]] = None
       THEN /\ conn' = [conn EXCEPT ![c] = "open"]
            /\ peers' = [peers EXCEPT ![ident[c]] = c]
       ELSE conn' = [conn EXCEPT ![c] = "closed"] /\ UNCHANGED peers
    /\ UNCHANGED <<ident, fanStop, subs, due, chan, writing, lag, got, pubs, stopping, uneven>>

\* subscription(), its first and its last of the prefix
Subscribe(c) ==
    /\ conn[c] = "open" /\ subs' \in {subs \cup {c}, subs \ {c}}
    /\ UNCHANGED <<conn, ident, peers, fanStop, due, chan, writing, lag, got, pubs, stopping,
                   uneven>>

\* enqueue(): a reply or a PONG; without room the connection is stopped.
FanReply(c, n) ==
    /\ conn[c] \in {"open", "dropped"} /\ c \notin fanStop
    /\ IF FreeBytes(c) >= n /\ FreeCount(c) >= 1 /\ conn[c] = "open"
       THEN chan' = [chan EXCEPT ![c] = Append(@, [size |-> n, pub |-> 0])] /\ UNCHANGED fanStop
       ELSE fanStop' = fanStop \cup {c} /\ UNCHANGED chan
    /\ UNCHANGED <<conn, ident, peers, subs, due, writing, lag, got, pubs, stopping, uneven>>

\* write_packets(): the next packet leaves the channel and keeps its credits.
Write(c) ==
    /\ conn[c] = "open" /\ writing[c] = <<>> /\ chan[c] # <<>> /\ lag[c] = 0
    /\ writing' = [writing EXCEPT ![c] = <<Head(chan[c])>>]
    /\ chan' = [chan EXCEPT ![c] = Tail(@)]
    /\ UNCHANGED <<conn, ident, peers, fanStop, subs, due, lag, got, pubs, stopping, uneven>>

\* The packet is written and dropped, its fields in the order of their declaration.
Written(c) ==
    /\ conn[c] = "open" /\ writing[c] # <<>>
    /\ LET p == Head(writing[c]) IN
        /\ got' = [got EXCEPT ![c] = IF p.pub = 0 THEN @ ELSE Append(@, p.pub)]
        /\ lag' = [lag EXCEPT ![c] = IF p.pub = 0 THEN 0 ELSE p.size]
    /\ writing' = [writing EXCEPT ![c] = <<>>]
    /\ UNCHANGED <<conn, ident, peers, fanStop, subs, due, chan, pubs, stopping, uneven>>

Release(c) ==
    /\ lag[c] # 0
    /\ lag' = [lag EXCEPT ![c] = 0]
    /\ UNCHANGED <<conn, ident, peers, fanStop, subs, due, chan, writing, got, pubs, stopping,
                   uneven>>

\* The select ends: stopped, shut down, a read or write that failed or took too long.
\* Both loops and the queue are dropped with their packets.
Drop(c) ==
    /\ conn[c] = "open" /\ lag[c] = 0
    /\ conn' = [conn EXCEPT ![c] = "dropped"]
    /\ chan' = [chan EXCEPT ![c] = <<>>] /\ writing' = [writing EXCEPT ![c] = <<>>]
    /\ UNCHANGED <<ident, peers, fanStop, subs, due, lag, got, pubs, stopping, uneven>>

\* Connected::drop
Retire(c) ==
    /\ conn[c] = "dropped"
    /\ conn' = [conn EXCEPT ![c] = "closed"]
    /\ fanStop' = fanStop \cup {c}
    /\ peers' = [peers EXCEPT ![ident[c]] = IF @ = c THEN None ELSE @]
    /\ UNCHANGED <<ident, subs, due, chan, writing, lag, got, pubs, stopping, uneven>>

\* The listener joins the task and frees its slot; nothing is left of the peer.
FanJoin(c) ==
    /\ conn[c] = "closed"
    /\ conn' = [conn EXCEPT ![c] = "joined"]
    /\ subs' = subs \ {c} /\ fanStop' = fanStop \ {c}
    /\ got' = [got EXCEPT ![c] = <<>>] /\ due' = [due EXCEPT ![c] = <<>>]
    /\ UNCHANGED <<ident, peers, chan, writing, lag, pubs, stopping, uneven>>

----------------------------------------------------------------------------
(* publish() *)

Subscribers == {c \in Registered : c \notin fanStop /\ c \in subs}

\* Mutant of Reserved: a subscriber without room misses this publication.
ReservedOrSkipped(n) == [takes |-> {c \in Subscribers : FreeBytes(c) >= n /\ FreeCount(c) >= 1},
                         slow |-> {}]

\* Who has room, and who is stopped because it has none.
Reserved(n) ==
    LET takes == {c \in Subscribers : FreeBytes(c) >= n /\ FreeCount(c) >= 1}
    IN [takes |-> takes, slow |-> Subscribers \ takes]

\* A packet for each; one whose queue is gone drops it.
FanSent(R, n) ==
    [c \in FanConn |-> IF c \in R /\ conn[c] = "open"
                    THEN Append(chan[c], [size |-> n, pub |-> pubs + 1])
                    ELSE chan[c]]

Due == [c \in FanConn |-> IF c \in Subscribers THEN Append(due[c], pubs + 1) ELSE due[c]]

\* The whole fanout is reserved, or nothing is sent.
FanPublish(n) ==
    /\ pubs < Pubs /\ ~stopping
    /\ LET r == Reserved(n)
           enough == FreeGlobal >= n * Cardinality(r.takes)
       IN /\ fanStop' = fanStop \cup r.slow
          /\ chan' = IF enough THEN FanSent(r.takes, n) ELSE chan
          /\ due' = IF enough THEN Due ELSE due
          /\ pubs' = IF enough THEN pubs + 1 ELSE pubs
          /\ uneven' = (uneven \/ (~enough /\ chan' # chan))
    /\ UNCHANGED <<conn, ident, peers, subs, writing, lag, got, stopping>>

\* Server::shutdown, or its drop
Shutdown ==
    /\ ~stopping /\ stopping' = TRUE
    /\ UNCHANGED <<conn, ident, peers, fanStop, subs, due, chan, writing, lag, got, pubs, uneven>>

Lives(c) ==
    \/ Accept(c) \/ Rejected(c) \/ Register(c) \/ Subscribe(c) \/ Write(c)
    \/ Written(c) \/ Release(c)
    \/ Drop(c) \/ Retire(c) \/ FanJoin(c)

FanNext ==
    \/ \E c \in FanConn : Lives(c)
    \/ Shutdown
    \/ \E n \in Size : FanPublish(n) \/ \E c \in FanConn : FanReply(c, n)

FanSpec == FanInit /\ [][FanNext]_fanVars

\* Mutant of Ended: the select does not watch the stop of its own connection.
EndedByShutdown(c) == stopping

\* What ends the select of a connection whose peer does nothing.
Ended(c) == stopping \/ c \in fanStop

\* A handshake has a deadline; writers, the end of connections that are stopped and the
\* listener go on.
FanFairness ==
    \A c \in FanConn :
        /\ WF_fanVars(Write(c)) /\ WF_fanVars(Written(c)) /\ WF_fanVars(Release(c))
        /\ WF_fanVars(Ended(c) /\ Drop(c)) /\ WF_fanVars(Rejected(c))
        /\ WF_fanVars(Retire(c)) /\ WF_fanVars(FanJoin(c))

FanFairSpec == FanSpec /\ FanFairness

----------------------------------------------------------------------------
(* Properties *)

\* The publications among packets, in their order.
Published(seen, p) == IF p.pub = 0 THEN seen ELSE Append(seen, p.pub)
PubsOf(s) == FoldLeft(Published, <<>>, s)

\* No subscriber misses a publication in silence: what a connection was sent are the
\* publications made while it was subscribed, in their order and without a gap; all of
\* them, or it has been stopped.
NoGaps ==
    \A c \in FanConn :
        LET all == got[c] \o PubsOf(Packets(c))
        IN /\ IsPrefix(all, due[c])
           /\ conn[c] = "open" /\ c \notin fanStop => all = due[c]

\* The credits of all packets, also those of connections that ended and of packets
\* already written, stay within the limits: nothing is given back twice or kept.
WithinLimits ==
    /\ FreeGlobal \in 0 .. Global
    /\ Cardinality(FanAdmitted) <= FanSlots
    /\ \A c \in FanConn : conn[c] # "open" => GlobalOf(c) = 0

\* A refused publication reaches nobody (plans/0048, "without a partial fanout").
NoPartialFanout == ~uneven

\* The map holds exactly the connections that live, so that an identity can come back as
\* soon as its connection has ended and none is shadowed by another.
MapExact ==
    /\ \A c \in FanConn : conn[c] \in {"open", "dropped"} <=> c \in Registered
    /\ \A i \in Ident : peers[i] # None => ident[peers[i]] = i

\* A slow subscriber is closed and gives its slot and its credits back.
SlowAreClosed == \A c \in FanConn : c \in fanStop ~> conn[c] = "joined"

\* Server::shutdown can join every task.
ShutdownEnds == stopping ~> FanAdmitted = {}

\* Server::publish and the connection tasks: a publication reaches all subscribers in order
\* or none, within the limits, and the map knows exactly who lives.
FanoutSound == FanTypeOK /\ NoGaps /\ WithinLimits /\ NoPartialFanout /\ MapExact

\* The connection tasks end when they are stopped.
FanoutProgress == SlowAreClosed /\ ShutdownEnds

=============================================================================
