-------------------------- MODULE Postgres_proofs ---------------------------
(***************************************************************************)
(* Proofs about the PostgreSQL pool and the server on top of it.           *)
(*                                                                         *)
(* PgPool, for every set of jobs and of connections and every number of    *)
(* permits: PoolInv accounts for permits, leases and connections; BaseInv  *)
(* ties what a job has said to what PostgreSQL did.  PgDispatch, for any   *)
(* requests, workers, credits and places in the queue: DispatchInv tells   *)
(* where each request and each credit is, Answers ties what a client was   *)
(* told to what ran.                                                       *)
(***************************************************************************)
EXTENDS PgPool, PgDispatch, FiniteSetTheorems, SequenceTheorems, TLAPS

INSTANCE Data_proofs WITH Op <- Pump

(***************************************************************************)
(* PgPool                                                                  *)
(***************************************************************************)

\* Where a task stands: before its transaction, with a lease, with a connection, without one.
Early == {"new", "waiting", "swap", "connect", "identify", "begin", "unbegun"}
Leasing == {"leased", "running", "ack", "retire", "replace", "reidentify"}
Wired == {"swap", "identify", "begin", "unbegun", "leased", "running", "ack", "retire",
          "reidentify"}
Bare == {"new", "waiting", "connect", "replace", "done"}

\* Jobs that hold a permit, and a lease: also those whose retire() panicked with it.
Holders == {j \in Job : \/ pc[j] \in Wired \cup {"connect", "replace"}
                        \/ pc[j] = "panicked" /\ conn[j] # None}
Lessees == {j \in Job : \/ pc[j] \in Leasing
                        \/ pc[j] = "panicked" /\ conn[j] # None /\ verdict[j] # "none"}

\* Permits and leases are counted.
Counted ==
    worker # "failed" =>
        /\ IsFiniteSet(Holders) /\ permits + Cardinality(Holders) = Size
        /\ IsFiniteSet(Lessees) /\ leased = Cardinality(Lessees)
        /\ \A j \in Job : pc[j] # "dropped"

\* A connection is one job's, or lies in the pool once.
Owned ==
    /\ \A j \in Job : /\ pc[j] \in Wired => conn[j] # None
                      /\ pc[j] \in Bare => conn[j] = None
                      /\ conn[j] \notin ToSet(idle)
    /\ \A j, k \in Job : conn[j] # None /\ conn[j] = conn[k] => j = k
    /\ IsInjective(idle) /\ Len(idle) <= permits
    /\ worker # "failed" => drivers \subseteq Held \cup ToSet(idle)
    /\ worker \in {"closing", "ended"} => \A j \in Job : pc[j] = "done"
    /\ worker = "ended" => idle = <<>>

\* What a job has said and PostgreSQL has done, by how far the job came.
Told ==
    \A j \in Job :
        /\ pc[j] \in Early => fate[j] = "none"
        /\ pc[j] \in Early \cup {"leased", "running"} => verdict[j] = "none"
        /\ pc[j] \in {"ack", "retire", "replace", "reidentify"} => verdict[j] # "none"
        /\ verdict[j] = "none" => cmd[j] = "none"
        /\ verdict[j] = "good" => cmd[j] = "COMMIT"
        /\ verdict[j] \in {"bad", "doomed", "silent"} => cmd[j] = "ROLLBACK"
        /\ wire[j] # "none" => cmd[j] # "none" /\ fate[j] \in {"committed", "rolledback"}
        /\ wire[j] = "rejected" => fate[j] = "rolledback"
        /\ wire[j] = "ok" /\ cmd[j] = "COMMIT" => fate[j] = "committed" \/ j \in spoiled
        /\ fate[j] = "committed" => cmd[j] = "COMMIT"
        /\ outcome[j] = "rejected" => wire[j] = "rejected"
        /\ outcome[j] = "unacknowledged" => cmd[j] = "ROLLBACK"
        /\ answer[j] = "ok" => cmd[j] = "COMMIT" /\ wire[j] = "ok"

\* An open transaction is on the connection of its job, until it is decided or retired.
Open ==
    /\ \A c \in Conn : on[c] # None =>
            /\ conn[on[c]] = c /\ fate[on[c]] = "open"
            /\ pc[on[c]] \in {"leased", "running", "ack", "retire", "panicked", "dropped"}
    /\ \A j \in Job : pc[j] \in {"leased", "running"} /\ conn[j] \in drivers => on[conn[j]] = j

PoolInv == PoolTypeOK /\ Counted /\ Owned
BaseInv == Told /\ Open

----------------------------------------------------------------------------
(* The stack of idle connections. *)

\* The stack is a sequence of connections.
LEMMA StackType ==
    ASSUME NEW s \in Seq(Conn)
    PROVE  Len(s) \in Nat /\ DOMAIN s = 1 .. Len(s) /\ ToSet(s) \subseteq Conn
BY DEF ToSet

\* The top of the stack is taken off.
LEMMA StackPop ==
    ASSUME NEW s \in Seq(Conn), s # <<>>, IsInjective(s)
    PROVE  /\ Front(s) \in Seq(Conn) /\ Len(Front(s)) = Len(s) - 1 /\ IsInjective(Front(s))
           /\ Last(s) \in Conn /\ Last(s) \in ToSet(s) /\ ToSet(Front(s)) = ToSet(s) \ {Last(s)}
<1>1. Len(s) \in Nat \ {0} /\ DOMAIN s = 1 .. Len(s)
  OBVIOUS
<1>2. /\ Front(s) \in Seq(Conn) /\ Len(Front(s)) = Len(s) - 1
      /\ \A i \in 1 .. (Len(s) - 1) : Front(s)[i] = s[i]
  BY <1>1 DEF Front
<1>3. DOMAIN Front(s) = 1 .. (Len(s) - 1)
  BY <1>2
<1>4. IsInjective(Front(s))
  BY <1>1, <1>2, <1>3 DEF IsInjective
<1>5. Last(s) \in Conn /\ Last(s) \in ToSet(s)
  BY <1>1 DEF Last, ToSet
<1>6. ToSet(Front(s)) = ToSet(s) \ {Last(s)}
  <2>1. ToSet(Front(s)) \subseteq ToSet(s) \ {Last(s)}
    BY <1>1, <1>2, <1>3 DEF ToSet, Last, IsInjective
  <2>2. ASSUME NEW c \in ToSet(s), c # Last(s) PROVE c \in ToSet(Front(s))
    <3>1. PICK i \in 1 .. Len(s) : c = s[i]
      BY <1>1 DEF ToSet
    <3>2. i \in 1 .. (Len(s) - 1)
      BY <1>1, <3>1, <2>2 DEF Last
    <3> QED
      BY <1>2, <1>3, <3>1, <3>2 DEF ToSet
  <2> QED
    BY <2>1, <2>2
<1> QED
  BY <1>2, <1>4, <1>5, <1>6

\* A connection that is given back is on the stack, once.
LEMMA StackPush ==
    ASSUME NEW s \in Seq(Conn), NEW c \in Conn, IsInjective(s), c \notin ToSet(s)
    PROVE  /\ Append(s, c) \in Seq(Conn) /\ Len(Append(s, c)) = Len(s) + 1
           /\ IsInjective(Append(s, c)) /\ ToSet(Append(s, c)) = ToSet(s) \cup {c}
<1>1. Len(s) \in Nat /\ DOMAIN s = 1 .. Len(s)
  OBVIOUS
<1>2. /\ Append(s, c) \in Seq(Conn) /\ Len(Append(s, c)) = Len(s) + 1
      /\ \A i \in 1 .. Len(s) : Append(s, c)[i] = s[i]
      /\ Append(s, c)[Len(s) + 1] = c
  BY <1>1
<1>3. DOMAIN Append(s, c) = 1 .. (Len(s) + 1)
  BY <1>2
<1>4. \A i \in 1 .. Len(s) : s[i] # c
  BY <1>1 DEF ToSet
<1>5. IsInjective(Append(s, c))
  BY <1>1, <1>2, <1>3, <1>4 DEF IsInjective
<1>6. ToSet(Append(s, c)) \subseteq ToSet(s) \cup {c}
  BY <1>1, <1>2, <1>3 DEF ToSet
<1>7. ToSet(s) \subseteq ToSet(Append(s, c))
  BY <1>1, <1>2, <1>3 DEF ToSet
<1>8. c \in ToSet(Append(s, c))
  BY <1>1, <1>2, <1>3 DEF ToSet
<1> QED
  BY <1>2, <1>5, <1>6, <1>7, <1>8

\* The bottom of the stack is taken away, as close() does.
LEMMA StackShift ==
    ASSUME NEW s \in Seq(Conn), s # <<>>, IsInjective(s)
    PROVE  /\ Tail(s) \in Seq(Conn) /\ Len(Tail(s)) = Len(s) - 1 /\ IsInjective(Tail(s))
           /\ Head(s) \in ToSet(s) /\ ToSet(Tail(s)) = ToSet(s) \ {Head(s)}
<1>1. Len(s) \in Nat \ {0} /\ DOMAIN s = 1 .. Len(s) /\ Head(s) = s[1]
  OBVIOUS
<1>2. /\ Tail(s) \in Seq(Conn) /\ Len(Tail(s)) = Len(s) - 1
      /\ \A i \in 1 .. (Len(s) - 1) : Tail(s)[i] = s[i + 1]
  BY <1>1
<1>3. DOMAIN Tail(s) = 1 .. (Len(s) - 1)
  BY <1>2
<1>4. IsInjective(Tail(s))
  BY <1>1, <1>2, <1>3 DEF IsInjective
<1>5. Head(s) \in ToSet(s)
  BY <1>1 DEF ToSet
<1>6. ToSet(Tail(s)) = ToSet(s) \ {Head(s)}
  <2>1. ToSet(Tail(s)) \subseteq ToSet(s) \ {Head(s)}
    BY <1>1, <1>2, <1>3 DEF ToSet, IsInjective
  <2>2. ASSUME NEW c \in ToSet(s), c # Head(s) PROVE c \in ToSet(Tail(s))
    <3>1. PICK i \in 1 .. Len(s) : c = s[i]
      BY <1>1 DEF ToSet
    <3>2. i - 1 \in 1 .. (Len(s) - 1) /\ Tail(s)[i - 1] = s[i]
      BY <1>1, <1>2, <3>1, <2>2
    <3> QED
      BY <1>3, <3>1, <3>2 DEF ToSet
  <2> QED
    BY <2>1, <2>2
<1> QED
  BY <1>2, <1>4, <1>5, <1>6

----------------------------------------------------------------------------
(* Counting permits and leases. *)

Keeps == Holders' = Holders /\ permits' = permits
Takes(j) ==
    permits > 0 /\ j \notin Holders /\ Holders' = Holders \cup {j} /\ permits' = permits - 1
Gives(j) == j \in Holders /\ Holders' = Holders \ {j} /\ permits' = permits + 1

LeaseKept == Lessees' = Lessees /\ leased' = leased
LeaseTaken(j) == j \notin Lessees /\ Lessees' = Lessees \cup {j} /\ leased' = leased + 1
LeaseGiven(j) == j \in Lessees /\ Lessees' = Lessees \ {j} /\ leased' = leased - 1

\* What a step takes or gives back is counted.
LEMMA Balance ==
    ASSUME PoolTypeOK, Counted, worker # "failed",
           Keeps \/ \E j \in Job : Takes(j) \/ Gives(j),
           LeaseKept \/ \E j \in Job : LeaseTaken(j) \/ LeaseGiven(j),
           \A k \in Job : pc'[k] # "dropped"
    PROVE  Counted' /\ permits' \in 0 .. Size /\ leased' \in 0 .. Size
<1>1. /\ IsFiniteSet(Holders) /\ permits + Cardinality(Holders) = Size
      /\ IsFiniteSet(Lessees) /\ leased = Cardinality(Lessees)
      /\ permits \in Nat /\ Size \in Nat
  BY PoolAssumption DEF Counted, PoolTypeOK
<1>2. Cardinality(Holders) \in Nat /\ Cardinality(Lessees) \in Nat
  BY <1>1, FS_CardinalityType
<1>3. IsFiniteSet(Holders') /\ permits' + Cardinality(Holders') = Size
  <2>1. CASE Keeps
    BY <1>1, <2>1 DEF Keeps
  <2>2. ASSUME NEW j \in Job, Takes(j)
        PROVE  IsFiniteSet(Holders') /\ permits' + Cardinality(Holders') = Size
    <3>1. IsFiniteSet(Holders') /\ Cardinality(Holders') = Cardinality(Holders) + 1
      BY <1>1, <2>2, FS_AddElement DEF Takes
    <3> QED
      BY <1>1, <1>2, <2>2, <3>1 DEF Takes
  <2>3. ASSUME NEW j \in Job, Gives(j)
        PROVE  IsFiniteSet(Holders') /\ permits' + Cardinality(Holders') = Size
    <3>1. IsFiniteSet(Holders') /\ Cardinality(Holders') = Cardinality(Holders) - 1
      BY <1>1, <2>3, FS_RemoveElement DEF Gives
    <3> QED
      BY <1>1, <1>2, <2>3, <3>1 DEF Gives
  <2> QED
    BY <2>1, <2>2, <2>3
<1>4. IsFiniteSet(Lessees') /\ leased' = Cardinality(Lessees')
  <2>1. CASE LeaseKept
    BY <1>1, <2>1 DEF LeaseKept
  <2>2. ASSUME NEW j \in Job, LeaseTaken(j)
        PROVE  IsFiniteSet(Lessees') /\ leased' = Cardinality(Lessees')
    BY <1>1, <1>2, <2>2, FS_AddElement DEF LeaseTaken
  <2>3. ASSUME NEW j \in Job, LeaseGiven(j)
        PROVE  IsFiniteSet(Lessees') /\ leased' = Cardinality(Lessees')
    BY <1>1, <1>2, <2>3, FS_RemoveElement DEF LeaseGiven
  <2> QED
    BY <2>1, <2>2, <2>3
<1>5. Cardinality(Holders') \in Nat /\ Cardinality(Lessees') \in Nat
  BY <1>3, <1>4, FS_CardinalityType
<1>6. Lessees' \subseteq Holders'
  BY DEF Lessees, Holders, Leasing, Wired
<1>7. Cardinality(Lessees') <= Cardinality(Holders')
  BY <1>3, <1>6, FS_Subset
<1>8. permits' \in Nat
  BY <1>1 DEF Keeps, Takes, Gives
<1>9. Counted'
  BY <1>3, <1>4 DEF Counted
<1>10. permits' \in 0 .. Size /\ leased' \in 0 .. Size
  BY <1>1, <1>3, <1>4, <1>5, <1>7, <1>8
<1> QED
  BY <1>9, <1>10

----------------------------------------------------------------------------
(* The steps. *)

USE DEF Up, Early, Leasing, Wired, Bare, Ended, poolVars, poolTaskVars, baseVars, pgPoolVars

\* Every step keeps the invariant.
LEMMA PoolStep ==
    ASSUME PoolInv, BaseInv, PoolNext
    PROVE  PoolInv' /\ BaseInv'
<1> USE PoolAssumption
<1>a. PoolTypeOK /\ Counted /\ Owned /\ Told /\ Open
  BY DEF PoolInv, BaseInv
<1>b. Len(idle) \in Nat /\ ToSet(idle) \subseteq Conn
  BY <1>a, StackType DEF PoolTypeOK
<1>1. ASSUME NEW j \in Job, Cancel(j)
      PROVE  PoolInv' /\ BaseInv'
  <2> USE <1>1 DEF Cancel
  <2>a. worker # "failed" /\ \A k \in Job : pc'[k] # "dropped"
    BY <1>a DEF PoolTypeOK, Counted
  <2>1. Keeps /\ LeaseKept
    BY <1>a DEF PoolTypeOK, Owned, Told, Keeps, LeaseKept, Holders, Lessees
  <2>2. Counted' /\ permits' \in 0 .. Size /\ leased' \in 0 .. Size
    BY <1>a, <2>1, <2>a, Balance
  <2>4. PoolTypeOK'
    BY <1>a, <2>2 DEF PoolTypeOK
  <2>5. Owned'
    BY <1>a, <1>b, <2>2 DEF PoolTypeOK, Owned, Held
  <2>6. Told'
    BY <1>a DEF PoolTypeOK, Told
  <2>7. Open'
    BY <1>a, <1>b DEF PoolTypeOK, Owned, Told, Open
  <2> QED
    BY <2>2, <2>4, <2>5, <2>6, <2>7 DEF PoolInv, BaseInv
<1>2. ASSUME NEW j \in Job, Start(j)
      PROVE  PoolInv' /\ BaseInv'
  <2> USE <1>2 DEF Start, Goto
  <2>a. worker # "failed" /\ \A k \in Job : pc'[k] # "dropped"
    BY <1>a DEF PoolTypeOK, Counted
  <2>1. Keeps /\ LeaseKept
    BY <1>a DEF PoolTypeOK, Owned, Told, Keeps, LeaseKept, Holders, Lessees
  <2>2. Counted' /\ permits' \in 0 .. Size /\ leased' \in 0 .. Size
    BY <1>a, <2>1, <2>a, Balance
  <2>4. PoolTypeOK'
    BY <1>a, <2>2 DEF PoolTypeOK
  <2>5. Owned'
    BY <1>a, <1>b, <2>2 DEF PoolTypeOK, Owned, Held
  <2>6. Told'
    BY <1>a DEF PoolTypeOK, Told
  <2>7. Open'
    BY <1>a, <1>b DEF PoolTypeOK, Owned, Told, Open
  <2> QED
    BY <2>2, <2>4, <2>5, <2>6, <2>7 DEF PoolInv, BaseInv
<1>3. ASSUME NEW j \in Job, CancelWait(j)
      PROVE  PoolInv' /\ BaseInv'
  <2> USE <1>3 DEF CancelWait, Fail, Goto
  <2>a. worker # "failed" /\ \A k \in Job : pc'[k] # "dropped"
    BY <1>a DEF PoolTypeOK, Counted
  <2>1. Keeps /\ LeaseKept
    BY <1>a DEF PoolTypeOK, Owned, Told, Keeps, LeaseKept, Holders, Lessees
  <2>2. Counted' /\ permits' \in 0 .. Size /\ leased' \in 0 .. Size
    BY <1>a, <2>1, <2>a, Balance
  <2>4. PoolTypeOK'
    BY <1>a, <2>2 DEF PoolTypeOK
  <2>5. Owned'
    BY <1>a, <1>b, <2>2 DEF PoolTypeOK, Owned, Held
  <2>6. Told'
    BY <1>a DEF PoolTypeOK, Told
  <2>7. Open'
    BY <1>a, <1>b DEF PoolTypeOK, Owned, Told, Open
  <2> QED
    BY <2>2, <2>4, <2>5, <2>6, <2>7 DEF PoolInv, BaseInv
<1>4. ASSUME NEW j \in Job, idle = <<>>, Acquire(j)
      PROVE  PoolInv' /\ BaseInv'
  <2> USE <1>4 DEF Acquire, Goto
  <2>a. worker # "failed" /\ \A k \in Job : pc'[k] # "dropped"
    BY <1>a DEF PoolTypeOK, Counted
  <2>1. Takes(j) /\ LeaseKept
    BY <1>a DEF PoolTypeOK, Owned, Told, LeaseKept, Takes, Holders, Lessees
  <2>2. Counted' /\ permits' \in 0 .. Size /\ leased' \in 0 .. Size
    BY <1>a, <2>1, <2>a, Balance
  <2>4. PoolTypeOK'
    BY <1>a, <2>2 DEF PoolTypeOK
  <2>5. Owned'
    BY <1>a, <1>b, <2>2 DEF PoolTypeOK, Owned, Held
  <2>6. Told'
    BY <1>a DEF PoolTypeOK, Told
  <2>7. Open'
    BY <1>a, <1>b DEF PoolTypeOK, Owned, Told, Open
  <2> QED
    BY <2>2, <2>4, <2>5, <2>6, <2>7 DEF PoolInv, BaseInv
<1>5. ASSUME NEW j \in Job, idle # <<>>, Acquire(j)
      PROVE  PoolInv' /\ BaseInv'
  <2> USE <1>5 DEF Acquire, Goto
  <2>a. worker # "failed" /\ \A k \in Job : pc'[k] # "dropped"
    BY <1>a DEF PoolTypeOK, Counted
  <2>1. Takes(j) /\ LeaseKept
    BY <1>a DEF PoolTypeOK, Owned, Told, LeaseKept, Takes, Holders, Lessees
  <2>2. Counted' /\ permits' \in 0 .. Size /\ leased' \in 0 .. Size
    BY <1>a, <2>1, <2>a, Balance
  <2>3. /\ idle' \in Seq(Conn) /\ Len(idle') = Len(idle) - 1 /\ IsInjective(idle')
        /\ Last(idle) \in Conn /\ Last(idle) \in ToSet(idle)
        /\ ToSet(idle') = ToSet(idle) \ {Last(idle)}
    BY <1>a, StackPop DEF PoolTypeOK, Owned
  <2>b. /\ conn' = [conn EXCEPT ![j] = Last(idle)] /\ conn[j] = None
        /\ \E l \in {"begin", "swap"} : pc' = [pc EXCEPT ![j] = l]
    BY <1>a DEF PoolTypeOK, Owned
  <2>4. PoolTypeOK'
    BY <1>a, <2>2, <2>3, <2>b DEF PoolTypeOK
  <2>5. Owned'
    <3>1. \A i \in Job : /\ pc'[i] \in Wired => conn'[i] # None
                         /\ pc'[i] \in Bare => conn'[i] = None
                         /\ conn'[i] \notin ToSet(idle')
      BY <1>a, <1>b, <2>3, <2>b DEF PoolTypeOK, Owned
    <3>2. \A i, k \in Job : conn'[i] # None /\ conn'[i] = conn'[k] => i = k
      BY <1>a, <2>3, <2>b DEF PoolTypeOK, Owned
    <3>3. drivers' \subseteq Held' \cup ToSet(idle')
      <4>1. Last(idle) \in Held'
        <5>1. pc'[j] \in {"begin", "swap"} /\ conn'[j] = Last(idle) /\ Last(idle) # None
          BY <1>a, <2>3, <2>b DEF PoolTypeOK
        <5> QED
          BY <5>1 DEF Held
      <4>2. Held \subseteq Held'
        BY <1>a, <2>b DEF PoolTypeOK, Held
      <4>3. drivers \subseteq Held \cup ToSet(idle)
        BY <1>a, <2>a DEF Owned
      <4> QED
        BY <2>3, <4>1, <4>2, <4>3
    <3> QED
      BY <1>a, <1>b, <2>1, <2>3, <2>b, <3>1, <3>2, <3>3 DEF PoolTypeOK, Owned, Takes
  <2>6. Told'
    BY <1>a DEF PoolTypeOK, Told
  <2>7. Open'
    BY <1>a, <1>b, <2>3 DEF PoolTypeOK, Owned, Told, Open
  <2> QED
    BY <2>2, <2>4, <2>5, <2>6, <2>7 DEF PoolInv, BaseInv
<1>6. ASSUME NEW j \in Job, Begin(j)
      PROVE  PoolInv' /\ BaseInv'
  <2> USE <1>6 DEF Begin, Goto
  <2>a. worker # "failed" /\ \A k \in Job : pc'[k] # "dropped"
    BY <1>a DEF PoolTypeOK, Counted
  <2>1. Keeps /\ LeaseTaken(j)
    BY <1>a DEF PoolTypeOK, Owned, Told, Keeps, LeaseTaken, Holders, Lessees
  <2>2. Counted' /\ permits' \in 0 .. Size /\ leased' \in 0 .. Size
    BY <1>a, <2>1, <2>a, Balance
  <2>4. PoolTypeOK'
    BY <1>a, <2>2 DEF PoolTypeOK
  <2>5. Owned'
    BY <1>a, <1>b, <2>2 DEF PoolTypeOK, Owned, Held
  <2>6. Told'
    BY <1>a DEF PoolTypeOK, Told
  <2>7. Open'
    BY <1>a, <1>b DEF PoolTypeOK, Owned, Told, Open
  <2> QED
    BY <2>2, <2>4, <2>5, <2>6, <2>7 DEF PoolInv, BaseInv
<1>7. ASSUME NEW j \in Job, BeginFails(j)
      PROVE  PoolInv' /\ BaseInv'
  <2> USE <1>7 DEF BeginFails, Goto
  <2>a. worker # "failed" /\ \A k \in Job : pc'[k] # "dropped"
    BY <1>a DEF PoolTypeOK, Counted
  <2>1. Keeps /\ LeaseKept
    BY <1>a DEF PoolTypeOK, Owned, Told, Keeps, LeaseKept, Holders, Lessees
  <2>2. Counted' /\ permits' \in 0 .. Size /\ leased' \in 0 .. Size
    BY <1>a, <2>1, <2>a, Balance
  <2>4. PoolTypeOK'
    BY <1>a, <2>2 DEF PoolTypeOK
  <2>5. Owned'
    BY <1>a, <1>b, <2>2 DEF PoolTypeOK, Owned, Held
  <2>6. Told'
    BY <1>a DEF PoolTypeOK, Told
  <2>7. Open'
    BY <1>a, <1>b DEF PoolTypeOK, Owned, Told, Open
  <2> QED
    BY <2>2, <2>4, <2>5, <2>6, <2>7 DEF PoolInv, BaseInv
<1>8. ASSUME NEW j \in Job, Dial(j)
      PROVE  PoolInv' /\ BaseInv'
  <2> USE <1>8 DEF Dial, Goto
  <2>a. worker # "failed" /\ \A k \in Job : pc'[k] # "dropped"
    BY <1>a DEF PoolTypeOK, Counted
  <2>1. Keeps /\ LeaseKept
    BY <1>a DEF PoolTypeOK, Owned, Told, Keeps, LeaseKept, Holders, Lessees
  <2>2. Counted' /\ permits' \in 0 .. Size /\ leased' \in 0 .. Size
    BY <1>a, <2>1, <2>a, Balance
  <2>4. PoolTypeOK'
    BY <1>a, <2>2 DEF PoolTypeOK
  <2>5. Owned'
    BY <1>a, <1>b, <2>2 DEF PoolTypeOK, Owned, Held
  <2>6. Told'
    BY <1>a DEF PoolTypeOK, Told
  <2>7. Open'
    BY <1>a, <1>b DEF PoolTypeOK, Owned, Told, Open
  <2> QED
    BY <2>2, <2>4, <2>5, <2>6, <2>7 DEF PoolInv, BaseInv
<1>9. ASSUME NEW j \in Job, pc[j] = "identify", Identified(j)
      PROVE  PoolInv' /\ BaseInv'
  <2> USE <1>9 DEF Identified, Goto, Settle
  <2>a. worker # "failed" /\ \A k \in Job : pc'[k] # "dropped"
    BY <1>a DEF PoolTypeOK, Counted
  <2>1. Keeps /\ LeaseKept
    BY <1>a DEF PoolTypeOK, Owned, Told, Keeps, LeaseKept, Holders, Lessees
  <2>2. Counted' /\ permits' \in 0 .. Size /\ leased' \in 0 .. Size
    BY <1>a, <2>1, <2>a, Balance
  <2>4. PoolTypeOK'
    BY <1>a, <2>2 DEF PoolTypeOK
  <2>5. Owned'
    BY <1>a, <1>b, <2>2 DEF PoolTypeOK, Owned, Held
  <2>6. Told'
    BY <1>a DEF PoolTypeOK, Told
  <2>7. Open'
    BY <1>a, <1>b DEF PoolTypeOK, Owned, Told, Open
  <2> QED
    BY <2>2, <2>4, <2>5, <2>6, <2>7 DEF PoolInv, BaseInv
<1>10. ASSUME NEW j \in Job, pc[j] # "identify", Identified(j)
      PROVE  PoolInv' /\ BaseInv'
  <2> USE <1>10 DEF Identified, Goto, Settle
  <2>a. worker # "failed" /\ \A k \in Job : pc'[k] # "dropped"
    BY <1>a DEF PoolTypeOK, Counted
  <2>1. Gives(j) /\ LeaseGiven(j)
    BY <1>a DEF PoolTypeOK, Owned, Told, Gives, LeaseGiven, Holders, Lessees
  <2>2. Counted' /\ permits' \in 0 .. Size /\ leased' \in 0 .. Size
    BY <1>a, <2>1, <2>a, Balance
  <2>b. conn[j] \in Conn /\ conn[j] \notin ToSet(idle) /\ pc[j] = "reidentify"
    BY <1>a DEF PoolTypeOK, Owned
  <2>c. idle' = Append(idle, conn[j]) /\ idle \in Seq(Conn) /\ IsInjective(idle)
    BY <1>a, <2>b DEF PoolTypeOK, Owned
  <2>3. /\ idle' \in Seq(Conn) /\ Len(idle') = Len(idle) + 1 /\ IsInjective(idle')
        /\ ToSet(idle') = ToSet(idle) \cup {conn[j]}
    BY <2>b, <2>c, StackPush
  <2>d. /\ conn' = [conn EXCEPT ![j] = None]
        /\ \E l \in {"panicked", "done"} : pc' = [pc EXCEPT ![j] = l]
        /\ \E a \in {answer[j], "ok", "failed"} : answer' = [answer EXCEPT ![j] = a]
    BY <2>b
  <2>4. PoolTypeOK'
    BY <1>a, <2>2, <2>3, <2>d DEF PoolTypeOK
  <2>5. Owned'
    <3>1. \A i \in Job : /\ pc'[i] \in Wired => conn'[i] # None
                         /\ pc'[i] \in Bare => conn'[i] = None
                         /\ conn'[i] \notin ToSet(idle')
      BY <1>a, <1>b, <2>b, <2>3, <2>d DEF PoolTypeOK, Owned
    <3>2. \A i, k \in Job : conn'[i] # None /\ conn'[i] = conn'[k] => i = k
      BY <1>a, <2>b, <2>3, <2>d DEF PoolTypeOK, Owned
    <3>3. drivers' \subseteq Held' \cup ToSet(idle')
      BY <1>a, <2>b, <2>3, <2>d DEF PoolTypeOK, Owned, Held
    <3> QED
      BY <1>a, <1>b, <2>1, <2>b, <2>3, <2>d, <3>1, <3>2, <3>3 DEF PoolTypeOK, Owned, Gives
  <2>6. Told'
    BY <1>a DEF PoolTypeOK, Told
  <2>e. ASSUME NEW c \in Conn, on[c] = j PROVE FALSE
    <3>1. on[c] # None
      BY <2>e
    <3> QED
      BY <1>a, <2>b, <2>e, <3>1 DEF Open
  <2>7. Open'
    BY <1>a, <2>b, <2>d, <2>e DEF PoolTypeOK, Open
  <2> QED
    BY <2>2, <2>4, <2>5, <2>6, <2>7 DEF PoolInv, BaseInv
<1>11. ASSUME NEW j \in Job, pc[j] \in Early, ConnectFails(j)
      PROVE  PoolInv' /\ BaseInv'
  <2> USE <1>11 DEF ConnectFails, Goto, Settle, Fail
  <2>a. worker # "failed" /\ \A k \in Job : pc'[k] # "dropped"
    BY <1>a DEF PoolTypeOK, Counted
  <2>1. Gives(j) /\ LeaseKept
    BY <1>a DEF PoolTypeOK, Owned, Told, Gives, LeaseKept, Holders, Lessees
  <2>2. Counted' /\ permits' \in 0 .. Size /\ leased' \in 0 .. Size
    BY <1>a, <2>1, <2>a, Balance
  <2>4. PoolTypeOK'
    BY <1>a, <2>2 DEF PoolTypeOK
  <2>5. Owned'
    <3>1. \A i \in Job : /\ pc'[i] \in Wired => conn'[i] # None
                         /\ pc'[i] \in Bare => conn'[i] = None
                         /\ conn'[i] \notin ToSet(idle')
      BY <1>a, <1>b, <2>2 DEF PoolTypeOK, Owned
    <3>2. \A i, k \in Job : conn'[i] # None /\ conn'[i] = conn'[k] => i = k
      BY <1>a, <2>2 DEF PoolTypeOK, Owned
    <3>3. drivers' \subseteq Held' \cup ToSet(idle')
      BY <1>a, <2>2 DEF PoolTypeOK, Owned, Held
    <3> QED
      BY <1>a, <1>b, <2>1, <2>2, <3>1, <3>2, <3>3 DEF PoolTypeOK, Owned, Gives
  <2>6. Told'
    BY <1>a DEF PoolTypeOK, Told
  <2>7. Open'
    BY <1>a, <1>b DEF PoolTypeOK, Owned, Told, Open
  <2> QED
    BY <2>2, <2>4, <2>5, <2>6, <2>7 DEF PoolInv, BaseInv
<1>12. ASSUME NEW j \in Job, pc[j] \notin Early, ConnectFails(j)
      PROVE  PoolInv' /\ BaseInv'
  <2> USE <1>12 DEF ConnectFails, Goto, Settle, Fail
  <2>a. worker # "failed" /\ \A k \in Job : pc'[k] # "dropped"
    BY <1>a DEF PoolTypeOK, Counted
  <2>1. Gives(j) /\ LeaseGiven(j)
    BY <1>a DEF PoolTypeOK, Owned, Told, Gives, LeaseGiven, Holders, Lessees
  <2>2. Counted' /\ permits' \in 0 .. Size /\ leased' \in 0 .. Size
    BY <1>a, <2>1, <2>a, Balance
  <2>b. /\ conn' = [conn EXCEPT ![j] = None]
        /\ \E l \in {"panicked", "done"} : pc' = [pc EXCEPT ![j] = l]
        /\ \E a \in {answer[j], "ok", "failed"} : answer' = [answer EXCEPT ![j] = a]
    OBVIOUS
  <2>4. PoolTypeOK'
    BY <1>a, <2>2, <2>b DEF PoolTypeOK
  <2>5. Owned'
    <3>1. \A i \in Job : /\ pc'[i] \in Wired => conn'[i] # None
                         /\ pc'[i] \in Bare => conn'[i] = None
                         /\ conn'[i] \notin ToSet(idle')
      BY <1>a, <1>b, <2>b DEF PoolTypeOK, Owned
    <3>2. \A i, k \in Job : conn'[i] # None /\ conn'[i] = conn'[k] => i = k
      BY <1>a, <2>b DEF PoolTypeOK, Owned
    <3>3. drivers' \subseteq Held' \cup ToSet(idle')
      BY <1>a, <2>b DEF PoolTypeOK, Owned, Held
    <3> QED
      BY <1>a, <1>b, <2>1, <2>b, <3>1, <3>2, <3>3 DEF PoolTypeOK, Owned, Gives
  <2>6. Told'
    BY <1>a DEF PoolTypeOK, Told
  <2>7. Open'
    BY <1>a, <1>b DEF PoolTypeOK, Owned, Told, Open
  <2> QED
    BY <2>2, <2>4, <2>5, <2>6, <2>7 DEF PoolInv, BaseInv
<1>13. ASSUME NEW j \in Job, pc[j] # "unbegun", Retired(j)
      PROVE  PoolInv' /\ BaseInv'
  <2> USE <1>13 DEF Retired, Goto, Fail
  <2>a. worker # "failed" /\ \A k \in Job : pc'[k] # "dropped"
    BY <1>a DEF PoolTypeOK, Counted
  <2>1. Keeps /\ LeaseKept
    BY <1>a DEF PoolTypeOK, Owned, Told, Keeps, LeaseKept, Holders, Lessees
  <2>2. Counted' /\ permits' \in 0 .. Size /\ leased' \in 0 .. Size
    BY <1>a, <2>1, <2>a, Balance
  <2>4. PoolTypeOK'
    BY <1>a, <2>2 DEF PoolTypeOK
  <2>5. Owned'
    BY <1>a, <1>b, <2>2 DEF PoolTypeOK, Owned, Held
  <2>6. Told'
    BY <1>a DEF PoolTypeOK, Told
  <2>7. Open'
    BY <1>a, <1>b DEF PoolTypeOK, Owned, Told, Open
  <2> QED
    BY <2>2, <2>4, <2>5, <2>6, <2>7 DEF PoolInv, BaseInv
<1>14. ASSUME NEW j \in Job, pc[j] = "unbegun", Retired(j)
      PROVE  PoolInv' /\ BaseInv'
  <2> USE <1>14 DEF Retired, Goto, Fail
  <2>a. worker # "failed" /\ \A k \in Job : pc'[k] # "dropped"
    BY <1>a DEF PoolTypeOK, Counted
  <2>1. Gives(j) /\ LeaseKept
    BY <1>a DEF PoolTypeOK, Owned, Told, Gives, LeaseKept, Holders, Lessees
  <2>2. Counted' /\ permits' \in 0 .. Size /\ leased' \in 0 .. Size
    BY <1>a, <2>1, <2>a, Balance
  <2>4. PoolTypeOK'
    BY <1>a, <2>2 DEF PoolTypeOK
  <2>5. Owned'
    BY <1>a, <1>b, <2>2 DEF PoolTypeOK, Owned, Held
  <2>6. Told'
    BY <1>a DEF PoolTypeOK, Told
  <2>7. Open'
    BY <1>a, <1>b DEF PoolTypeOK, Owned, Told, Open
  <2> QED
    BY <2>2, <2>4, <2>5, <2>6, <2>7 DEF PoolInv, BaseInv
<1>15. ASSUME NEW j \in Job, RetireLate(j)
      PROVE  PoolInv' /\ BaseInv'
  <2> USE <1>15 DEF RetireLate, Goto
  <2>a. worker # "failed" /\ \A k \in Job : pc'[k] # "dropped"
    BY <1>a DEF PoolTypeOK, Counted
  <2>1. Keeps /\ LeaseKept
    BY <1>a DEF PoolTypeOK, Owned, Told, Keeps, LeaseKept, Holders, Lessees
  <2>2. Counted' /\ permits' \in 0 .. Size /\ leased' \in 0 .. Size
    BY <1>a, <2>1, <2>a, Balance
  <2>4. PoolTypeOK'
    BY <1>a, <2>2 DEF PoolTypeOK
  <2>5. Owned'
    BY <1>a, <1>b, <2>2 DEF PoolTypeOK, Owned, Held
  <2>6. Told'
    BY <1>a DEF PoolTypeOK, Told
  <2>7. Open'
    BY <1>a, <1>b DEF PoolTypeOK, Owned, Told, Open
  <2> QED
    BY <2>2, <2>4, <2>5, <2>6, <2>7 DEF PoolInv, BaseInv
<1>16. ASSUME NEW j \in Job, Prepare(j)
      PROVE  PoolInv' /\ BaseInv'
  <2> USE <1>16 DEF Prepare, Finish, Goto
  <2>a. worker # "failed" /\ \A k \in Job : pc'[k] # "dropped"
    BY <1>a DEF PoolTypeOK, Counted
  <2>1. Keeps /\ LeaseKept
    BY <1>a DEF PoolTypeOK, Owned, Told, Keeps, LeaseKept, Holders, Lessees
  <2>2. Counted' /\ permits' \in 0 .. Size /\ leased' \in 0 .. Size
    BY <1>a, <2>1, <2>a, Balance
  <2>3. /\ \E l \in {"running", "ack"} : pc' = [pc EXCEPT ![j] = l]
        /\ \/ verdict' = verdict
           \/ \E v \in {"silent", "bad", "doomed"} : verdict' = [verdict EXCEPT ![j] = v]
        /\ cmd' = cmd \/ cmd' = [cmd EXCEPT ![j] = "ROLLBACK"]
    OBVIOUS
  <2>4. PoolTypeOK'
    BY <1>a, <2>2, <2>3 DEF PoolTypeOK
  <2>5. Owned'
    BY <1>a, <1>b, <2>2 DEF PoolTypeOK, Owned, Held
  <2>6. Told'
    BY <1>a DEF PoolTypeOK, Told
  <2>7. Open'
    BY <1>a, <1>b DEF PoolTypeOK, Owned, Told, Open
  <2> QED
    BY <2>2, <2>4, <2>5, <2>6, <2>7 DEF PoolInv, BaseInv
<1>17. ASSUME NEW j \in Job, StatementFails(j)
      PROVE  PoolInv' /\ BaseInv'
  <2> USE <1>17 DEF StatementFails
  <2>a. worker # "failed" /\ \A k \in Job : pc'[k] # "dropped"
    BY <1>a DEF PoolTypeOK, Counted
  <2>1. Keeps /\ LeaseKept
    BY <1>a DEF PoolTypeOK, Owned, Told, Keeps, LeaseKept, Holders, Lessees
  <2>2. Counted' /\ permits' \in 0 .. Size /\ leased' \in 0 .. Size
    BY <1>a, <2>1, <2>a, Balance
  <2>4. PoolTypeOK'
    BY <1>a, <2>2 DEF PoolTypeOK
  <2>5. Owned'
    BY <1>a, <1>b, <2>2 DEF PoolTypeOK, Owned, Held
  <2>6. Told'
    BY <1>a DEF PoolTypeOK, Told
  <2>7. Open'
    BY <1>a, <1>b DEF PoolTypeOK, Owned, Told, Open
  <2> QED
    BY <2>2, <2>4, <2>5, <2>6, <2>7 DEF PoolInv, BaseInv
<1>18. ASSUME NEW j \in Job, Run(j)
      PROVE  PoolInv' /\ BaseInv'
  <2> USE <1>18 DEF Run, Finish, Goto
  <2>a. worker # "failed" /\ \A k \in Job : pc'[k] # "dropped"
    BY <1>a DEF PoolTypeOK, Counted
  <2>1. Keeps /\ LeaseKept
    BY <1>a DEF PoolTypeOK, Owned, Told, Keeps, LeaseKept, Holders, Lessees
  <2>2. Counted' /\ permits' \in 0 .. Size /\ leased' \in 0 .. Size
    BY <1>a, <2>1, <2>a, Balance
  <2>4. PoolTypeOK'
    BY <1>a, <2>2 DEF PoolTypeOK
  <2>5. Owned'
    BY <1>a, <1>b, <2>2 DEF PoolTypeOK, Owned, Held
  <2>6. Told'
    BY <1>a DEF PoolTypeOK, Told
  <2>7. Open'
    BY <1>a, <1>b DEF PoolTypeOK, Owned, Told, Open
  <2> QED
    BY <2>2, <2>4, <2>5, <2>6, <2>7 DEF PoolInv, BaseInv
<1>19. ASSUME NEW j \in Job, Interrupt(j)
      PROVE  PoolInv' /\ BaseInv'
  <2> USE <1>19 DEF Interrupt, Finish, Goto
  <2>a. worker # "failed" /\ \A k \in Job : pc'[k] # "dropped"
    BY <1>a DEF PoolTypeOK, Counted
  <2>1. Keeps /\ LeaseKept
    BY <1>a DEF PoolTypeOK, Owned, Told, Keeps, LeaseKept, Holders, Lessees
  <2>2. Counted' /\ permits' \in 0 .. Size /\ leased' \in 0 .. Size
    BY <1>a, <2>1, <2>a, Balance
  <2>4. PoolTypeOK'
    BY <1>a, <2>2 DEF PoolTypeOK
  <2>5. Owned'
    BY <1>a, <1>b, <2>2 DEF PoolTypeOK, Owned, Held
  <2>6. Told'
    BY <1>a DEF PoolTypeOK, Told
  <2>7. Open'
    BY <1>a, <1>b DEF PoolTypeOK, Owned, Told, Open
  <2> QED
    BY <2>2, <2>4, <2>5, <2>6, <2>7 DEF PoolInv, BaseInv
<1>20. ASSUME NEW j \in Job, Ack(j)
      PROVE  PoolInv' /\ BaseInv'
  <2> USE <1>20 DEF Ack, Settle, Goto
  <2>a. worker # "failed" /\ \A k \in Job : pc'[k] # "dropped"
    BY <1>a DEF PoolTypeOK, Counted
  <2>1. Gives(j) /\ LeaseGiven(j)
    BY <1>a DEF PoolTypeOK, Owned, Told, Gives, LeaseGiven, Holders, Lessees
  <2>2. Counted' /\ permits' \in 0 .. Size /\ leased' \in 0 .. Size
    BY <1>a, <2>1, <2>a, Balance
  <2>3. /\ idle' \in Seq(Conn) /\ Len(idle') = Len(idle) + 1 /\ IsInjective(idle')
        /\ ToSet(idle') = ToSet(idle) \cup {conn[j]}
    BY <1>a, StackPush DEF PoolTypeOK, Owned
  <2>4. PoolTypeOK'
    BY <1>a, <2>2, <2>3 DEF PoolTypeOK
  <2>5. Owned'
    BY <1>a, <1>b, <2>2, <2>3 DEF PoolTypeOK, Owned, Held
  <2>6. Told'
    BY <1>a DEF PoolTypeOK, Told
  <2>b. \A c \in Conn : on[c] # j
    BY <1>a DEF PoolTypeOK, Told, Open
  <2>7. Open'
    BY <1>a, <1>b, <2>b DEF PoolTypeOK, Open
  <2> QED
    BY <2>2, <2>4, <2>5, <2>6, <2>7 DEF PoolInv, BaseInv
<1>21. ASSUME NEW j \in Job, Nack(j)
      PROVE  PoolInv' /\ BaseInv'
  <2> USE <1>21 DEF Nack, Unfinished, Goto
  <2>a. worker # "failed" /\ \A k \in Job : pc'[k] # "dropped"
    BY <1>a DEF PoolTypeOK, Counted
  <2>1. Keeps /\ LeaseKept
    BY <1>a DEF PoolTypeOK, Owned, Told, Keeps, LeaseKept, Holders, Lessees
  <2>2. Counted' /\ permits' \in 0 .. Size /\ leased' \in 0 .. Size
    BY <1>a, <2>1, <2>a, Balance
  <2>4. PoolTypeOK'
    BY <1>a, <2>2 DEF PoolTypeOK
  <2>5. Owned'
    BY <1>a, <1>b, <2>2 DEF PoolTypeOK, Owned, Held
  <2>6. Told'
    BY <1>a DEF PoolTypeOK, Told
  <2>7. Open'
    BY <1>a, <1>b DEF PoolTypeOK, Owned, Told, Open
  <2> QED
    BY <2>2, <2>4, <2>5, <2>6, <2>7 DEF PoolInv, BaseInv
<1>22. ASSUME NEW j \in Job, Lost(j)
      PROVE  PoolInv' /\ BaseInv'
  <2> USE <1>22 DEF Lost, Unfinished, Goto
  <2>a. worker # "failed" /\ \A k \in Job : pc'[k] # "dropped"
    BY <1>a DEF PoolTypeOK, Counted
  <2>1. Keeps /\ LeaseKept
    BY <1>a DEF PoolTypeOK, Owned, Told, Keeps, LeaseKept, Holders, Lessees
  <2>2. Counted' /\ permits' \in 0 .. Size /\ leased' \in 0 .. Size
    BY <1>a, <2>1, <2>a, Balance
  <2>4. PoolTypeOK'
    BY <1>a, <2>2 DEF PoolTypeOK
  <2>5. Owned'
    BY <1>a, <1>b, <2>2 DEF PoolTypeOK, Owned, Held
  <2>6. Told'
    BY <1>a DEF PoolTypeOK, Told
  <2>7. Open'
    BY <1>a, <1>b DEF PoolTypeOK, Owned, Told, Open
  <2> QED
    BY <2>2, <2>4, <2>5, <2>6, <2>7 DEF PoolInv, BaseInv
<1>23. ASSUME NEW j \in Job, Apply(j)
      PROVE  PoolInv' /\ BaseInv'
  <2> USE <1>23 DEF Apply, Decide
  <2>2. Counted' /\ permits' \in 0 .. Size /\ leased' \in 0 .. Size
    BY <1>a DEF PoolTypeOK, Counted, Holders, Lessees
  <2>3. PICK f \in {"committed", "rolledback"}, e \in {"ok", "rejected", "error"} :
            Decide(j, f) /\ wire' = [wire EXCEPT ![j] = e]
    OBVIOUS
  <2>4. PoolTypeOK'
    BY <1>a, <2>2, <2>3 DEF PoolTypeOK
  <2>5. Owned'
    BY <1>a, <1>b, <2>2 DEF PoolTypeOK, Owned, Held
  <2>6. Told'
    BY <1>a DEF PoolTypeOK, Told
  <2>7. Open'
    BY <1>a, <1>b DEF PoolTypeOK, Owned, Told, Open
  <2> QED
    BY <2>2, <2>4, <2>5, <2>6, <2>7 DEF PoolInv, BaseInv
<1>24. ASSUME NEW j \in Job, Abort(j)
      PROVE  PoolInv' /\ BaseInv'
  <2> USE <1>24 DEF Abort, Decide
  <2>2. Counted' /\ permits' \in 0 .. Size /\ leased' \in 0 .. Size
    BY <1>a DEF PoolTypeOK, Counted, Holders, Lessees
  <2>4. PoolTypeOK'
    BY <1>a, <2>2 DEF PoolTypeOK
  <2>5. Owned'
    BY <1>a, <1>b, <2>2 DEF PoolTypeOK, Owned, Held
  <2>6. Told'
    BY <1>a DEF PoolTypeOK, Told
  <2>7. Open'
    BY <1>a, <1>b DEF PoolTypeOK, Owned, Told, Open
  <2> QED
    BY <2>2, <2>4, <2>5, <2>6, <2>7 DEF PoolInv, BaseInv
<1>25. ASSUME NEW c \in Conn, Sever(c)
      PROVE  PoolInv' /\ BaseInv'
  <2> USE <1>25 DEF Sever
  <2>a. worker # "failed" /\ \A k \in Job : pc'[k] # "dropped"
    BY <1>a DEF PoolTypeOK, Counted
  <2>1. Keeps /\ LeaseKept
    BY <1>a DEF PoolTypeOK, Owned, Told, Keeps, LeaseKept, Holders, Lessees
  <2>2. Counted' /\ permits' \in 0 .. Size /\ leased' \in 0 .. Size
    BY <1>a, <2>1, <2>a, Balance
  <2>4. PoolTypeOK'
    BY <1>a, <2>2 DEF PoolTypeOK
  <2>5. Owned'
    BY <1>a, <1>b, <2>2 DEF PoolTypeOK, Owned, Held
  <2>6. Told'
    BY <1>a DEF PoolTypeOK, Told
  <2>7. Open'
    BY <1>a, <1>b DEF PoolTypeOK, Owned, Told, Open
  <2> QED
    BY <2>2, <2>4, <2>5, <2>6, <2>7 DEF PoolInv, BaseInv
<1>26. ASSUME Stop
      PROVE  PoolInv' /\ BaseInv'
  <2> USE <1>26 DEF Stop
  <2>a. worker # "failed" /\ \A k \in Job : pc'[k] # "dropped"
    BY <1>a DEF PoolTypeOK, Counted
  <2>1. Keeps /\ LeaseKept
    BY <1>a DEF PoolTypeOK, Owned, Told, Keeps, LeaseKept, Holders, Lessees
  <2>2. Counted' /\ permits' \in 0 .. Size /\ leased' \in 0 .. Size
    BY <1>a, <2>1, <2>a, Balance
  <2>4. PoolTypeOK'
    BY <1>a, <2>2 DEF PoolTypeOK
  <2>5. Owned'
    BY <1>a, <1>b, <2>2 DEF PoolTypeOK, Owned, Held
  <2>6. Told'
    BY <1>a DEF PoolTypeOK, Told
  <2>7. Open'
    BY <1>a, <1>b DEF PoolTypeOK, Owned, Told, Open
  <2> QED
    BY <2>2, <2>4, <2>5, <2>6, <2>7 DEF PoolInv, BaseInv
<1>27. ASSUME Collapse
      PROVE  PoolInv' /\ BaseInv'
  <2> USE <1>27 DEF Collapse
  <2>2. Counted' /\ permits' \in 0 .. Size /\ leased' \in 0 .. Size
    BY <1>a DEF Counted, PoolTypeOK
  <2>4. PoolTypeOK'
    BY <1>a, <2>2 DEF PoolTypeOK
  <2>5. Owned'
    BY <1>a, <1>b, <2>2 DEF PoolTypeOK, Owned, Held
  <2>6. Told'
    BY <1>a DEF PoolTypeOK, Told
  <2>7. Open'
    BY <1>a, <1>b DEF PoolTypeOK, Owned, Told, Open
  <2> QED
    BY <2>2, <2>4, <2>5, <2>6, <2>7 DEF PoolInv, BaseInv
<1>28. ASSUME Close
      PROVE  PoolInv' /\ BaseInv'
  <2> USE <1>28 DEF Close
  <2>a. worker # "failed" /\ \A k \in Job : pc'[k] # "dropped"
    BY <1>a DEF PoolTypeOK, Counted
  <2>1. Keeps /\ LeaseKept
    BY <1>a DEF PoolTypeOK, Owned, Told, Keeps, LeaseKept, Holders, Lessees
  <2>2. Counted' /\ permits' \in 0 .. Size /\ leased' \in 0 .. Size
    BY <1>a, <2>1, <2>a, Balance
  <2>4. PoolTypeOK'
    BY <1>a, <2>2 DEF PoolTypeOK
  <2>5. Owned'
    BY <1>a, <1>b, <2>2 DEF PoolTypeOK, Owned, Held
  <2>6. Told'
    BY <1>a DEF PoolTypeOK, Told
  <2>7. Open'
    BY <1>a, <1>b DEF PoolTypeOK, Owned, Told, Open
  <2> QED
    BY <2>2, <2>4, <2>5, <2>6, <2>7 DEF PoolInv, BaseInv
<1>29. ASSUME CloseOne
      PROVE  PoolInv' /\ BaseInv'
  <2> USE <1>29 DEF CloseOne
  <2>a. worker # "failed" /\ \A k \in Job : pc'[k] # "dropped"
    BY <1>a DEF PoolTypeOK, Counted
  <2>1. Keeps /\ LeaseKept
    BY <1>a DEF PoolTypeOK, Owned, Told, Keeps, LeaseKept, Holders, Lessees
  <2>2. Counted' /\ permits' \in 0 .. Size /\ leased' \in 0 .. Size
    BY <1>a, <2>1, <2>a, Balance
  <2>3. /\ idle' \in Seq(Conn) /\ Len(idle') = Len(idle) - 1 /\ IsInjective(idle')
        /\ ToSet(idle') = ToSet(idle) \ {Head(idle)}
    BY <1>a, StackShift DEF PoolTypeOK, Owned
  <2>4. PoolTypeOK'
    BY <1>a, <2>2, <2>3 DEF PoolTypeOK
  <2>5. Owned'
    BY <1>a, <1>b, <2>2, <2>3 DEF PoolTypeOK, Owned, Held
  <2>6. Told'
    BY <1>a DEF PoolTypeOK, Told
  <2>7. Open'
    BY <1>a, <1>b, <2>3 DEF PoolTypeOK, Owned, Told, Open
  <2> QED
    BY <2>2, <2>4, <2>5, <2>6, <2>7 DEF PoolInv, BaseInv
<1>30. ASSUME CloseEnds
      PROVE  PoolInv' /\ BaseInv'
  <2> USE <1>30 DEF CloseEnds
  <2>a. worker # "failed" /\ \A k \in Job : pc'[k] # "dropped"
    BY <1>a DEF PoolTypeOK, Counted
  <2>1. Keeps /\ LeaseKept
    BY <1>a DEF PoolTypeOK, Owned, Told, Keeps, LeaseKept, Holders, Lessees
  <2>2. Counted' /\ permits' \in 0 .. Size /\ leased' \in 0 .. Size
    BY <1>a, <2>1, <2>a, Balance
  <2>4. PoolTypeOK'
    BY <1>a, <2>2 DEF PoolTypeOK
  <2>5. Owned'
    BY <1>a, <1>b, <2>2 DEF PoolTypeOK, Owned, Held
  <2>6. Told'
    BY <1>a DEF PoolTypeOK, Told
  <2>7. Open'
    BY <1>a, <1>b DEF PoolTypeOK, Owned, Told, Open
  <2> QED
    BY <2>2, <2>4, <2>5, <2>6, <2>7 DEF PoolInv, BaseInv
<1> QED
  BY <1>1, <1>2, <1>3, <1>4, <1>5, <1>6, <1>7, <1>8, <1>9, <1>10, <1>11, <1>12, <1>13,
     <1>14, <1>15, <1>16, <1>17, <1>18, <1>19, <1>20, <1>21, <1>22, <1>23, <1>24, <1>25,
     <1>26, <1>27, <1>28, <1>29, <1>30
     DEF PoolNext, Checkout, Connect, Handler, Finishing, Database, PoolShutdown

\* The pool starts full and unused.
LEMMA PoolBegins == PoolInit => PoolInv /\ BaseInv
<1> SUFFICES ASSUME PoolInit PROVE PoolInv /\ BaseInv
  OBVIOUS
<1>1. PICK s \in [1 .. Size -> Conn] : IsInjective(s) /\ idle = s /\ drivers = ToSet(s)
  BY DEF PoolInit
<1>2. Size \in Nat /\ idle \in Seq(Conn) /\ Len(idle) = Size
  BY <1>1, PoolAssumption
<1>3. ToSet(idle) \subseteq Conn
  BY <1>2, StackType
<1>4. PoolTypeOK
  BY <1>1, <1>2, <1>3, PoolAssumption DEF PoolInit, PoolTypeOK
<1>5. Counted
  <2>1. Holders = {} /\ Lessees = {}
    BY DEF PoolInit, Holders, Lessees
  <2>2. IsFiniteSet({}) /\ Cardinality({}) = 0
    BY FS_EmptySet
  <2> QED
    BY <1>2, <2>1, <2>2 DEF PoolInit, Counted
<1>6. Owned
  BY <1>1, <1>2, <1>3, PoolAssumption DEF PoolInit, Owned
<1>7. Told /\ Open
  BY DEF PoolInit, Told, Open
<1> QED
  BY <1>4, <1>5, <1>6, <1>7 DEF PoolInv, BaseInv

\* The pool and the database keep both invariants.
LEMMA PoolInvariant == PoolSpec => [](PoolInv /\ BaseInv)
<1>1. PoolInv /\ BaseInv /\ UNCHANGED pgPoolVars => (PoolInv /\ BaseInv)'
  BY DEF PoolInv, BaseInv, PoolTypeOK, Counted, Owned, Told, Open, Holders, Lessees, Held
<1> QED
  BY <1>1, PoolBegins, PoolStep, PTL DEF PoolSpec

\* Connections are in the pool or with the holder of a permit, and the pool has a free permit
\* for each.
LEMMA FewConnections ==
    ASSUME PoolInv, worker # "failed"
    PROVE  Cardinality(drivers \cup Held \cup ToSet(idle)) <= Size
<1> DEFINE Q == {j \in Job : pc[j] \notin Ended /\ conn[j] # None}
           f == [j \in Q |-> conn[j]]
           g == [i \in 1 .. Len(idle) |-> idle[i]]
<1>1. /\ IsFiniteSet(Holders) /\ permits + Cardinality(Holders) = Size
      /\ permits \in Nat /\ Size \in Nat /\ idle \in Seq(Conn) /\ Len(idle) \in Nat
      /\ Len(idle) <= permits
  BY PoolAssumption DEF PoolInv, PoolTypeOK, Counted, Owned
<1>2. Q \subseteq Holders
  BY DEF PoolInv, PoolTypeOK, Counted, Owned, Holders
<1>3. IsFiniteSet(Q) /\ Cardinality(Q) <= Cardinality(Holders)
  BY <1>1, <1>2, FS_Subset
<1>4. IsFiniteSet(Held) /\ Cardinality(Held) <= Cardinality(Q)
  <2>1. f \in Surjection(Q, Held)
    BY DEF Surjection, Held
  <2> QED
    BY <1>3, <2>1, FS_Surjection
<1>5. IsFiniteSet(ToSet(idle)) /\ Cardinality(ToSet(idle)) <= Len(idle)
  <2>1. g \in Surjection(1 .. Len(idle), ToSet(idle))
    BY <1>1 DEF Surjection, ToSet
  <2>2. /\ IsFiniteSet(1 .. Len(idle))
        /\ Cardinality(1 .. Len(idle)) = IF 1 > Len(idle) THEN 0 ELSE Len(idle) - 1 + 1
    <3>1. 1 \in Int /\ Len(idle) \in Int
      BY <1>1
    <3> QED
      BY ONLY <3>1, FS_Interval
  <2>3. Cardinality(1 .. Len(idle)) = Len(idle)
    BY <1>1, <2>2
  <2> QED
    BY <2>1, <2>2, <2>3, FS_Surjection
<1>6. drivers \cup Held \cup ToSet(idle) = Held \cup ToSet(idle)
  BY DEF PoolInv, Owned
<1>7. Cardinality(Held \cup ToSet(idle)) <= Cardinality(Held) + Cardinality(ToSet(idle))
  <2>1. Cardinality(Held) \in Nat /\ Cardinality(ToSet(idle)) \in Nat
    BY <1>4, <1>5, FS_CardinalityType
  <2>2. Cardinality(Held \cap ToSet(idle)) \in Nat
    BY <1>4, FS_Intersection, FS_CardinalityType
  <2>3. Cardinality(Held \cup ToSet(idle)) =
            Cardinality(Held) + Cardinality(ToSet(idle)) - Cardinality(Held \cap ToSet(idle))
    BY <1>4, <1>5, FS_Union
  <2> QED
    BY <2>1, <2>2, <2>3
<1>8. /\ Cardinality(Holders) \in Nat /\ Cardinality(Q) \in Nat /\ Cardinality(Held) \in Nat
      /\ Cardinality(ToSet(idle)) \in Nat /\ Cardinality(Held \cup ToSet(idle)) \in Nat
  <2>1. IsFiniteSet(Held \cup ToSet(idle))
    BY <1>4, <1>5, FS_Union
  <2> QED
    BY <1>1, <1>3, <1>4, <1>5, <2>1, FS_CardinalityType
<1>9. Cardinality(Held) + Cardinality(ToSet(idle)) <= Size
  <2> HIDE DEF Q
  <2> QED
    BY <1>1, <1>3, <1>4, <1>5, <1>8
<1>10. Cardinality(Held \cup ToSet(idle)) <= Size
  BY <1>1, <1>7, <1>8, <1>9
<1> QED
  BY <1>6, <1>10

\* Pool: for any number of jobs and permits, whatever fails and in any order, a worker never has
\* more connections than permits, no connection is in two hands, and a worker that closes finds
\* no lease out and leaves no driver.
THEOREM PoolIsSound == PoolSpec => []PoolSound
<1>1. ASSUME PoolInv, BaseInv PROVE PoolSound
  <2>1. ConnectionsBounded
    <3>1. ASSUME worker # "failed" PROVE ToSet(idle) \cap Held = {}
      BY <1>1 DEF PoolInv, Owned, Held
    <3> QED
      BY <1>1, <3>1, FewConnections DEF PoolInv, Owned, ConnectionsBounded
  <2>2. ClosesClean
    <3>1. ASSUME worker \in {"closing", "ended"}
          PROVE  leased = 0 /\ Held = {}
      <4>1. Lessees = {} /\ Held = {}
        BY <1>1, <3>1 DEF PoolInv, Owned, Lessees, Held
      <4> QED
        BY <1>1, <3>1, <4>1, FS_EmptySet DEF PoolInv, Counted
    <3>2. worker = "ended" => ToSet(idle) = {}
      BY <1>1 DEF PoolInv, Owned, ToSet
    <3> QED
      BY <1>1, <3>1, <3>2 DEF PoolInv, Owned, ClosesClean
  <2> QED
    BY <1>1, <2>1, <2>2 DEF PoolInv, PoolSound
<1> QED
  BY <1>1, PoolInvariant, PTL

\* Lease::finish and the task: no job runs in the transaction of another, no pooled connection is
\* in one, and what a job reports of its transaction is true and stays true, though PostgreSQL
\* may apply its command late or lose its connection.
THEOREM ReportsAreTrue == PoolSpec => []DatabaseTrue
<1>1. ASSUME PoolInv, BaseInv PROVE DatabaseTrue
  <2>1. Isolated
    <3>1. ASSUME NEW c \in ToSet(idle) PROVE on[c] = None
      <4>1. c \in Conn
        BY <1>1, <3>1, StackType DEF PoolInv, PoolTypeOK
      <4> QED
        BY <1>1, <3>1, <4>1 DEF PoolInv, BaseInv, PoolTypeOK, Owned, Open
    <3> QED
      BY <1>1, <3>1 DEF BaseInv, Open, Isolated
  <2>2. ReportsTrue
    BY <1>1 DEF BaseInv, Told, ReportsTrue
  <2> QED
    BY <2>1, <2>2 DEF DatabaseTrue
<1> QED
  BY <1>1, PoolInvariant, PTL

HIDE DEF Up, Early, Leasing, Wired, Bare, Ended, poolVars, poolTaskVars, baseVars, pgPoolVars

(***************************************************************************)
(* PgDispatch                                                              *)
(***************************************************************************)

\* What pump() works on: the queue, the credits and the channels.
Now == [queue |-> queue, active |-> active, next |-> next, chan |-> chan, home |-> home]
PumpState ==
    [queue : Seq(Request), active : [Worker -> 0 .. Credits], next : Worker,
     chan : [Worker -> Seq(Request)], home : [Request -> Worker]]

\* Who is where.  A request is in one place only, and in the channel of its own worker.
Queued(s) == ToSet(s.queue)
Sent(s, w) == ToSet(s.chan[w])
Once(q) == \A i, j \in DOMAIN q : q[i] = q[j] => i = j
Apart(s) ==
    /\ Once(s.queue)
    /\ \A w \in Worker : Once(s.chan[w])
    /\ \A w \in Worker : \A r \in Sent(s, w) : s.home[r] = w /\ r \notin Queued(s)

\* The queue is used only when no credit is free.
Conserving(s) == s.queue # <<>> => Full(s.active)

\* A request that waits has no task yet; one that is new is nowhere.
Placed ==
    \A r \in Request :
        /\ r \in Queued(Now) \/ (\E w \in Worker : r \in Sent(Now, w))
             => task[r] = "none" /\ r \notin done /\ at[r] # "new"
        /\ r \in done => task[r] \in {"finished", "reaped"}
        /\ at[r] = "new" => task[r] = "none"

\* Where the credits of a worker are.  A worker that failed took some with it.
BusyAt(w) == {r \in Tasks(w) : task[r] \in Busy}
DoneAt(w) == {r \in done : home[r] = w}
Used(w) == Len(chan[w]) + Cardinality(BusyAt(w)) + Cardinality(DoneAt(w))
CreditsCounted ==
    \A w \in Worker :
        /\ IsFiniteSet(BusyAt(w)) /\ IsFiniteSet(DoneAt(w))
        /\ Used(w) <= active[w]
        /\ thread[w] # "failed" => Used(w) = active[w]

\* A worker ends in order only when the server stops, and with nothing left to do.
Threads ==
    \A w \in Worker :
        /\ main = "serving" => thread[w] \in {"up", "failed"}
        /\ thread[w] = "ended" => chan[w] = <<>> /\ Tasks(w) = {}

\* Whatever is under way can be cancelled, and is when the server stops.
InFlight(r) ==
    r \in Queued(Now) \/ (\E w \in Worker : r \in Sent(Now, w)) \/ task[r] \in Busy
Reachable ==
    /\ main = "serving" => Conserving(Now) /\ \A r \in Request : InFlight(r) => r \in running
    /\ main = "joining" => /\ queue = <<>>
                           /\ \A r \in Request : at[r] # "waiting"
                           /\ \A r \in Request : InFlight(r) => r \in dispatchCancelled

DispatchTypes ==
    /\ main \in {"serving", "joining", "closed", "failed", "panicked"} /\ term \in BOOLEAN
    /\ Now \in PumpState /\ Len(queue) <= QueueMax /\ \A w \in Worker : Len(chan[w]) <= Credits
    /\ running \subseteq Request /\ done \subseteq Request
    /\ dispatchCancelled \subseteq Request /\ expired \subseteq Request
    /\ thread \in [Worker -> {"up", "ended", "failed"}]
    /\ task \in [Request -> Busy \cup {"none", "finished", "reaped", "dropped"}]
    /\ reply \in [Request -> {"none", "open", "dropped", "handler", "failed"}]
    /\ at \in [Request -> {"new", "waiting", "ended"}]
    /\ status \in [Request -> {"none", "refused", "failed", "timeout", "handler", "left"}]
    /\ ran \in [Request -> {"no", "begun", "complete"}]

DispatchInv ==
    /\ DispatchTypes
    /\ PanicsOnlyAfterWorker
    /\ Alive => Apart(Now) /\ Placed /\ CreditsCounted /\ Threads /\ Reachable

\* What Service is shown with: how far a handler got follows from its task, an answer of
\* the handler from its end, and a request that is new or refused is in no list from which
\* work could still begin.
Answers ==
    \A r \in Request :
        /\ at[r] # "ended" => status[r] = "none"
        /\ at[r] = "new" \/ status[r] = "refused" => ran[r] = "no" /\ r \notin running \cup dispatchCancelled
        /\ task[r] \in {"none", "spawned"} => ran[r] = "no"
        /\ task[r] = "building" => ran[r] = "begun"
        /\ reply[r] = "handler" => ran[r] = "complete"

(***************************************************************************)
(* Dispatch::pump                                                          *)
(***************************************************************************)

\* A request that is added to a queue or channel it was not in.
LEMMA AddedOnce ==
  ASSUME NEW q \in Seq(Request), NEW r \in Request
  PROVE  /\ Append(q, r) \in Seq(Request) /\ Len(Append(q, r)) = Len(q) + 1 /\ Len(q) \in Nat
         /\ ToSet(Append(q, r)) = ToSet(q) \cup {r}
         /\ Once(q) /\ r \notin ToSet(q) => Once(Append(q, r))
<1> DEFINE p == Append(q, r)
           n == Len(q)
<1>1. /\ p \in Seq(Request) /\ Len(p) = n + 1 /\ n \in Nat
      /\ DOMAIN p = 1 .. (n + 1) /\ DOMAIN q = 1 .. n
      /\ p[n + 1] = r /\ \A i \in 1 .. n : p[i] = q[i]
  OBVIOUS
<1> HIDE DEF p, n
<1>2. \A i \in 1 .. (n + 1) : i \in 1 .. n \/ i = n + 1
  BY <1>1
<1>3. 1 .. n \subseteq 1 .. (n + 1) /\ n + 1 \in 1 .. (n + 1)
  BY <1>1
<1>4. {p[i] : i \in DOMAIN p} = {q[i] : i \in DOMAIN q} \cup {r}
  <2>1. ASSUME NEW i \in DOMAIN p PROVE p[i] \in {q[j] : j \in DOMAIN q} \cup {r}
    BY <1>1, <1>2
  <2>2. ASSUME NEW i \in DOMAIN q PROVE q[i] \in {p[j] : j \in DOMAIN p}
    BY <1>1, <1>3
  <2>3. r \in {p[j] : j \in DOMAIN p}
    BY <1>1, <1>3
  <2> QED BY <2>1, <2>2, <2>3
<1>5. ASSUME Once(q), r \notin {q[i] : i \in DOMAIN q} PROVE Once(p)
  <2> SUFFICES ASSUME NEW i \in 1 .. (n + 1), NEW j \in 1 .. (n + 1), p[i] = p[j] PROVE i = j
    BY <1>1 DEF Once
  <2> QED BY <1>1, <1>2, <1>5 DEF Once
<1> QED BY <1>1, <1>4, <1>5 DEF p, n, ToSet

\* available(): the worker that is chosen has a free credit.
LEMMA ChosenFree ==
  ASSUME NEW s \in PumpState, ~Full(s.active)
  PROVE  Chosen(s) \in Worker /\ s.active[Chosen(s)] < Credits
<1>1. s.active[0] \in 0 .. Credits /\ s.active[1] \in 0 .. Credits /\ s.next \in {0, 1} /\ Credits \in Nat
  BY DispatchAssumption DEF PumpState, Worker
<1>2. s.active[0] # Credits \/ s.active[1] # Credits
  BY DEF Full, Worker
<1> QED BY <1>1, <1>2 DEF Chosen, Worker

\* One request of pump(): it goes to the channel of one worker, with its credit, or it
\* stays in the queue because there is none.
LEMMA PlaceCases ==
  ASSUME NEW s \in PumpState, NEW r \in Request
  PROVE  \/ /\ Full(s.active)
            /\ Place(s, r) = [queue |-> Append(s.queue, r), active |-> s.active, next |-> s.next,
                              chan |-> s.chan, home |-> s.home]
         \/ /\ ~Full(s.active)
            /\ \E n \in Worker, m \in Worker :
                 /\ s.active[n] < Credits
                 /\ Place(s, r) = [queue |-> s.queue, active |-> [s.active EXCEPT ![n] = @ + 1],
                                   next |-> m, chan |-> [s.chan EXCEPT ![n] = Append(@, r)],
                                   home |-> [s.home EXCEPT ![r] = n]]
<1>0. s = [queue |-> s.queue, active |-> s.active, next |-> s.next, chan |-> s.chan, home |-> s.home]
      /\ s.next \in Worker
  BY DEF PumpState
<1>1. CASE Full(s.active)
  BY <1>0, <1>1 DEF Place
<1>2. CASE ~Full(s.active)
  <2> DEFINE n == Chosen(s)
             m == IF s.active[0] = s.active[1] THEN 1 - n ELSE s.next
  <2>1. n \in Worker /\ s.active[n] < Credits
    BY <1>2, ChosenFree
  <2>2. m \in Worker
    BY <2>1, <1>0 DEF Worker
  <2>3. Place(s, r) = [s EXCEPT !.next = m, !.active[n] = @ + 1, !.chan[n] = Append(@, r), !.home[r] = n]
    BY <1>2 DEF Place
  <2> HIDE DEF n, m
  <2>4. Place(s, r) = [queue |-> s.queue, active |-> [s.active EXCEPT ![n] = @ + 1],
                       next |-> m, chan |-> [s.chan EXCEPT ![n] = Append(@, r)],
                       home |-> [s.home EXCEPT ![r] = n]]
    BY <1>0, <2>3
  <2> QED BY <1>2, <2>1, <2>2, <2>4
<1> QED BY <1>1, <1>2

\* What becomes of a pump state when t is s with request r placed.
After(s, r, t) ==
    /\ t \in PumpState /\ Apart(t)
    /\ Conserving(s) => Conserving(t)
    /\ \A w \in Worker : t.active[w] + Len(s.chan[w]) = s.active[w] + Len(t.chan[w])
    /\ \A q \in Request : q # r => t.home[q] = s.home[q]
    /\ Queued(t) \subseteq Queued(s) \cup {r}
    /\ \A w \in Worker : Sent(t, w) \subseteq Sent(s, w) \cup {r}
    /\ Len(t.queue) <= Len(s.queue) + 1
    /\ ~Full(s.active) => t.queue = s.queue

\* Place puts a request in one place and moves no other.
LEMMA PlaceKeeps ==
  ASSUME NEW s \in PumpState, NEW r \in Request, Apart(s),
         r \notin Queued(s), \A w \in Worker : r \notin Sent(s, w)
  PROVE  After(s, r, Place(s, r))
<1> DEFINE t == Place(s, r)
<1>0. /\ s.queue \in Seq(Request) /\ s.active \in [Worker -> 0 .. Credits] /\ s.next \in Worker
      /\ s.chan \in [Worker -> Seq(Request)] /\ s.home \in [Request -> Worker]
      /\ \A w \in Worker : s.chan[w] \in Seq(Request) /\ Len(s.chan[w]) \in Nat /\ s.active[w] \in Nat
      /\ Len(s.queue) \in Nat /\ Credits \in Nat
  BY DispatchAssumption DEF PumpState
<1>1. CASE /\ Full(s.active)
           /\ t = [queue |-> Append(s.queue, r), active |-> s.active, next |-> s.next,
                   chan |-> s.chan, home |-> s.home]
  <2>1. /\ t.queue = Append(s.queue, r) /\ t.active = s.active /\ t.chan = s.chan /\ t.home = s.home
        /\ t.next = s.next
    BY <1>1
  <2>2. /\ t.queue \in Seq(Request) /\ Len(t.queue) = Len(s.queue) + 1
        /\ Queued(t) = Queued(s) \cup {r} /\ Once(t.queue)
    BY <1>0, <2>1, AddedOnce DEF Queued, Apart
  <2>3. t \in PumpState
    <3> HIDE DEF t
    <3>1. t = [queue |-> t.queue, active |-> s.active, next |-> s.next, chan |-> s.chan, home |-> s.home]
      BY <1>1, <2>1
    <3> QED BY <1>0, <2>2, <3>1 DEF PumpState
  <2>4. \A w \in Worker : Sent(t, w) = Sent(s, w)
    BY <2>1 DEF Sent
  <2> HIDE DEF t
  <2>5. Apart(t)
    <3>1. \A w \in Worker : Once(t.chan[w])
      BY <2>1 DEF Apart
    <3>2. ASSUME NEW w \in Worker, NEW q \in Sent(t, w) PROVE t.home[q] = w /\ q \notin Queued(t)
      <4>1. q \in Sent(s, w) /\ q # r
        BY <2>4
      <4> QED BY <2>1, <2>2, <4>1 DEF Apart
    <3> QED BY <2>2, <3>1, <3>2 DEF Apart
  <2>6. Conserving(t)
    BY <1>1, <2>1 DEF Conserving
  <2>7. \A w \in Worker : t.active[w] + Len(s.chan[w]) = s.active[w] + Len(t.chan[w])
    BY <2>1
  <2>8. Len(t.queue) <= Len(s.queue) + 1
    BY <1>0, <2>2
  <2>9. /\ \A q \in Request : q # r => t.home[q] = s.home[q]
        /\ \A w \in Worker : Sent(t, w) \subseteq Sent(s, w) \cup {r}
        /\ Queued(t) \subseteq Queued(s) \cup {r}
    BY <2>1, <2>2, <2>4
  <2>10. After(s, r, t)
    BY <1>1, <2>1, <2>2, <2>3, <2>4, <2>5, <2>6, <2>7, <2>8, <2>9 DEF After
  <2> QED BY <2>10 DEF t
<1>2. ASSUME NEW n \in Worker, NEW m \in Worker, ~Full(s.active), s.active[n] < Credits,
             t = [queue |-> s.queue, active |-> [s.active EXCEPT ![n] = @ + 1],
                  next |-> m, chan |-> [s.chan EXCEPT ![n] = Append(@, r)],
                  home |-> [s.home EXCEPT ![r] = n]]
      PROVE  After(s, r, t)
  <2> DEFINE c == Append(s.chan[n], r)
             a == [s.active EXCEPT ![n] = @ + 1]
             ch == [s.chan EXCEPT ![n] = c]
             ho == [s.home EXCEPT ![r] = n]
  <2>1. /\ t.queue = s.queue /\ t.active = a /\ t.chan = ch /\ t.home = ho /\ t.next = m
        /\ t = [queue |-> s.queue, active |-> a, next |-> m, chan |-> ch, home |-> ho]
    BY <1>2
  <2>2. /\ c \in Seq(Request) /\ Len(c) = Len(s.chan[n]) + 1
        /\ ToSet(c) = Sent(s, n) \cup {r} /\ Once(c)
    BY <1>0, AddedOnce DEF Sent, Apart
  <2>3. a \in [Worker -> 0 .. Credits] /\ a[n] = s.active[n] + 1
        /\ \A w \in Worker : w # n => a[w] = s.active[w]
    <3>1. s.active[n] + 1 \in 0 .. Credits
      BY <1>0, <1>2, SMTT(30)
    <3> QED BY <1>0, <3>1
  <2> HIDE DEF c, t
  <2>4. ch \in [Worker -> Seq(Request)] /\ ch[n] = c /\ \A w \in Worker : w # n => ch[w] = s.chan[w]
    BY <1>0, <2>2
  <2>5. ho \in [Request -> Worker] /\ ho[r] = n /\ \A q \in Request : q # r => ho[q] = s.home[q]
    BY <1>0
  <2> HIDE DEF a, ch, ho
  <2>6. t \in PumpState
    BY <1>0, <2>1, <2>3, <2>4, <2>5 DEF PumpState
  <2>7. Queued(t) = Queued(s) /\ Sent(t, n) = Sent(s, n) \cup {r}
        /\ \A w \in Worker : w # n => Sent(t, w) = Sent(s, w)
    BY <2>1, <2>2, <2>4 DEF Queued, Sent
  <2>8. Apart(t)
    <3>1. Once(t.queue) /\ \A w \in Worker : Once(t.chan[w])
      BY <2>1, <2>2, <2>4 DEF Apart
    <3>2. ASSUME NEW w \in Worker, NEW q \in Sent(t, w) PROVE t.home[q] = w /\ q \notin Queued(t)
      <4>1. CASE q = r
        <5>1. w = n
          BY <2>7, <4>1
        <5> QED BY <2>1, <2>5, <2>7, <4>1, <5>1
      <4>2. CASE q # r
        <5>1. q \in Sent(s, w)
          BY <2>7, <4>2
        <5>2. q \in Request
          BY <1>0, <5>1 DEF Sent, ToSet
        <5> QED BY <2>1, <2>5, <2>7, <4>2, <5>1, <5>2 DEF Apart
      <4> QED BY <4>1, <4>2
    <3> QED BY <3>1, <3>2 DEF Apart
  <2>9. Conserving(s) => Conserving(t)
    BY <1>2, <2>1 DEF Conserving
  <2>10. \A w \in Worker : t.active[w] + Len(s.chan[w]) = s.active[w] + Len(t.chan[w])
    <3>0. /\ t.active[n] = s.active[n] + 1 /\ Len(t.chan[n]) = Len(s.chan[n]) + 1
          /\ s.active[n] \in Nat /\ Len(s.chan[n]) \in Nat
      BY <1>0, <2>1, <2>2, <2>3, <2>4
    <3>1. t.active[n] + Len(s.chan[n]) = s.active[n] + Len(t.chan[n])
      BY <3>0
    <3>2. \A w \in Worker : w # n => t.active[w] = s.active[w] /\ t.chan[w] = s.chan[w]
      BY <2>1, <2>3, <2>4
    <3> QED BY <3>1, <3>2
  <2>11. Len(t.queue) <= Len(s.queue) + 1
    BY <1>0, <2>1
  <2>12. \A w \in Worker : Sent(t, w) \subseteq Sent(s, w) \cup {r}
    BY <2>7
  <2>13. \A q \in Request : q # r => t.home[q] = s.home[q]
    BY <2>1, <2>5
  <2> QED BY <2>1, <2>6, <2>7, <2>8, <2>9, <2>10, <2>11, <2>12, <2>13 DEF After
<1> QED BY <1>1, <1>2, PlaceCases

\* The states pump() goes through.
LEMMA PumpChain ==
  ASSUME NEW n \in Nat, NEW q, DOMAIN q = 1 .. n, NEW b
  PROVE  \E h : /\ h[0] = b /\ \A k \in 1 .. n : h[k] = Pump(h[k - 1], q[k])
               /\ Fold(b, q) = h[n]
<1>1. PICK h : Chained(h, b, q, n) /\ Fold(b, q) = h[n]
  BY FoldChained
<1> WITNESS h
<1> QED BY ONLY <1>1 DEF Chained

\* pump() as a whole, on a queue that holds each request once and none that a channel
\* holds: what it leaves in the queue and sends comes from the queue, every credit it takes
\* is one more in a channel, and what stays behind stays because no credit is free.
LEMMA PumpKeeps ==
  ASSUME Now \in PumpState, Apart(Now), NEW used \in [Worker -> 0 .. Credits]
  PROVE  LET t == PumpedWith(used)
         IN  /\ t \in PumpState /\ Apart(t) /\ Conserving(t)
             /\ \A w \in Worker : t.active[w] + Len(chan[w]) = used[w] + Len(t.chan[w])
             /\ \A r \in Request : r \notin Queued(Now) => t.home[r] = home[r]
             /\ Queued(t) \subseteq Queued(Now)
             /\ \A w \in Worker : Sent(t, w) \subseteq Sent(Now, w) \cup Queued(Now)
             /\ Len(t.queue) <= Len(queue)
<1> DEFINE b == [queue |-> <<>>, active |-> used, next |-> next, chan |-> chan, home |-> home]
           n == Len(queue)
           T == {queue[j] : j \in 1 .. n}
           Upto(k) == {queue[j] : j \in 1 .. k}
           Good(t, k) ==
             /\ t \in PumpState /\ Apart(t) /\ Conserving(t)
             /\ \A w \in Worker : t.active[w] + Len(chan[w]) = used[w] + Len(t.chan[w])
             /\ \A r \in Request : r \notin Upto(k) => t.home[r] = home[r]
             /\ Queued(t) \subseteq Upto(k)
             /\ \A w \in Worker : Sent(t, w) \subseteq Sent(Now, w) \cup Upto(k)
             /\ Len(t.queue) <= k
<1>1. /\ queue \in Seq(Request) /\ n \in Nat /\ DOMAIN queue = 1 .. n
      /\ next \in Worker /\ chan \in [Worker -> Seq(Request)] /\ home \in [Request -> Worker]
      /\ \A w \in Worker : Len(chan[w]) \in Nat /\ used[w] \in Nat
  BY DEF PumpState, Now
<1>2. PICK h : /\ h[0] = b /\ \A k \in 1 .. n : h[k] = Pump(h[k - 1], queue[k])
               /\ Fold(b, queue) = h[n]
  <2> HIDE DEF b, n
  <2>1. n \in Nat /\ DOMAIN queue = 1 .. n
    BY <1>1
  <2>2. PICK c : c = b
    OBVIOUS
  <2>3. PICK q : q = queue
    OBVIOUS
  <2>4. PICK m : m = n
    OBVIOUS
  <2>5. \E h : /\ h[0] = c /\ \A k \in 1 .. m : h[k] = Pump(h[k - 1], q[k])
               /\ Fold(c, q) = h[m]
    <3>1. m \in Nat /\ DOMAIN q = 1 .. m
      BY <2>1, <2>3, <2>4
    <3> QED BY ONLY <3>1, PumpChain
  <2> QED BY <2>2, <2>3, <2>4, <2>5
<1>3. PumpedWith(used) = h[n]
  BY <1>2 DEF PumpedWith, Fold
<1>4. /\ \A i, j \in 1 .. n : queue[i] = queue[j] => i = j
      /\ \A w \in Worker : \A r \in Sent(Now, w) : home[r] = w /\ r \notin Queued(Now)
      /\ \A w \in Worker : Once(chan[w])
  BY <1>1 DEF Apart, Now, Once
<1>5. Queued(Now) = Upto(n) /\ \A w \in Worker : Sent(Now, w) = ToSet(chan[w])
  BY <1>1 DEF Queued, Sent, Now, ToSet
<1>6. Good(b, 0)
  <2>1. /\ b.queue = <<>> /\ b.active = used /\ b.chan = chan /\ b.home = home /\ b.next = next
    OBVIOUS
  <2>2. b \in PumpState
    BY <1>1 DEF PumpState
  <2> HIDE DEF b
  <2>3. Queued(b) = {} /\ \A w \in Worker : Sent(b, w) = Sent(Now, w)
    <3>1. ToSet(<<>>) = {}
      BY DEF ToSet
    <3> QED BY <1>5, <2>1, <3>1 DEF Queued, Sent
  <2>4. Apart(b)
    BY <1>4, <2>1, <2>3 DEF Apart, Once
  <2>5. Conserving(b) /\ Len(b.queue) <= 0
    BY <2>1 DEF Conserving
  <2>6. \A w \in Worker : b.active[w] + Len(chan[w]) = used[w] + Len(b.chan[w])
    BY <2>1
  <2> QED BY <2>1, <2>2, <2>3, <2>4, <2>5, <2>6
<1>7. ASSUME NEW k \in 1 .. n, Good(h[k - 1], k - 1) PROVE Good(h[k], k)
  <2> DEFINE s == h[k - 1]
             r == queue[k]
             t == h[k]
  <2>1. t = Pump(s, r) /\ r \in Request
    BY <1>1, <1>2
  <2>2. Upto(k) = Upto(k - 1) \cup {r}
    <3>1. 1 .. k = (1 .. (k - 1)) \cup {k}
      OBVIOUS
    <3> QED BY <3>1
  <2>3. r \notin Upto(k - 1) /\ r \in Upto(n)
    <3>1. \A j \in 1 .. (k - 1) : j \in 1 .. n /\ j # k
      OBVIOUS
    <3> QED BY <1>4, <3>1
  <2>4. \A w \in Worker : r \notin Sent(Now, w)
    BY <1>4, <1>5, <2>3
  <2> HIDE DEF s, t, r, Upto
  <2>5. Good(s, k - 1)
    BY <1>7 DEF s
  <2>6. CASE r \in dispatchCancelled \cup expired
    <3>1. t = s
      BY <2>1, <2>6 DEF Pump
    <3>2. Len(t.queue) <= k
      <4>1. Len(s.queue) <= k - 1 /\ Len(s.queue) \in Nat
        BY <2>5 DEF PumpState
      <4> QED BY <3>1, <4>1
    <3>3. Good(t, k)
      BY <2>2, <2>5, <3>1, <3>2
    <3> QED BY <3>3 DEF t
  <2>7. CASE r \notin dispatchCancelled \cup expired
    <3>1. t = Place(s, r)
      BY <2>1, <2>7 DEF Pump
    <3>2. r \notin Queued(s) /\ \A w \in Worker : r \notin Sent(s, w)
      BY <2>3, <2>4, <2>5
    <3>3. After(s, r, t)
      BY <2>1, <2>5, <3>1, <3>2, PlaceKeeps
    <3>4. t \in PumpState /\ Apart(t) /\ Conserving(t)
      BY <2>5, <3>3 DEF After
    <3>5. \A w \in Worker : t.active[w] + Len(chan[w]) = used[w] + Len(t.chan[w])
      <4> SUFFICES ASSUME NEW w \in Worker
                   PROVE  t.active[w] + Len(chan[w]) = used[w] + Len(t.chan[w])
        OBVIOUS
      <4> DEFINE ta == t.active[w]
                 sa == s.active[w]
                 tc == Len(t.chan[w])
                 sc == Len(s.chan[w])
                 c == Len(chan[w])
                 u == used[w]
      <4>1. ta + sc = sa + tc /\ sa + c = u + sc
        BY <2>5, <3>3 DEF After
      <4>2. sa \in Nat /\ sc \in Nat
        BY <2>5 DEF PumpState
      <4>3. ta \in Nat /\ tc \in Nat
        BY <3>4 DEF PumpState
      <4>4. c \in Nat /\ u \in Nat
        BY <1>1
      <4> HIDE DEF ta, sa, tc, sc, c, u
      <4>5. ta + c = u + tc
        BY <4>1, <4>2, <4>3, <4>4
      <4> QED BY <4>5 DEF ta, c, u, tc
    <3>6. \A q \in Request : q \notin Upto(k) => t.home[q] = home[q]
      BY <2>2, <2>5, <3>3 DEF After
    <3>7. Queued(t) \subseteq Upto(k) /\ \A w \in Worker : Sent(t, w) \subseteq Sent(Now, w) \cup Upto(k)
      BY <2>2, <2>5, <3>3 DEF After
    <3>8. Len(t.queue) <= k
      <4>1. Len(s.queue) <= k - 1 /\ Len(s.queue) \in Nat
        BY <2>5 DEF PumpState
      <4>2. Len(t.queue) \in Nat
        BY <3>4 DEF PumpState
      <4>3. Len(t.queue) <= Len(s.queue) + 1
        BY <3>3 DEF After
      <4> QED BY <4>1, <4>2, <4>3
    <3>9. Good(t, k)
      BY <3>4, <3>5, <3>6, <3>7, <3>8
    <3> QED BY <3>9 DEF t
  <2> QED BY <2>6, <2>7
<1> HIDE DEF Good, b, Upto
<1> DEFINE S == {k \in Nat : k <= n => Good(h[k], k)}
<1>8. 0 \in S
  BY <1>1, <1>2, <1>6
<1>9. ASSUME NEW k \in S PROVE k + 1 \in S
  <2> SUFFICES ASSUME k + 1 <= n PROVE Good(h[k + 1], k + 1)
    OBVIOUS
  <2>1. k \in Nat /\ k <= n /\ k + 1 \in 1 .. n /\ (k + 1) - 1 = k
    BY <1>1
  <2>2. Good(h[k], k)
    BY <2>1
  <2> QED BY <1>7, <2>1, <2>2
<1>10. n \in S
  BY <1>1, <1>8, <1>9, InductionNat
<1>11. Good(h[n], n)
  BY <1>1, <1>10
<1> QED BY <1>3, <1>5, <1>11 DEF Good

\* Cancel::drop: the request is gone from the queue, the others stay in it.
LEMMA WithoutKeeps ==
  ASSUME queue \in Seq(Request), Once(queue), NEW r
  PROVE  /\ Without(r) \in Seq(Request) /\ Len(Without(r)) <= Len(queue) /\ Once(Without(r))
         /\ ToSet(Without(r)) \subseteq ToSet(queue) \ {r}
         /\ queue = <<>> => Without(r) = <<>>
<1>1. CASE r \notin ToSet(queue)
  <2>1. Without(r) = queue /\ Len(queue) \in Nat
    BY <1>1 DEF Without
  <2> QED BY <1>1, <2>1
<1>2. CASE r \in ToSet(queue)
  <2> DEFINE n == Len(queue)
             i == CHOOSE i \in DOMAIN queue : queue[i] = r
             p == RemoveAt(queue, i)
  <2>1. n \in Nat /\ DOMAIN queue = 1 .. n /\ \A j \in 1 .. n : queue[j] \in Request
    OBVIOUS
  <2>2. i \in 1 .. n /\ queue[i] = r
    BY <1>2, <2>1 DEF ToSet
  <2>3. Without(r) = p
    BY <1>2 DEF Without
  <2> HIDE DEF i
  <2>4. /\ p \in Seq(Request) /\ Len(p) = n - 1
        /\ \A j \in 1 .. (n - 1) : p[j] = IF j < i THEN queue[j] ELSE queue[j + 1]
    <3> DEFINE a == SubSeq(queue, 1, i - 1)
               z == SubSeq(queue, i + 1, n)
    <3>1. a \in Seq(Request) /\ Len(a) = i - 1 /\ \A j \in 1 .. (i - 1) : a[j] = queue[j]
      BY <2>1, <2>2
    <3>2. z \in Seq(Request) /\ Len(z) = n - i /\ \A j \in 1 .. (n - i) : z[j] = queue[j + i]
      <4>1. i + 1 \in 1 .. (n + 1) /\ n \in ((i + 1) - 1) .. n /\ n - (i + 1) + 1 = n - i
        BY <2>1, <2>2
      <4>2. /\ z \in Seq(Request) /\ Len(z) = n - (i + 1) + 1
            /\ \A j \in 1 .. (n - (i + 1) + 1) : z[j] = queue[(i + 1) + j - 1]
        BY <4>1, SubSeqProperties
      <4>3. \A j \in 1 .. (n - i) : (i + 1) + j - 1 = j + i
        BY <2>1, <2>2
      <4> HIDE DEF z
      <4> QED BY <4>1, <4>2, <4>3
    <3>3. p = a \o z
      BY DEF RemoveAt
    <3> HIDE DEF a, z, p, n
    <3>4. p \in Seq(Request) /\ Len(p) = n - 1
      <4>1. a \o z \in Seq(Request) /\ Len(a \o z) = Len(a) + Len(z)
        BY <3>1, <3>2, SMTT(30)
      <4>2. Len(a) + Len(z) = n - 1
        BY <2>1, <2>2, <3>1, <3>2
      <4> QED BY <3>3, <4>1, <4>2
    <3>5. ASSUME NEW j \in 1 .. (n - 1) PROVE p[j] = IF j < i THEN queue[j] ELSE queue[j + 1]
      <4>1. CASE j < i
        BY <2>1, <2>2, <3>1, <3>2, <3>3, <4>1
      <4>2. CASE ~(j < i)
        <5>1. p[j] = z[j - (i - 1)]
          BY <2>1, <2>2, <3>1, <3>2, <3>3, <4>2
        <5>2. j - (i - 1) \in 1 .. (n - i) /\ (j - (i - 1)) + i = j + 1
          BY <2>1, <2>2, <4>2
        <5> QED BY <3>2, <4>2, <5>1, <5>2
      <4> QED BY <4>1, <4>2
    <3> QED BY <3>4, <3>5
  <2> HIDE DEF p, n
  <2> DEFINE at0(j) == IF j < i THEN j ELSE j + 1
  <2>5. \A j \in 1 .. (n - 1) : at0(j) \in 1 .. n /\ at0(j) # i /\ p[j] = queue[at0(j)]
    BY <2>1, <2>2, <2>4
  <2>6. \A j, k \in 1 .. (n - 1) : at0(j) = at0(k) => j = k
    BY <2>1, <2>2
  <2> HIDE DEF at0
  <2>7. DOMAIN p = 1 .. (n - 1)
    BY <2>1, <2>2, <2>4
  <2>8. Once(p)
    BY <2>1, <2>5, <2>6, <2>7 DEF Once
  <2>9. ToSet(p) \subseteq ToSet(queue) \ {r}
    <3> SUFFICES ASSUME NEW j \in 1 .. (n - 1) PROVE p[j] \in ToSet(queue) /\ p[j] # r
      BY <2>7 DEF ToSet
    <3>1. p[j] = queue[at0(j)] /\ at0(j) \in DOMAIN queue
      BY <2>1, <2>5
    <3>2. queue[at0(j)] # queue[i]
      BY <2>1, <2>2, <2>5 DEF Once
    <3> QED BY <2>2, <3>1, <3>2 DEF ToSet
  <2>10. Len(p) <= Len(queue) /\ queue # <<>>
    BY <2>1, <2>2, <2>4 DEF n
  <2> QED BY <2>3, <2>4, <2>8, <2>9, <2>10
<1> QED BY <1>1, <1>2

\* What the invariant says, piece by piece.
LEMMA DispatchFacts ==
  ASSUME DispatchInv
  PROVE  /\ Now \in PumpState
         /\ queue \in Seq(Request) /\ active \in [Worker -> 0 .. Credits] /\ next \in Worker
         /\ chan \in [Worker -> Seq(Request)] /\ home \in [Request -> Worker]
         /\ running \subseteq Request /\ done \subseteq Request
         /\ dispatchCancelled \subseteq Request /\ expired \subseteq Request
         /\ task \in [Request -> Busy \cup {"none", "finished", "reaped", "dropped"}]
         /\ at \in [Request -> {"new", "waiting", "ended"}]
         /\ thread \in [Worker -> {"up", "ended", "failed"}]
         /\ Queued(Now) = ToSet(queue) /\ \A w \in Worker : Sent(Now, w) = ToSet(chan[w])
         /\ ToSet(queue) \subseteq Request /\ \A w \in Worker : ToSet(chan[w]) \subseteq Request
         /\ \A w \in Worker : Len(chan[w]) \in Nat /\ active[w] \in Nat
         /\ Len(queue) \in Nat /\ Credits \in Nat /\ QueueMax \in Nat
<1>1. /\ Now \in PumpState /\ running \subseteq Request /\ done \subseteq Request
      /\ dispatchCancelled \subseteq Request /\ expired \subseteq Request
      /\ task \in [Request -> Busy \cup {"none", "finished", "reaped", "dropped"}]
      /\ at \in [Request -> {"new", "waiting", "ended"}]
      /\ thread \in [Worker -> {"up", "ended", "failed"}]
  BY DEF DispatchInv, DispatchTypes
<1>2. /\ queue \in Seq(Request) /\ active \in [Worker -> 0 .. Credits] /\ next \in Worker
      /\ chan \in [Worker -> Seq(Request)] /\ home \in [Request -> Worker]
  BY <1>1 DEF Now, PumpState
<1>3. Queued(Now) = ToSet(queue) /\ \A w \in Worker : Sent(Now, w) = ToSet(chan[w])
  BY DEF Queued, Sent, Now
<1>4. ToSet(queue) \subseteq Request /\ \A w \in Worker : ToSet(chan[w]) \subseteq Request
  BY <1>2 DEF ToSet
<1>5. \A w \in Worker : Len(chan[w]) \in Nat /\ active[w] \in Nat
  BY <1>2
<1>6. Len(queue) \in Nat /\ Credits \in Nat /\ QueueMax \in Nat
  BY <1>2, DispatchAssumption
<1> QED BY <1>1, <1>2, <1>3, <1>4, <1>5, <1>6

\* After a step that adopts t, what pump() works on is t.
LEMMA NowNext ==
  ASSUME NEW t \in PumpState, Adopt(t)
  PROVE  Now' = t
<1>1. t = [queue |-> t.queue, active |-> t.active, next |-> t.next, chan |-> t.chan, home |-> t.home]
  BY DEF PumpState
<1> QED BY <1>1 DEF Now, Adopt

\* Steps that leave the credits and the channels alone; the queue may lose requests.
LEMMA QuietStep ==
  ASSUME DispatchInv, Alive, DispatchTypes',
         UNCHANGED <<main, active, next, chan, home, done, thread, running>>,
         queue' = queue \/ (Once(queue') /\ ToSet(queue') \subseteq ToSet(queue)),
         queue = <<>> => queue' = <<>>,
         dispatchCancelled \subseteq dispatchCancelled',
         \A r \in Request : /\ at'[r] \in {"new", "waiting"} => at'[r] = at[r]
                            /\ task'[r] \in Busy <=> task[r] \in Busy
                            /\ task'[r] = "none" <=> task[r] = "none"
                            /\ task[r] \in {"finished", "reaped"} => task'[r] \in {"finished", "reaped"}
                            /\ task'[r] \in Busy \cup {"finished"} => task[r] \in Busy \cup {"finished"}
  PROVE  DispatchInv'
<1> USE DispatchFacts
<1>1. Once(queue') /\ ToSet(queue') \subseteq ToSet(queue)
  BY DEF DispatchInv, Apart, Now
<1>2. Alive' /\ PanicsOnlyAfterWorker'
  BY DEF Alive, PanicsOnlyAfterWorker, DispatchInv
<1>3. /\ Queued(Now)' = ToSet(queue') /\ \A w \in Worker : Sent(Now, w)' = ToSet(chan[w])
      /\ Queued(Now') = ToSet(queue') /\ \A w \in Worker : Sent(Now', w) = ToSet(chan[w])
  BY DEF Queued, Sent, Now
<1>4. Apart(Now)'
  <2>1. Once(Now'.queue) /\ \A w \in Worker : Once(Now'.chan[w]) /\ Now'.home = home
    BY <1>1 DEF Now, DispatchInv, Apart
  <2>2. \A w \in Worker : \A r \in ToSet(chan[w]) : home[r] = w /\ r \notin ToSet(queue)
    BY DEF DispatchInv, Apart, Now
  <2> QED BY <1>1, <1>3, <2>1, <2>2 DEF Apart
<1>5. Placed'
  BY <1>1, <1>3 DEF DispatchInv, Placed
<1>6. \A w \in Worker : Tasks(w)' \subseteq Tasks(w) /\ BusyAt(w)' = BusyAt(w) /\ DoneAt(w)' = DoneAt(w)
  BY DEF Tasks, BusyAt, DoneAt
<1>7. CreditsCounted'
  BY <1>6 DEF DispatchInv, CreditsCounted, Used
<1>8. Threads'
  BY <1>6 DEF DispatchInv, Threads
<1>9. Reachable'
  <2>1. \A r \in Request : InFlight(r)' => InFlight(r)
    BY <1>1, <1>3 DEF InFlight
  <2>2. Conserving(Now) => Conserving(Now)'
    BY DEF Conserving, Now
  <2> QED BY <2>1, <2>2 DEF DispatchInv, Reachable
<1> QED BY <1>2, <1>4, <1>5, <1>7, <1>8, <1>9 DEF DispatchInv

\* coordinator() before the first request.
LEMMA DispatchInitially == DispatchInit => DispatchInv
<1> SUFFICES ASSUME DispatchInit PROVE DispatchInv
  OBVIOUS
<1>0. /\ main = "serving" /\ term = FALSE /\ queue = <<>> /\ active = [w \in Worker |-> 0]
      /\ running = {} /\ next = 0 /\ chan = [w \in Worker |-> <<>>]
      /\ thread = [w \in Worker |-> "up"] /\ done = {}
      /\ task = [r \in Request |-> "none"] /\ home = [r \in Request |-> 0]
      /\ reply = [r \in Request |-> "none"] /\ at = [r \in Request |-> "new"]
      /\ status = [r \in Request |-> "none"] /\ dispatchCancelled = {} /\ expired = {}
      /\ ran = [r \in Request |-> "no"]
  BY DEF DispatchInit
<1>1. 0 \in Worker /\ 0 \in 0 .. Credits /\ Credits \in Nat /\ QueueMax \in Nat
  BY DispatchAssumption DEF Worker
<1>2. Now \in PumpState
  BY <1>0, <1>1 DEF Now, PumpState
<1>3. Len(queue) <= QueueMax /\ \A w \in Worker : Len(chan[w]) <= Credits
  BY <1>0, <1>1
<1>4. DispatchTypes
  BY <1>0, <1>2, <1>3 DEF DispatchTypes, Busy
<1>5. ToSet(<<>>) = {}
  BY DEF ToSet
<1>6. Queued(Now) = {} /\ \A w \in Worker : Sent(Now, w) = {}
  BY <1>0, <1>5 DEF Queued, Sent, Now
<1>7. Apart(Now)
  BY <1>0, <1>6 DEF Apart, Once, Now
<1>8. Placed
  BY <1>0, <1>6 DEF Placed
<1>9. \A w \in Worker : Tasks(w) = {} /\ BusyAt(w) = {} /\ DoneAt(w) = {}
  BY <1>0 DEF Tasks, BusyAt, DoneAt, Busy
<1>10. CreditsCounted
  <2>1. IsFiniteSet({}) /\ Cardinality({}) = 0
    BY FS_EmptySet
  <2>2. \A w \in Worker : Used(w) = 0 /\ active[w] = 0
    <3>1. \A w \in Worker : Len(chan[w]) = 0 /\ active[w] = 0
      BY <1>0
    <3>2. \A w \in Worker : Cardinality(BusyAt(w)) = 0 /\ Cardinality(DoneAt(w)) = 0
      BY <1>9, <2>1
    <3> QED BY <3>1, <3>2 DEF Used
  <2> QED BY <1>9, <2>1, <2>2 DEF CreditsCounted
<1>11. Threads /\ Reachable
  BY <1>0, <1>6 DEF Threads, Reachable, InFlight, Conserving, Now, Busy
<1> QED BY <1>0, <1>4, <1>7, <1>8, <1>10, <1>11 DEF DispatchInv, PanicsOnlyAfterWorker

\* The types, where the queue, the credits and the channels stay.
LEMMA TypesKept ==
  ASSUME DispatchTypes, UNCHANGED <<queue, active, next, chan, home>>,
         main' \in {"serving", "joining", "closed", "failed", "panicked"}, term' \in BOOLEAN,
         running' \subseteq Request, done' \subseteq Request,
         dispatchCancelled' \subseteq Request, expired' \subseteq Request,
         thread' \in [Worker -> {"up", "ended", "failed"}],
         task' \in [Request -> Busy \cup {"none", "finished", "reaped", "dropped"}],
         reply' \in [Request -> {"none", "open", "dropped", "handler", "failed"}],
         at' \in [Request -> {"new", "waiting", "ended"}],
         status' \in [Request -> {"none", "refused", "failed", "timeout", "handler", "left"}],
         ran' \in [Request -> {"no", "begun", "complete"}]
  PROVE  DispatchTypes'
<1>1. Now' = Now
  BY DEF Now
<1> QED BY <1>1 DEF DispatchTypes

\* The replies whose sender is dropped are among those that are open.
LEMMA DroppedType ==
  ASSUME DispatchTypes, NEW R
  PROVE  Dropped(R) \in [Request -> {"none", "open", "dropped", "handler", "failed"}]
         /\ \A r \in Request : Dropped(R)[r] = "handler" => reply[r] = "handler"
  BY DEF DispatchTypes, Dropped

\* serve() turns a request away, a deadline passes, the signal is seen.
LEMMA TurnAwayHolds == ASSUME DispatchInv, NEW r \in Request, TurnAway(r) PROVE DispatchInv'
<1>1. /\ UNCHANGED <<main, term, queue, active, next, chan, home, running, done, thread, task, ran,
                     dispatchCancelled, expired, reply>>
      /\ at' = [at EXCEPT ![r] = "ended"] /\ status' = [status EXCEPT ![r] = "refused"]
      /\ main = "serving"
  BY DEF TurnAway, dispatchVars, dispatchTaskVars
<1>2. DispatchTypes'
  BY <1>1, TypesKept DEF DispatchInv, DispatchTypes
<1>3. Alive /\ \A q \in Request : at'[q] \in {"new", "waiting"} => at'[q] = at[q]
  BY <1>1, DispatchFacts DEF Alive
<1> QED BY <1>1, <1>2, <1>3, QuietStep

\* A request's time is up.
LEMMA ExpireHolds == ASSUME DispatchInv, NEW r \in Request, Expire(r) PROVE DispatchInv'
<1>1. /\ UNCHANGED <<main, term, queue, active, next, chan, home, running, done, thread, task, ran,
                     dispatchCancelled, at, status, reply>>
      /\ expired' = expired \cup {r} /\ Alive
  BY DEF Expire, dispatchVars, dispatchTaskVars
<1>2. DispatchTypes'
  BY <1>1, TypesKept DEF DispatchInv, DispatchTypes
<1> QED BY <1>1, <1>2, QuietStep

\* The server is told to stop.
LEMMA SignalHolds == ASSUME DispatchInv, Signal PROVE DispatchInv'
<1>1. /\ UNCHANGED <<main, queue, active, next, chan, home, running, done, thread, task, ran,
                     dispatchCancelled, expired, at, status, reply>>
      /\ term' = TRUE /\ main = "serving"
  BY DEF Signal, dispatchVars, dispatchTaskVars, clientVars
<1>2. DispatchTypes'
  BY <1>1, TypesKept DEF DispatchInv, DispatchTypes
<1>3. Alive
  BY <1>1 DEF Alive
<1> QED BY <1>1, <1>2, <1>3, QuietStep

\* The end of serve(): the request leaves the queue and is cancelled.
LEMMA DepartHolds ==
  ASSUME DispatchInv, NEW r \in Request, NEW s \in {"failed", "timeout", "handler", "left"},
         main = "serving", Depart(r, s)
  PROVE  DispatchInv'
<1> USE DispatchFacts
<1>1. /\ UNCHANGED <<main, term, active, next, chan, home, running, done, thread, task, ran, expired>>
      /\ at' = [at EXCEPT ![r] = "ended"] /\ status' = [status EXCEPT ![r] = s]
      /\ dispatchCancelled' = dispatchCancelled \cup {r}
      /\ queue' = Without(r) /\ reply' = Dropped({r} \cap ToSet(queue))
  BY DEF Depart, dispatchTaskVars
<1>2. Alive /\ Once(queue)
  BY DEF Alive, DispatchInv, Apart, Now
<1>3. /\ queue' \in Seq(Request) /\ Len(queue') <= Len(queue) /\ Once(queue') /\ Len(queue') \in Nat
      /\ ToSet(queue') \subseteq ToSet(queue)
      /\ queue = <<>> => queue' = <<>>
  BY <1>1, <1>2, WithoutKeeps, SMTT(30)
<1>4. DispatchTypes'
  <2>1. Len(queue') <= QueueMax /\ \A w \in Worker : Len(chan'[w]) <= Credits
    <3>1. Len(queue) <= QueueMax /\ \A w \in Worker : Len(chan[w]) <= Credits
      BY DEF DispatchInv, DispatchTypes
    <3>2. Len(queue') <= QueueMax
      BY <1>3, <3>1
    <3> QED BY <1>1, <3>1, <3>2
  <2>2. Now' \in PumpState
    BY <1>1, <1>3 DEF Now, PumpState
  <2>3. reply' \in [Request -> {"none", "open", "dropped", "handler", "failed"}]
    BY <1>1, DroppedType DEF DispatchInv
  <2>4. at' \in [Request -> {"new", "waiting", "ended"}]
        /\ status' \in [Request -> {"none", "refused", "failed", "timeout", "handler", "left"}]
    BY <1>1 DEF DispatchInv, DispatchTypes
  <2>5. /\ dispatchCancelled' \subseteq Request /\ running' \subseteq Request /\ done' \subseteq Request
        /\ expired' \subseteq Request /\ main' \in {"serving", "joining", "closed", "failed", "panicked"}
        /\ term' \in BOOLEAN
    BY <1>1 DEF DispatchInv, DispatchTypes
  <2>6. /\ thread' \in [Worker -> {"up", "ended", "failed"}]
        /\ task' \in [Request -> Busy \cup {"none", "finished", "reaped", "dropped"}]
        /\ ran' \in [Request -> {"no", "begun", "complete"}]
    BY <1>1 DEF DispatchInv, DispatchTypes
  <2> QED BY <2>1, <2>2, <2>3, <2>4, <2>5, <2>6 DEF DispatchTypes
<1>5. \A q \in Request : at'[q] \in {"new", "waiting"} => at'[q] = at[q]
  BY <1>1
<1> QED BY <1>1, <1>2, <1>3, <1>4, <1>5, QuietStep

\* The steps of a task that keep its credit in the same place.
LEMMA TaskHolds == ASSUME DispatchInv, NEW r \in Request, Build(r) \/ Panic(r) \/ Reap(r) PROVE DispatchInv'
<1>1. /\ UNCHANGED <<main, term, queue, active, next, chan, home, running, done, thread,
                     dispatchCancelled, expired, at, status, reply>>
      /\ Alive
  BY DEF Build, Panic, Reap, dispatchVars, clientVars
<1>2. \E x : /\ task' = [task EXCEPT ![r] = x]
             /\ \/ task[r] \in Busy /\ x \in {"building", "panicked"}
                \/ task[r] = "finished" /\ x = "reaped"
  BY DEF Build, Panic, Reap, Busy
<1>3. PICK x : /\ task' = [task EXCEPT ![r] = x]
               /\ \/ task[r] \in Busy /\ x \in {"building", "panicked"}
                  \/ task[r] = "finished" /\ x = "reaped"
  BY <1>2
<1>4. DispatchTypes'
  <2>1. task' \in [Request -> Busy \cup {"none", "finished", "reaped", "dropped"}]
    BY <1>3, DispatchFacts DEF Busy
  <2>2. ran' \in [Request -> {"no", "begun", "complete"}]
    BY DEF Build, Panic, Reap, DispatchInv, DispatchTypes
  <2> QED BY <1>1, <2>1, <2>2, TypesKept DEF DispatchInv, DispatchTypes
<1>5. \A q \in Request : /\ task'[q] \in Busy <=> task[q] \in Busy
                         /\ task'[q] = "none" <=> task[q] = "none"
                         /\ task[q] \in {"finished", "reaped"} => task'[q] \in {"finished", "reaped"}
                         /\ task'[q] \in Busy \cup {"finished"} => task[q] \in Busy \cup {"finished"}
  BY <1>3, DispatchFacts DEF Busy
<1> QED BY <1>1, <1>4, <1>5, QuietStep
\* The size of a set with one more, and with one less.
LEMMA OneMore ==
  ASSUME NEW S, IsFiniteSet(S), NEW x, x \notin S
  PROVE  IsFiniteSet(S \cup {x}) /\ Cardinality(S \cup {x}) = Cardinality(S) + 1 /\ Cardinality(S) \in Nat
  BY FS_AddElement, FS_CardinalityType

\* A finite set without one of its elements.
LEMMA OneLess ==
  ASSUME NEW S, IsFiniteSet(S), NEW x \in S
  PROVE  IsFiniteSet(S \ {x}) /\ Cardinality(S) = Cardinality(S \ {x}) + 1 /\ Cardinality(S \ {x}) \in Nat
<1>1. IsFiniteSet(S \ {x}) /\ Cardinality(S \ {x}) = Cardinality(S) - 1
  BY FS_RemoveElement
<1>2. Cardinality(S) \in Nat /\ Cardinality(S \ {x}) \in Nat
  BY <1>1, FS_CardinalityType
<1> QED BY <1>1, <1>2

\* The end of a task: its credit is on its way back.
LEMMA EndTaskHolds ==
  ASSUME DispatchInv, NEW r \in Request, Alive, task[r] \in Busy, EndTask(r), ran' \in [Request -> {"no", "begun", "complete"}],
         reply' \in [Request -> {"none", "open", "dropped", "handler", "failed"}]
  PROVE  DispatchInv'
<1> USE DispatchFacts
<1>1. /\ UNCHANGED <<main, term, queue, active, next, chan, home, running, thread,
                     dispatchCancelled, expired, at, status>>
      /\ task' = [task EXCEPT ![r] = "finished"] /\ done' = done \cup {r}
  BY DEF EndTask, dispatchVars, clientVars
<1>2. /\ task'[r] = "finished" /\ \A q \in Request : q # r => task'[q] = task[q]
      /\ task' \in [Request -> Busy \cup {"none", "finished", "reaped", "dropped"}]
  BY <1>1
<1>3. DispatchTypes'
  BY <1>1, <1>2, TypesKept DEF DispatchInv, DispatchTypes
<1>4. Alive' /\ PanicsOnlyAfterWorker' /\ Now' = Now
  BY <1>1 DEF DispatchInv, PanicsOnlyAfterWorker, Alive, Now
<1>5. task[r] # "none" /\ task[r] \notin {"finished", "reaped"} /\ r \notin done /\ at[r] # "new"
      /\ "finished" \notin Busy
  BY DEF Busy, DispatchInv, Placed
<1>6. Apart(Now)'
  BY <1>4 DEF DispatchInv
<1>7. Placed'
  BY <1>1, <1>2, <1>4, <1>5 DEF DispatchInv, Placed
<1>8. \A w \in Worker : Tasks(w)' = Tasks(w)
  BY <1>1, <1>2 DEF Tasks
<1>9. CreditsCounted'
  <2> SUFFICES ASSUME NEW w \in Worker
               PROVE  /\ IsFiniteSet(BusyAt(w)') /\ IsFiniteSet(DoneAt(w)')
                      /\ Used(w)' <= active[w]
                      /\ thread[w] # "failed" => Used(w)' = active[w]
    BY <1>1 DEF CreditsCounted
  <2>1. /\ IsFiniteSet(BusyAt(w)) /\ IsFiniteSet(DoneAt(w)) /\ Used(w) <= active[w]
        /\ thread[w] # "failed" => Used(w) = active[w]
    BY DEF DispatchInv, CreditsCounted
  <2>2. CASE home[r] # w
    <3>1. BusyAt(w)' = BusyAt(w) /\ DoneAt(w)' = DoneAt(w)
      BY <1>1, <1>2, <1>8, <2>2 DEF BusyAt, DoneAt, Tasks
    <3> QED BY <1>1, <2>1, <3>1 DEF Used
  <2>3. CASE home[r] = w
    <3>1. BusyAt(w)' = BusyAt(w) \ {r} /\ r \in BusyAt(w)
      BY <1>1, <1>2, <1>5, <1>8, <2>3 DEF BusyAt, Tasks
    <3>2. DoneAt(w)' = DoneAt(w) \cup {r} /\ r \notin DoneAt(w)
      BY <1>1, <1>5, <2>3 DEF DoneAt
    <3>3. /\ IsFiniteSet(BusyAt(w)') /\ Cardinality(BusyAt(w)) = Cardinality(BusyAt(w)') + 1
          /\ Cardinality(BusyAt(w)') \in Nat
      BY <2>1, <3>1, OneLess
    <3>4. /\ IsFiniteSet(DoneAt(w)') /\ Cardinality(DoneAt(w)') = Cardinality(DoneAt(w)) + 1
          /\ Cardinality(DoneAt(w)) \in Nat
      <4> DEFINE D == DoneAt(w)
      <4>1. IsFiniteSet(D) /\ r \notin D
        BY <2>1, <3>2
      <4> HIDE DEF D
      <4>2. IsFiniteSet(D \cup {r}) /\ Cardinality(D \cup {r}) = Cardinality(D) + 1 /\ Cardinality(D) \in Nat
        BY <4>1, OneMore
      <4> QED BY <3>2, <4>2 DEF D
    <3>5. Used(w)' = Used(w)
      <4> DEFINE c == Len(chan[w])
                 x == Cardinality(BusyAt(w)')
                 y == Cardinality(DoneAt(w))
      <4>1. Used(w)' = c + x + (y + 1) /\ Used(w) = c + (x + 1) + y
        BY <1>1, <3>3, <3>4 DEF Used
      <4>2. c \in Nat /\ x \in Nat /\ y \in Nat
        BY <3>3, <3>4
      <4> HIDE DEF c, x, y
      <4> QED BY <4>1, <4>2
    <3> QED BY <2>1, <3>3, <3>4, <3>5
  <2> QED BY <2>2, <2>3
<1>10. Threads'
  BY <1>1, <1>8 DEF DispatchInv, Threads
<1>11. Reachable'
  <2>1. \A q \in Request : InFlight(q)' => InFlight(q)
    BY <1>2, <1>4, <1>5 DEF InFlight
  <2> QED BY <1>1, <1>4, <2>1 DEF DispatchInv, Reachable
<1> QED BY <1>3, <1>4, <1>6, <1>7, <1>9, <1>10, <1>11 DEF DispatchInv

\* Cancelled work builds nothing.
LEMMA SkipHolds == ASSUME DispatchInv, NEW r \in Request, Skip(r) PROVE DispatchInv'
<1>1. task[r] \in Busy /\ Alive /\ EndTask(r) /\ ran' = ran /\ reply' = Dropped({r})
  BY DEF Skip, Busy
<1>2. reply' \in [Request -> {"none", "open", "dropped", "handler", "failed"}]
  BY <1>1, DroppedType DEF DispatchInv
<1>3. ran' \in [Request -> {"no", "begun", "complete"}]
  BY <1>1 DEF DispatchInv, DispatchTypes
<1> QED BY <1>1, <1>2, <1>3, EndTaskHolds

\* The handler and its cleanup are over.
LEMMA EndHolds == ASSUME DispatchInv, NEW r \in Request, End(r) PROVE DispatchInv'
<1>1. task[r] \in Busy /\ Alive /\ EndTask(r)
  BY DEF End, Busy
<1>2. reply' \in [Request -> {"none", "open", "dropped", "handler", "failed"}]
      /\ ran' \in [Request -> {"no", "begun", "complete"}]
  BY DEF End, DispatchInv, DispatchTypes
<1> QED BY <1>1, <1>2, EndTaskHolds

\* worker() takes a request from its channel: the credit is with a task.
LEMMA TakeHolds == ASSUME DispatchInv, NEW w \in Worker, Take(w) PROVE DispatchInv'
<1> USE DispatchFacts
<1> DEFINE r == Head(chan[w])
           c == Tail(chan[w])
<1>1. /\ UNCHANGED <<main, term, queue, active, next, home, running, done, thread, ran,
                     dispatchCancelled, expired, at, status, reply>>
      /\ Alive /\ thread[w] = "up" /\ chan[w] # <<>>
      /\ chan' = [chan EXCEPT ![w] = c] /\ task' = [task EXCEPT ![r] = "spawned"]
  BY DEF Take, clientVars
<1>2. /\ r \in Request /\ r \in ToSet(chan[w]) /\ c \in Seq(Request) /\ Len(chan[w]) = Len(c) + 1
      /\ ToSet(c) \subseteq ToSet(chan[w]) \ {r} /\ Once(c) /\ Len(c) \in Nat
  <2> DEFINE q == chan[w]
             n == Len(q)
  <2>1. q \in Seq(Request) /\ q # <<>> /\ Once(q) /\ n \in Nat /\ DOMAIN q = 1 .. n
    BY <1>1 DEF DispatchInv, Apart, Now
  <2> HIDE DEF q, n
  <2>2. /\ 1 \in 1 .. n /\ Head(q) = q[1] /\ q[1] \in Request /\ Tail(q) \in Seq(Request)
        /\ Len(Tail(q)) = n - 1 /\ \A j \in 1 .. (n - 1) : Tail(q)[j] = q[j + 1]
        /\ DOMAIN Tail(q) = 1 .. (n - 1)
    BY <2>1 DEF n
  <2>3. \A j \in 1 .. (n - 1) : j + 1 \in 1 .. n /\ j + 1 # 1
    BY <2>1
  <2>4. Once(Tail(q))
    <3> SUFFICES ASSUME NEW i \in 1 .. (n - 1), NEW j \in 1 .. (n - 1), Tail(q)[i] = Tail(q)[j] PROVE i = j
      BY <2>2 DEF Once
    <3>1. i + 1 = j + 1
      BY <2>1, <2>2, <2>3, ZenonT(40) DEF Once
    <3> QED BY <2>1, <3>1
  <2>5. ToSet(Tail(q)) \subseteq ToSet(q) \ {q[1]} /\ q[1] \in ToSet(q)
    <3>1. ASSUME NEW j \in 1 .. (n - 1) PROVE Tail(q)[j] \in ToSet(q) /\ Tail(q)[j] # q[1]
      <4>1. Tail(q)[j] = q[j + 1] /\ j + 1 \in DOMAIN q /\ 1 \in DOMAIN q /\ j + 1 # 1
        BY <2>1, <2>2, <2>3
      <4> QED BY <2>1, <4>1 DEF ToSet, Once
    <3>2. q[1] \in ToSet(q)
      BY <2>1, <2>2 DEF ToSet
    <3>3. ASSUME NEW x \in ToSet(Tail(q)) PROVE x \in ToSet(q) /\ x # q[1]
      <4>1. PICK j \in 1 .. (n - 1) : x = Tail(q)[j]
        BY <2>2 DEF ToSet
      <4> QED BY <3>1, <4>1
    <3> QED BY <3>2, <3>3
  <2>6. n = (n - 1) + 1 /\ n - 1 \in Nat
    BY <2>1, <2>2
  <2> QED BY <2>2, <2>4, <2>5, <2>6 DEF q, n
<1> HIDE DEF r, c
<1>3. /\ chan' \in [Worker -> Seq(Request)] /\ chan'[w] = c
      /\ \A v \in Worker : v # w => chan'[v] = chan[v]
      /\ task' \in [Request -> Busy \cup {"none", "finished", "reaped", "dropped"}]
      /\ task'[r] = "spawned" /\ \A q \in Request : q # r => task'[q] = task[q]
  BY <1>1, <1>2 DEF Busy
<1>4. /\ home[r] = w /\ r \notin ToSet(queue) /\ task[r] = "none" /\ r \notin done /\ at[r] # "new"
      /\ r \in Sent(Now, w)
  BY <1>1, <1>2 DEF DispatchInv, Apart, Placed, Now
<1>5. DispatchTypes'
  <2>1. Now' \in PumpState
    BY <1>1, <1>3 DEF Now, PumpState
  <2>2. Len(queue') <= QueueMax /\ \A v \in Worker : Len(chan'[v]) <= Credits
    <3>1. Len(queue) <= QueueMax /\ \A v \in Worker : Len(chan[v]) <= Credits
      BY DEF DispatchInv, DispatchTypes
    <3>2. Len(c) <= Credits
      <4>1. Len(chan[w]) <= Credits
        BY <3>1
      <4> QED BY <1>2, <4>1
    <3> QED BY <1>1, <1>3, <3>1, <3>2
  <2> QED BY <1>1, <1>3, <2>1, <2>2 DEF DispatchInv, DispatchTypes
<1>6. Alive' /\ PanicsOnlyAfterWorker'
  BY <1>1 DEF DispatchInv, PanicsOnlyAfterWorker, Alive
<1>7. /\ Queued(Now') = ToSet(queue) /\ Sent(Now', w) = ToSet(c)
      /\ \A v \in Worker : v # w => Sent(Now', v) = ToSet(chan[v])
      /\ \A v \in Worker : Sent(Now', v) \subseteq ToSet(chan[v]) \ {r}
  <2>1. /\ Queued(Now') = ToSet(queue) /\ Sent(Now', w) = ToSet(c)
        /\ \A v \in Worker : v # w => Sent(Now', v) = ToSet(chan[v])
    BY <1>1, <1>3 DEF Queued, Sent, Now
  <2>2. \A v \in Worker : v # w => r \notin ToSet(chan[v])
    BY <1>1, <1>4 DEF DispatchInv, Apart, Now
  <2> QED BY <1>2, <2>1, <2>2
<1>8. Apart(Now')
  <2>1. Once(Now'.queue) /\ \A v \in Worker : Once(Now'.chan[v])
    BY <1>1, <1>2, <1>3 DEF DispatchInv, Apart, Now
  <2>2. \A v \in Worker : \A q \in ToSet(chan[v]) : home[q] = v /\ q \notin ToSet(queue)
    BY <1>1 DEF DispatchInv, Apart, Now
  <2>3. Now'.home = home
    BY <1>1 DEF Now
  <2> QED BY <1>7, <2>1, <2>2, <2>3 DEF Apart
<1>9. Placed'
  <2> SUFFICES ASSUME NEW q \in Request
               PROVE  /\ q \in Queued(Now') \/ (\E v \in Worker : q \in Sent(Now', v))
                           => task'[q] = "none" /\ q \notin done' /\ at'[q] # "new"
                      /\ q \in done' => task'[q] \in {"finished", "reaped"}
                      /\ at'[q] = "new" => task'[q] = "none"
    BY DEF Placed
  <2>1. CASE q = r
    BY <1>1, <1>4, <1>7, <2>1
  <2>2. CASE q # r
    <3>1. q \in Queued(Now') \/ (\E v \in Worker : q \in Sent(Now', v))
            => q \in Queued(Now) \/ (\E v \in Worker : q \in Sent(Now, v))
      BY <1>7
    <3> QED BY <1>1, <1>3, <2>2, <3>1 DEF DispatchInv, Placed
  <2> QED BY <2>1, <2>2
<1>10. CreditsCounted'
  <2> SUFFICES ASSUME NEW v \in Worker
               PROVE  /\ IsFiniteSet(BusyAt(v)') /\ IsFiniteSet(DoneAt(v)')
                      /\ Used(v)' <= active[v]
                      /\ thread[v] # "failed" => Used(v)' = active[v]
    BY <1>1 DEF CreditsCounted
  <2>1. /\ IsFiniteSet(BusyAt(v)) /\ IsFiniteSet(DoneAt(v)) /\ Used(v) <= active[v]
        /\ thread[v] # "failed" => Used(v) = active[v]
    BY <1>1 DEF DispatchInv, CreditsCounted
  <2>2. DoneAt(v)' = DoneAt(v)
    BY <1>1 DEF DoneAt
  <2>3. CASE v # w
    <3>1. BusyAt(v)' = BusyAt(v)
      BY <1>1, <1>3, <1>4, <2>3 DEF BusyAt, Tasks
    <3> QED BY <1>3, <2>1, <2>2, <2>3, <3>1 DEF Used
  <2>4. CASE v = w
    <3>1. BusyAt(w)' = BusyAt(w) \cup {r} /\ r \notin BusyAt(w)
      BY <1>1, <1>2, <1>3, <1>4, SMTT(30) DEF BusyAt, Tasks, Busy
    <3>2. /\ IsFiniteSet(BusyAt(w)') /\ Cardinality(BusyAt(w)') = Cardinality(BusyAt(w)) + 1
          /\ Cardinality(BusyAt(w)) \in Nat
      <4> DEFINE D == BusyAt(w)
      <4>1. IsFiniteSet(D) /\ r \notin D
        BY <2>1, <2>4, <3>1
      <4> HIDE DEF D
      <4>2. IsFiniteSet(D \cup {r}) /\ Cardinality(D \cup {r}) = Cardinality(D) + 1 /\ Cardinality(D) \in Nat
        BY <4>1, OneMore
      <4> QED BY <3>1, <4>2 DEF D
    <3>3. Cardinality(DoneAt(w)) \in Nat
      BY <2>1, <2>4, FS_CardinalityType
    <3>4. Used(w)' = Used(w)
      <4> DEFINE x == Cardinality(BusyAt(w))
                 y == Cardinality(DoneAt(w))
                 l == Len(c)
      <4>1. Used(w)' = l + (x + 1) + y /\ Used(w) = (l + 1) + x + y
        BY <1>2, <1>3, <2>2, <2>4, <3>2 DEF Used
      <4>2. l \in Nat /\ x \in Nat /\ y \in Nat
        BY <1>2, <3>2, <3>3
      <4> HIDE DEF l, x, y
      <4> QED BY <4>1, <4>2
    <3> QED BY <2>1, <2>2, <2>4, <3>2, <3>4
  <2> QED BY <2>3, <2>4
<1>11. Threads'
  <2> SUFFICES ASSUME NEW v \in Worker
               PROVE  /\ main = "serving" => thread[v] \in {"up", "failed"}
                      /\ thread[v] = "ended" => chan'[v] = <<>> /\ Tasks(v)' = {}
    BY <1>1 DEF Threads
  <2>1. /\ main = "serving" => thread[v] \in {"up", "failed"}
        /\ thread[v] = "ended" => chan[v] = <<>> /\ Tasks(v) = {}
    BY <1>1 DEF DispatchInv, Threads
  <2>2. CASE v = w
    BY <1>1, <2>1, <2>2
  <2>3. CASE v # w
    <3>1. Tasks(v)' \subseteq Tasks(v)
      BY <1>1, <1>3, <1>4, <2>3 DEF Tasks
    <3> QED BY <1>3, <2>1, <2>3, <3>1
  <2> QED BY <2>2, <2>3
<1>12. Reachable'
  <2>1. \A q \in Request : InFlight(q)' => InFlight(q)
    <3> SUFFICES ASSUME NEW q \in Request, InFlight(q)' PROVE InFlight(q)
      OBVIOUS
    <3>1. CASE q = r
      BY <1>4, <3>1 DEF InFlight
    <3>2. CASE q # r
      BY <1>3, <1>7, <3>2 DEF InFlight
    <3> QED BY <3>1, <3>2
  <2>2. Conserving(Now) => Conserving(Now')
    BY <1>1 DEF Conserving, Now
  <2> QED BY <1>1, <2>1, <2>2 DEF DispatchInv, Reachable
<1> QED BY <1>5, <1>6, <1>8, <1>9, <1>10, <1>11, <1>12 DEF DispatchInv
\* The thread of a worker unwinds: its tasks and its channel go.
LEMMA WorkerFailsHolds == ASSUME DispatchInv, NEW w \in Worker, WorkerFails(w) PROVE DispatchInv'
<1> USE DispatchFacts
<1>1. /\ UNCHANGED <<main, term, queue, active, next, home, running, done, ran,
                     dispatchCancelled, expired, at, status>>
      /\ Alive /\ thread' = [thread EXCEPT ![w] = "failed"]
      /\ task' = [r \in Request |-> IF r \in Tasks(w) /\ task[r] \in Busy THEN "dropped" ELSE task[r]]
      /\ reply' = Dropped(Tasks(w) \cup ToSet(chan[w]))
      /\ chan' = [chan EXCEPT ![w] = <<>>]
  BY DEF WorkerFails, clientVars
<1>2. /\ chan' \in [Worker -> Seq(Request)] /\ chan'[w] = <<>>
      /\ \A v \in Worker : v # w => chan'[v] = chan[v] /\ thread'[v] = thread[v]
      /\ thread' \in [Worker -> {"up", "ended", "failed"}] /\ thread'[w] = "failed"
  BY <1>1
<1>3. /\ task' \in [Request -> Busy \cup {"none", "finished", "reaped", "dropped"}]
      /\ \A r \in Request : \/ task'[r] = task[r] /\ (r \notin Tasks(w) \/ task[r] \notin Busy)
                            \/ task'[r] = "dropped" /\ r \in Tasks(w) /\ task[r] \in Busy
      /\ "dropped" \notin Busy
  BY <1>1 DEF Busy
<1>4. DispatchTypes'
  <2>1. Now' \in PumpState
    BY <1>1, <1>2 DEF Now, PumpState
  <2>2. Len(queue') <= QueueMax /\ \A v \in Worker : Len(chan'[v]) <= Credits
    <3>1. Len(queue) <= QueueMax /\ \A v \in Worker : Len(chan[v]) <= Credits
      BY DEF DispatchInv, DispatchTypes
    <3>2. Len(<<>>) <= Credits
      OBVIOUS
    <3> QED BY <1>1, <1>2, <3>1, <3>2
  <2>3. reply' \in [Request -> {"none", "open", "dropped", "handler", "failed"}]
    BY <1>1, DroppedType DEF DispatchInv
  <2> QED BY <1>1, <1>2, <1>3, <2>1, <2>2, <2>3 DEF DispatchInv, DispatchTypes
<1>5. Alive' /\ PanicsOnlyAfterWorker'
  BY <1>1, <1>2 DEF DispatchInv, PanicsOnlyAfterWorker, Alive
<1>6. /\ Queued(Now') = ToSet(queue) /\ Sent(Now', w) = {}
      /\ \A v \in Worker : v # w => Sent(Now', v) = ToSet(chan[v])
      /\ \A v \in Worker : Sent(Now', v) \subseteq ToSet(chan[v])
  <2>1. ToSet(<<>>) = {}
    BY DEF ToSet
  <2>2. Queued(Now') = ToSet(queue) /\ \A v \in Worker : Sent(Now', v) = ToSet(chan'[v])
    BY <1>1 DEF Queued, Sent, Now
  <2>3. Sent(Now', w) = {}
    BY <1>2, <2>1, <2>2
  <2>4. \A v \in Worker : v # w => Sent(Now', v) = ToSet(chan[v])
    BY <1>2, <2>2
  <2>5. ASSUME NEW v \in Worker PROVE Sent(Now', v) \subseteq ToSet(chan[v])
    <3>1. CASE v = w
      BY <2>3, <3>1
    <3>2. CASE v # w
      BY <2>4, <3>2
    <3> QED BY <3>1, <3>2
  <2> QED BY <2>2, <2>3, <2>4, <2>5
<1>7. Apart(Now')
  <2>1. Once(Now'.queue) /\ \A v \in Worker : Once(Now'.chan[v])
    <3>1. Once(<<>>)
      BY DEF Once
    <3>2. Once(queue) /\ \A v \in Worker : Once(chan[v])
      BY <1>1 DEF DispatchInv, Apart, Now
    <3>3. Now'.queue = queue /\ Now'.chan = chan'
      BY <1>1 DEF Now
    <3> QED BY <1>2, <3>1, <3>2, <3>3
  <2>2. \A v \in Worker : \A q \in ToSet(chan[v]) : home[q] = v /\ q \notin ToSet(queue)
    BY <1>1 DEF DispatchInv, Apart, Now
  <2>3. Now'.home = home
    BY <1>1 DEF Now
  <2> QED BY <1>6, <2>1, <2>2, <2>3 DEF Apart
<1>8. Placed'
  <2> SUFFICES ASSUME NEW q \in Request
               PROVE  /\ q \in Queued(Now') \/ (\E v \in Worker : q \in Sent(Now', v))
                           => task'[q] = "none" /\ q \notin done' /\ at'[q] # "new"
                      /\ q \in done' => task'[q] \in {"finished", "reaped"}
                      /\ at'[q] = "new" => task'[q] = "none"
    BY DEF Placed
  <2>1. q \in Queued(Now') \/ (\E v \in Worker : q \in Sent(Now', v))
            => q \in Queued(Now) \/ (\E v \in Worker : q \in Sent(Now, v))
    BY <1>6
  <2>2. /\ q \in Queued(Now) \/ (\E v \in Worker : q \in Sent(Now, v))
             => task[q] = "none" /\ q \notin done /\ at[q] # "new"
        /\ q \in done => task[q] \in {"finished", "reaped"}
        /\ at[q] = "new" => task[q] = "none"
    BY <1>1 DEF DispatchInv, Placed
  <2>3. "none" \notin Busy /\ "finished" \notin Busy /\ "reaped" \notin Busy
    BY DEF Busy
  <2> QED BY <1>1, <1>3, <2>1, <2>2, <2>3
<1>9. \A v \in Worker : Tasks(v)' \subseteq Tasks(v) /\ BusyAt(v)' = IF v = w THEN {} ELSE BusyAt(v)
  BY <1>1, <1>3 DEF Tasks, BusyAt, Busy
<1>10. CreditsCounted'
  <2> SUFFICES ASSUME NEW v \in Worker
               PROVE  /\ IsFiniteSet(BusyAt(v)') /\ IsFiniteSet(DoneAt(v)')
                      /\ Used(v)' <= active[v]
                      /\ thread'[v] # "failed" => Used(v)' = active[v]
    BY <1>1 DEF CreditsCounted
  <2>1. /\ IsFiniteSet(BusyAt(v)) /\ IsFiniteSet(DoneAt(v)) /\ Used(v) <= active[v]
        /\ thread[v] # "failed" => Used(v) = active[v]
    BY <1>1 DEF DispatchInv, CreditsCounted
  <2>2. DoneAt(v)' = DoneAt(v)
    BY <1>1 DEF DoneAt
  <2>3. CASE v # w
    BY <1>2, <1>9, <2>1, <2>2, <2>3 DEF Used
  <2>4. CASE v = w
    <3>1. BusyAt(w)' = {} /\ Len(chan'[w]) = 0
      BY <1>2, <1>9
    <3>2. IsFiniteSet(BusyAt(w)') /\ Cardinality(BusyAt(w)') = 0
      BY <3>1, FS_EmptySet
    <3>3. Cardinality(BusyAt(w)) \in Nat /\ Cardinality(DoneAt(w)) \in Nat
      BY <2>1, <2>4, FS_CardinalityType
    <3>4. Used(w)' <= active[w]
      <4> DEFINE l == Len(chan[w])
                 x == Cardinality(BusyAt(w))
                 y == Cardinality(DoneAt(w))
                 a == active[w]
      <4>1. Used(w)' = 0 + 0 + y /\ l + x + y <= a
        BY <2>1, <2>2, <2>4, <3>1, <3>2 DEF Used
      <4>2. l \in Nat /\ x \in Nat /\ y \in Nat /\ a \in Nat
        BY <3>3
      <4> HIDE DEF l, x, y, a
      <4>3. Used(w)' <= a
        BY <4>1, <4>2
      <4> QED BY <4>3 DEF a
    <3> QED BY <1>2, <2>1, <2>2, <2>4, <3>2, <3>4
  <2> QED BY <2>3, <2>4
<1>11. Threads'
  <2> SUFFICES ASSUME NEW v \in Worker
               PROVE  /\ main = "serving" => thread'[v] \in {"up", "failed"}
                      /\ thread'[v] = "ended" => chan'[v] = <<>> /\ Tasks(v)' = {}
    BY <1>1 DEF Threads
  <2>1. /\ main = "serving" => thread[v] \in {"up", "failed"}
        /\ thread[v] = "ended" => chan[v] = <<>> /\ Tasks(v) = {}
    BY <1>1 DEF DispatchInv, Threads
  <2> QED BY <1>2, <1>9, <2>1
<1>12. Reachable'
  <2>1. \A q \in Request : InFlight(q)' => InFlight(q)
    BY <1>3, <1>6 DEF InFlight
  <2>2. Conserving(Now) => Conserving(Now')
    BY <1>1 DEF Conserving, Now
  <2> QED BY <1>1, <2>1, <2>2 DEF DispatchInv, Reachable
<1> QED BY <1>4, <1>5, <1>7, <1>8, <1>10, <1>11, <1>12 DEF DispatchInv

\* A worker ends when its channel and its tasks are gone.
LEMMA WorkerEndsHolds == ASSUME DispatchInv, NEW w \in Worker, DispatchWorkerEnds(w) PROVE DispatchInv'
<1> USE DispatchFacts
<1>1. /\ UNCHANGED <<main, term, queue, active, next, chan, home, running, done, task, ran,
                     dispatchCancelled, expired, at, status, reply>>
      /\ main = "joining" /\ thread[w] = "up" /\ chan[w] = <<>> /\ Tasks(w) = {}
      /\ \E t \in {"ended", "failed"} : thread' = [thread EXCEPT ![w] = t]
  BY DEF DispatchWorkerEnds, dispatchVars, clientVars
<1>2. /\ thread' \in [Worker -> {"up", "ended", "failed"}]
      /\ \A v \in Worker : v # w => thread'[v] = thread[v]
  BY <1>1
<1>3. DispatchTypes'
  BY <1>1, <1>2, TypesKept DEF DispatchInv, DispatchTypes
<1>4. Alive /\ Alive' /\ PanicsOnlyAfterWorker' /\ Now' = Now
  BY <1>1 DEF PanicsOnlyAfterWorker, Alive, Now
<1>5. Apart(Now)' /\ Placed'
  BY <1>1, <1>4 DEF DispatchInv, Placed
<1>6. \A v \in Worker : Tasks(v)' = Tasks(v) /\ BusyAt(v)' = BusyAt(v) /\ DoneAt(v)' = DoneAt(v)
                         /\ Used(v)' = Used(v)
  BY <1>1 DEF Tasks, BusyAt, DoneAt, Used
<1>7. CreditsCounted'
  BY <1>1, <1>2, <1>4, <1>6 DEF DispatchInv, CreditsCounted
<1>8. Threads'
  BY <1>1, <1>2, <1>4, <1>6 DEF DispatchInv, Threads
<1>9. Reachable'
  <2>1. \A q \in Request : InFlight(q)' => InFlight(q)
    BY <1>1, <1>4 DEF InFlight
  <2> QED BY <1>1, <1>4, <2>1 DEF DispatchInv, Reachable
<1> QED BY <1>3, <1>4, <1>5, <1>7, <1>8, <1>9 DEF DispatchInv

\* The deadline of the shutdown, and the end of the join: the credits that were on their
\* way are counted, and unless a worker failed all are back.
LEMMA OverdueHolds == ASSUME DispatchInv, Overdue PROVE DispatchInv'
<1>1. /\ UNCHANGED <<term, queue, active, next, chan, home, running, done, thread, task, ran,
                     dispatchCancelled, expired, at, status, reply>>
      /\ main' = "failed"
  BY DEF Overdue, dispatchVars, dispatchTaskVars, clientVars
<1>2. DispatchTypes'
  BY <1>1, TypesKept DEF DispatchInv, DispatchTypes
<1> QED BY <1>1, <1>2 DEF DispatchInv, PanicsOnlyAfterWorker, Alive

\* Both threads are joined, and the last Done messages counted.
LEMMA JoinHolds == ASSUME DispatchInv, Join PROVE DispatchInv'
<1> USE DispatchFacts
<1>1. /\ UNCHANGED <<term, queue, next, chan, home, running, thread, task, ran,
                     dispatchCancelled, expired, at, status, reply>>
      /\ main = "joining" /\ done' = {} /\ \A w \in Worker : thread[w] # "up"
      /\ active' = [w \in Worker |-> active[w] - Cardinality(DoneAt(w))]
      /\ main' = IF \E w \in Worker : thread[w] = "failed" THEN "failed"
                 ELSE IF \A w \in Worker : active'[w] = 0 THEN "closed" ELSE "panicked"
  BY DEF Join, DoneAt, dispatchTaskVars, clientVars
<1>2. Alive
  BY <1>1 DEF Alive
<1>3. ASSUME NEW w \in Worker
      PROVE  /\ active[w] - Cardinality(DoneAt(w)) \in 0 .. Credits
             /\ thread[w] # "failed" => active[w] - Cardinality(DoneAt(w)) = 0
  <2>1. /\ IsFiniteSet(BusyAt(w)) /\ IsFiniteSet(DoneAt(w)) /\ Used(w) <= active[w]
        /\ thread[w] # "failed" => Used(w) = active[w]
    BY <1>2 DEF DispatchInv, CreditsCounted
  <2>2. Cardinality(BusyAt(w)) \in Nat /\ Cardinality(DoneAt(w)) \in Nat
    BY <2>1, FS_CardinalityType
  <2>3. thread[w] # "failed" => Len(chan[w]) = 0 /\ Cardinality(BusyAt(w)) = 0
    <3> SUFFICES ASSUME thread[w] # "failed" PROVE Len(chan[w]) = 0 /\ Cardinality(BusyAt(w)) = 0
      OBVIOUS
    <3>1. chan[w] = <<>> /\ Tasks(w) = {}
      BY <1>1, <1>2 DEF DispatchInv, Threads
    <3>2. BusyAt(w) = {}
      BY <3>1 DEF BusyAt
    <3> QED BY <3>1, <3>2, FS_EmptySet
  <2> DEFINE l == Len(chan[w])
             x == Cardinality(BusyAt(w))
             y == Cardinality(DoneAt(w))
             a == active[w]
  <2>4. /\ l \in Nat /\ x \in Nat /\ y \in Nat /\ a \in 0 .. Credits /\ l + x + y <= a
        /\ thread[w] # "failed" => l + x + y = a /\ l = 0 /\ x = 0
    BY <2>1, <2>2, <2>3 DEF Used
  <2> HIDE DEF l, x, y, a
  <2>5. a - y \in 0 .. Credits /\ (thread[w] # "failed" => a - y = 0)
    BY <2>4
  <2> QED BY <2>5 DEF a, y
<1>4. active' \in [Worker -> 0 .. Credits]
  BY <1>1, <1>3
<1>5. main' \in {"closed", "failed"}
  BY <1>1, <1>3
<1>6. DispatchTypes'
  <2>1. Now' \in PumpState
    BY <1>1, <1>4 DEF Now, PumpState
  <2> QED BY <1>1, <1>5, <2>1 DEF DispatchInv, DispatchTypes
<1> QED BY <1>5, <1>6 DEF DispatchInv, PanicsOnlyAfterWorker, Alive
(***************************************************************************)
(* The steps that pump                                                     *)
(***************************************************************************)

\* What a pump leaves: t is the state after it, R what it could move, and used the credits
\* it began with.
Pumps(t, R, used) ==
    /\ t \in PumpState /\ Apart(t)
    /\ \A w \in Worker : t.active[w] + Len(chan[w]) = used[w] + Len(t.chan[w])
    /\ \A r \in Request : r \notin R => t.home[r] = home[r]
    /\ Queued(t) \subseteq R
    /\ \A w \in Worker : Sent(t, w) \subseteq Sent(Now, w) \cup R

\* The Done messages among D that come from a worker, and the credits in use when the
\* others were counted.
Left(D, w) == {r \in D : home[r] = w}
Balanced(used, D) ==
    /\ used \in [Worker -> 0 .. Credits]
    /\ \A w \in Worker :
        LET u == Len(chan[w]) + Cardinality(BusyAt(w)) + Cardinality(Left(D, w))
        IN  IsFiniteSet(Left(D, w)) /\ u <= used[w] /\ (thread[w] # "failed" => u = used[w])

\* A pump keeps every request in one place and every credit accounted for, and puts no more
\* into a channel than it holds.
LEMMA PumpsHold ==
  ASSUME DispatchInv, Alive, NEW t, NEW R, R \subseteq Request, NEW used,
         Now' = t, UNCHANGED <<thread, task>>, done' \subseteq done,
         Pumps(t, R, used), Balanced(used, done'),
         \A r \in R : task[r] = "none" /\ r \notin done' /\ at'[r] # "new",
         \A r \in Request : at'[r] = "new" => at[r] = "new"
  PROVE  /\ Apart(Now') /\ Placed' /\ CreditsCounted'
         /\ \A w \in Worker : Len(chan'[w]) <= Credits
         /\ \A w \in Worker : Tasks(w)' = Tasks(w)
         /\ \A r \in Request : InFlight(r)' => InFlight(r) \/ r \in R
<1> USE DispatchFacts
<1>1. queue' = t.queue /\ active' = t.active /\ chan' = t.chan /\ home' = t.home /\ next' = t.next
  BY DEF Now
<1>2. /\ t \in PumpState /\ Apart(t) /\ Queued(t) \subseteq R
      /\ \A w \in Worker : t.active[w] + Len(chan[w]) = used[w] + Len(t.chan[w])
      /\ \A r \in Request : r \notin R => t.home[r] = home[r]
      /\ \A w \in Worker : Sent(t, w) \subseteq Sent(Now, w) \cup R
  BY DEF Pumps
<1>3. \A r \in Request : r \in Queued(t) \/ (\E w \in Worker : r \in Sent(t, w))
                            => r \in R \/ (\E w \in Worker : r \in Sent(Now, w))
  BY <1>2
<1>4. Placed'
  <2> SUFFICES ASSUME NEW r \in Request
               PROVE  /\ r \in Queued(t) \/ (\E w \in Worker : r \in Sent(t, w))
                           => task[r] = "none" /\ r \notin done' /\ at'[r] # "new"
                      /\ r \in done' => task[r] \in {"finished", "reaped"}
                      /\ at'[r] = "new" => task[r] = "none"
    BY DEF Placed
  <2>1. /\ (\E w \in Worker : r \in Sent(Now, w)) => task[r] = "none" /\ r \notin done /\ at[r] # "new"
        /\ r \in done => task[r] \in {"finished", "reaped"}
        /\ at[r] = "new" => task[r] = "none"
    BY DEF DispatchInv, Placed
  <2> QED BY <1>3, <2>1
<1>5. \A w \in Worker : /\ Tasks(w)' = Tasks(w) /\ BusyAt(w)' = BusyAt(w)
                        /\ DoneAt(w)' = Left(done', w)
  <2>1. \A r \in Request : task[r] \in Busy \cup {"finished"} \/ r \in done' => home'[r] = home[r]
    <3>1. "none" \notin Busy \cup {"finished"}
      BY DEF Busy
    <3> QED BY <1>1, <1>2, <3>1
  <2>2. \A w \in Worker : Tasks(w)' = Tasks(w)
    BY <2>1 DEF Tasks
  <2>3. \A w \in Worker : BusyAt(w)' = BusyAt(w)
    BY <2>2 DEF BusyAt
  <2>4. done' \subseteq Request
    OBVIOUS
  <2>5. \A w \in Worker : DoneAt(w)' = Left(done', w)
    BY <2>1, <2>4 DEF DoneAt, Left
  <2> QED BY <2>2, <2>3, <2>5
<1>6. ASSUME NEW w \in Worker
      PROVE  /\ IsFiniteSet(BusyAt(w)') /\ IsFiniteSet(DoneAt(w)')
             /\ Used(w)' <= active'[w]
             /\ thread[w] # "failed" => Used(w)' = active'[w]
             /\ Len(chan'[w]) <= Credits
  <2> DEFINE d == Cardinality(Left(done', w))
             x == Cardinality(BusyAt(w))
             l == Len(chan[w])
             m == Len(t.chan[w])
             a == t.active[w]
             u == used[w]
  <2>1. /\ IsFiniteSet(Left(done', w)) /\ l + x + d <= u
        /\ (thread[w] # "failed" => l + x + d = u) /\ u \in 0 .. Credits
    BY DEF Balanced
  <2>2. IsFiniteSet(BusyAt(w))
    BY DEF DispatchInv, CreditsCounted
  <2>3. d \in Nat /\ x \in Nat /\ l \in Nat
    BY <2>1, <2>2, FS_CardinalityType
  <2>4. m \in Nat /\ a \in 0 .. Credits
    BY <1>2 DEF PumpState
  <2>5. a + l = u + m
    BY <1>2
  <2>6. Used(w)' = m + x + d
    BY <1>1, <1>5 DEF Used
  <2>7. active'[w] = a /\ Len(chan'[w]) = m
    BY <1>1
  <2> HIDE DEF d, x, l, m, a, u
  <2>8. m + x + d <= a /\ (thread[w] # "failed" => m + x + d = a) /\ m <= Credits
    BY <2>1, <2>3, <2>4, <2>5
  <2> QED BY <1>5, <2>1, <2>2, <2>6, <2>7, <2>8
<1>7. CreditsCounted'
  BY <1>6 DEF CreditsCounted
<1>8. \A r \in Request : InFlight(r)' => InFlight(r) \/ r \in R
  BY <1>3 DEF InFlight
<1> QED BY <1>2, <1>4, <1>5, <1>6, <1>7, <1>8

\* The types after a pump.
LEMMA PumpTypes ==
  ASSUME DispatchTypes, Now' \in PumpState, Len(queue') <= QueueMax,
         \A w \in Worker : Len(chan'[w]) <= Credits,
         main' \in {"serving", "joining", "closed", "failed", "panicked"}, term' = term,
         running' \subseteq Request, done' \subseteq Request, thread' = thread, task' = task, ran' = ran,
         dispatchCancelled' \subseteq Request, expired' = expired,
         reply' \in [Request -> {"none", "open", "dropped", "handler", "failed"}],
         at' \in [Request -> {"new", "waiting", "ended"}],
         status' \in [Request -> {"none", "refused", "failed", "timeout", "handler", "left"}]
  PROVE  DispatchTypes'
  BY DEF DispatchTypes

\* try_send fails only when a worker has: its channel has room for its credits.
LEMMA RefusedMeans ==
  ASSUME DispatchInv, main = "serving", NEW t, Refused(t), \A w \in Worker : Len(t.chan[w]) <= Credits,
         t \in PumpState
  PROVE  \E w \in Worker : thread[w] = "failed"
<1>1. PICK w \in Worker : thread[w] # "up" \/ Len(t.chan[w]) > Credits
  BY DEF Refused
<1>2. Len(t.chan[w]) \in Nat /\ Credits \in Nat /\ Len(t.chan[w]) <= Credits
  BY DispatchAssumption DEF PumpState
<1>3. thread[w] # "up"
  BY <1>1, <1>2
<1> QED BY <1>3 DEF DispatchInv, Threads, Alive

\* The pump of a state of the server.
LEMMA PumpedHolds ==
  ASSUME DispatchInv, Alive, NEW used \in [Worker -> 0 .. Credits]
  PROVE  LET t == PumpedWith(used)
         IN  /\ Pumps(t, Queued(Now), used) /\ Conserving(t) /\ t \in PumpState
             /\ Len(t.queue) <= Len(queue) /\ Len(t.queue) \in Nat /\ Len(t.queue) <= QueueMax
             /\ \A r \in Queued(Now) : task[r] = "none" /\ r \notin done /\ at[r] # "new"
             /\ Queued(Now) \subseteq Request
<1> USE DispatchFacts
<1> DEFINE t == PumpedWith(used)
<1>1. Now \in PumpState /\ Apart(Now)
  BY DEF DispatchInv
<1>2. /\ t \in PumpState /\ Apart(t) /\ Conserving(t)
      /\ \A w \in Worker : t.active[w] + Len(chan[w]) = used[w] + Len(t.chan[w])
      /\ \A r \in Request : r \notin Queued(Now) => t.home[r] = home[r]
      /\ Queued(t) \subseteq Queued(Now)
      /\ \A w \in Worker : Sent(t, w) \subseteq Sent(Now, w) \cup Queued(Now)
      /\ Len(t.queue) <= Len(queue)
  BY <1>1, PumpKeeps
<1> HIDE DEF t
<1>3. Len(t.queue) \in Nat /\ Len(queue) <= QueueMax
  BY <1>2 DEF PumpState, DispatchInv, DispatchTypes
<1>4. Len(t.queue) <= QueueMax
  BY <1>2, <1>3
<1>5. \A r \in Queued(Now) : task[r] = "none" /\ r \notin done /\ at[r] # "new"
  BY DEF DispatchInv, Placed
<1>6. Pumps(t, Queued(Now), used)
  BY <1>2 DEF Pumps
<1> QED BY <1>2, <1>3, <1>4, <1>5, <1>6 DEF t

\* The credits in use are balanced as they are.
LEMMA BalancedNow == ASSUME DispatchInv, Alive PROVE Balanced(active, done)
<1>1. \A w \in Worker : DoneAt(w) = Left(done, w)
  BY DEF DoneAt, Left
<1> QED BY <1>1, DispatchFacts DEF DispatchInv, CreditsCounted, Used, Balanced
\* A channel has room for the credits of its worker.
LEMMA PumpRoom ==
  ASSUME DispatchInv, Alive, NEW t, NEW R, NEW used, NEW D, Pumps(t, R, used), Balanced(used, D)
  PROVE  \A w \in Worker : Len(t.chan[w]) <= Credits
<1> USE DispatchFacts
<1> SUFFICES ASSUME NEW w \in Worker PROVE Len(t.chan[w]) <= Credits
  OBVIOUS
<1> DEFINE d == Cardinality(Left(D, w))
           x == Cardinality(BusyAt(w))
           l == Len(chan[w])
           m == Len(t.chan[w])
           a == t.active[w]
           u == used[w]
<1>1. IsFiniteSet(Left(D, w)) /\ l + x + d <= u /\ u \in 0 .. Credits
  BY DEF Balanced
<1>2. IsFiniteSet(BusyAt(w))
  BY DEF DispatchInv, CreditsCounted
<1>3. d \in Nat /\ x \in Nat /\ l \in Nat
  BY <1>1, <1>2, FS_CardinalityType
<1>4. m \in Nat /\ a \in 0 .. Credits
  BY DEF Pumps, PumpState
<1>5. a + l = u + m
  BY DEF Pumps
<1> HIDE DEF d, x, l, m, a, u
<1>6. m <= Credits
  BY <1>1, <1>3, <1>4, <1>5
<1> QED BY <1>6 DEF m

\* A pump while the server serves, whatever else the step does to the clients.
LEMMA ServingPump ==
  ASSUME DispatchInv, main = "serving", NEW t, NEW R, R \subseteq Request, NEW used,
         Adopt(t), UNCHANGED <<term, thread, task, ran, dispatchCancelled, expired>>, done' \subseteq done,
         main' = IF Refused(t) THEN "panicked" ELSE main,
         Pumps(t, R, used), Balanced(used, done'), Conserving(t), Len(t.queue) <= QueueMax,
         \A r \in R : task[r] = "none" /\ r \notin done' /\ at'[r] # "new",
         \A r \in Request : at'[r] = "new" => at[r] = "new",
         running' \subseteq Request, \A r \in Request : InFlight(r)' => r \in running',
         reply' \in [Request -> {"none", "open", "dropped", "handler", "failed"}],
         at' \in [Request -> {"new", "waiting", "ended"}],
         status' \in [Request -> {"none", "refused", "failed", "timeout", "handler", "left"}]
  PROVE  DispatchInv'
<1> USE DispatchFacts
<1>1. t \in PumpState /\ Alive
  BY DEF Pumps, Alive
<1>2. Now' = t
  BY <1>1, NowNext
<1>3. /\ Apart(Now') /\ Placed' /\ CreditsCounted'
      /\ \A w \in Worker : Len(chan'[w]) <= Credits
      /\ \A w \in Worker : Tasks(w)' = Tasks(w)
  BY <1>1, <1>2, PumpsHold
<1>4. queue' = t.queue /\ chan' = t.chan
  BY DEF Adopt
<1>5. main' \in {"serving", "joining", "closed", "failed", "panicked"} /\ main' # "joining"
  OBVIOUS
<1>6. DispatchTypes'
  BY <1>1, <1>2, <1>3, <1>4, <1>5, PumpTypes DEF DispatchInv
<1>7. PanicsOnlyAfterWorker'
  BY <1>1, <1>3, <1>4, RefusedMeans DEF PanicsOnlyAfterWorker
<1>8. Threads'
  BY <1>1, <1>5 DEF DispatchInv, Threads
<1>9. Conserving(Now')
  BY <1>2
<1>10. Reachable'
  BY <1>5, <1>9 DEF Reachable
<1> QED BY <1>3, <1>6, <1>7, <1>8, <1>10 DEF DispatchInv

\* The timer of the coordinator.
LEMMA TickHolds == ASSUME DispatchInv, Tick PROVE DispatchInv'
<1> USE DispatchFacts
<1> DEFINE t == Pumped
           R == Queued(Now)
<1>1. /\ UNCHANGED <<term, done, thread, task, ran, dispatchCancelled, expired, at, status>>
      /\ main = "serving" /\ Adopt(t) /\ reply' = Dropped(Purged) /\ running' = Kept
      /\ main' = IF Refused(t) THEN "panicked" ELSE main
  BY DEF Tick, dispatchTaskVars, clientVars
<1>2. Alive
  BY <1>1 DEF Alive
<1>3. /\ Pumps(t, R, active) /\ Conserving(t) /\ t \in PumpState
      /\ Len(t.queue) <= QueueMax /\ R \subseteq Request
      /\ \A r \in R : task[r] = "none" /\ r \notin done /\ at[r] # "new"
  BY <1>2, PumpedHolds DEF Pumped
<1>4. Balanced(active, done')
  BY <1>1, <1>2, BalancedNow
<1> HIDE DEF t, R
<1>5. Now' = t
  BY <1>1, <1>3, NowNext
<1>6. \A r \in Request : InFlight(r)' => InFlight(r)
  <2>1. \A r \in Request : InFlight(r)' => InFlight(r) \/ r \in R
    BY <1>1, <1>2, <1>3, <1>4, <1>5, PumpsHold
  <2> QED BY <2>1 DEF InFlight, R
<1>7. \A r \in Request : InFlight(r)' => r \in running'
  <2>1. \A r \in Request : InFlight(r)' => Watched(r)
    BY <1>1 DEF InFlight, Watched, Queued, Sent, Now
  <2>2. \A r \in Request : InFlight(r) => r \in running
    BY <1>1, <1>2 DEF DispatchInv, Reachable
  <2> QED BY <1>1, <1>6, <2>1, <2>2 DEF Kept
<1>8. running' \subseteq Request
  BY <1>1 DEF Kept
<1>9. reply' \in [Request -> {"none", "open", "dropped", "handler", "failed"}]
  BY <1>1, DroppedType DEF DispatchInv
<1>10. at' \in [Request -> {"new", "waiting", "ended"}]
       /\ status' \in [Request -> {"none", "refused", "failed", "timeout", "handler", "left"}]
  BY <1>1 DEF DispatchInv, DispatchTypes
<1> QED BY <1>1, <1>3, <1>4, <1>7, <1>8, <1>9, <1>10, ServingPump

\* A Done message: the credit is back, and the queue moves.
LEMMA DoneArrivesHolds == ASSUME DispatchInv, NEW r \in Request, DoneArrives(r) PROVE DispatchInv'
<1> USE DispatchFacts
<1> DEFINE h == home[r]
           back == [active EXCEPT ![h] = @ - 1]
           t == PumpedWith(back)
           R == Queued(Now)
<1>1. /\ UNCHANGED <<term, thread, task, ran, dispatchCancelled, expired, at, status>>
      /\ Alive /\ r \in done /\ done' = done \ {r} /\ running' = running \ {r}
      /\ \/ /\ main = "serving" /\ Adopt(t) /\ reply' = Dropped(Purged)
            /\ main' = IF Refused(t) THEN "panicked" ELSE main
         \/ /\ main # "serving" /\ active' = back
            /\ UNCHANGED <<queue, next, chan, home, reply, main>>
  BY DEF DoneArrives, dispatchTaskVars, clientVars
<1>2. h \in Worker
  OBVIOUS
<1>0. PICK Z : Z = done \ {r}
  OBVIOUS
<1>3. \A w \in Worker :
        /\ IsFiniteSet(Left(Z, w))
        /\ w # h => Left(Z, w) = DoneAt(w)
        /\ w = h => /\ Cardinality(DoneAt(w)) = Cardinality(Left(Z, w)) + 1
                    /\ Cardinality(Left(Z, w)) \in Nat
  <2> SUFFICES ASSUME NEW w \in Worker
               PROVE  /\ IsFiniteSet(Left(Z, w))
                      /\ w # h => Left(Z, w) = DoneAt(w)
                      /\ w = h => /\ Cardinality(DoneAt(w)) = Cardinality(Left(Z, w)) + 1
                                  /\ Cardinality(Left(Z, w)) \in Nat
    OBVIOUS
  <2> DEFINE D == DoneAt(w)
             E == Left(Z, w)
  <2>1. IsFiniteSet(D)
    BY <1>1 DEF DispatchInv, CreditsCounted
  <2>2. CASE w # h
    <3>1. E = D
      BY <1>0, <1>1, <2>2 DEF DoneAt, Left
    <3> QED BY <2>1, <2>2, <3>1
  <2>3. CASE w = h
    <3>1. E = D \ {r} /\ r \in D
      BY <1>0, <1>1, <2>3 DEF DoneAt, Left
    <3> HIDE DEF D, E
    <3>2. IsFiniteSet(E) /\ Cardinality(D) = Cardinality(E) + 1 /\ Cardinality(E) \in Nat
      BY <2>1, <3>1, OneLess
    <3> QED BY <2>3, <3>2 DEF D, E
  <2> QED BY <2>2, <2>3
<1>4. Balanced(back, done') /\ back \in [Worker -> 0 .. Credits]
  <2>1. ASSUME NEW w \in Worker
        PROVE  LET u == Len(chan[w]) + Cardinality(BusyAt(w)) + Cardinality(Left(Z, w))
               IN  u <= back[w] /\ (thread[w] # "failed" => u = back[w]) /\ back[w] \in 0 .. Credits
    <3> DEFINE l == Len(chan[w])
               x == Cardinality(BusyAt(w))
               y == Cardinality(DoneAt(w))
               z == Cardinality(Left(Z, w))
               a == active[w]
    <3>1. /\ IsFiniteSet(BusyAt(w)) /\ IsFiniteSet(DoneAt(w)) /\ l + x + y <= a
          /\ thread[w] # "failed" => l + x + y = a
      BY <1>1 DEF DispatchInv, CreditsCounted, Used
    <3>2. l \in Nat /\ x \in Nat /\ y \in Nat /\ a \in 0 .. Credits /\ Credits \in Nat
      BY <3>1, FS_CardinalityType
    <3>3. CASE w # h
      <4>0. Left(Z, w) = DoneAt(w)
        BY <1>3, <3>3
      <4>1. back[w] = a /\ z = y
        BY <3>3, <4>0
      <4> HIDE DEF l, x, y, z, a
      <4>2. l + x + z <= a /\ (thread[w] # "failed" => l + x + z = a)
        BY <3>1, <4>1
      <4> QED BY <3>2, <4>1, <4>2 DEF l, x, z
    <3>4. CASE w = h
      <4>0. back[w] = a - 1
        BY <1>2, <3>4
      <4>00. y = z + 1 /\ z \in Nat
        <5> HIDE DEF back
        <5> QED BY <1>3, <3>4
      <4>1. back[w] = a - 1 /\ y = z + 1 /\ z \in Nat
        BY <4>0, <4>00
      <4> HIDE DEF l, x, y, z, a, back
      <4>2. l + x + z <= a - 1 /\ (thread[w] # "failed" => l + x + z = a - 1) /\ a - 1 \in 0 .. Credits
        BY <3>1, <3>2, <4>1
      <4> QED BY <4>1, <4>2 DEF l, x, z
    <3> QED BY <3>3, <3>4
  <2>2. back \in [Worker -> 0 .. Credits]
    <3>1. \A w \in Worker : back[w] \in 0 .. Credits
      BY <2>1
    <3> QED BY <3>1
  <2> HIDE DEF back
  <2>3. Balanced(back, Z)
    BY <1>3, <2>1, <2>2 DEF Balanced
  <2>4. Z = done'
    BY <1>0, <1>1
  <2> QED BY <2>2, <2>3, <2>4
<1> HIDE DEF back
<1>5. r \notin ToSet(queue) /\ (\A w \in Worker : r \notin ToSet(chan[w])) /\ task[r] \notin Busy
  BY <1>1 DEF DispatchInv, Placed, Busy
<1>6. CASE /\ main = "serving" /\ Adopt(t) /\ reply' = Dropped(Purged)
           /\ main' = IF Refused(t) THEN "panicked" ELSE main
  <2>1. /\ Pumps(t, R, back) /\ Conserving(t) /\ t \in PumpState
        /\ Len(t.queue) <= QueueMax /\ R \subseteq Request
        /\ \A q \in R : task[q] = "none" /\ q \notin done /\ at[q] # "new"
    BY <1>1, <1>4, PumpedHolds
  <2> HIDE DEF t, R
  <2>2. Now' = t
    BY <1>6, <2>1, NowNext
  <2>3. \A q \in Request : InFlight(q)' => InFlight(q)
    <3>0. \A q \in Request : at'[q] = "new" => at[q] = "new"
      BY <1>1
    <3>00. \A q \in R : task[q] = "none" /\ q \notin done' /\ at'[q] # "new"
      BY <1>1, <2>1
    <3>1. \A q \in Request : InFlight(q)' => InFlight(q) \/ q \in R
      BY <1>1, <1>4, <2>1, <2>2, <3>0, <3>00, PumpsHold
    <3> QED BY <3>1 DEF InFlight, R
  <2>4. \A q \in Request : InFlight(q)' => q \in running'
    <3>1. ~InFlight(r)
      BY <1>5 DEF InFlight
    <3>2. \A q \in Request : InFlight(q) => q \in running
      BY <1>1, <1>6 DEF DispatchInv, Reachable
    <3> QED BY <1>1, <2>3, <3>1, <3>2
  <2>5. running' \subseteq Request
    BY <1>1
  <2>6. reply' \in [Request -> {"none", "open", "dropped", "handler", "failed"}]
    BY <1>6, DroppedType DEF DispatchInv
  <2>7. at' \in [Request -> {"new", "waiting", "ended"}]
         /\ status' \in [Request -> {"none", "refused", "failed", "timeout", "handler", "left"}]
    BY <1>1 DEF DispatchInv, DispatchTypes
  <2>8. \A q \in R : task[q] = "none" /\ q \notin done' /\ at'[q] # "new"
    BY <1>1, <2>1
  <2>9. done' \subseteq done /\ \A q \in Request : at'[q] = "new" => at[q] = "new"
    BY <1>1
  <2> QED BY <1>1, <1>4, <1>6, <2>1, <2>4, <2>5, <2>6, <2>7, <2>8, <2>9, ServingPump
<1>7. CASE /\ main # "serving" /\ active' = back
           /\ UNCHANGED <<queue, next, chan, home, reply, main>>
  <2>1. main = "joining" /\ Alive'
    BY <1>1, <1>7 DEF Alive
  <2>2. DispatchTypes'
    <3>1. Now' \in PumpState
      BY <1>4, <1>7 DEF Now, PumpState
    <3> QED BY <1>1, <1>7, <3>1 DEF DispatchInv, DispatchTypes
  <2>3. /\ Queued(Now') = Queued(Now) /\ \A w \in Worker : Sent(Now', w) = Sent(Now, w)
        /\ Now'.queue = Now.queue /\ Now'.chan = Now.chan /\ Now'.home = Now.home
    BY <1>7 DEF Queued, Sent, Now
  <2>4. Apart(Now')
    BY <1>1, <2>3 DEF DispatchInv, Apart
  <2>5. Placed'
    BY <1>1, <2>3 DEF DispatchInv, Placed
  <2>6. \A w \in Worker : /\ Tasks(w)' = Tasks(w) /\ BusyAt(w)' = BusyAt(w)
                          /\ DoneAt(w)' = Left(done', w)
    BY <1>1, <1>7 DEF Tasks, BusyAt, DoneAt, Left
  <2>7. CreditsCounted'
    BY <1>1, <1>4, <1>7, <2>6 DEF Balanced, CreditsCounted, Used, DispatchInv
  <2>8. Threads'
    BY <1>1, <1>7, <2>6 DEF DispatchInv, Threads
  <2>9. Reachable'
    <3>1. \A q \in Request : InFlight(q)' => InFlight(q)
      BY <1>1, <2>3 DEF InFlight
    <3> QED BY <1>1, <1>7, <2>1, <3>1 DEF DispatchInv, Reachable
  <2> QED BY <1>7, <2>1, <2>2, <2>4, <2>5, <2>7, <2>8, <2>9 DEF DispatchInv, PanicsOnlyAfterWorker
<1> QED BY <1>1, <1>6, <1>7
\* serve(): pump, the test for room, the queue, and pump again.
LEMMA AdmitHolds == ASSUME DispatchInv, NEW r \in Request, Admit(r) PROVE DispatchInv'
<1> USE DispatchFacts
<1> DEFINE s == Pumped
           room == ~(Len(s.queue) = QueueMax /\ Full(s.active))
           t == IF room THEN Place(s, r) ELSE s
           R == Queued(Now)
           Rt == IF room THEN R \cup {r} ELSE R
<1>1. /\ UNCHANGED <<term, done, thread, task, ran, dispatchCancelled, expired>>
      /\ main = "serving" /\ at[r] = "new" /\ Adopt(t)
      /\ running' = IF room THEN running \cup {r} ELSE running
      /\ reply' = [Dropped(Purged) EXCEPT ![r] = IF room THEN "open" ELSE @]
      /\ at' = [at EXCEPT ![r] = IF room THEN "waiting" ELSE "ended"]
      /\ status' = [status EXCEPT ![r] = IF room THEN @ ELSE "refused"]
      /\ main' = IF Refused(t) THEN "panicked" ELSE main
  BY DEF Admit, dispatchTaskVars
<1>2. Alive
  BY <1>1 DEF Alive
<1>3. /\ Pumps(s, R, active) /\ Conserving(s) /\ s \in PumpState /\ Len(s.queue) \in Nat
      /\ Len(s.queue) <= QueueMax /\ R \subseteq Request
      /\ \A q \in R : task[q] = "none" /\ q \notin done /\ at[q] # "new"
  BY <1>2, PumpedHolds DEF Pumped
<1>4. Balanced(active, done')
  BY <1>1, <1>2, BalancedNow
<1> HIDE DEF s, R
<1>5. /\ r \notin R /\ \A w \in Worker : r \notin Sent(Now, w)
      /\ r \notin Queued(s) /\ \A w \in Worker : r \notin Sent(s, w)
      /\ task[r] = "none" /\ r \notin done
  <2>1. \A w \in Worker : r \notin Sent(Now, w)
    BY <1>1, <1>2 DEF DispatchInv, Placed
  <2>2. task[r] = "none" /\ r \notin done
    BY <1>1, <1>2 DEF DispatchInv, Placed
  <2> QED BY <1>1, <1>3, <2>1, <2>2 DEF Pumps
<1>6. Pumps(t, Rt, active) /\ Conserving(t) /\ Len(t.queue) <= QueueMax
  <2>1. CASE ~room
    BY <1>3, <2>1
  <2>2. CASE room
    <3> HIDE DEF room
    <3>1. t = Place(s, r) /\ Rt = R \cup {r}
      BY <2>2
    <3> HIDE DEF t, Rt
    <3>2. After(s, r, t)
      BY <1>3, <1>5, <3>1, PlaceKeeps DEF Pumps
    <3>3. \A w \in Worker : t.active[w] + Len(chan[w]) = active[w] + Len(t.chan[w])
      <4> SUFFICES ASSUME NEW w \in Worker
                   PROVE  t.active[w] + Len(chan[w]) = active[w] + Len(t.chan[w])
        OBVIOUS
      <4> DEFINE ta == t.active[w]
                 sa == s.active[w]
                 tc == Len(t.chan[w])
                 sc == Len(s.chan[w])
                 c == Len(chan[w])
                 u == active[w]
      <4>1. ta + sc = sa + tc /\ sa + c = u + sc
        BY <1>3, <3>2 DEF After, Pumps
      <4>2. sa \in Nat /\ sc \in Nat
        BY <1>3 DEF PumpState
      <4>3. ta \in Nat /\ tc \in Nat
        BY <3>2 DEF PumpState, After
      <4>4. c \in Nat /\ u \in Nat
        OBVIOUS
      <4> HIDE DEF ta, sa, tc, sc, c, u
      <4>5. ta + c = u + tc
        BY <4>1, <4>2, <4>3, <4>4
      <4> QED BY <4>5 DEF ta, c, u, tc
    <3>4. \A q \in Request : q \notin Rt => t.home[q] = home[q]
      BY <1>3, <3>1, <3>2 DEF After, Pumps
    <3>5. Queued(t) \subseteq Rt /\ \A w \in Worker : Sent(t, w) \subseteq Sent(Now, w) \cup Rt
      BY <1>3, <3>1, <3>2 DEF After, Pumps
    <3>6. Len(t.queue) <= QueueMax
      <4>1. CASE Full(s.active)
        <5>1. Len(s.queue) # QueueMax
          BY <2>2, <4>1 DEF room
        <5>2. Len(t.queue) <= Len(s.queue) + 1
          BY <3>2 DEF After
        <5>3. Len(t.queue) \in Nat
          BY <3>2 DEF After, PumpState
        <5> QED BY <1>3, <5>1, <5>2, <5>3
      <4>2. CASE ~Full(s.active)
        BY <1>3, <3>2, <4>2 DEF After
      <4> QED BY <4>1, <4>2
    <3>7. t \in PumpState /\ Apart(t) /\ Conserving(t)
      BY <1>3, <3>2 DEF After
    <3> QED BY <3>3, <3>4, <3>5, <3>6, <3>7 DEF Pumps
  <2> QED BY <2>1, <2>2
<1> HIDE DEF t, room
<1>7. /\ Rt \subseteq Request /\ running' \subseteq Request
      /\ at' \in [Request -> {"new", "waiting", "ended"}]
      /\ \A q \in Request : at'[q] = "new" => at[q] = "new" /\ q # r
      /\ at'[r] # "new" /\ \A q \in Request : q # r => at'[q] = at[q]
  BY <1>1, <1>3
<1>8. \A q \in Rt : task[q] = "none" /\ q \notin done' /\ at'[q] # "new"
  BY <1>1, <1>3, <1>5, <1>7
<1>9. reply' \in [Request -> {"none", "open", "dropped", "handler", "failed"}]
  BY <1>1, DroppedType DEF DispatchInv
<1>10. status' \in [Request -> {"none", "refused", "failed", "timeout", "handler", "left"}]
  BY <1>1 DEF DispatchInv, DispatchTypes
<1>11. \A q \in Request : InFlight(q)' => q \in running'
  <2>1. Now' = t
    BY <1>1, <1>6, NowNext DEF Pumps
  <2>2. \A q \in Request : InFlight(q)' => InFlight(q) \/ q \in Rt
    <3> HIDE DEF Rt
    <3> QED BY <1>1, <1>2, <1>4, <1>6, <1>7, <1>8, <2>1, PumpsHold
  <2>3. \A q \in Request : InFlight(q) => q \in running
    BY <1>1, <1>2 DEF DispatchInv, Reachable
  <2>4. \A q \in R : InFlight(q)
    BY DEF InFlight, R
  <2> QED BY <1>1, <1>3, <2>2, <2>3, <2>4
<1> HIDE DEF Rt
<1>12. done' \subseteq done
  BY <1>1
<1> QED BY <1>1, <1>4, <1>6, <1>7, <1>8, <1>9, <1>10, <1>11, <1>12, ServingPump

\* clear() of the central queue, and of nothing else.
LEMMA QueueCleared ==
  ASSUME NEW s \in PumpState
  PROVE  LET t == [s EXCEPT !.queue = <<>>]
         IN  /\ t.queue = <<>> /\ t.active = s.active /\ t.chan = s.chan /\ t.home = s.home
             /\ t \in PumpState
<1> DEFINE t == [s EXCEPT !.queue = <<>>]
<1>1. s = [queue |-> s.queue, active |-> s.active, next |-> s.next, chan |-> s.chan,
           home |-> s.home]
  BY DEF PumpState
<1>2. /\ s.active \in [Worker -> 0 .. Credits] /\ s.next \in Worker
      /\ s.chan \in [Worker -> Seq(Request)] /\ s.home \in [Request -> Worker]
  BY DEF PumpState
<1>3. t = [queue |-> <<>>, active |-> s.active, next |-> s.next, chan |-> s.chan,
           home |-> s.home]
  BY <1>1
<1> HIDE DEF t
<1>4. <<>> \in Seq(Request)
  OBVIOUS
<1>5. t \in PumpState
  BY <1>2, <1>3, <1>4 DEF PumpState
<1>6. t.queue = <<>> /\ t.active = s.active /\ t.chan = s.chan /\ t.home = s.home
  BY <1>3
<1> QED BY <1>5, <1>6 DEF t

\* The end of the loop: one more pump, then everything is cancelled.
LEMMA ShutdownHolds == ASSUME DispatchInv, DispatchShutdown PROVE DispatchInv'
<1> USE DispatchFacts
<1> DEFINE s == Pumped
           R == Queued(Now)
           t == [s EXCEPT !.queue = <<>>]
           waiting == {r \in Request : at[r] = "waiting"}
<1>1. /\ main = "serving" /\ UNCHANGED <<term, done, thread, task, ran>>
      /\ \/ /\ Refused(s) /\ main' = "panicked"
            /\ UNCHANGED <<queue, active, next, chan, home, running, at, status, dispatchCancelled,
                           expired, reply>>
         \/ /\ main' = "joining" /\ Adopt(t) /\ running' = Kept /\ UNCHANGED expired
            /\ \E Q : reply' = Dropped(Q)
            /\ dispatchCancelled' = dispatchCancelled \cup running \cup waiting
            /\ at' = [r \in Request |-> IF r \in waiting THEN "ended" ELSE at[r]]
            /\ status' = [r \in Request |-> IF r \in waiting THEN "left" ELSE status[r]]
  BY DEF DispatchShutdown, dispatchTaskVars, dispatchVars, clientVars
<1>2. Alive
  BY <1>1 DEF Alive
<1>3. /\ Pumps(s, R, active) /\ s \in PumpState /\ R \subseteq Request
      /\ \A r \in R : task[r] = "none" /\ r \notin done /\ at[r] # "new"
  BY <1>2, PumpedHolds DEF Pumped
<1>4. Balanced(active, done)
  BY <1>2, BalancedNow
<1> HIDE DEF s
<1>5. CASE /\ Refused(s) /\ main' = "panicked"
           /\ UNCHANGED <<queue, active, next, chan, home, running, at, status, dispatchCancelled,
                          expired, reply>>
  <2>1. \A w \in Worker : Len(s.chan[w]) <= Credits
    BY <1>2, <1>3, <1>4, PumpRoom
  <2>2. \E w \in Worker : thread[w] = "failed"
    BY <1>1, <1>3, <1>5, <2>1, RefusedMeans
  <2>3. DispatchTypes'
    BY <1>1, <1>5, TypesKept DEF DispatchInv, DispatchTypes
  <2> QED BY <1>1, <1>5, <2>2, <2>3 DEF DispatchInv, PanicsOnlyAfterWorker, Alive
<1>6. CASE /\ main' = "joining" /\ Adopt(t) /\ running' = Kept /\ UNCHANGED expired
           /\ \E Q : reply' = Dropped(Q)
           /\ dispatchCancelled' = dispatchCancelled \cup running \cup waiting
           /\ at' = [r \in Request |-> IF r \in waiting THEN "ended" ELSE at[r]]
           /\ status' = [r \in Request |-> IF r \in waiting THEN "left" ELSE status[r]]
  <2>1. /\ t.queue = <<>> /\ t.active = s.active /\ t.chan = s.chan /\ t.home = s.home
        /\ t \in PumpState
    BY <1>3, QueueCleared
  <2> HIDE DEF t, R
  <2>2. Queued(t) = {} /\ \A w \in Worker : Sent(t, w) = Sent(s, w)
    <3>1. ToSet(<<>>) = {}
      BY DEF ToSet
    <3> QED BY <2>1, <3>1 DEF Queued, Sent
  <2>3. Apart(t)
    <3>1. Once(<<>>)
      BY DEF Once
    <3>2. \A w \in Worker : Once(t.chan[w])
      BY <1>3, <2>1 DEF Pumps, Apart
    <3>3. \A w \in Worker : \A r \in Sent(t, w) : t.home[r] = w /\ r \notin Queued(t)
      BY <1>3, <2>1, <2>2 DEF Pumps, Apart
    <3> QED BY <2>1, <3>1, <3>2, <3>3 DEF Apart
  <2>4. Pumps(t, R, active)
    <3>1. Queued(t) \subseteq R
      BY <2>2
    <3>2. \A w \in Worker : t.active[w] + Len(chan[w]) = active[w] + Len(t.chan[w])
      BY <1>3, <2>1 DEF Pumps
    <3>3. \A r \in Request : r \notin R => t.home[r] = home[r]
      BY <1>3, <2>1 DEF Pumps
    <3>4. \A w \in Worker : Sent(t, w) \subseteq Sent(Now, w) \cup R
      BY <1>3, <2>2 DEF Pumps
    <3> QED BY <2>1, <2>3, <3>1, <3>2, <3>3, <3>4 DEF Pumps
  <2>5. Now' = t /\ queue' = <<>>
    BY <1>6, <2>1, NowNext DEF Adopt
  <2>6. /\ at' \in [Request -> {"new", "waiting", "ended"}]
        /\ \A r \in Request : at'[r] # "waiting"
        /\ \A r \in Request : at'[r] = "new" => at[r] = "new"
    BY <1>6
  <2>7. \A r \in R : task[r] = "none" /\ r \notin done' /\ at'[r] # "new"
    BY <1>1, <1>3, <2>6
  <2>8. Balanced(active, done') /\ done' \subseteq done
    BY <1>1, <1>4
  <2>9. /\ Apart(Now') /\ Placed' /\ CreditsCounted'
        /\ \A w \in Worker : Len(chan'[w]) <= Credits
        /\ \A w \in Worker : Tasks(w)' = Tasks(w)
        /\ \A r \in Request : InFlight(r)' => InFlight(r) \/ r \in R
    BY <1>1, <1>2, <1>3, <2>4, <2>5, <2>6, <2>7, <2>8, PumpsHold
  <2>10. DispatchTypes'
    <3>1. Len(queue') <= QueueMax
      BY <2>5
    <3>2. running' \subseteq Request /\ done' \subseteq Request /\ dispatchCancelled' \subseteq Request
      BY <1>1, <1>6 DEF Kept
    <3>3. reply' \in [Request -> {"none", "open", "dropped", "handler", "failed"}]
      BY <1>6, DroppedType DEF DispatchInv
    <3>4. status' \in [Request -> {"none", "refused", "failed", "timeout", "handler", "left"}]
      BY <1>6 DEF DispatchInv, DispatchTypes
    <3>5. Now' \in PumpState
      BY <2>1, <2>5
    <3> QED BY <1>1, <1>6, <2>6, <2>9, <3>1, <3>2, <3>3, <3>4, <3>5, PumpTypes DEF DispatchInv
  <2>11. Threads'
    BY <1>1, <1>2 DEF DispatchInv, Threads
  <2>12. Reachable'
    <3>1. \A r \in Request : InFlight(r) => r \in running
      BY <1>1, <1>2 DEF DispatchInv, Reachable
    <3>2. \A r \in R : InFlight(r)
      BY DEF InFlight, R
    <3>3. \A r \in Request : InFlight(r)' => r \in dispatchCancelled'
      BY <1>6, <2>9, <3>1, <3>2
    <3> QED BY <1>6, <2>5, <2>6, <3>3 DEF Reachable
  <2> QED BY <1>6, <2>9, <2>10, <2>11, <2>12 DEF DispatchInv, PanicsOnlyAfterWorker
<1> QED BY <1>1, <1>5, <1>6

\* Every step of the clients, of the workers and of the coordinator.
LEMMA DispatchStep == DispatchInv /\ [DispatchNext]_pgDispatchVars => DispatchInv'
<1> SUFFICES ASSUME DispatchInv, [DispatchNext]_pgDispatchVars PROVE DispatchInv'
  OBVIOUS
<1>1. ASSUME NEW r \in Request, Client(r) PROVE DispatchInv'
  <2>1. Receive(r) => DispatchInv'
    BY DepartHolds DEF Receive
  <2>2. OwnerEnded(r) => DispatchInv'
    BY DepartHolds DEF OwnerEnded
  <2>3. Deadline(r) \/ Leave(r) => DispatchInv'
    BY DepartHolds DEF Deadline, Leave
  <2> QED BY <1>1, <2>1, <2>2, <2>3, TurnAwayHolds, AdmitHolds, ExpireHolds DEF Client
<1>2. ASSUME NEW r \in Request, Work(r) PROVE DispatchInv'
  BY <1>2, SkipHolds, EndHolds, TaskHolds DEF Work
<1>3. ASSUME NEW w \in Worker, Take(w) \/ WorkerFails(w) \/ DispatchWorkerEnds(w) PROVE DispatchInv'
  BY <1>3, TakeHolds, WorkerFailsHolds, WorkerEndsHolds
<1>4. ASSUME Coordinator PROVE DispatchInv'
  BY <1>4, TickHolds, ShutdownHolds, OverdueHolds, JoinHolds, DoneArrivesHolds DEF Coordinator
<1>5. ASSUME UNCHANGED pgDispatchVars PROVE DispatchInv'
  <2>1. /\ UNCHANGED <<main, term, queue, active, next, chan, home, running, done, thread, task, ran,
                       dispatchCancelled, expired, at, status, reply>>
    BY <1>5 DEF pgDispatchVars, dispatchVars, dispatchTaskVars, clientVars
  <2>2. DispatchTypes'
    BY <2>1, TypesKept DEF DispatchInv, DispatchTypes
  <2>3. CASE Alive
    BY <2>1, <2>2, <2>3, QuietStep
  <2>4. CASE ~Alive
    BY <2>1, <2>2, <2>4 DEF DispatchInv, PanicsOnlyAfterWorker, Alive
  <2> QED BY <2>3, <2>4
<1> QED BY <1>1, <1>2, <1>3, <1>4, <1>5, SignalHolds DEF DispatchNext

\* The invariant holds throughout.
LEMMA DispatchInvariance == DispatchSpec => []DispatchInv
  BY DispatchInitially, DispatchStep, PTL DEF DispatchSpec

\* serve(), pump() and worker(): in every state, however many requests, credits and places in
\* the queue there are, each credit is a request in a channel, a task or a Done message; no
\* request waits while a credit is free; shutdown reaches all that is under way; and the
\* coordinator panics only after a worker failed.
THEOREM CreditsAreKept == DispatchSpec => []DispatchSound
<1>1. DispatchInv => DispatchSound
  <2> SUFFICES ASSUME DispatchInv PROVE DispatchSound
    OBVIOUS
  <2> USE DispatchFacts
  <2>1. DispatchTypeOK
    BY DEF DispatchInv, DispatchTypes, DispatchTypeOK
  <2>2. CreditsExact
    BY DEF DispatchInv, CreditsCounted, Used, BusyAt, DoneAt, CreditsExact
  <2>3. WorkConserving
    BY DEF DispatchInv, Reachable, Conserving, Now, WorkConserving, Alive
  <2>4. ShutdownReaches
    BY DEF DispatchInv, Reachable, InFlight, ShutdownReaches, Alive
  <2> QED BY <2>1, <2>2, <2>3, <2>4 DEF DispatchInv, DispatchSound
<1> QED BY <1>1, DispatchInvariance, PTL

(***************************************************************************)
(* Service                                                                 *)
(***************************************************************************)

\* Dropping the Work of a request sends no answer.
LEMMA DroppedSends ==
  ASSUME NEW R, NEW r \in Request, Dropped(R)[r] = "handler"
  PROVE  reply[r] = "handler"
  BY DEF Dropped

\* A request whose task runs or is about to was not refused, and is not new.
LEMMA BusyMeans ==
  ASSUME DispatchInv, Answers, Alive, NEW r \in Request, task[r] \in Busy
  PROVE  at[r] # "new" /\ status[r] # "refused"
<1>1. InFlight(r)
  BY DEF InFlight
<1>2. r \in running \cup dispatchCancelled
  BY <1>1 DEF DispatchInv, Reachable, Alive
<1> QED BY <1>2 DEF Answers

\* Steps that move neither a handler nor a client.
LEMMA AnswersKept ==
  ASSUME Answers, UNCHANGED <<ran, at, status>>,
         running' \subseteq running, dispatchCancelled' \subseteq dispatchCancelled,
         \A r \in Request :
            /\ task'[r] \in {"none", "spawned"} => task[r] \in {"none", "spawned"}
            /\ task'[r] = "building" => task[r] = "building"
            /\ reply'[r] = "handler" => reply[r] = "handler"
  PROVE  Answers'
<1> SUFFICES ASSUME NEW r \in Request
             PROVE  /\ at'[r] # "ended" => status'[r] = "none"
                    /\ at'[r] = "new" \/ status'[r] = "refused"
                         => ran'[r] = "no" /\ r \notin running' \cup dispatchCancelled'
                    /\ task'[r] \in {"none", "spawned"} => ran'[r] = "no"
                    /\ task'[r] = "building" => ran'[r] = "begun"
                    /\ reply'[r] = "handler" => ran'[r] = "complete"
  BY DEF Answers
<1> QED BY DEF Answers

\* serve(): its beginning and the ways it ends.
LEMMA ClientAnswers ==
  ASSUME DispatchInv, Answers, NEW r \in Request, Client(r)
  PROVE  Answers'
<1>0. at \in [Request -> {"new", "waiting", "ended"}] /\ DOMAIN status = Request /\ DOMAIN reply = Request
  BY DispatchFacts DEF DispatchInv, DispatchTypes
<1>1. ASSUME NEW s, s # "refused", at[r] = "waiting", Depart(r, s) PROVE Answers'
  <2>1. /\ at' = [at EXCEPT ![r] = "ended"] /\ status' = [status EXCEPT ![r] = s]
        /\ dispatchCancelled' = dispatchCancelled \cup {r} /\ UNCHANGED <<running, task, ran>>
        /\ \A q \in Request : reply'[q] = "handler" => reply[q] = "handler"
    BY <1>1, DroppedSends DEF Depart, dispatchTaskVars
  <2>2. \A q \in Request : at'[q] = (IF q = r THEN "ended" ELSE at[q])
                           /\ status'[q] = (IF q = r THEN s ELSE status[q])
    BY <1>0, <2>1
  <2> QED BY <1>1, <2>1, <2>2 DEF Answers
<1>2. CASE TurnAway(r)
  <2>1. /\ at[r] = "new" /\ at' = [at EXCEPT ![r] = "ended"] /\ status' = [status EXCEPT ![r] = "refused"]
        /\ UNCHANGED <<running, dispatchCancelled, task, ran, reply>>
    BY <1>2 DEF TurnAway, dispatchTaskVars
  <2>2. \A q \in Request : at'[q] = (IF q = r THEN "ended" ELSE at[q])
                           /\ status'[q] = (IF q = r THEN "refused" ELSE status[q])
    BY <1>0, <2>1
  <2> QED BY <2>1, <2>2 DEF Answers
<1>3. CASE Admit(r)
  <2>1. PICK room \in BOOLEAN :
          /\ at[r] = "new" /\ running' = (IF room THEN running \cup {r} ELSE running)
          /\ reply' = [Dropped(Purged) EXCEPT ![r] = IF room THEN "open" ELSE @]
          /\ at' = [at EXCEPT ![r] = IF room THEN "waiting" ELSE "ended"]
          /\ status' = [status EXCEPT ![r] = IF room THEN @ ELSE "refused"]
          /\ UNCHANGED <<dispatchCancelled, task, ran>>
    <3>1. (~(Len(Pumped.queue) = QueueMax /\ Full(Pumped.active))) \in BOOLEAN
      OBVIOUS
    <3> QED BY <1>3, <3>1 DEF Admit, dispatchTaskVars
  <2>2. \A q \in Request : /\ at'[q] = (IF q = r THEN IF room THEN "waiting" ELSE "ended" ELSE at[q])
                           /\ status'[q] = (IF q = r /\ ~room THEN "refused" ELSE status[q])
    BY <1>0, <2>1
  <2>3. \A q \in Request : reply'[q] = "handler" => reply[q] = "handler"
    <3>1. DOMAIN Dropped(Purged) = Request
      BY DEF Dropped
    <3>2. \A q \in Request : reply'[q] = "handler" => Dropped(Purged)[q] = "handler"
      BY <2>1, <3>1
    <3> QED BY <3>2, DroppedSends
  <2> QED BY <2>1, <2>2, <2>3 DEF Answers
<1>4. CASE Receive(r)
  BY <1>1, <1>4 DEF Receive
<1>5. CASE OwnerEnded(r)
  BY <1>1, <1>5 DEF OwnerEnded
<1>6. CASE Deadline(r) \/ Leave(r)
  BY <1>1, <1>6 DEF Deadline, Leave
<1>7. CASE Expire(r)
  BY <1>7, AnswersKept DEF Expire, dispatchTaskVars
<1> QED BY <1>2, <1>3, <1>4, <1>5, <1>6, <1>7 DEF Client

\* A task of a worker.
LEMMA WorkAnswers ==
  ASSUME DispatchInv, Answers, NEW r \in Request, Work(r)
  PROVE  Answers'
<1>0. /\ task \in [Request -> Busy \cup {"none", "finished", "reaped", "dropped"}]
      /\ DOMAIN ran = Request /\ DOMAIN reply = Request
  BY DispatchFacts DEF DispatchInv, DispatchTypes
<1>1. CASE Skip(r)
  <2>1. /\ task' = [task EXCEPT ![r] = "finished"] /\ UNCHANGED <<ran, at, status, running, dispatchCancelled>>
        /\ \A q \in Request : reply'[q] = "handler" => reply[q] = "handler"
    BY <1>1, DroppedSends DEF Skip, EndTask, clientVars
  <2>2. \A q \in Request : task'[q] = (IF q = r THEN "finished" ELSE task[q])
    BY <1>0, <2>1
  <2> QED BY <2>1, <2>2, AnswersKept
<1>2. CASE Panic(r) \/ Reap(r)
  <2>1. PICK t \in {"panicked", "reaped"} :
          /\ task' = [task EXCEPT ![r] = t]
          /\ UNCHANGED <<ran, at, status, running, dispatchCancelled, reply>>
    BY <1>2 DEF Panic, Reap, clientVars
  <2>2. \A q \in Request : task'[q] = (IF q = r THEN t ELSE task[q])
    BY <1>0, <2>1
  <2> QED BY <2>1, <2>2, AnswersKept
<1>3. CASE Build(r)
  <2>1. /\ Alive /\ task[r] = "spawned" /\ task' = [task EXCEPT ![r] = "building"]
        /\ ran' = [ran EXCEPT ![r] = "begun"]
        /\ UNCHANGED <<at, status, running, dispatchCancelled, reply>>
    BY <1>3 DEF Build, clientVars
  <2>2. \A q \in Request : /\ task'[q] = (IF q = r THEN "building" ELSE task[q])
                           /\ ran'[q] = (IF q = r THEN "begun" ELSE ran[q])
    BY <1>0, <2>1
  <2>3. at[r] # "new" /\ status[r] # "refused"
    BY <2>1, BusyMeans DEF Busy
  <2> QED BY <2>1, <2>2, <2>3 DEF Answers
<1>4. CASE End(r)
  <2>1. /\ Alive /\ task[r] = "building" /\ task' = [task EXCEPT ![r] = "finished"]
        /\ UNCHANGED <<at, status, running, dispatchCancelled>>
    BY <1>4 DEF End, EndTask, clientVars
  <2>2. \A q \in Request : task'[q] = (IF q = r THEN "finished" ELSE task[q])
    BY <1>0, <2>1
  <2>3. at[r] # "new" /\ status[r] # "refused"
    BY <2>1, BusyMeans DEF Busy
  <2>4. ASSUME reply' = [reply EXCEPT ![r] = "handler"], ran' = [ran EXCEPT ![r] = "complete"]
        PROVE  Answers'
    <3>1. \A q \in Request : /\ reply'[q] = (IF q = r THEN "handler" ELSE reply[q])
                             /\ ran'[q] = (IF q = r THEN "complete" ELSE ran[q])
      BY <1>0, <2>4
    <3> QED BY <2>1, <2>2, <2>3, <3>1 DEF Answers
  <2>5. ASSUME reply' = [reply EXCEPT ![r] = "failed"], UNCHANGED ran PROVE Answers'
    <3>1. \A q \in Request : reply'[q] = (IF q = r THEN "failed" ELSE reply[q])
      BY <1>0, <2>5
    <3> QED BY <2>1, <2>2, <2>5, <3>1, AnswersKept
  <2> QED BY <1>4, <2>4, <2>5 DEF End
<1> QED BY <1>1, <1>2, <1>3, <1>4 DEF Work

\* A worker.
LEMMA WorkerAnswers ==
  ASSUME DispatchInv, Answers, NEW w \in Worker, Take(w) \/ WorkerFails(w) \/ DispatchWorkerEnds(w)
  PROVE  Answers'
<1>0. task \in [Request -> Busy \cup {"none", "finished", "reaped", "dropped"}]
  BY DEF DispatchInv, DispatchTypes
<1>1. CASE Take(w)
  <2> DEFINE r == Head(chan[w])
  <2>1. /\ Alive /\ chan[w] # <<>> /\ task' = [task EXCEPT ![r] = "spawned"]
        /\ UNCHANGED <<ran, at, status, running, dispatchCancelled, reply>>
    BY <1>1 DEF Take, clientVars
  <2>2. chan[w] \in Seq(Request)
    BY DispatchFacts DEF DispatchInv, DispatchTypes, Worker
  <2>3. r \in Request /\ r \in ToSet(chan[w])
    BY <2>1, <2>2 DEF ToSet
  <2> HIDE DEF r
  <2>4. task[r] = "none"
    BY <2>1, <2>3 DEF DispatchInv, Placed, Sent, Now
  <2>5. \A q \in Request : task'[q] = (IF q = r THEN "spawned" ELSE task[q])
    BY <1>0, <2>1
  <2> QED BY <2>1, <2>4, <2>5, AnswersKept
<1>2. CASE WorkerFails(w)
  <2>1. /\ task' = [r \in Request |-> IF r \in Tasks(w) /\ task[r] \in Busy THEN "dropped" ELSE task[r]]
        /\ UNCHANGED <<ran, at, status, running, dispatchCancelled>>
        /\ \A q \in Request : reply'[q] = "handler" => reply[q] = "handler"
    BY <1>2, DroppedSends DEF WorkerFails, clientVars
  <2> QED BY <2>1, AnswersKept
<1>3. CASE DispatchWorkerEnds(w)
  BY <1>3, AnswersKept DEF DispatchWorkerEnds, clientVars
<1> QED BY <1>1, <1>2, <1>3

\* The coordinator.
LEMMA CoordinatorAnswers ==
  ASSUME DispatchInv, Answers, Coordinator
  PROVE  Answers'
<1>1. CASE Tick
  <2>1. /\ UNCHANGED <<ran, at, status, task, dispatchCancelled>> /\ running' \subseteq running
        /\ \A q \in Request : reply'[q] = "handler" => reply[q] = "handler"
    BY <1>1, DroppedSends DEF Tick, dispatchTaskVars, clientVars, Kept
  <2> QED BY <2>1, AnswersKept
<1>2. ASSUME NEW r \in Request, DoneArrives(r) PROVE Answers'
  <2>1. /\ UNCHANGED <<ran, at, status, task, dispatchCancelled>> /\ running' \subseteq running
        /\ UNCHANGED reply \/ reply' = Dropped(Purged)
    BY <1>2 DEF DoneArrives, dispatchTaskVars, clientVars
  <2>2. \A q \in Request : reply'[q] = "handler" => reply[q] = "handler"
    BY <2>1, DroppedSends
  <2> QED BY <2>1, <2>2, AnswersKept
<1>3. CASE Overdue \/ Join
  BY <1>3, AnswersKept DEF Overdue, Join, dispatchTaskVars, clientVars
<1>4. CASE DispatchShutdown
  <2> DEFINE waiting == {r \in Request : at[r] = "waiting"}
  <2>1. ASSUME UNCHANGED <<running, at, status, dispatchCancelled, reply, task, ran>> PROVE Answers'
    BY <2>1, AnswersKept
  <2>2. ASSUME running' = Kept, dispatchCancelled' = dispatchCancelled \cup running \cup waiting,
               at' = [r \in Request |-> IF r \in waiting THEN "ended" ELSE at[r]],
               status' = [r \in Request |-> IF r \in waiting THEN "left" ELSE status[r]],
               \A q \in Request : reply'[q] = "handler" => reply[q] = "handler",
               UNCHANGED <<task, ran>>
        PROVE  Answers'
    BY <2>2 DEF Answers, Kept
  <2>3. UNCHANGED <<task, ran>>
    BY <1>4 DEF DispatchShutdown, dispatchTaskVars
  <2>4. \/ UNCHANGED <<running, at, status, dispatchCancelled, reply>>
        \/ /\ running' = Kept /\ dispatchCancelled' = dispatchCancelled \cup running \cup waiting
           /\ at' = [r \in Request |-> IF r \in waiting THEN "ended" ELSE at[r]]
           /\ status' = [r \in Request |-> IF r \in waiting THEN "left" ELSE status[r]]
           /\ \A q \in Request : reply'[q] = "handler" => reply[q] = "handler"
    BY <1>4, DroppedSends DEF DispatchShutdown, clientVars
  <2> QED BY <2>1, <2>2, <2>3, <2>4
<1> QED BY <1>1, <1>2, <1>3, <1>4 DEF Coordinator

\* No step changes an answer, or gives one without its run.
LEMMA AnswersStep == DispatchInv /\ Answers /\ [DispatchNext]_pgDispatchVars => Answers'
<1> SUFFICES ASSUME DispatchInv, Answers, [DispatchNext]_pgDispatchVars PROVE Answers'
  OBVIOUS
<1>1. Signal => Answers'
  BY AnswersKept DEF Signal, dispatchTaskVars, clientVars
<1>2. UNCHANGED pgDispatchVars => Answers'
  BY AnswersKept DEF pgDispatchVars, dispatchTaskVars, clientVars
<1> QED BY <1>1, <1>2, ClientAnswers, WorkAnswers, WorkerAnswers, CoordinatorAnswers DEF DispatchNext

\* No request was answered yet.
LEMMA AnswersInitially == DispatchInit => Answers
  BY DEF DispatchInit, Answers

\* Answers holds throughout.
LEMMA AnswersInvariance == DispatchSpec => []Answers
<1>1. Answers /\ (DispatchInv /\ [DispatchNext]_pgDispatchVars) => Answers'
  BY AnswersStep
<1> QED BY <1>1, AnswersInitially, DispatchInvariance, PTL DEF DispatchSpec

\* Every step of the two threads is one of Service, or none.
LEMMA DispatchStepRefines ==
  DispatchInv /\ Answers /\ [DispatchNext]_pgDispatchVars => [Abstract!Next]_(Abstract!vars)
<1> SUFFICES ASSUME DispatchInv, Answers, [DispatchNext]_pgDispatchVars
             PROVE  [Abstract!Next]_(Abstract!vars)
  OBVIOUS
<1>0. status \in [Request -> {"none", "refused", "failed", "timeout", "handler", "left"}]
  BY DEF DispatchInv, DispatchTypes
<1>1. UNCHANGED <<ran, status>> => [Abstract!Next]_(Abstract!vars)
  BY DEF Abstract!vars
<1>2. ASSUME NEW r \in Request, NEW v \in Abstract!Verdict, UNCHANGED ran, status[r] = "none",
             status' = [status EXCEPT ![r] = v],
             v = "refused" => ran[r] = "no", v = "handler" => ran[r] = "complete"
      PROVE  Abstract!Next
  BY <1>2 DEF Abstract!Next, Abstract!Decide
<1>3. ASSUME NEW r \in Request, Client(r) PROVE [Abstract!Next]_(Abstract!vars)
  <2>1. ASSUME NEW v \in {"failed", "timeout", "handler", "left"}, at[r] = "waiting", Depart(r, v),
               v = "handler" => reply[r] = "handler"
        PROVE  Abstract!Next
    <3>1. status' = [status EXCEPT ![r] = v] /\ UNCHANGED ran
      BY <2>1 DEF Depart, dispatchTaskVars
    <3>2. status[r] = "none" /\ (v = "handler" => ran[r] = "complete")
      BY <2>1 DEF Answers
    <3>3. v \in Abstract!Verdict /\ v # "refused"
      BY DEF Abstract!Verdict
    <3> QED BY <1>2, <3>1, <3>2, <3>3
  <2>2. "refused" \in Abstract!Verdict
    BY DEF Abstract!Verdict
  <2>3. at[r] = "new" => status[r] = "none" /\ ran[r] = "no"
    BY DEF Answers
  <2>4. CASE TurnAway(r)
    <3>1. at[r] = "new" /\ status' = [status EXCEPT ![r] = "refused"] /\ UNCHANGED ran
      BY <2>4 DEF TurnAway, dispatchTaskVars
    <3> QED BY <1>2, <2>2, <2>3, <3>1
  <2>5. CASE Admit(r)
    <3>1. at[r] = "new" /\ UNCHANGED ran
          /\ (status' = [status EXCEPT ![r] = @] \/ status' = [status EXCEPT ![r] = "refused"])
      BY <2>5 DEF Admit, dispatchTaskVars
    <3>2. [status EXCEPT ![r] = @] = status
      BY <1>0
    <3> QED BY <1>1, <1>2, <2>2, <2>3, <3>1, <3>2
  <2>6. CASE Receive(r)
    BY <2>1, <2>6 DEF Receive
  <2>7. CASE OwnerEnded(r)
    BY <2>1, <2>7 DEF OwnerEnded
  <2>8. CASE Deadline(r) \/ Leave(r)
    BY <2>1, <2>8 DEF Deadline, Leave
  <2>9. CASE Expire(r)
    BY <1>1, <2>9 DEF Expire, dispatchTaskVars
  <2> QED BY <1>3, <2>4, <2>5, <2>6, <2>7, <2>8, <2>9 DEF Client
<1>4. ASSUME NEW r \in Request, Work(r) PROVE [Abstract!Next]_(Abstract!vars)
  <2>1. CASE Build(r)
    <3>1. /\ Alive /\ task[r] = "spawned" /\ ran' = [ran EXCEPT ![r] = "begun"] /\ UNCHANGED status
      BY <2>1 DEF Build, clientVars
    <3>2. ran[r] = "no" /\ status[r] # "refused"
      BY <3>1, BusyMeans DEF Busy, Answers
    <3>3. Abstract!Begin(r)
      BY <3>1, <3>2 DEF Abstract!Begin
    <3> QED BY <3>3 DEF Abstract!Next
  <2>2. CASE End(r)
    <3>1. /\ task[r] = "building" /\ UNCHANGED status
          /\ ran' = [ran EXCEPT ![r] = "complete"] \/ UNCHANGED ran
      BY <2>2 DEF End, EndTask, clientVars
    <3>2. ASSUME ran' = [ran EXCEPT ![r] = "complete"] PROVE Abstract!Complete(r)
      BY <3>1, <3>2 DEF Abstract!Complete, Answers
    <3> QED BY <1>1, <3>1, <3>2 DEF Abstract!Next
  <2>3. CASE Skip(r)
    BY <1>1, <2>3 DEF Skip, EndTask, clientVars
  <2>4. CASE Panic(r) \/ Reap(r)
    BY <1>1, <2>4 DEF Panic, Reap, clientVars
  <2> QED BY <1>4, <2>1, <2>2, <2>3, <2>4 DEF Work
<1>5. CASE DispatchShutdown
  <2> DEFINE waiting == {r \in Request : at[r] = "waiting"}
  <2>1. /\ UNCHANGED ran
        /\ \/ UNCHANGED status
           \/ status' = [r \in Request |-> IF r \in waiting THEN "left" ELSE status[r]]
    BY <1>5 DEF DispatchShutdown, dispatchTaskVars, clientVars
  <2>2. ASSUME status' = [r \in Request |-> IF r \in waiting THEN "left" ELSE status[r]]
        PROVE  Abstract!Leave(waiting)
    BY <2>1, <2>2 DEF Abstract!Leave, Answers
  <2>3. waiting \in SUBSET Request
    OBVIOUS
  <2> QED BY <1>1, <2>1, <2>2, <2>3 DEF Abstract!Next
<1>6. CASE Tick \/ Overdue \/ Join \/ Signal \/ \E r \in Request : DoneArrives(r)
  BY <1>1, <1>6 DEF Tick, Overdue, Join, Signal, DoneArrives, dispatchTaskVars, clientVars
<1>7. ASSUME NEW w \in Worker, Take(w) \/ WorkerFails(w) \/ DispatchWorkerEnds(w)
      PROVE  [Abstract!Next]_(Abstract!vars)
  BY <1>1, <1>7 DEF Take, WorkerFails, DispatchWorkerEnds, clientVars
<1>8. CASE UNCHANGED pgDispatchVars
  BY <1>1, <1>8 DEF pgDispatchVars, dispatchTaskVars, clientVars
<1> QED BY <1>3, <1>4, <1>5, <1>6, <1>7, <1>8 DEF DispatchNext, Coordinator

\* The two threads of servers/http-postgres implement Service: a request that was refused
\* never ran and never will, and an answer of the handler is that of a run that came to its
\* end, whatever was cancelled, expired or lost with a worker.
THEOREM CoordinatorImplementsService == DispatchSpec => ServiceHolds
<1>1. DispatchInit => Abstract!Init
  BY DEF DispatchInit, Abstract!Init
<1> QED
  BY <1>1, DispatchStepRefines, DispatchInvariance, AnswersInvariance, PTL
  DEF DispatchSpec, ServiceHolds, Abstract!Spec

=============================================================================
