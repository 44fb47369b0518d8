--------------------------- MODULE Engine_proofs ----------------------------
(***************************************************************************)
(* Proofs about the engine's parts.                                        *)
(*                                                                         *)
(* Lifecycle: native operations and the contexts that own them, for every  *)
(* number of contexts and every Max.  Slot, over those: requests that      *)
(* share an invocation slot share nothing else.  ChildRun: what a call of  *)
(* a child process returns and leaves behind, for every family of          *)
(* processes and every size of the pipes and of the capture.  Execution: a *)
(* program cut into slices ends as it would in one piece, for every        *)
(* program, budget and slice.                                              *)
(***************************************************************************)
EXTENDS Slot, ChildRun, Execution, FiniteSetTheorems, TLAPS

\* Data_proofs has its own Max and its own sums.  Nothing is folded here.
Union(S, T) == S \cup T
Data == INSTANCE Data_proofs WITH Op <- Union

(***************************************************************************)
(* Lifecycle, Slot and ChildRun                                            *)
(***************************************************************************)

\* Keys are handed out in order: the script holds, and an execution has polled,
\* only operations made before.
Fresh ==
    \A c \in Context : \A k \in handle[c] \cup touched[c] : k < next[c]

\* No owner is stamped with a generation that has not begun.
StampsBehind ==
    \A c \in Context : \A k \in Key : stamp[c][k] <= generation[c]

\* While an execution runs, the stamp tells what it polled.
StampIsTouched ==
    \A c \in Context : active[c] =>
        /\ generation[c] > 0
        /\ \A k \in held[c] : stamp[c][k] = generation[c] <=> k \in touched[c]

IInv == TypeOK /\ NoEscape /\ Fresh /\ StampsBehind /\ StampIsTouched

----------------------------------------------------------------------------
(* The steps of a disposal, used by five actions *)

\* The types of what Dispose, and Settle, assign.
DisposedOK ==
    /\ held' \in [Context -> SUBSET Key]
    /\ owners' \in [Context -> SUBSET Key]
    /\ failure' \in [Context -> BOOLEAN]
SettledOK ==
    /\ DisposedOK
    /\ status' \in [Context -> {"unmade", "live", "retired", "gone"}]
    /\ outcome' \in Outcome

\* Keys are positive numbers below Max.
LEMMA KeyFacts == /\ Key \subseteq Nat
                  /\ \A n \in 1 .. Max : n < Max => n \in Key
BY MaxAssumption DEF Key

\* What Dispose leaves has the right types.
LEMMA DisposeType ==
    ASSUME TypeOK, NEW c \in Context, NEW K \in SUBSET Key, NEW p \in BOOLEAN,
           Dispose(c, K, p)
    PROVE  DisposedOK
BY DEF TypeOK, Dispose, Exists, DisposedOK

\* State::revoke chooses among keys.
LEMMA RevocableType ==
    ASSUME TypeOK, NEW c \in Context, NEW all \in BOOLEAN
    PROVE  Revocable(c, all) \in SUBSET Key
BY DEF TypeOK, Revocable

\* What finish and clear leave has the right types.
LEMMA SettleType ==
    ASSUME TypeOK, NEW c \in Context, NEW K \in SUBSET Key, NEW p \in BOOLEAN,
           Settle(c, K, p)
    PROVE  SettledOK
<1>1. Revocable(c, TRUE) \in SUBSET Key
  BY RevocableType
<1>2. CASE failure[c] \/ p
  <2> DEFINE L == K \cup Revocable(c, TRUE)
  <2>1. Dispose(c, L, p)
    BY <1>2 DEF Settle
  <2>2. L \in SUBSET Key
    BY <1>1
  <2>3. DisposedOK
    <3> HIDE DEF L
    <3> QED BY <2>1, <2>2, DisposeType
  <2> QED
    BY <1>2, <2>3 DEF Settle, SettledOK, TypeOK, Outcome
<1>3. CASE ~(failure[c] \/ p)
  <2>1. Dispose(c, K, FALSE)
    BY <1>3 DEF Settle
  <2> QED
    BY <1>3, <2>1, DisposeType DEF Settle, SettledOK, TypeOK, Outcome
<1> QED
  BY <1>2, <1>3

\* Every operation of a context keeps the types and the bounds of both counters.
LEMMA TypeStep == TypeOK /\ [Next]_vars => TypeOK'
<1> SUFFICES ASSUME TypeOK, [Next]_vars PROVE TypeOK'
  OBVIOUS
<1> USE KeyFacts, MaxAssumption
<1>1. CASE UNCHANGED vars
  BY <1>1 DEF TypeOK, vars, contextVars, ownerVars
<1>2. ASSUME NEW c \in Context, Script(c) PROVE TypeOK'
  <2>1. CASE Track(c)
    <3>1. next[c] \in Key /\ next[c] + 1 \in 1 .. Max
      BY <2>1 DEF Track, TypeOK
    <3>2. next' \in [Context -> 1 .. Max]
      BY <2>1, <3>1 DEF Track, TypeOK
    <3>3. stamp' \in [Context -> [Key -> 0 .. Max]]
      BY <2>1, <3>1 DEF Track, TypeOK
    <3>4. /\ owners' \in [Context -> SUBSET Key]
          /\ handle' \in [Context -> SUBSET Key]
          /\ held' \in [Context -> SUBSET Key]
      BY <2>1, <3>1 DEF Track, TypeOK
    <3> QED
      BY <2>1, <3>2, <3>3, <3>4 DEF Track, TypeOK, Outcome
  <2>2. CASE TrackRefused(c)
    <3>1. outcome' \in Outcome BY <2>2 DEF TrackRefused, Outcome
    <3> QED BY <2>2, <3>1 DEF TrackRefused, TypeOK, contextVars, ownerVars
  <2>3. ASSUME NEW p \in BOOLEAN, TrackExhausted(c, p) PROVE TypeOK'
    BY <2>3 DEF TrackExhausted, TypeOK, Outcome, ownerVars
  <2>4. ASSUME NEW k \in Key, PollCancelled(c, k) PROVE TypeOK'
    BY <2>4 DEF PollCancelled, TypeOK, Outcome, contextVars
  <2>5. ASSUME NEW k \in Key, PollPending(c, k) PROVE TypeOK'
    BY <2>5 DEF PollPending, TypeOK, Outcome, contextVars
  <2>6. ASSUME NEW k \in Key, NEW p \in BOOLEAN, PollRetired(c, k, p) PROVE TypeOK'
    <3>1. Dispose(c, {k}, p) BY <2>6 DEF PollRetired
    <3>2. DisposedOK BY <3>1, {k} \in SUBSET Key, DisposeType
    <3> QED BY <2>6, <3>2 DEF DisposedOK, PollRetired, TypeOK, Outcome
  <2>7. ASSUME NEW k \in Key, NEW p \in BOOLEAN, PollReady(c, k, p) PROVE TypeOK'
    <3>1. Dispose(c, {k}, p) BY <2>7 DEF PollReady
    <3>2. DisposedOK BY <3>1, {k} \in SUBSET Key, DisposeType
    <3> QED BY <2>7, <3>2 DEF DisposedOK, PollReady, TypeOK, Outcome
  <2>8. ASSUME NEW k \in Key, NEW p \in BOOLEAN, DropTracked(c, k, p) PROVE TypeOK'
    <3>1. Dispose(c, {k}, p) BY <2>8 DEF DropTracked
    <3>2. DisposedOK BY <3>1, {k} \in SUBSET Key, DisposeType
    <3> QED BY <2>8, <3>2 DEF DisposedOK, DropTracked, TypeOK, Outcome
  <2> QED BY <1>2, <2>1, <2>2, <2>3, <2>4, <2>5, <2>6, <2>7, <2>8 DEF Script
<1>3. ASSUME NEW c \in Context, Owner(c) PROVE TypeOK'
  <2>1. CASE New(c)
    BY <2>1 DEF New, TypeOK, Outcome, ownerVars
  <2>2. CASE Begin(c)
    <3>1. generation' \in [Context -> 0 .. Max]
      BY <2>2 DEF Begin, TypeOK
    <3>2. active' \in [Context -> BOOLEAN] /\ touched' \in [Context -> SUBSET Key]
      BY <2>2 DEF Begin, TypeOK
    <3> QED
      BY <2>2, <3>1, <3>2 DEF Begin, TypeOK, Outcome, ownerVars
  <2>3. CASE BeginRefused(c)
    <3>1. outcome' \in Outcome BY <2>3 DEF BeginRefused, Outcome
    <3> QED BY <2>3, <3>1 DEF BeginRefused, TypeOK, contextVars, ownerVars
  <2>4. ASSUME NEW f \in BOOLEAN, NEW p \in BOOLEAN, Finish(c, f, p) PROVE TypeOK'
    <3> DEFINE K == IF active[c] /\ f THEN Revocable(c, FALSE) ELSE {}
    <3>1. Settle(c, K, p) BY <2>4 DEF Finish
    <3>2. K \in SUBSET Key BY RevocableType
    <3> HIDE DEF K
    <3>3. SettledOK BY <3>1, <3>2, SettleType
    <3> QED BY <2>4, <3>3 DEF SettledOK, DisposedOK, Finish, TypeOK
  <2>5. ASSUME NEW p \in BOOLEAN, Clear(c, p) PROVE TypeOK'
    <3>1. Settle(c, Revocable(c, TRUE), p) BY <2>5 DEF Clear
    <3>2. Revocable(c, TRUE) \in SUBSET Key BY RevocableType
    <3>3. SettledOK BY <3>1, <3>2, SettleType
    <3> QED BY <2>5, <3>3 DEF SettledOK, DisposedOK, Clear, TypeOK
  <2>6. ASSUME NEW p \in BOOLEAN, Close(c, p) PROVE TypeOK'
    <3>1. Dispose(c, Revocable(c, TRUE), p) BY <2>6 DEF Close
    <3>2. Revocable(c, TRUE) \in SUBSET Key BY RevocableType
    <3>3. DisposedOK BY <3>1, <3>2, DisposeType
    <3> QED BY <2>6, <3>3 DEF DisposedOK, Close, TypeOK, Outcome
  <2>7. ASSUME NEW p \in BOOLEAN, Release(c, p) PROVE TypeOK'
    <3>2. Revocable(c, TRUE) \in SUBSET Key BY RevocableType
    <3>3. CASE Live(c)
      <4>1. Dispose(c, Revocable(c, TRUE), p) BY <2>7, <3>3 DEF Release
      <4>2. DisposedOK BY <4>1, <3>2, DisposeType
      <4> QED BY <2>7, <4>2 DEF DisposedOK, Release, TypeOK, Outcome
    <3>4. CASE ~Live(c)
      BY <2>7, <3>4 DEF Release, TypeOK, Outcome
    <3> QED BY <3>3, <3>4
  <2> QED BY <1>3, <2>1, <2>2, <2>3, <2>4, <2>5, <2>6, <2>7 DEF Owner
<1>4. ASSUME NEW P \in SUBSET Context, CloseThread(P) PROVE TypeOK'
  BY <1>4 DEF CloseThread, TypeOK, Outcome, Live
<1> QED BY <1>1, <1>2, <1>3, <1>4 DEF Next

----------------------------------------------------------------------------
(* What a revocation reaches *)

\* NoEscape makes the registry exact: revoking all reaches every native future,
\* and revoking the current generation reaches those stamped with it.
LEMMA RevocableIsHeld ==
    ASSUME NoEscape, NEW c \in Context, Exists(c)
    PROVE  /\ Revocable(c, TRUE) = held[c]
           /\ Revocable(c, FALSE) = {k \in held[c] : stamp[c][k] = generation[c]}
BY DEF NoEscape, Revocable, Live, Exists

\* A step that at most takes operations away and moves no counter, stamp or
\* history keeps the facts about them.
LEMMA ShrinkKeeps ==
    ASSUME IInv,
           UNCHANGED <<generation, next, stamp, touched>>,
           \A d \in Context : /\ held'[d] \subseteq held[d]
                              /\ handle'[d] \subseteq handle[d]
                              /\ active'[d] => active[d]
    PROVE  Fresh' /\ StampsBehind' /\ StampIsTouched'
<1>1. Fresh'
  BY DEF IInv, Fresh
<1>2. StampsBehind'
  BY DEF IInv, StampsBehind
<1>3. StampIsTouched'
  BY DEF IInv, StampIsTouched
<1> QED BY <1>1, <1>2, <1>3

\* A step on one context keeps NoEscape if it does on that context.
OthersKept(c) ==
    \A d \in Context \ {c} : /\ held'[d] = held[d]
                            /\ owners'[d] = owners[d]
                            /\ handle'[d] = handle[d]
                            /\ status'[d] = status[d]

\* An operation changes one context only: it is enough to look at that one.
LEMMA NoEscapeAt ==
    ASSUME NoEscape, NEW c \in Context, OthersKept(c),
           status'[c] = "live" => held'[c] = owners'[c] /\ owners'[c] \subseteq handle'[c],
           status'[c] # "live" => held'[c] = {},
           status'[c] \notin {"live", "gone"} => owners'[c] = {}
    PROVE  NoEscape'
<1> SUFFICES ASSUME NEW d \in Context
             PROVE  /\ held'[d] = IF status'[d] = "live" THEN owners'[d] \cap handle'[d] ELSE {}
                    /\ status'[d] # "gone" => owners'[d] = held'[d]
  BY DEF NoEscape, Live, Exists
<1>1. CASE d = c
  BY <1>1
<1>2. CASE d # c
  BY <1>2 DEF NoEscape, Live, Exists, OthersKept
<1> QED BY <1>1, <1>2

\* NoEscape, context by context, in the form the steps below use.
LEMMA NoEscapeHere ==
    ASSUME NoEscape, NEW c \in Context
    PROVE  /\ Live(c) => held[c] = owners[c] /\ owners[c] \subseteq handle[c]
           /\ ~Live(c) => held[c] = {}
           /\ status[c] \notin {"live", "gone"} => owners[c] = {}
BY DEF NoEscape, Live, Exists

SettledTo(c, K) ==
    /\ \A d \in Context \ {c} : /\ held'[d] = held[d]
                               /\ owners'[d] = owners[d]
                               /\ status'[d] = status[d]
    /\ \/ status'[c] = "retired" /\ held'[c] = {} /\ owners'[c] = {}
       \/ status'[c] = status[c] /\ held'[c] = held[c] \ K /\ owners'[c] = held[c] \ K

\* What Settle leaves: nothing if the context failed, all but K otherwise.
LEMMA SettleEffect ==
    ASSUME IInv, NEW c \in Context, Exists(c),
           NEW K \in SUBSET held[c], NEW p \in BOOLEAN, Settle(c, K, p)
    PROVE  SettledTo(c, K)
<1>1. Revocable(c, TRUE) = held[c] /\ owners[c] = held[c]
  BY RevocableIsHeld DEF IInv, NoEscape, Exists
<1>2. CASE failure[c] \/ p
  <2>1. Dispose(c, K \cup held[c], p) /\ status' = [status EXCEPT ![c] = "retired"]
    BY <1>1, <1>2 DEF Settle
  <2> QED BY <1>1, <2>1 DEF Dispose, IInv, TypeOK, SettledTo, Exists
<1>3. CASE ~(failure[c] \/ p)
  <2>1. Dispose(c, K, FALSE) /\ status' = status
    BY <1>3 DEF Settle
  <2> QED BY <1>1, <2>1 DEF Dispose, IInv, TypeOK, SettledTo, Exists
<1> QED BY <1>2, <1>3

----------------------------------------------------------------------------
(* The inductive invariant *)

\* The end of finish and clear, where a failure retires the context, keeps the invariant.
LEMMA SettleStep ==
    ASSUME IInv, NEW c \in Context, Exists(c),
           NEW K \in SUBSET held[c], NEW p \in BOOLEAN, Settle(c, K, p),
           UNCHANGED <<generation, next, handle, stamp, touched>>,
           \A d \in Context : active'[d] => active[d]
    PROVE  NoEscape' /\ Fresh' /\ StampsBehind' /\ StampIsTouched'
<1>1. SettledTo(c, K)
  BY SettleEffect
<1>2. NoEscape'
  BY <1>1, NoEscapeHere, NoEscapeAt DEF SettledTo, OthersKept, IInv, Live, Exists
<1>3. Fresh' /\ StampsBehind' /\ StampIsTouched'
  BY <1>1, ShrinkKeeps DEF SettledTo
<1> QED BY <1>2, <1>3

\* What a script does (track, poll, drop) keeps the invariant.
LEMMA ScriptKeeps ==
    ASSUME IInv, NEW c \in Context, Script(c), TypeOK'
    PROVE  NoEscape' /\ Fresh' /\ StampsBehind' /\ StampIsTouched'
<1> USE KeyFacts DEF Live, Exists
<1>1. CASE Track(c)
  <2>1. /\ next[c] \in Key /\ next[c] \notin handle[c] /\ next[c] \notin touched[c]
        /\ next[c] \in Nat
    BY <1>1 DEF Track, IInv, TypeOK, Fresh
  <2>2. NoEscape'
    <3>1. OthersKept(c)
      BY <1>1 DEF Track, IInv, TypeOK, OthersKept
    <3>2. /\ Live(c) /\ status'[c] = "live"
          /\ held'[c] = held[c] \cup {next[c]}
          /\ owners'[c] = owners[c] \cup {next[c]}
          /\ handle'[c] = handle[c] \cup {next[c]}
      BY <1>1 DEF Track, IInv, TypeOK
    <3> QED BY <3>1, <3>2, NoEscapeHere, NoEscapeAt DEF IInv
  <2>3. Fresh'
    BY <1>1, <2>1 DEF Track, IInv, TypeOK, Fresh
  <2>4. StampsBehind'
    BY <1>1, <2>1 DEF Track, IInv, TypeOK, StampsBehind
  <2>5. StampIsTouched'
    BY <1>1, <2>1 DEF Track, IInv, TypeOK, StampIsTouched, NoEscape
  <2> QED BY <2>2, <2>3, <2>4, <2>5
<1>2. CASE TrackRefused(c)
  BY <1>2 DEF TrackRefused, contextVars, ownerVars, IInv, NoEscape, Fresh, StampsBehind, StampIsTouched
<1>3. ASSUME NEW p \in BOOLEAN, TrackExhausted(c, p)
      PROVE  NoEscape' /\ Fresh' /\ StampsBehind' /\ StampIsTouched'
  BY <1>3 DEF TrackExhausted, ownerVars, IInv, NoEscape, Fresh, StampsBehind, StampIsTouched
<1>4. ASSUME NEW k \in Key, PollCancelled(c, k)
      PROVE  NoEscape' /\ Fresh' /\ StampsBehind' /\ StampIsTouched'
  <2>1. NoEscape' /\ Fresh'
    BY <1>4 DEF PollCancelled, contextVars, IInv, NoEscape, Fresh
  <2>2. StampsBehind'
    BY <1>4 DEF PollCancelled, contextVars, IInv, TypeOK, StampsBehind
  <2>3. StampIsTouched'
    BY <1>4 DEF PollCancelled, contextVars, IInv, TypeOK, StampIsTouched
  <2> QED BY <2>1, <2>2, <2>3
<1>5. ASSUME NEW k \in Key, PollPending(c, k)
      PROVE  NoEscape' /\ Fresh' /\ StampsBehind' /\ StampIsTouched'
  <2>1. NoEscape'
    BY <1>5 DEF PollPending, contextVars, IInv, NoEscape
  <2>2. Fresh'
    BY <1>5 DEF PollPending, contextVars, IInv, TypeOK, Fresh
  <2>3. StampsBehind'
    BY <1>5 DEF PollPending, contextVars, IInv, TypeOK, StampsBehind
  <2>4. StampIsTouched'
    BY <1>5 DEF PollPending, contextVars, IInv, TypeOK, StampIsTouched
  <2> QED BY <2>1, <2>2, <2>3, <2>4
<1>6. ASSUME NEW k \in Key, NEW p \in BOOLEAN, PollRetired(c, k, p)
      PROVE  NoEscape' /\ Fresh' /\ StampsBehind' /\ StampIsTouched'
  <2>1. NoEscape'
    BY <1>6, NoEscapeHere, NoEscapeAt DEF PollRetired, Dispose, IInv, TypeOK, OthersKept
  <2>2. \A d \in Context : held'[d] \subseteq held[d]
    BY <1>6 DEF PollRetired, Dispose, IInv, TypeOK
  <2> QED BY <1>6, <2>1, <2>2, ShrinkKeeps DEF PollRetired
<1>7. ASSUME NEW k \in Key, NEW p \in BOOLEAN, PollReady(c, k, p)
      PROVE  NoEscape' /\ Fresh' /\ StampsBehind' /\ StampIsTouched'
  <2>1. NoEscape'
    <3>1. OthersKept(c)
      BY <1>7 DEF PollReady, Dispose, IInv, TypeOK, OthersKept
    <3>2. /\ Live(c) /\ status'[c] = "live" /\ handle'[c] = handle[c]
          /\ held'[c] = held[c] \ {k}
          /\ owners'[c] = owners[c] \ {k}
      BY <1>7 DEF PollReady, Dispose, IInv, TypeOK
    <3> QED BY <3>1, <3>2, NoEscapeHere, NoEscapeAt DEF IInv
  <2>2. Fresh'
    BY <1>7 DEF PollReady, IInv, TypeOK, Fresh
  <2>3. StampsBehind'
    BY <1>7 DEF PollReady, IInv, TypeOK, StampsBehind
  <2>4. StampIsTouched'
    BY <1>7 DEF PollReady, Dispose, IInv, TypeOK, StampIsTouched
  <2> QED BY <2>1, <2>2, <2>3, <2>4
<1>8. ASSUME NEW k \in Key, NEW p \in BOOLEAN, DropTracked(c, k, p)
      PROVE  NoEscape' /\ Fresh' /\ StampsBehind' /\ StampIsTouched'
  <2>1. NoEscape'
    <3>1. OthersKept(c)
      BY <1>8 DEF DropTracked, Dispose, IInv, TypeOK, OthersKept
    <3>2. /\ status'[c] = status[c] /\ handle'[c] = handle[c] \ {k}
          /\ held'[c] = held[c] \ {k}
          /\ owners'[c] = IF Exists(c) THEN owners[c] \ {k} ELSE owners[c]
      BY <1>8 DEF DropTracked, Dispose, IInv, TypeOK
    <3> QED BY <3>1, <3>2, NoEscapeHere, NoEscapeAt DEF IInv
  <2>2. \A d \in Context : held'[d] \subseteq held[d] /\ handle'[d] \subseteq handle[d]
    BY <1>8 DEF DropTracked, Dispose, IInv, TypeOK
  <2> QED BY <1>8, <2>1, <2>2, ShrinkKeeps DEF DropTracked
<1> QED BY <1>1, <1>2, <1>3, <1>4, <1>5, <1>6, <1>7, <1>8 DEF Script

\* What the owner of a context does (new to close) keeps the invariant.
LEMMA OwnerKeeps ==
    ASSUME IInv, NEW c \in Context, Owner(c), TypeOK'
    PROVE  NoEscape' /\ Fresh' /\ StampsBehind' /\ StampIsTouched'
<1> USE KeyFacts DEF Live, Exists
<1>1. CASE New(c)
  <2>1. NoEscape'
    <3>1. OthersKept(c)
      BY <1>1 DEF New, ownerVars, IInv, TypeOK, NoEscape, OthersKept
    <3>2. /\ status[c] = "unmade" /\ status'[c] = "live"
          /\ held'[c] = {} /\ owners'[c] = {}
      BY <1>1, NoEscapeHere DEF New, ownerVars, IInv, TypeOK
    <3> QED BY <3>1, <3>2, NoEscapeHere, NoEscapeAt DEF IInv
  <2> QED BY <1>1, <2>1, ShrinkKeeps DEF New, ownerVars
<1>2. CASE Begin(c)
  <2>1. NoEscape' /\ Fresh'
    BY <1>2 DEF Begin, ownerVars, IInv, TypeOK, NoEscape, Fresh
  <2>2. StampsBehind'
    BY <1>2 DEF Begin, ownerVars, IInv, TypeOK, StampsBehind
  <2>3. StampIsTouched'
    BY <1>2 DEF Begin, ownerVars, IInv, TypeOK, StampsBehind, StampIsTouched
  <2> QED BY <2>1, <2>2, <2>3
<1>3. CASE BeginRefused(c)
  BY <1>3 DEF BeginRefused, contextVars, ownerVars, IInv, NoEscape, Fresh, StampsBehind, StampIsTouched
<1>4. ASSUME NEW f \in BOOLEAN, NEW p \in BOOLEAN, Finish(c, f, p)
      PROVE  NoEscape' /\ Fresh' /\ StampsBehind' /\ StampIsTouched'
  <2> DEFINE K == IF active[c] /\ f THEN Revocable(c, FALSE) ELSE {}
  <2>1. Settle(c, K, p) BY <1>4 DEF Finish
  <2>2. K \in SUBSET held[c] BY <1>4, RevocableIsHeld DEF Finish, IInv
  <2>3. \A d \in Context : active'[d] => active[d]
    BY <1>4 DEF Finish, IInv, TypeOK
  <2> HIDE DEF K
  <2> QED BY <1>4, <2>1, <2>2, <2>3, SettleStep DEF Finish
<1>5. ASSUME NEW p \in BOOLEAN, Clear(c, p)
      PROVE  NoEscape' /\ Fresh' /\ StampsBehind' /\ StampIsTouched'
  <2>1. Settle(c, held[c], p) BY <1>5, RevocableIsHeld DEF Clear, IInv
  <2> QED BY <1>5, <2>1, SettleStep DEF Clear
<1>6. ASSUME NEW p \in BOOLEAN, Close(c, p)
      PROVE  NoEscape' /\ Fresh' /\ StampsBehind' /\ StampIsTouched'
  <2>1. Dispose(c, held[c], p) BY <1>6, RevocableIsHeld DEF Close, IInv
  <2>2. NoEscape'
    <3>1. OthersKept(c)
      BY <1>6, <2>1 DEF Close, Dispose, IInv, TypeOK, NoEscape, OthersKept
    <3>2. /\ status'[c] = "retired" /\ held'[c] = {} /\ owners'[c] = {}
      <4>1. held'[c] = held[c] \ held[c] /\ owners'[c] = owners[c] \ held[c]
        BY <1>6, <2>1 DEF Close, Dispose, IInv, TypeOK
      <4> QED BY <1>6, <4>1, NoEscapeHere DEF Close, IInv, TypeOK
    <3> QED BY <3>1, <3>2, NoEscapeHere, NoEscapeAt DEF IInv
  <2>3. \A d \in Context : held'[d] \subseteq held[d]
    BY <2>1 DEF Dispose, IInv, TypeOK
  <2> QED BY <1>6, <2>2, <2>3, ShrinkKeeps DEF Close
<1>7. ASSUME NEW p \in BOOLEAN, Release(c, p)
      PROVE  NoEscape' /\ Fresh' /\ StampsBehind' /\ StampIsTouched'
  <2>1. held' = [held EXCEPT ![c] = {}]
    <3>1. CASE Live(c)
      <4>1. Revocable(c, TRUE) = held[c] BY <3>1, RevocableIsHeld DEF IInv
      <4>2. held' = [held EXCEPT ![c] = held[c] \ held[c]]
        BY <1>7, <3>1, <4>1 DEF Release, Dispose
      <4> QED BY <4>2
    <3>2. CASE ~Live(c)
      BY <1>7, <3>2, NoEscapeHere DEF Release, IInv, TypeOK
    <3> QED BY <3>1, <3>2
  <2>2. NoEscape'
    <3>1. OthersKept(c)
      <4>1. status' = [status EXCEPT ![c] = "gone"] /\ handle' = handle
        BY <1>7 DEF Release
      <4>2. \/ owners' = owners
            \/ owners' = [owners EXCEPT ![c] = owners[c] \ Revocable(c, TRUE)]
        BY <1>7 DEF Release, Dispose
      <4>3. owners \in [Context -> SUBSET Key]
        BY DEF IInv, TypeOK
      <4>4. \A d \in Context \ {c} : owners'[d] = owners[d]
        BY <4>2, <4>3
      <4> QED BY <2>1, <4>1, <4>4 DEF IInv, TypeOK, OthersKept
    <3>2. status'[c] = "gone" /\ held'[c] = {}
      BY <1>7, <2>1 DEF Release, IInv, TypeOK
    <3> QED BY <3>1, <3>2, NoEscapeAt DEF IInv
  <2>3. \A d \in Context : held'[d] \subseteq held[d]
    BY <2>1 DEF IInv, TypeOK
  <2> QED BY <1>7, <2>2, <2>3, ShrinkKeeps DEF Release
<1> QED BY <1>1, <1>2, <1>3, <1>4, <1>5, <1>6, <1>7 DEF Owner

\* Every step, close_thread included, keeps the invariant.
LEMMA InvariantStep == IInv /\ [Next]_vars => IInv'
<1> SUFFICES ASSUME IInv, [Next]_vars PROVE IInv'
  OBVIOUS
<1>1. TypeOK'
  BY TypeStep DEF IInv
<1>2. CASE UNCHANGED vars
  BY <1>2 DEF vars, contextVars, ownerVars, IInv, TypeOK, NoEscape, Live, Exists, Fresh,
     StampsBehind, StampIsTouched
<1>3. ASSUME NEW P \in SUBSET Context, CloseThread(P) PROVE IInv'
  <2>1. \A c \in Context : Live(c) => Revocable(c, TRUE) = held[c]
    BY RevocableIsHeld DEF IInv, Live, Exists
  <2>2. \A d \in Context : held'[d] \subseteq held[d]
    BY <1>3 DEF CloseThread
  <2>3. NoEscape'
    BY <1>3, <2>1 DEF CloseThread, IInv, TypeOK, NoEscape, Live, Exists
  <2> QED BY <1>1, <1>3, <2>2, <2>3, ShrinkKeeps DEF CloseThread, IInv
<1> QED BY <1>1, <1>2, <1>3, ScriptKeeps, OwnerKeeps DEF Next, IInv

\* The first state.
LEMMA LifecycleInit == Init => IInv
  BY MaxAssumption, KeyFacts DEF Init, IInv, TypeOK, NoEscape, Live, Exists, Fresh, StampsBehind,
     StampIsTouched, Outcome

\* The invariant holds in every reachable state.
LEMMA InvariantHolds == Spec => []IInv
  BY LifecycleInit, InvariantStep, PTL DEF Spec

----------------------------------------------------------------------------
(* The theorems *)

\* Every variable of lifecycle.rs keeps its type; in particular neither the
\* operation key nor the generation passes u64::MAX.
THEOREM TypeCorrect == Spec => []TypeOK
<1>1. IInv => TypeOK BY DEF IInv
<1> QED BY <1>1, InvariantHolds, PTL

\* Whatever the script keeps, every native future that exists is one the
\* registry reaches, and a retired context has none.
THEOREM NothingEscapes == Spec => []NoEscape
<1>1. IInv => NoEscape BY DEF IInv
<1> QED BY <1>1, InvariantHolds, PTL

\* The two together, for any number of contexts, operations and executions and whatever
\* destructors panic: State, revoke and dispose are sound.
THEOREM LifecycleHolds == Spec => []LifecycleSound
<1>1. IInv => LifecycleSound BY DEF IInv, LifecycleSound
<1> QED BY <1>1, InvariantHolds, PTL

\* A failed execution loses exactly the operations it polled.
THEOREM FinishIsExact == Spec => FinishRevokesExactly
<1> DEFINE A == \A c \in Context, failed \in BOOLEAN, panics \in BOOLEAN :
          Finish(c, failed, panics) /\ status'[c] = "live"
             => held'[c] = held[c] \ (IF active[c] /\ failed THEN touched[c] ELSE {})
<1>1. IInv => A
  <2> SUFFICES ASSUME IInv, NEW c \in Context, NEW f \in BOOLEAN, NEW p \in BOOLEAN,
                      Finish(c, f, p), status'[c] = "live"
               PROVE  held'[c] = held[c] \ (IF active[c] /\ f THEN touched[c] ELSE {})
    OBVIOUS
  <2> DEFINE K == IF active[c] /\ f THEN Revocable(c, FALSE) ELSE {}
  <2>1. Settle(c, K, p) /\ Exists(c) BY DEF Finish
  <2>2. K \in SUBSET held[c] BY <2>1, RevocableIsHeld DEF IInv
  <2>3. held'[c] = held[c] \ K
    <3> HIDE DEF K
    <3> QED BY <2>1, <2>2, SettleEffect DEF SettledTo
  <2>4. active[c] /\ f => held[c] \ K = held[c] \ touched[c]
    BY <2>1, RevocableIsHeld DEF IInv, StampIsTouched
  <2> QED BY <2>3, <2>4
<1> QED BY <1>1, InvariantHolds, PTL DEF FinishRevokesExactly

\* An operation that lost its native future never gets one back.
THEOREM RevocationIsFinal == Spec => RevokedStaysRevoked
<1> DEFINE A == \A c \in Context : held'[c] \cap (handle[c] \ held[c]) = {}
<1>1. IInv /\ [Next]_vars => A
  <2> SUFFICES ASSUME IInv, [Next]_vars, NEW d \in Context
               PROVE  held'[d] \subseteq held[d] \cup {next[d]} /\ next[d] \notin handle[d]
    OBVIOUS
  <2>1. next[d] \notin handle[d]
    BY KeyFacts DEF IInv, TypeOK, Fresh
  <2>2. held'[d] \subseteq held[d] \cup {next[d]}
    <3>1. CASE UNCHANGED vars BY <3>1 DEF vars, ownerVars
    <3>2. ASSUME NEW c \in Context, NEW K, NEW p, Dispose(c, K, p)
          PROVE  held'[d] \subseteq held[d]
      BY <3>2 DEF Dispose, IInv, TypeOK
    <3>3. ASSUME NEW c \in Context, NEW K, NEW p, Settle(c, K, p)
          PROVE  held'[d] \subseteq held[d]
      BY <3>2, <3>3 DEF Settle
    <3>5. ASSUME NEW c \in Context, Script(c) PROVE held'[d] \subseteq held[d] \cup {next[d]}
      <4>1. CASE Track(c) BY <4>1 DEF Track, IInv, TypeOK
      <4>2. CASE ~Track(c)
        BY <3>2, <3>5, <4>2 DEF Script, TrackRefused, TrackExhausted, PollCancelled,
                  PollPending, PollRetired, PollReady, DropTracked, ownerVars
      <4> QED BY <4>1, <4>2
    <3>6. ASSUME NEW c \in Context, Owner(c) PROVE held'[d] \subseteq held[d] \cup {next[d]}
      BY <3>2, <3>3, <3>6 DEF Owner, New, Begin, BeginRefused, Finish, Clear, Close, Release,
                  ownerVars
    <3>4. ASSUME NEW P \in SUBSET Context,
            CloseThread(P) PROVE held'[d] \subseteq held[d] \cup {next[d]}
      BY <3>4 DEF CloseThread
    <3> QED BY <3>1, <3>4, <3>5, <3>6 DEF Next
  <2> QED BY <2>1, <2>2
<1> QED BY <1>1, InvariantHolds, PTL DEF RevokedStaysRevoked, Spec

----------------------------------------------------------------------------
(* Slot: an invocation slot and the requests it serves. *)

SlotTypes ==
    /\ place \in [Context -> {"unmade", "pool", "call", "retired"}]
    /\ stage \in [Context -> {"Ready", "Begun", "Done"}]
    /\ cause \in [Context -> {"none", "vm", "cancelled", "cleanup"}]
    /\ cleanup \in [Context -> BOOLEAN]
    /\ base \in [Context -> 1 .. Max]

\* A slot that is in somebody's hands has its State, and only a call executes.
Placed(c) ==
    /\ place[c] = "unmade" =>
        status[c] = "unmade" /\ ~active[c] /\ ~failure[c] /\ generation[c] = 0
    /\ place[c] \in {"pool", "call"} => Exists(c)
    /\ stage[c] = "Begun" => place[c] = "call"

\* PooledIsClean, NoCarryOver (with what keeps it: keys only grow) and FinishedOnce of one slot.
Clean(c) ==
    place[c] = "pool" =>
        /\ held[c] = {} /\ owners[c] = {}
        /\ Live(c) /\ ~active[c] /\ ~failure[c] /\ generation[c] < Max
Own(c) ==
    place[c] = "call" => base[c] <= next[c] /\ \A k \in held[c] : k >= base[c]
Once(c) ==
    place[c] # "unmade" => (active[c] <=> place[c] = "call" /\ stage[c] = "Begun")

SlotAt(c) == Placed(c) /\ Clean(c) /\ Own(c) /\ Once(c)

SlotInv == IInv /\ SlotTypes /\ \A c \in Context : SlotAt(c)

----------------------------------------------------------------------------
(* A step is one of a single slot. *)

\* What SlotAt reads of a slot is unchanged.
SameSlot(d) ==
    /\ status'[d] = status[d] /\ generation'[d] = generation[d] /\ active'[d] = active[d]
    /\ next'[d] = next[d] /\ failure'[d] = failure[d] /\ owners'[d] = owners[d]
    /\ held'[d] = held[d] /\ place'[d] = place[d] /\ stage'[d] = stage[d] /\ base'[d] = base[d]

\* It is enough to look at the slot of the step.
LEMMA OneSlot ==
    ASSUME SlotInv, NEW c \in Context, IInv', SlotTypes',
           \A d \in Context \ {c} : SameSlot(d), SlotAt(c)'
    PROVE  SlotInv'
<1>1. ASSUME NEW d \in Context \ {c} PROVE SlotAt(d)'
  BY <1>1 DEF SlotInv, SlotAt, SameSlot, Placed, Clean, Own, Once, Live, Exists
<1> QED
  BY <1>1 DEF SlotInv

\* Retiring a slot disposes of all it holds, and so does nothing worse than Lifecycle::close.
LEMMA RetireKeeps ==
    ASSUME SlotInv, NEW c \in Context, Exists(c), NEW K \in SUBSET Key, NEW p \in BOOLEAN,
           Retire(c, K, p), outcome' \in Outcome,
           UNCHANGED <<generation, active, next, stamp, touched>>,
           handle' = [handle EXCEPT ![c] = @ \ K] \/ handle' = handle
    PROVE  /\ IInv'
           /\ status'[c] = "retired" /\ held'[c] = {} /\ owners'[c] = {}
           /\ \A d \in Context \ {c} :
                 /\ status'[d] = status[d] /\ held'[d] = held[d] /\ owners'[d] = owners[d]
                 /\ failure'[d] = failure[d]
<1> DEFINE L == K \cup Revocable(c, TRUE)
<1>1. Revocable(c, TRUE) = held[c] /\ owners[c] = held[c] /\ held[c] \in SUBSET Key
  BY RevocableIsHeld DEF SlotInv, IInv, NoEscape, Exists, TypeOK
<1>2. L \in SUBSET Key /\ held[c] \subseteq L
  BY <1>1
<1>3. Dispose(c, L, p) /\ status' = [status EXCEPT ![c] = "retired"]
  BY DEF Retire
<1> HIDE DEF L
<1>4. DisposedOK
  BY <1>2, <1>3, DisposeType DEF SlotInv, IInv
<1>5. status'[c] = "retired" /\ held'[c] = {} /\ owners'[c] = {}
  <2>1. held'[c] = held[c] \ L /\ owners'[c] = owners[c] \ L /\ status'[c] = "retired"
    BY <1>3 DEF Dispose, SlotInv, IInv, TypeOK
  <2> QED
    BY <1>1, <1>2, <2>1
<1>6. \A d \in Context \ {c} :
         /\ status'[d] = status[d] /\ held'[d] = held[d] /\ owners'[d] = owners[d]
         /\ failure'[d] = failure[d]
  BY <1>3 DEF Dispose, SlotInv, IInv, TypeOK
<1>7. \A d \in Context : held'[d] \subseteq held[d] /\ handle'[d] \subseteq handle[d]
  BY <1>5, <1>6 DEF SlotInv, IInv, TypeOK
<1>8. TypeOK'
  <2>1. status' \in [Context -> {"unmade", "live", "retired", "gone"}]
    BY <1>3 DEF SlotInv, IInv, TypeOK
  <2>2. handle' \in [Context -> SUBSET Key]
    <3>1. handle \in [Context -> SUBSET Key] /\ handle[c] \ K \in SUBSET Key
      BY DEF SlotInv, IInv, TypeOK
    <3> QED
      BY <3>1
  <2> QED
    BY <1>4, <2>1, <2>2 DEF SlotInv, IInv, TypeOK, DisposedOK
<1>9. NoEscape'
  <2>1. OthersKept(c)
    BY <1>6 DEF OthersKept, SlotInv, IInv, TypeOK
  <2> QED
    BY <1>5, <2>1, NoEscapeAt DEF SlotInv, IInv
<1>10. Fresh' /\ StampsBehind' /\ StampIsTouched'
  BY <1>7, ShrinkKeeps DEF SlotInv
<1> QED
  BY <1>5, <1>6, <1>8, <1>9, <1>10 DEF IInv

----------------------------------------------------------------------------
(* The steps. *)

\* Program::slot
LEMMA MakeHolds == ASSUME SlotInv, NEW c \in Context, Make(c) PROVE SlotInv'
<1>1. IInv'
  BY InvariantStep DEF SlotInv, Make, Next, Owner
<1>2. SlotTypes'
  BY DEF Make, SlotInv, SlotTypes
<1>3. \A d \in Context \ {c} : SameSlot(d)
  BY DEF Make, New, ownerVars, SlotInv, IInv, TypeOK, SlotTypes, SameSlot
<1>4. /\ status[c] = "unmade" /\ place[c] = "unmade" /\ status'[c] = "live" /\ place'[c] = "pool"
      /\ UNCHANGED <<generation, active, next, failure, owners, held, stage, base>>
  BY DEF Make, New, ownerVars, SlotInv, IInv, TypeOK, SlotTypes
<1>5. held[c] = {} /\ owners[c] = {}
  BY <1>4, NoEscapeHere DEF SlotInv, IInv, Live
<1>6. SlotAt(c)'
  BY <1>4, <1>5, MaxAssumption DEF SlotInv, SlotAt, Placed, Clean, Own, Once, Live, Exists
<1> QED
  BY <1>1, <1>2, <1>3, <1>6, OneSlot

\* Slot::prepare
LEMMA PrepareHolds == ASSUME SlotInv, NEW c \in Context, Prepare(c) PROVE SlotInv'
<1>1. IInv'
  BY InvariantStep DEF SlotInv, Prepare
<1>2. SlotTypes'
  BY DEF Prepare, SlotInv, SlotTypes, IInv, TypeOK, vars, contextVars
<1>3. \A d \in Context \ {c} : SameSlot(d)
  BY DEF Prepare, SlotInv, SlotTypes, SameSlot, vars, contextVars, ownerVars
<1>4. /\ place[c] = "pool" /\ place'[c] = "call" /\ stage'[c] = "Ready" /\ base'[c] = next[c]
      /\ UNCHANGED <<status, generation, active, next, failure, owners, held>>
  BY DEF Prepare, SlotInv, SlotTypes, vars, contextVars, ownerVars
<1>5. next[c] \in Nat
  BY DEF SlotInv, IInv, TypeOK
<1>6. SlotAt(c)'
  BY <1>4, <1>5 DEF SlotInv, SlotAt, Placed, Clean, Own, Once, Live, Exists
<1> QED
  BY <1>1, <1>2, <1>3, <1>6, OneSlot

\* Slot::prepare of a budget out of its limits
LEMMA PrepareRefusedHolds ==
    ASSUME SlotInv, NEW c \in Context, NEW K \in SUBSET Key, NEW p \in BOOLEAN,
           PrepareRefused(c, K, p)
    PROVE  SlotInv'
<1>1. /\ place[c] = "pool" /\ K \subseteq handle[c] /\ outcome' = "failed"
      /\ handle' = [handle EXCEPT ![c] = @ \ K]
      /\ UNCHANGED <<generation, active, next, stamp, touched, stage, cause, cleanup, base>>
  BY DEF PrepareRefused
<1>2. held[c] = {} /\ owners[c] = {} /\ Live(c) /\ ~active[c] /\ ~failure[c] /\ generation[c] < Max
  BY <1>1 DEF SlotInv, SlotAt, Clean
<1>3. outcome' \in Outcome /\ Exists(c)
  BY <1>1, <1>2 DEF Outcome, Live, Exists
<1>4. CASE Reusable(c, p)
  <2>1. HandBack(c, K)
    BY <1>4 DEF PrepareRefused
  <2>2. Dispose(c, K, FALSE) /\ place' = [place EXCEPT ![c] = "pool"] /\ status' = status
    BY <2>1 DEF HandBack
  <2>3. DisposedOK
    BY <2>2, DisposeType DEF SlotInv, IInv
  <2>4. held' = held /\ owners' = owners /\ failure' = failure
    <3>1. held' = [held EXCEPT ![c] = @ \ K] /\ owners' = [owners EXCEPT ![c] = @ \ K]
          /\ failure' = [failure EXCEPT ![c] = @ \/ FALSE]
      BY <1>3, <2>2 DEF Dispose
    <3>2. {} \ K = {}
      OBVIOUS
    <3>3. (failure[c] \/ FALSE) = failure[c]
      BY DEF SlotInv, IInv, TypeOK
    <3> QED
      BY <1>2, <3>1, <3>2, <3>3 DEF SlotInv, IInv, TypeOK
  <2>5. \A d \in Context : handle'[d] \subseteq handle[d]
    BY <1>1 DEF SlotInv, IInv, TypeOK
  <2>6. TypeOK'
    <3>1. handle' \in [Context -> SUBSET Key]
      BY <1>1 DEF SlotInv, IInv, TypeOK
    <3> QED
      BY <1>1, <1>3, <2>2, <2>4, <3>1 DEF SlotInv, IInv, TypeOK
  <2>7. Fresh' /\ StampsBehind' /\ StampIsTouched'
    BY <1>1, <2>4, <2>5, ShrinkKeeps DEF SlotInv
  <2>8. NoEscape'
    <3>1. OthersKept(c)
      BY <1>1, <2>2, <2>4 DEF OthersKept, SlotInv, IInv, TypeOK
    <3> QED
      BY <1>2, <2>2, <2>4, <3>1, NoEscapeAt DEF SlotInv, IInv, Live
  <2>9. IInv'
    BY <2>6, <2>7, <2>8 DEF IInv
  <2>10. place' = place
    BY <1>1, <2>2 DEF SlotInv, SlotTypes
  <2>11. SlotTypes'
    BY <1>1, <2>10 DEF SlotInv, SlotTypes
  <2>12. \A d \in Context : SameSlot(d)
    BY <1>1, <2>2, <2>4, <2>10 DEF SameSlot
  <2>13. SlotAt(c)'
    BY <2>12 DEF SlotInv, SlotAt, SameSlot, Placed, Clean, Own, Once, Live, Exists
  <2> QED
    BY <2>9, <2>11, <2>12, <2>13, OneSlot
<1>5. CASE ~Reusable(c, p)
  <2>1. Retire(c, K, p)
    BY <1>5 DEF PrepareRefused
  <2>2. place' = [place EXCEPT ![c] = "retired"]
    BY <2>1 DEF Retire
  <2>3. /\ IInv' /\ status'[c] = "retired" /\ held'[c] = {} /\ owners'[c] = {}
        /\ \A d \in Context \ {c} :
              /\ status'[d] = status[d] /\ held'[d] = held[d] /\ owners'[d] = owners[d]
              /\ failure'[d] = failure[d]
    BY <1>1, <1>3, <2>1, RetireKeeps
  <2>4. SlotTypes' /\ place'[c] = "retired"
    BY <1>1, <2>2 DEF SlotInv, SlotTypes
  <2>5. \A d \in Context \ {c} : SameSlot(d)
    BY <1>1, <2>2, <2>3 DEF SameSlot, SlotInv, SlotTypes
  <2>6. SlotAt(c)'
    BY <1>1, <1>2, <2>4 DEF SlotInv, SlotAt, Placed, Clean, Own, Once
  <2> QED
    BY <2>3, <2>4, <2>5, <2>6, OneSlot
<1> QED
  BY <1>4, <1>5

\* SlotInvocation::run, its first poll
LEMMA RunHolds == ASSUME SlotInv, NEW c \in Context, Run(c) PROVE SlotInv'
<1>1. Begin(c) \/ BeginRefused(c)
  BY DEF Run
<1>2. IInv'
  BY <1>1, InvariantStep DEF SlotInv, Next, Owner
<1>3. SlotTypes'
  BY DEF Run, SlotInv, SlotTypes
<1>4. \A d \in Context \ {c} : SameSlot(d)
  <2>1. CASE Begin(c)
    <3>1. UNCHANGED <<status, next, failure, owners, held, place, base>>
      BY <2>1 DEF Run, Begin, ownerVars
    <3>2. \A d \in Context \ {c} : generation'[d] = generation[d] /\ active'[d] = active[d]
      BY <2>1 DEF Begin, SlotInv, IInv, TypeOK
    <3>3. \A d \in Context \ {c} : stage'[d] = stage[d]
      BY DEF Run, SlotInv, SlotTypes
    <3> QED
      BY <3>1, <3>2, <3>3 DEF SameSlot
  <2>2. CASE BeginRefused(c)
    BY <2>2 DEF Run, BeginRefused, SlotInv, SlotTypes, SameSlot, contextVars, ownerVars
  <2> QED
    BY <1>1, <2>1, <2>2
<1>5. SlotAt(c)'
  <2>1. place[c] = "call" /\ stage[c] = "Ready" /\ UNCHANGED <<place, base>>
    BY DEF Run
  <2>2. UNCHANGED <<status, next, failure, owners, held>>
    BY <1>1 DEF Begin, BeginRefused, contextVars, ownerVars
  <2>3. CASE Reusable(c, FALSE)
    <3>1. active'[c] /\ stage'[c] = "Begun"
      BY <2>3 DEF Run, Begin, SlotInv, SlotTypes, IInv, TypeOK
    <3> QED
      BY <2>1, <2>2, <3>1 DEF SlotInv, SlotAt, Placed, Clean, Own, Once, Exists
  <2>4. CASE ~Reusable(c, FALSE)
    <3>1. active' = active /\ stage'[c] = "Done"
      BY <2>4 DEF Run, BeginRefused, contextVars, SlotInv, SlotTypes
    <3> QED
      BY <2>1, <2>2, <3>1 DEF SlotInv, SlotAt, Placed, Clean, Own, Once, Exists
  <2> QED
    BY <2>3, <2>4
<1> QED
  BY <1>2, <1>3, <1>4, <1>5, OneSlot

\* SlotFinish::finish and drop
LEMMA RunEndsHolds ==
    ASSUME SlotInv, NEW c \in Context, NEW why \in {"none", "vm", "cancelled"}, NEW p \in BOOLEAN,
           RunEnds(c, why, p)
    PROVE  SlotInv'
<1> DEFINE f == why # "none"
           K == IF active[c] /\ f THEN Revocable(c, FALSE) ELSE {}
<1>1. Finish(c, f, p) /\ f \in BOOLEAN
  BY DEF RunEnds
<1>2. IInv'
  BY <1>1, InvariantStep DEF SlotInv, Next, Owner
<1>3. SlotTypes'
  <2>1. /\ stage' = [stage EXCEPT ![c] = "Done"] /\ UNCHANGED <<place, base>>
        /\ cause' = [cause EXCEPT ![c] = IF outcome' = "failed" THEN "cleanup" ELSE why]
        /\ cleanup' = [cleanup EXCEPT ![c] = outcome' = "failed"]
    BY DEF RunEnds
  <2>2. cause' \in [Context -> {"none", "vm", "cancelled", "cleanup"}]
    BY <2>1 DEF SlotInv, SlotTypes
  <2>3. cleanup' \in [Context -> BOOLEAN]
    BY <2>1 DEF SlotInv, SlotTypes
  <2> QED
    BY <2>1, <2>2, <2>3 DEF SlotInv, SlotTypes
<1>4. Settle(c, K, p) /\ Exists(c) /\ active' = [active EXCEPT ![c] = FALSE]
      /\ UNCHANGED <<generation, next>>
  BY <1>1 DEF Finish
<1>5. K \in SUBSET held[c]
  BY <1>4, RevocableIsHeld DEF SlotInv, IInv
<1> HIDE DEF K
<1>6. SettledTo(c, K)
  BY <1>4, <1>5, SettleEffect DEF SlotInv
<1>7. \A d \in Context \ {c} : failure'[d] = failure[d]
  BY <1>4 DEF Settle, Dispose, SlotInv, IInv, TypeOK
<1>8. \A d \in Context \ {c} : SameSlot(d)
  BY <1>4, <1>6, <1>7 DEF RunEnds, SettledTo, SlotInv, SlotTypes, IInv, TypeOK, SameSlot
<1>9. SlotAt(c)'
  <2>1. place[c] = "call" /\ stage'[c] = "Done" /\ UNCHANGED <<place, base>>
    BY DEF RunEnds, SlotInv, SlotTypes
  <2>2. ~active'[c] /\ held'[c] \subseteq held[c] /\ status'[c] \in {status[c], "retired"}
    BY <1>4, <1>6 DEF SettledTo, SlotInv, IInv, TypeOK
  <2> QED
    BY <1>4, <2>1, <2>2 DEF SlotInv, SlotAt, Placed, Clean, Own, Once, Exists
<1> QED
  BY <1>2, <1>3, <1>8, <1>9, OneSlot

\* SlotInvocation::close
LEMMA CloseCallHolds ==
    ASSUME SlotInv, NEW c \in Context, NEW p \in BOOLEAN, CloseCall(c, p)
    PROVE  SlotInv'
<1>1. /\ place[c] = "call" /\ stage[c] # "Begun"
      /\ outcome' = IF cleanup[c] \/ ~Reusable(c, p) THEN "failed" ELSE "ok"
      /\ UNCHANGED <<generation, active, next, handle, stamp, touched, stage, cause, cleanup, base>>
  BY DEF CloseCall
<1>2. Exists(c) /\ outcome' \in Outcome /\ ~active[c]
  BY <1>1 DEF SlotInv, SlotAt, Placed, Once, Outcome
<1>3. CASE ~cleanup[c] /\ Reusable(c, p)
  <2>1. HandBack(c, Revocable(c, TRUE)) /\ outcome' = "ok"
    BY <1>1, <1>3 DEF CloseCall
  <2>2. /\ Dispose(c, Revocable(c, TRUE), FALSE) /\ status' = status
        /\ place' = [place EXCEPT ![c] = "pool"]
    BY <2>1 DEF HandBack
  <2>3. Live(c) /\ generation[c] < Max /\ ~failure[c]
    BY <1>3 DEF Reusable
  <2>4. Clear(c, FALSE)
    BY <1>1, <1>2, <2>1, <2>2, <2>3 DEF Clear, Settle
  <2>5. IInv'
    BY <2>4, InvariantStep DEF SlotInv, Next, Owner
  <2>6. Revocable(c, TRUE) = held[c] /\ owners[c] = held[c]
    BY <1>2, RevocableIsHeld DEF SlotInv, IInv, NoEscape, Exists
  <2>7. /\ held' = [held EXCEPT ![c] = @ \ held[c]] /\ owners' = [owners EXCEPT ![c] = @ \ held[c]]
        /\ failure' = [failure EXCEPT ![c] = @ \/ FALSE]
    BY <1>2, <2>2, <2>6 DEF Dispose
  <2>8. held'[c] = {} /\ owners'[c] = {} /\ ~failure'[c]
    BY <2>3, <2>6, <2>7 DEF SlotInv, IInv, TypeOK
  <2>9. SlotTypes' /\ place'[c] = "pool"
    BY <1>1, <2>2 DEF SlotInv, SlotTypes
  <2>10. \A d \in Context \ {c} : SameSlot(d)
    BY <1>1, <2>2, <2>7 DEF SlotInv, SlotTypes, IInv, TypeOK, SameSlot
  <2>11. SlotAt(c)'
    BY <1>1, <1>2, <2>2, <2>3, <2>8, <2>9 DEF SlotInv, SlotAt, Placed, Clean, Own, Once, Live, Exists
  <2> QED
    BY <2>5, <2>9, <2>10, <2>11, OneSlot
<1>4. CASE ~(~cleanup[c] /\ Reusable(c, p))
  <2>1. Retire(c, {}, p)
    BY <1>4 DEF CloseCall
  <2>2. place' = [place EXCEPT ![c] = "retired"]
    BY <2>1 DEF Retire
  <2>3. /\ IInv' /\ status'[c] = "retired" /\ held'[c] = {} /\ owners'[c] = {}
        /\ \A d \in Context \ {c} :
              /\ status'[d] = status[d] /\ held'[d] = held[d] /\ owners'[d] = owners[d]
              /\ failure'[d] = failure[d]
    BY <1>1, <1>2, <2>1, RetireKeeps
  <2>4. SlotTypes' /\ place'[c] = "retired"
    BY <1>1, <2>2 DEF SlotInv, SlotTypes
  <2>5. \A d \in Context \ {c} : SameSlot(d)
    BY <1>1, <2>2, <2>3 DEF SameSlot, SlotInv, SlotTypes
  <2>6. SlotAt(c)'
    BY <1>1, <1>2, <2>4 DEF SlotInv, SlotAt, Placed, Clean, Own, Once
  <2> QED
    BY <2>3, <2>4, <2>5, <2>6, OneSlot
<1> QED
  BY <1>3, <1>4

\* Drop of a SlotInvocation that was not closed
LEMMA DropCallHolds ==
    ASSUME SlotInv, NEW c \in Context, NEW p \in BOOLEAN, DropCall(c, p)
    PROVE  SlotInv'
<1>1. /\ place[c] = "call" /\ stage[c] # "Begun" /\ outcome' = "dropped" /\ Retire(c, {}, p)
      /\ UNCHANGED <<generation, active, next, handle, stamp, touched, stage, cause, cleanup, base>>
  BY DEF DropCall
<1>2. Exists(c) /\ outcome' \in Outcome /\ ~active[c]
  BY <1>1 DEF SlotInv, SlotAt, Placed, Once, Outcome
<1>3. place' = [place EXCEPT ![c] = "retired"]
  BY <1>1 DEF Retire
<1>4. /\ IInv' /\ status'[c] = "retired" /\ held'[c] = {} /\ owners'[c] = {}
      /\ \A d \in Context \ {c} :
            /\ status'[d] = status[d] /\ held'[d] = held[d] /\ owners'[d] = owners[d]
            /\ failure'[d] = failure[d]
  BY <1>1, <1>2, RetireKeeps
<1>5. SlotTypes' /\ place'[c] = "retired"
  BY <1>1, <1>3 DEF SlotInv, SlotTypes
<1>6. \A d \in Context \ {c} : SameSlot(d)
  BY <1>1, <1>3, <1>4 DEF SameSlot, SlotInv, SlotTypes
<1>7. SlotAt(c)'
  BY <1>1, <1>2, <1>5 DEF SlotInv, SlotAt, Placed, Clean, Own, Once
<1> QED
  BY <1>4, <1>5, <1>6, <1>7, OneSlot

\* Disposing of one operation that the slot does not hold any more changes nothing.
LEMMA DisposeOne ==
    ASSUME SlotInv, NEW c \in Context, NEW k \in Key, NEW p \in BOOLEAN, Dispose(c, {k}, p)
    PROVE  /\ held'[c] \subseteq held[c] /\ owners'[c] \subseteq owners[c]
           /\ held[c] = {} => failure'[c] = failure[c]
           /\ ~Exists(c) => failure'[c] = failure[c]
           /\ \A d \in Context \ {c} :
                 held'[d] = held[d] /\ owners'[d] = owners[d] /\ failure'[d] = failure[d]
<1>1. /\ held'[c] \subseteq held[c] /\ owners'[c] \subseteq owners[c]
      /\ \A d \in Context \ {c} :
            held'[d] = held[d] /\ owners'[d] = owners[d] /\ failure'[d] = failure[d]
  BY DEF Dispose, SlotInv, IInv, TypeOK
<1>2. ASSUME held[c] = {} PROVE failure'[c] = failure[c]
  <2>1. ~p
    BY <1>2 DEF Dispose
  <2>2. (failure[c] \/ p) = failure[c]
    BY <2>1 DEF SlotInv, IInv, TypeOK
  <2> QED
    BY <2>2 DEF Dispose, SlotInv, IInv, TypeOK
<1>3. ~Exists(c) => failure'[c] = failure[c]
  BY DEF Dispose
<1> QED
  BY <1>1, <1>2, <1>3

\* Only an execution starts operations, and only of its own slot.
LEMMA ScriptEffect ==
    ASSUME SlotInv, NEW c \in Context, ScriptStep(c)
    PROVE  /\ UNCHANGED <<status, generation, active>> /\ UNCHANGED slotCallVars
           /\ \A d \in Context \ {c} : /\ next'[d] = next[d] /\ failure'[d] = failure[d]
                                      /\ owners'[d] = owners[d] /\ held'[d] = held[d]
           /\ next[c] <= next'[c] /\ held'[c] \subseteq held[c] \cup {next[c]}
           /\ stage[c] # "Begun" => held'[c] \subseteq held[c] /\ owners'[c] \subseteq owners[c]
           /\ stage[c] # "Begun" /\ (held[c] = {} \/ ~Exists(c)) => failure'[c] = failure[c]
<1>0. UNCHANGED slotCallVars /\ next[c] \in Nat
  BY DEF ScriptStep, SlotInv, IInv, TypeOK
<1>1. CASE stage[c] = "Begun" /\ Track(c)
  BY <1>0, <1>1 DEF Track, SlotInv, IInv, TypeOK
<1>2. ASSUME NEW p \in BOOLEAN, stage[c] = "Begun", TrackExhausted(c, p)
      PROVE  /\ UNCHANGED <<status, generation, active, next, owners, held>>
             /\ \A d \in Context \ {c} : failure'[d] = failure[d]
  BY <1>2 DEF TrackExhausted, ownerVars, SlotInv, IInv, TypeOK
<1>3. ASSUME NEW k \in Key, PollCancelled(c, k) \/ PollPending(c, k)
      PROVE  UNCHANGED <<status, generation, active, next, owners, held, failure>>
  BY <1>3 DEF PollCancelled, PollPending, contextVars
<1>4. ASSUME NEW k \in Key, NEW p \in BOOLEAN,
             PollRetired(c, k, p) \/ PollReady(c, k, p) \/ DropTracked(c, k, p)
      PROVE  Dispose(c, {k}, p) /\ UNCHANGED <<status, generation, active, next>>
  BY <1>4 DEF PollRetired, PollReady, DropTracked
<1>5. \/ stage[c] = "Begun" /\ Track(c)
      \/ \E p \in BOOLEAN : stage[c] = "Begun" /\ TrackExhausted(c, p)
      \/ \E k \in Key : PollCancelled(c, k) \/ PollPending(c, k)
      \/ \E k \in Key, p \in BOOLEAN :
            PollRetired(c, k, p) \/ PollReady(c, k, p) \/ DropTracked(c, k, p)
  BY DEF ScriptStep
<1>6. CASE \E p \in BOOLEAN : stage[c] = "Begun" /\ TrackExhausted(c, p)
  BY <1>0, <1>2, <1>6
<1>7. CASE \E k \in Key : PollCancelled(c, k) \/ PollPending(c, k)
  BY <1>0, <1>3, <1>7
<1>8. CASE \E k \in Key, p \in BOOLEAN :
              PollRetired(c, k, p) \/ PollReady(c, k, p) \/ DropTracked(c, k, p)
  <2>1. PICK k \in Key, p \in BOOLEAN : Dispose(c, {k}, p)
          /\ UNCHANGED <<status, generation, active, next>>
    BY <1>4, <1>8
  <2>2. /\ held'[c] \subseteq held[c] /\ owners'[c] \subseteq owners[c]
        /\ held[c] = {} \/ ~Exists(c) => failure'[c] = failure[c]
        /\ \A d \in Context \ {c} :
              held'[d] = held[d] /\ owners'[d] = owners[d] /\ failure'[d] = failure[d]
    BY <2>1, DisposeOne
  <2>3. next[c] <= next'[c] /\ \A d \in Context \ {c} : next'[d] = next[d]
    BY <1>0, <2>1
  <2> QED
    BY <1>0, <2>1, <2>2, <2>3
<1> QED
  BY <1>1, <1>5, <1>6, <1>7, <1>8

\* What the script, or whoever kept its values, does
LEMMA ScriptStepHolds == ASSUME SlotInv, NEW c \in Context, ScriptStep(c) PROVE SlotInv'
<1>1. Script(c)
  BY DEF ScriptStep, Script
<1>2. IInv'
  BY <1>1, InvariantStep DEF SlotInv, Next
<1>3. SlotTypes'
  BY ScriptEffect DEF slotCallVars, SlotInv, SlotTypes
<1>4. \A d \in Context \ {c} : SameSlot(d)
  BY ScriptEffect DEF slotCallVars, SameSlot
<1>5. SlotAt(c)'
  <2>1. UNCHANGED <<status, generation, active, place, stage, base>>
    BY ScriptEffect DEF slotCallVars
  <2>2. next[c] <= next'[c] /\ held'[c] \subseteq held[c] \cup {next[c]}
    BY ScriptEffect
  <2>3. stage[c] # "Begun" => held'[c] \subseteq held[c] /\ owners'[c] \subseteq owners[c]
    BY ScriptEffect
  <2>4. stage[c] # "Begun" /\ (held[c] = {} \/ ~Exists(c)) => failure'[c] = failure[c]
    BY ScriptEffect
  <2>5. next[c] \in Nat /\ next'[c] \in Nat /\ base[c] \in Nat
    BY <1>2 DEF SlotInv, SlotTypes, IInv, TypeOK
  <2>6. Placed(c)'
    BY <2>1, <2>4 DEF SlotInv, SlotAt, Placed, Exists
  <2>7. Clean(c)'
    BY <2>1, <2>3, <2>4 DEF SlotInv, SlotAt, Placed, Clean, Live
  <2>8. Own(c)'
    BY <2>1, <2>2, <2>5 DEF SlotInv, SlotAt, Own
  <2> QED
    BY <2>1, <2>6, <2>7, <2>8 DEF SlotInv, SlotAt, Once
<1> QED
  BY <1>2, <1>3, <1>4, <1>5, OneSlot

----------------------------------------------------------------------------
(* The theorem. *)

\* A program that has no slot yet.
LEMMA SlotInitHolds == SlotInit => SlotInv
<1> SUFFICES ASSUME SlotInit PROVE SlotInv
  OBVIOUS
<1>1. IInv
  BY LifecycleInit DEF SlotInit
<1>2. SlotTypes
  BY MaxAssumption DEF SlotInit, SlotTypes
<1>3. \A c \in Context : SlotAt(c)
  BY DEF SlotInit, Init, SlotAt, Placed, Clean, Own, Once
<1> QED
  BY <1>1, <1>2, <1>3 DEF SlotInv

\* Every step keeps the invariant.
LEMMA SlotStepHolds == SlotInv /\ [SlotNext]_slotVars => SlotInv'
<1> SUFFICES ASSUME SlotInv, [SlotNext]_slotVars PROVE SlotInv'
  OBVIOUS
<1>1. CASE UNCHANGED slotVars
  <2>1. IInv'
    BY <1>1, InvariantStep DEF slotVars, SlotInv
  <2>2. SlotTypes'
    BY <1>1 DEF slotVars, slotCallVars, SlotInv, SlotTypes
  <2>3. \A c \in Context : SlotAt(c)'
    BY <1>1 DEF slotVars, slotCallVars, vars, contextVars, ownerVars, SlotInv, SlotAt, Placed, Clean,
       Own, Once, Live, Exists
  <2> QED
    BY <2>1, <2>2, <2>3 DEF SlotInv
<1>2. CASE SlotNext
  BY <1>2, MakeHolds, PrepareHolds, PrepareRefusedHolds, RunHolds, RunEndsHolds, CloseCallHolds,
     DropCallHolds, ScriptStepHolds DEF SlotNext
<1> QED
  BY <1>1, <1>2

\* server.rs: a slot in the pool is clean, a call holds only what it started itself, and what
\* was begun is finished once, for any number of slots and requests, whatever scripts keep and
\* poll and whichever destructors panic.
THEOREM SlotsIsolateRequests == SlotSpec => []RequestsIsolated
<1>1. SlotInv => RequestsIsolated
  BY DEF SlotInv, IInv, SlotTypes, SlotAt, Clean, Own, Once, RequestsIsolated, SlotTypeOK,
     PooledIsClean, NoCarryOver, FinishedOnce
<1> QED
  BY <1>1, SlotInitHolds, SlotStepHolds, PTL DEF SlotSpec

----------------------------------------------------------------------------
(* ChildRun: a call of a child process. *)

USE DEF Reader, ChildWorker

\* What is in a pipe, and what a reader kept of it.
Pipes ==
    /\ taken \in [ChildWorker -> Nat]
    /\ childSent["in"] <= how.input
    /\ op["in"] # "done" => childSent["in"] < how.input
    /\ \A w \in Reader : /\ childSent[w] <= how.output
                         /\ kept[w] = IF taken[w] <= CaptureCap THEN taken[w] ELSE CaptureCap

\* The calls from the one that stops a worker on.
FromStop(w) ==
    CASE w = "in" -> {"stopin", "joinin", "drain", "stopout", "stoperr", "join", "returned",
                      "error"}
      [] w = "out" -> {"stopout", "stoperr", "join", "returned", "error"}
      [] w = "err" -> {"stoperr", "join", "returned", "error"}
StopOf(w) == CASE w = "in" -> "stopin" [] w = "out" -> "stopout" [] w = "err" -> "stoperr"

\* A handle is published from Pipe::begin to the end of the operation, and not once the stop
\* of the worker is over.
Handles ==
    \A w \in ChildWorker :
        /\ inCall[w] <=> op[w] \in {"declared", "inside"}
        /\ stopped[w] => call \in FromStop(w)
        /\ stopped[w] /\ call # StopOf(w) => ~inCall[w]
        /\ w \in aborted => stopped[w]

\* How far the call has come tells what was ended.
Stages ==
    /\ until = "unset" <=> call \in {"wait", "look", "reap", "clean"}
    /\ call \in FromStop("in") => alive \subseteq {"stray"}
    /\ call \in FromStop("in") \ {"stopin", "joinin"} => op["in"] = "done"
    /\ call \in FromStop("out") => until = "over" \/ \A w \in Reader : op[w] = "done"
    /\ Over => \A w \in Reader : op[w] = "done"
    /\ call = "returned" => /\ interrupt => childRan.cancelled
                            /\ \A w \in Reader : childOutcome[w] # "panicked"

\* How a reader ended tells what became of its stream.
Ends ==
    \A w \in Reader :
        /\ op[w] = "done" => childOutcome[w] \notin {"none", "broken"}
        /\ childOutcome[w] = "complete" => taken[w] = childSent[w] /\ alive = {}
        /\ stopped[w] => until = "over"
        /\ childOutcome[w] = "cut" => interrupt \/ until = "over"

ChildInv == ChildTypeOK /\ Pipes /\ Handles /\ Stages /\ Ends

USE DEF ChildOutcome, FromStop, StopOf, Over, childCallVars, worldVars, childVars

\* The steps of the processes, of the workers and of the call keep the invariant.
LEMMA ChildStep ==
    ASSUME ChildInv, ChildNext
    PROVE  ChildInv'
<1>a. how \in Case
  BY DEF ChildInv, ChildTypeOK
<1>b. how.input \in Nat /\ how.output \in Nat
  BY <1>a, ChildAssumption
<1>c. how' = how
  BY DEF ChildNext
<1> USE <1>b, <1>c, ChildAssumption
<1>1. ASSUME NEW w \in Reader, ~Over, Produce(w)
      PROVE  ChildInv'
  <2> USE <1>1 DEF Produce, Held
  <2>1. ChildTypeOK'
    BY DEF ChildInv, ChildTypeOK
  <2>2. Pipes'
    BY DEF ChildInv, ChildTypeOK, Pipes
  <2>3. Handles'
    BY DEF ChildInv, ChildTypeOK, Handles
  <2>4. Stages'
    BY DEF ChildInv, ChildTypeOK, Stages
  <2>5. Ends'
    BY DEF ChildInv, ChildTypeOK, Ends
  <2> QED
    BY <2>1, <2>2, <2>3, <2>4, <2>5 DEF ChildInv
<1>2. ASSUME ~Over, Consume
      PROVE  ChildInv'
  <2> USE <1>2 DEF Consume, Held
  <2>1. ChildTypeOK'
    BY DEF ChildInv, ChildTypeOK
  <2>2. Pipes'
    BY DEF ChildInv, ChildTypeOK, Pipes
  <2>3. Handles'
    BY DEF ChildInv, ChildTypeOK, Handles
  <2>4. Stages'
    BY DEF ChildInv, ChildTypeOK, Stages
  <2>5. Ends'
    BY DEF ChildInv, ChildTypeOK, Ends
  <2> QED
    BY <2>1, <2>2, <2>3, <2>4, <2>5 DEF ChildInv
<1>3. ASSUME NEW p \in alive, ~Over, ProcessExits(p)
      PROVE  ChildInv'
  <2> USE <1>3 DEF ProcessExits
  <2>1. ChildTypeOK'
    BY DEF ChildInv, ChildTypeOK
  <2>2. Pipes'
    BY DEF ChildInv, ChildTypeOK, Pipes
  <2>3. Handles'
    BY DEF ChildInv, ChildTypeOK, Handles
  <2>4. Stages'
    BY DEF ChildInv, ChildTypeOK, Stages
  <2>5. Ends'
    BY DEF ChildInv, ChildTypeOK, Ends
  <2> QED
    BY <2>1, <2>2, <2>3, <2>4, <2>5 DEF ChildInv
<1>4. ASSUME ~Over, DeadlinePasses
      PROVE  ChildInv'
  <2> USE <1>4 DEF DeadlinePasses
  <2>1. ChildTypeOK'
    BY DEF ChildInv, ChildTypeOK
  <2>2. Pipes'
    BY DEF ChildInv, ChildTypeOK, Pipes
  <2>3. Handles'
    BY DEF ChildInv, ChildTypeOK, Handles
  <2>4. Stages'
    BY DEF ChildInv, ChildTypeOK, Stages
  <2>5. Ends'
    BY DEF ChildInv, ChildTypeOK, Ends
  <2> QED
    BY <2>1, <2>2, <2>3, <2>4, <2>5 DEF ChildInv
<1>5. ASSUME ~Over, ChildInterrupt
      PROVE  ChildInv'
  <2> USE <1>5 DEF ChildInterrupt
  <2>1. ChildTypeOK'
    BY DEF ChildInv, ChildTypeOK
  <2>2. Pipes'
    BY DEF ChildInv, ChildTypeOK, Pipes
  <2>3. Handles'
    BY DEF ChildInv, ChildTypeOK, Handles
  <2>4. Stages'
    BY DEF ChildInv, ChildTypeOK, Stages
  <2>5. Ends'
    BY DEF ChildInv, ChildTypeOK, Ends
  <2> QED
    BY <2>1, <2>2, <2>3, <2>4, <2>5 DEF ChildInv
<1>6. ASSUME ~Over, AllowancePasses
      PROVE  ChildInv'
  <2> USE <1>6 DEF AllowancePasses
  <2>1. ChildTypeOK'
    BY DEF ChildInv, ChildTypeOK
  <2>2. Pipes'
    BY DEF ChildInv, ChildTypeOK, Pipes
  <2>3. Handles'
    BY DEF ChildInv, ChildTypeOK, Handles
  <2>4. Stages'
    BY DEF ChildInv, ChildTypeOK, Stages
  <2>5. Ends'
    BY DEF ChildInv, ChildTypeOK, Ends
  <2> QED
    BY <2>1, <2>2, <2>3, <2>4, <2>5 DEF ChildInv
<1>7. ASSUME NEW w \in ChildWorker, ChildLook(w)
      PROVE  ChildInv'
  <2> USE <1>7 DEF ChildLook, ChildEnds, Unwanted
  <2>1. ChildTypeOK'
    BY DEF ChildInv, ChildTypeOK
  <2>2. Pipes'
    BY DEF ChildInv, ChildTypeOK, Pipes
  <2>3. Handles'
    BY DEF ChildInv, ChildTypeOK, Handles
  <2>4. Stages'
    BY DEF ChildInv, ChildTypeOK, Stages
  <2>5. Ends'
    BY DEF ChildInv, ChildTypeOK, Ends
  <2> QED
    BY <2>1, <2>2, <2>3, <2>4, <2>5 DEF ChildInv
<1>8. ASSUME NEW w \in ChildWorker, ChildBegin(w)
      PROVE  ChildInv'
  <2> USE <1>8 DEF ChildBegin, ChildEnds
  <2>a. /\ inCall' = inCall \/ inCall' = [inCall EXCEPT ![w] = TRUE]
        /\ \E l \in {"declared", "done"} : op' = [op EXCEPT ![w] = l]
        /\ childOutcome' = childOutcome \/ childOutcome' = [childOutcome EXCEPT ![w] = "cut"]
    OBVIOUS
  <2>b. inCall' \in [ChildWorker -> BOOLEAN]
    BY <2>a DEF ChildInv, ChildTypeOK
  <2>c. /\ op' \in [ChildWorker -> {"check", "ready", "declared", "inside", "done"}]
        /\ childOutcome' \in [ChildWorker -> ChildOutcome]
    BY <2>a DEF ChildInv, ChildTypeOK
  <2>1. ChildTypeOK'
    BY <2>b, <2>c DEF ChildInv, ChildTypeOK
  <2>2. Pipes'
    BY DEF ChildInv, ChildTypeOK, Pipes
  <2>3. Handles'
    BY DEF ChildInv, ChildTypeOK, Handles
  <2>4. Stages'
    BY DEF ChildInv, ChildTypeOK, Stages
  <2>5. Ends'
    BY DEF ChildInv, ChildTypeOK, Ends
  <2> QED
    BY <2>1, <2>2, <2>3, <2>4, <2>5 DEF ChildInv
<1>9. ASSUME NEW w \in ChildWorker, Submit(w)
      PROVE  ChildInv'
  <2> USE <1>9 DEF Submit
  <2>1. ChildTypeOK'
    BY DEF ChildInv, ChildTypeOK
  <2>2. Pipes'
    BY DEF ChildInv, ChildTypeOK, Pipes
  <2>3. Handles'
    BY DEF ChildInv, ChildTypeOK, Handles
  <2>4. Stages'
    BY DEF ChildInv, ChildTypeOK, Stages
  <2>5. Ends'
    BY DEF ChildInv, ChildTypeOK, Ends
  <2> QED
    BY <2>1, <2>2, <2>3, <2>4, <2>5 DEF ChildInv
<1>10. ASSUME NEW w \in ChildWorker, LastCall(w)
      PROVE  ChildInv'
  <2> USE <1>10 DEF LastCall, ChildEnds, Withdraw, AtEnd, Held
  <2>1. ChildTypeOK'
    BY DEF ChildInv, ChildTypeOK
  <2>2. Pipes'
    BY DEF ChildInv, ChildTypeOK, Pipes
  <2>3. Handles'
    BY DEF ChildInv, ChildTypeOK, Handles
  <2>4. Stages'
    BY DEF ChildInv, ChildTypeOK, Stages
  <2>5. Ends'
    BY DEF ChildInv, ChildTypeOK, Handles, Ends
  <2> QED
    BY <2>1, <2>2, <2>3, <2>4, <2>5 DEF ChildInv
<1>11. ASSUME NEW w \in ChildWorker, Unprepared(w)
      PROVE  ChildInv'
  <2> USE <1>11 DEF Unprepared, ChildEnds
  <2>1. ChildTypeOK'
    BY DEF ChildInv, ChildTypeOK
  <2>2. Pipes'
    BY DEF ChildInv, ChildTypeOK, Pipes
  <2>3. Handles'
    BY DEF ChildInv, ChildTypeOK, Handles
  <2>4. Stages'
    BY DEF ChildInv, ChildTypeOK, Stages
  <2>5. Ends'
    BY DEF ChildInv, ChildTypeOK, Ends
  <2> QED
    BY <2>1, <2>2, <2>3, <2>4, <2>5 DEF ChildInv
<1>12. ASSUME NEW w \in ChildWorker, ChildAgain(w)
      PROVE  ChildInv'
  <2> USE <1>12 DEF ChildAgain, Withdraw
  <2>1. ChildTypeOK'
    BY DEF ChildInv, ChildTypeOK
  <2>2. Pipes'
    BY DEF ChildInv, ChildTypeOK, Pipes
  <2>3. Handles'
    BY DEF ChildInv, ChildTypeOK, Handles
  <2>4. Stages'
    BY DEF ChildInv, ChildTypeOK, Stages
  <2>5. Ends'
    BY DEF ChildInv, ChildTypeOK, Ends
  <2> QED
    BY <2>1, <2>2, <2>3, <2>4, <2>5 DEF ChildInv
<1>13. ASSUME NEW w \in ChildWorker, ChildRead(w)
      PROVE  ChildInv'
  <2> USE <1>13 DEF ChildRead, Withdraw, Held
  <2>1. ChildTypeOK'
    BY DEF ChildInv, ChildTypeOK
  <2>2. Pipes'
    BY DEF ChildInv, ChildTypeOK, Pipes
  <2>3. Handles'
    BY DEF ChildInv, ChildTypeOK, Handles
  <2>4. Stages'
    BY DEF ChildInv, ChildTypeOK, Stages
  <2>5. Ends'
    BY DEF ChildInv, ChildTypeOK, Ends
  <2> QED
    BY <2>1, <2>2, <2>3, <2>4, <2>5 DEF ChildInv
<1>14. ASSUME ChildWrite
      PROVE  ChildInv'
  <2> USE <1>14 DEF ChildWrite, Withdraw, ChildEnds, Held
  <2>1. ChildTypeOK'
    BY DEF ChildInv, ChildTypeOK, Pipes
  <2>2. Pipes'
    BY DEF ChildInv, ChildTypeOK, Pipes
  <2>3. Handles'
    BY DEF ChildInv, ChildTypeOK, Handles
  <2>4. Stages'
    BY DEF ChildInv, ChildTypeOK, Stages
  <2>5. Ends'
    BY DEF ChildInv, ChildTypeOK, Ends
  <2> QED
    BY <2>1, <2>2, <2>3, <2>4, <2>5 DEF ChildInv
<1>15. ASSUME TryWait
      PROVE  ChildInv'
  <2> USE <1>15 DEF TryWait, Pass, CallOnly
  <2>1. ChildTypeOK'
    BY DEF ChildInv, ChildTypeOK
  <2>2. Pipes'
    BY DEF ChildInv, ChildTypeOK, Pipes
  <2>3. Handles'
    BY DEF ChildInv, ChildTypeOK, Handles
  <2>4. Stages'
    BY DEF ChildInv, ChildTypeOK, Stages
  <2>5. Ends'
    BY DEF ChildInv, ChildTypeOK, Ends
  <2> QED
    BY <2>1, <2>2, <2>3, <2>4, <2>5 DEF ChildInv
<1>16. ASSUME LookAround
      PROVE  ChildInv'
  <2> USE <1>16 DEF LookAround, Pass, CallOnly, EndGroup
  <2>1. ChildTypeOK'
    BY DEF ChildInv, ChildTypeOK
  <2>2. Pipes'
    BY DEF ChildInv, ChildTypeOK, Pipes
  <2>3. Handles'
    BY DEF ChildInv, ChildTypeOK, Handles
  <2>4. Stages'
    BY DEF ChildInv, ChildTypeOK, Stages
  <2>5. Ends'
    BY DEF ChildInv, ChildTypeOK, Ends
  <2> QED
    BY <2>1, <2>2, <2>3, <2>4, <2>5 DEF ChildInv
<1>17. ASSUME ChildReap
      PROVE  ChildInv'
  <2> USE <1>17 DEF ChildReap, Pass, CallOnly
  <2>1. ChildTypeOK'
    BY DEF ChildInv, ChildTypeOK
  <2>2. Pipes'
    BY DEF ChildInv, ChildTypeOK, Pipes
  <2>3. Handles'
    BY DEF ChildInv, ChildTypeOK, Handles
  <2>4. Stages'
    BY DEF ChildInv, ChildTypeOK, Stages
  <2>5. Ends'
    BY DEF ChildInv, ChildTypeOK, Ends
  <2> QED
    BY <2>1, <2>2, <2>3, <2>4, <2>5 DEF ChildInv
<1>18. ASSUME SetUntil
      PROVE  ChildInv'
  <2> USE <1>18 DEF SetUntil, Pass, CallOnly
  <2>1. ChildTypeOK'
    BY DEF ChildInv, ChildTypeOK
  <2>2. Pipes'
    BY DEF ChildInv, ChildTypeOK, Pipes
  <2>3. Handles'
    BY DEF ChildInv, ChildTypeOK, Handles
  <2>4. Stages'
    BY DEF ChildInv, ChildTypeOK, Stages
  <2>5. Ends'
    BY DEF ChildInv, ChildTypeOK, Stages, Ends
  <2> QED
    BY <2>1, <2>2, <2>3, <2>4, <2>5 DEF ChildInv
<1>19. ASSUME KillGroup
      PROVE  ChildInv'
  <2> USE <1>19 DEF KillGroup, Pass, CallOnly, EndGroup
  <2>1. ChildTypeOK'
    BY DEF ChildInv, ChildTypeOK
  <2>2. Pipes'
    BY DEF ChildInv, ChildTypeOK, Pipes
  <2>3. Handles'
    BY DEF ChildInv, ChildTypeOK, Handles
  <2>4. Stages'
    BY DEF ChildInv, ChildTypeOK, Stages
  <2>5. Ends'
    BY DEF ChildInv, ChildTypeOK, Ends
  <2> QED
    BY <2>1, <2>2, <2>3, <2>4, <2>5 DEF ChildInv
<1>20. ASSUME StopWriter
      PROVE  ChildInv'
  <2> USE <1>20 DEF StopWriter, Ask, Pass, CallOnly
  <2>1. ChildTypeOK'
    BY DEF ChildInv, ChildTypeOK, Handles
  <2>2. Pipes'
    BY DEF ChildInv, ChildTypeOK, Pipes
  <2>3. Handles'
    BY DEF ChildInv, ChildTypeOK, Handles
  <2>4. Stages'
    BY DEF ChildInv, ChildTypeOK, Stages
  <2>5. Ends'
    BY DEF ChildInv, ChildTypeOK, Ends
  <2> QED
    BY <2>1, <2>2, <2>3, <2>4, <2>5 DEF ChildInv
<1>21. ASSUME JoinWriter
      PROVE  ChildInv'
  <2> USE <1>21 DEF JoinWriter, Pass, CallOnly
  <2>1. ChildTypeOK'
    BY DEF ChildInv, ChildTypeOK
  <2>2. Pipes'
    BY DEF ChildInv, ChildTypeOK, Pipes
  <2>3. Handles'
    BY DEF ChildInv, ChildTypeOK, Handles
  <2>4. Stages'
    BY DEF ChildInv, ChildTypeOK, Stages
  <2>5. Ends'
    BY DEF ChildInv, ChildTypeOK, Ends
  <2> QED
    BY <2>1, <2>2, <2>3, <2>4, <2>5 DEF ChildInv
<1>22. ASSUME ChildDrain
      PROVE  ChildInv'
  <2> USE <1>22 DEF ChildDrain, Pass, CallOnly
  <2>1. ChildTypeOK'
    BY DEF ChildInv, ChildTypeOK
  <2>2. Pipes'
    BY DEF ChildInv, ChildTypeOK, Pipes
  <2>3. Handles'
    BY DEF ChildInv, ChildTypeOK, Handles
  <2>4. Stages'
    BY DEF ChildInv, ChildTypeOK, Stages
  <2>5. Ends'
    BY DEF ChildInv, ChildTypeOK, Ends
  <2> QED
    BY <2>1, <2>2, <2>3, <2>4, <2>5 DEF ChildInv
<1>23. ASSUME StopReader("out", "stopout", "stoperr")
      PROVE  ChildInv'
  <2> USE <1>23 DEF StopReader, Ask, Pass, CallOnly
  <2>a. stopped' = stopped \/ stopped' = [stopped EXCEPT !["out"] = TRUE]
    OBVIOUS
  <2>b. stopped' \in [ChildWorker -> BOOLEAN]
    BY <2>a DEF ChildInv, ChildTypeOK
  <2>c. aborted' \subseteq ChildWorker /\ call' \in FromStop("in")
    BY DEF ChildInv, ChildTypeOK
  <2>1. ChildTypeOK'
    BY <2>b, <2>c DEF ChildInv, ChildTypeOK
  <2>2. Pipes'
    BY DEF ChildInv, ChildTypeOK, Pipes
  <2>3. Handles'
    BY DEF ChildInv, ChildTypeOK, Handles
  <2>4. Stages'
    BY DEF ChildInv, ChildTypeOK, Stages
  <2>5. Ends'
    BY DEF ChildInv, ChildTypeOK, Stages, Ends
  <2> QED
    BY <2>1, <2>2, <2>3, <2>4, <2>5 DEF ChildInv
<1>24. ASSUME StopReader("err", "stoperr", "join")
      PROVE  ChildInv'
  <2> USE <1>24 DEF StopReader, Ask, Pass, CallOnly
  <2>a. stopped' = stopped \/ stopped' = [stopped EXCEPT !["err"] = TRUE]
    OBVIOUS
  <2>b. stopped' \in [ChildWorker -> BOOLEAN]
    BY <2>a DEF ChildInv, ChildTypeOK
  <2>c. aborted' \subseteq ChildWorker /\ call' \in FromStop("in")
    BY DEF ChildInv, ChildTypeOK
  <2>1. ChildTypeOK'
    BY <2>b, <2>c DEF ChildInv, ChildTypeOK
  <2>2. Pipes'
    BY DEF ChildInv, ChildTypeOK, Pipes
  <2>3. Handles'
    BY DEF ChildInv, ChildTypeOK, Handles
  <2>4. Stages'
    BY DEF ChildInv, ChildTypeOK, Stages
  <2>5. Ends'
    BY DEF ChildInv, ChildTypeOK, Stages, Ends
  <2> QED
    BY <2>1, <2>2, <2>3, <2>4, <2>5 DEF ChildInv
<1>25. ASSUME ChildReturn
      PROVE  ChildInv'
  <2> USE <1>25 DEF ChildReturn, Pass, CallOnly, Interrupted
  <2>1. ChildTypeOK'
    BY DEF ChildInv, ChildTypeOK
  <2>2. Pipes'
    BY DEF ChildInv, ChildTypeOK, Pipes
  <2>3. Handles'
    BY DEF ChildInv, ChildTypeOK, Handles
  <2>4. Stages'
    BY DEF ChildInv, ChildTypeOK, Stages
  <2>5. Ends'
    BY DEF ChildInv, ChildTypeOK, Ends
  <2> QED
    BY <2>1, <2>2, <2>3, <2>4, <2>5 DEF ChildInv
<1>26. CASE ~Over /\ ChildWorld
  BY <1>26, <1>1, <1>2, <1>3, <1>4, <1>5, <1>6 DEF ChildWorld
<1>27. CASE \E w \in ChildWorker : Works(w) \/ Unprepared(w) \/ ChildAgain(w) \/ ChildRead(w)
  BY <1>27, <1>7, <1>8, <1>9, <1>10, <1>11, <1>12, <1>13 DEF Works
<1>28. CASE Calls
  BY <1>28, <1>15, <1>16, <1>17, <1>18, <1>19, <1>20, <1>21, <1>22, <1>23, <1>24, <1>25 DEF Calls
<1> QED
  BY <1>14, <1>26, <1>27, <1>28 DEF ChildNext

\* A call begins with everything running and nothing moved.
LEMMA ChildBegins == ChildInit => ChildInv
<1> SUFFICES ASSUME ChildInit PROVE ChildInv
  OBVIOUS
<1>1. /\ how \in Case /\ how.input \in Nat /\ how.output \in Nat
      /\ how.procs \subseteq {"group", "stray"}
  BY ChildAssumption DEF ChildInit
<1>a. /\ stopped \in [ChildWorker -> BOOLEAN] /\ inCall \in [ChildWorker -> BOOLEAN]
      /\ op \in [ChildWorker -> {"check", "ready", "declared", "inside", "done"}]
      /\ childOutcome \in [ChildWorker -> ChildOutcome]
  BY DEF ChildInit
<1>b. /\ childSent \in [ChildWorker -> 0 .. (how.input + how.output)]
      /\ kept \in [Reader -> 0 .. CaptureCap]
      /\ \A w \in ChildWorker : taken[w] \in 0 .. childSent[w] /\ childSent[w] - taken[w] <= Room
  BY <1>1, ChildAssumption DEF ChildInit
<1>2. ChildTypeOK
  BY <1>1, <1>a, <1>b DEF ChildInit, ChildTypeOK
<1>3. Pipes
  BY <1>1, ChildAssumption DEF ChildInit, Pipes
<1>4. Handles /\ Stages /\ Ends
  BY DEF ChildInit, Handles, Stages, Ends
<1> QED
  BY <1>2, <1>3, <1>4 DEF ChildInv

\* A call of a child keeps it from its start.
LEMMA ChildInvariant == ChildSpec => []ChildInv
<1>1. ChildInv /\ UNCHANGED <<how, childVars>> => ChildInv'
  BY DEF ChildInv, ChildTypeOK, Pipes, Handles, Stages, Ends
<1> QED
  BY <1>1, ChildBegins, ChildStep, PTL DEF ChildSpec

\* Pipe: for pipes of any size, any capture limit and any family of processes, the call never
\* cancels an operation by a handle that was closed, and once Pipe::stop has returned its
\* worker is in no operation and enters none.
THEOREM PipesAreSafe == ChildSpec => []PipesSafe
<1>1. ChildInv => PipesSafe
  BY DEF ChildInv, Handles, PipesSafe, HandlesLive, StopIsFinal
<1> QED
  BY <1>1, ChildInvariant, PTL

\* run_child_with(): whatever the call returns, each chunk of output was kept or the stream is
\* reported as truncated, cut or failed; a stream is cut only by an interrupt the caller is told
\* of or at the end of the allowance; and no thread and nothing of the group is left.
THEOREM ResultsAreHonest == ChildSpec => []ResultHonest
<1>1. ASSUME ChildInv PROVE ResultHonest
  <2>1. CaptureAccounted
    <3> SUFFICES ASSUME call = "returned", NEW w \in Reader,
                        childOutcome[w] \notin {"cut", "failed"}
                 PROVE  kept[w] = childSent[w] \/ (kept[w] = CaptureCap /\ taken[w] > CaptureCap)
      BY DEF CaptureAccounted
    <3>1. childOutcome[w] = "complete"
      BY <1>1 DEF ChildInv, ChildTypeOK, Stages, Ends
    <3>2. taken[w] = childSent[w] /\ taken[w] \in Nat
      BY <1>1, <3>1 DEF ChildInv, Ends, Pipes
    <3>3. kept[w] = IF taken[w] <= CaptureCap THEN taken[w] ELSE CaptureCap
      BY <1>1 DEF ChildInv, Pipes
    <3> QED
      BY <3>2, <3>3, ChildAssumption
  <2>2. CutExplained
    BY <1>1 DEF ChildInv, Stages, Ends, CutExplained
  <2>3. NothingLeftBehind
    BY <1>1 DEF ChildInv, Stages, NothingLeftBehind
  <2> QED
    BY <2>1, <2>2, <2>3 DEF ResultHonest
<1> QED
  BY <1>1, ChildInvariant, PTL

HIDE DEF Reader, ChildWorker, ChildOutcome, FromStop, StopOf, Over, childCallVars, worldVars, childVars

(***************************************************************************)
(* Execution: slices and budgets                                           *)
(***************************************************************************)

-----------------------------------------------------------------------------
\* What the first steps of a program cost.

Costs == [i \in DOMAIN program |-> 1 + program[i].cost]

\* One sum under two names.
LEMMA SumsAgree ==
    ASSUME NEW f, NEW A PROVE SumFunctionOnSet(f, A) = Data!SumFunctionOnSet(f, A)
  BY DEF SumFunctionOnSet, FoldFunctionOnSet, MapThenFoldSet, Data!SumFunctionOnSet,
         Data!FoldFunctionOnSet, Data!MapThenFoldSet

\* What a program is.
LEMMA ProgramFacts ==
    ASSUME program \in Program
    PROVE  /\ Len(program) \in Nat \ {0} /\ DOMAIN program = 1..Len(program)
           /\ \A i \in 1..Len(program) :
                /\ program[i].kind \in {"inst", "await", "error", "native", "nested"}
                /\ program[i].cost \in 0..MaxCost
                /\ program[i].kind \in {"native", "nested"} => program[i].cost >= 1
                /\ program[i].kind \notin {"native", "nested"} => program[i].cost = 0
                /\ Costs[i] = 1 + program[i].cost /\ Costs[i] \in Nat
<1>1. PICK n \in 1..MaxLen : program \in [1..n -> ExecStep]
  BY DEF Program
<1>2. n \in Nat \ {0} /\ program \in Seq(ExecStep) /\ Len(program) = n
  BY <1>1, ExecutionAssumption
<1>3. ASSUME NEW s \in ExecStep
      PROVE  /\ s.kind \in {"inst", "await", "error", "native", "nested"} /\ s.cost \in 0..MaxCost
             /\ s.kind \in {"native", "nested"} => s.cost >= 1
             /\ s.kind \notin {"native", "nested"} => s.cost = 0
  BY ExecutionAssumption DEF ExecStep, Plain
<1>4. ASSUME NEW i \in 1..Len(program)
      PROVE  program[i] \in ExecStep /\ Costs[i] = 1 + program[i].cost
  BY <1>1, <1>2, <1>4 DEF Costs
<1> QED BY <1>1, <1>2, <1>3, <1>4, ExecutionAssumption

\* No steps cost nothing.
LEMMA CostNone == CostOf(0) = 0
<1>1. 1..0 = {}
  OBVIOUS
<1>2. \A f : SumFunctionOnSet(f, {}) = 0
  BY Data!SumEmpty, SumsAgree
<1> QED BY <1>1, <1>2 DEF CostOf

\* One step more costs its permit and what it calls.
LEMMA CostNext ==
    ASSUME program \in Program, NEW n \in 0..(Len(program) - 1)
    PROVE  CostOf(n + 1) = CostOf(n) + (1 + program[n + 1].cost)
<1>1. n \in Nat /\ n + 1 \in 1..Len(program) /\ Len(program) \in Nat
  BY ProgramFacts
<1>2. \A k \in 1..(n + 1) : Costs[k] \in Nat
  BY <1>1, ProgramFacts
<1>3. \A k \in 1..n : Costs[k] = Costs[k]
  OBVIOUS
<1>4. CostOf(n) = Data!SumFunctionOnSet(Costs, 1..n)
      /\ CostOf(n + 1) = Data!SumFunctionOnSet(Costs, 1..(n + 1))
  BY SumsAgree DEF CostOf, Costs
<1>5. Data!SumFunctionOnSet(Costs, 1..(n + 1)) = Data!SumFunctionOnSet(Costs, 1..n) + Costs[n + 1]
  BY <1>1, <1>2, <1>3, Data!SumLonger
<1>6. Costs[n + 1] = 1 + program[n + 1].cost /\ program[n + 1].cost \in Nat
  <2>1. Costs[n + 1] = 1 + program[n + 1].cost /\ program[n + 1].cost \in 0..MaxCost
    BY <1>1, ProgramFacts
  <2> QED BY <2>1
<1> QED BY <1>4, <1>5, <1>6

\* More steps cost more.
LEMMA CostGrows ==
    ASSUME program \in Program, NEW m \in 0..Len(program)
    PROVE  /\ CostOf(m) \in Nat
           /\ \A n \in 0..Len(program) : m < n => CostOf(m) < CostOf(n)
<1> DEFINE S == {k \in Nat : k <= Len(program) =>
                    /\ CostOf(k) \in Nat
                    /\ \A j \in 0..Len(program) :
                          j < k => CostOf(j) \in Nat /\ CostOf(j) < CostOf(k)}
<1>1. Len(program) \in Nat
  BY ProgramFacts
<1>2. 0 \in S
  BY CostNone
<1>3. ASSUME NEW k \in Nat, k \in S PROVE k + 1 \in S
  <2> SUFFICES ASSUME k + 1 <= Len(program)
               PROVE  /\ CostOf(k + 1) \in Nat
                      /\ \A j \in 0..Len(program) :
                            j < k + 1 => CostOf(j) \in Nat /\ CostOf(j) < CostOf(k + 1)
    OBVIOUS
  <2>1. k \in 0..(Len(program) - 1) /\ k <= Len(program) /\ k + 1 \in 1..Len(program)
    BY <1>1
  <2>2. CostOf(k + 1) = CostOf(k) + (1 + program[k + 1].cost) /\ CostOf(k) \in Nat
    BY <1>3, <2>1, CostNext
  <2>3. program[k + 1].cost \in Nat
    <3>1. program[k + 1].cost \in 0..MaxCost
      BY <2>1, ProgramFacts
    <3> QED BY <3>1
  <2>4. \A j \in 0..Len(program) : j < k => CostOf(j) \in Nat /\ CostOf(j) < CostOf(k)
    BY <1>3, <2>1
  <2>5. CostOf(k) < CostOf(k + 1) /\ CostOf(k + 1) \in Nat
    BY <2>2, <2>3
  <2>6. \A j \in 0..Len(program) : j < k + 1 => CostOf(j) \in Nat /\ CostOf(j) < CostOf(k + 1)
    <3> SUFFICES ASSUME NEW j \in 0..Len(program), j < k + 1
                 PROVE  CostOf(j) \in Nat /\ CostOf(j) < CostOf(k + 1)
      OBVIOUS
    <3>1. CASE j = k
      BY <2>2, <2>5, <3>1
    <3>2. CASE j # k
      <4>1. j < k
        BY <3>2
      <4>2. CostOf(j) \in Nat /\ CostOf(j) < CostOf(k)
        BY <2>4, <4>1
      <4> QED BY <2>2, <2>5, <4>2
    <3> QED BY <3>1, <3>2
  <2> QED BY <2>5, <2>6
<1>4. Nat \subseteq S
  <2> HIDE DEF S
  <2> QED BY <1>2, <1>3, Data!InductionNat
<1>5. \A k \in 0..Len(program) : CostOf(k) \in Nat
  BY <1>1, <1>4
<1>6. \A j, k \in 0..Len(program) : j < k => CostOf(j) < CostOf(k)
  <2> SUFFICES ASSUME NEW j \in 0..Len(program), NEW k \in 0..Len(program), j < k
               PROVE  CostOf(j) < CostOf(k)
    OBVIOUS
  <2>1. k \in Nat /\ k <= Len(program)
    BY <1>1
  <2>2. k \in S
    BY <1>4, <2>1
  <2> QED BY <2>1, <2>2
<1> QED BY <1>5, <1>6

-----------------------------------------------------------------------------
\* How a program ends in one piece.

Errors == {i \in DOMAIN program : program[i].kind = "error"}

\* The step that a whole run ends with.
Last == IF Errors = {} THEN Len(program) ELSE CHOOSE i \in Errors : \A j \in Errors : i <= j

\* The step at which a program ends: the first that fails, or the last.
LEMMA LastFacts ==
    ASSUME program \in Program
    PROVE  /\ Last \in 1..Len(program)
           /\ Errors # {} => Last \in Errors /\ \A j \in Errors : Last <= j
<1>1. Len(program) \in Nat \ {0} /\ DOMAIN program = 1..Len(program)
  BY ProgramFacts
<1>2. CASE Errors = {}
  BY <1>1, <1>2 DEF Last
<1>3. CASE Errors # {}
  <2>1. Errors \in SUBSET Nat /\ Errors \subseteq 1..Len(program)
    BY <1>1 DEF Errors
  <2>2. \E i \in Errors : \A j \in Errors : i <= j
    BY <1>3, <2>1, Data!LeastNat
  <2>3. Last \in Errors /\ \A j \in Errors : Last <= j
    BY <1>3, <2>2 DEF Last
  <2> QED BY <2>1, <2>3
<1> QED BY <1>2, <1>3

\* A total that the first i steps exceed is short at step i.
LEMMA WholeShort ==
    ASSUME program \in Program, total \in Nat, NEW i \in 1..Len(program),
           \A j \in 1..(i - 1) : program[j].kind # "error",
           CostOf(i - 1) <= total, total < CostOf(i)
    PROVE  /\ total = CostOf(i - 1) => Whole = [how |-> "budget", exhausted |-> FALSE]
           /\ total # CostOf(i - 1) => Whole = [how |-> "failed", exhausted |-> TRUE]
<1>1. Len(program) \in Nat \ {0} /\ DOMAIN program = 1..Len(program)
  BY ProgramFacts
<1>2. Last \in 1..Len(program)
  BY LastFacts
<1>3. i <= Last
  <2>1. CASE Errors = {}
    BY <1>1, <2>1 DEF Last
  <2>2. CASE Errors # {}
    <3>1. Last \in Errors
      BY <2>2, LastFacts
    <3>2. Last \notin 1..(i - 1)
      BY <3>1 DEF Errors
    <3> QED BY <1>1, <1>2, <3>2
  <2> QED BY <2>1, <2>2
<1>4. \A k \in 0..Len(program) : CostOf(k) \in Nat
  BY CostGrows
<1>5. \A j, k \in 0..Len(program) : j < k => CostOf(j) < CostOf(k)
  BY CostGrows
<1>6. total < CostOf(Last)
  <2>1. i \in 0..Len(program) /\ Last \in 0..Len(program)
    BY <1>1, <1>2
  <2>2. CASE i = Last
    BY <2>2
  <2>3. CASE i < Last
    <3>1. CostOf(i) < CostOf(Last)
      BY <1>5, <2>1, <2>3
    <3> QED BY <1>4, <2>1, <3>1
  <2> QED BY <1>1, <1>2, <1>3, <2>2, <2>3
<1> DEFINE P(k) == CostOf(k - 1) <= total /\ total < CostOf(k)
           short == CHOOSE k \in 1..Last : CostOf(k - 1) <= total /\ total < CostOf(k)
<1>7. i \in 1..Last /\ P(i)
  BY <1>1, <1>2, <1>3
<1>8. short \in 1..Last /\ P(short)
  BY <1>7
<1>9. short = i
  <2> HIDE DEF short
  <2>1. /\ short \in 0..Len(program) /\ short - 1 \in 0..Len(program)
        /\ i \in 0..Len(program) /\ i - 1 \in 0..Len(program)
    BY <1>1, <1>2, <1>8
  <2>2. ~(short <= i - 1)
    <3>1. ASSUME short <= i - 1 PROVE FALSE
      <4>1. CostOf(short) <= CostOf(i - 1)
        <5>1. CASE short = i - 1
          BY <1>4, <2>1, <5>1
        <5>2. CASE short < i - 1
          BY <1>4, <1>5, <2>1, <5>2
        <5> QED BY <2>1, <3>1, <5>1, <5>2
      <4> QED BY <1>4, <1>8, <2>1, <4>1
    <3> QED BY <3>1
  <2>3. ~(i <= short - 1)
    <3>1. ASSUME i <= short - 1 PROVE FALSE
      <4>1. CostOf(i) <= CostOf(short - 1)
        <5>1. CASE i = short - 1
          BY <1>4, <2>1, <5>1
        <5>2. CASE i < short - 1
          <6>1. CostOf(i) < CostOf(short - 1) /\ CostOf(i) \in Nat /\ CostOf(short - 1) \in Nat
            BY <1>4, <1>5, <2>1, <5>2
          <6> QED BY <6>1
        <5> QED BY <2>1, <3>1, <5>1, <5>2
      <4> QED BY <1>4, <1>8, <2>1, <4>1
    <3> QED BY <3>1
  <2> QED BY <2>1, <2>2, <2>3
<1>10. Whole = IF total >= CostOf(Last)
               THEN IF Errors = {} THEN [how |-> "complete", exhausted |-> FALSE]
                    ELSE [how |-> "failed", exhausted |-> total = CostOf(Last)]
               ELSE IF total = CostOf(short - 1) THEN [how |-> "budget", exhausted |-> FALSE]
                    ELSE [how |-> "failed", exhausted |-> TRUE]
  BY DEF Whole, Last, Errors
<1>11. ~(total >= CostOf(Last))
  <2>1. CostOf(Last) \in Nat
    BY <1>1, <1>2, <1>4
  <2> QED BY <1>6, <2>1
<1> HIDE DEF short
<1> QED BY <1>9, <1>10, <1>11

\* A total that covers a program without errors.
LEMMA WholeComplete ==
    ASSUME program \in Program, total \in Nat, total >= CostOf(Len(program)),
           \A j \in 1..Len(program) : program[j].kind # "error"
    PROVE  Whole = [how |-> "complete", exhausted |-> FALSE]
<1>1. DOMAIN program = 1..Len(program)
  BY ProgramFacts
<1>2. Errors = {}
  BY <1>1 DEF Errors
<1>3. Last = Len(program)
  BY <1>2 DEF Last
<1> QED BY <1>2, <1>3 DEF Whole, Last, Errors

\* A total that leads to the first error.
LEMMA WholeFails ==
    ASSUME program \in Program, total \in Nat, NEW i \in 1..Len(program),
           program[i].kind = "error", \A j \in 1..(i - 1) : program[j].kind # "error",
           total >= CostOf(i)
    PROVE  Whole = [how |-> "failed", exhausted |-> total = CostOf(i)]
<1>1. Len(program) \in Nat \ {0} /\ DOMAIN program = 1..Len(program)
  BY ProgramFacts
<1>2. i \in Errors
  BY <1>1 DEF Errors
<1>3. Last \in Errors /\ (\A j \in Errors : Last <= j) /\ Last \in 1..Len(program)
  BY <1>2, LastFacts
<1>4. Last <= i /\ Last \notin 1..(i - 1)
  BY <1>2, <1>3 DEF Errors
<1>5. Last = i
  BY <1>1, <1>3, <1>4
<1> QED BY <1>2, <1>5 DEF Whole, Last, Errors

-----------------------------------------------------------------------------
\* The invariant.

\* Every permit is in exactly one place.
ExecPermits ==
    /\ PermitsExact /\ AmbientRestored /\ yieldAt = 0
    /\ execAt = "start" => spent = 0 /\ saved = 0 /\ since = NotRaised

\* The permits taken are those of the steps behind ip and of the call in hand.
ExecPosition ==
    execAt # "done" =>
        /\ \A j \in 1..(ip - 1) : program[j].kind # "error"
        /\ work = 0 => spent = CostOf(ip - 1)
        /\ work > 0 => /\ execAt = "running" /\ ip <= Len(program) /\ work <= program[ip].cost
                       /\ program[ip].kind \in {"native", "nested"}
                       /\ spent + work = CostOf(ip)

\* How many permits the outer machine may take before it yields.
Window == IF threshold = 0 THEN Slice ELSE threshold + Slice

ExecFlag ==
    /\ since # NotRaised => since <= spent /\ flag /\ execAt # "start"
    /\ execMode # "file" /\ flag /\ execAt # "start" => since # NotRaised
    /\ execAt = "pending" => ip > 1 /\ program[ip - 1].kind = "await"
    /\ execOutcome.how = "interrupted" =>
          IF execMode = "file" THEN ip > 1 /\ program[ip - 1].kind = "await"
                               ELSE since # NotRaised
    /\ execMode # "sliced" => threshold = 0
    /\ execMode = "sliced" =>
        /\ \A i \in DOMAIN program : program[i].kind # "await"
        /\ execAt # "pending"
        /\ execAt = "between" => since \in {0, NotRaised}
        /\ since # NotRaised => since <= Slice
        /\ execAt = "running" => budget <= Window /\ (since # NotRaised => since + budget <= Window)

ExecEnds == (execAt # "done" => execOutcome = NotYet) /\ SameAsWhole

ExecInv == ExecTypeOK /\ ExecPermits /\ ExecPosition /\ ExecFlag /\ ExecEnds

\* The bounds are naturals.
LEMMA ExecNumbers ==
    /\ Slice \in Nat \ {0} /\ MaxBudget \in Nat /\ MaxCost \in Nat /\ MaxLen \in Nat
    /\ Unlimited = MaxBudget + 1 /\ NotRaised = MaxBudget + 1
  BY ExecutionAssumption DEF Unlimited, NotRaised

\* What the types say of the numbers.
LEMMA ExecRanges ==
    ASSUME ExecTypeOK
    PROVE  /\ total \in 0..MaxBudget /\ saved \in 0..MaxBudget /\ spent \in 0..MaxBudget
           /\ budget \in 0..(MaxBudget + 1) /\ threshold \in 0..MaxBudget
           /\ ip \in Nat \ {0} /\ ip <= Len(program) + 1 /\ work \in 0..MaxCost
           /\ since \in 0..(MaxBudget + 1) /\ Len(program) \in Nat \ {0}
           /\ DOMAIN program = 1..Len(program) /\ program \in Program /\ execMode \in Mode
<1>1. program \in Program
  BY DEF ExecTypeOK
<1>2. Len(program) \in Nat \ {0} /\ DOMAIN program = 1..Len(program)
  BY <1>1, ProgramFacts
<1> QED BY <1>1, <1>2, ExecNumbers DEF ExecTypeOK

\* Before anything is admitted.
LEMMA ExecInitially == ExecInit => ExecInv
<1> SUFFICES ASSUME ExecInit PROVE ExecInv
  OBVIOUS
<1> USE ExecNumbers DEF ExecInit
<1>1. Len(program) \in Nat \ {0}
  BY ProgramFacts
<1>2. ExecTypeOK
  BY <1>1 DEF ExecTypeOK
<1>3. ExecPermits
  BY DEF ExecPermits, PermitsExact, AmbientRestored
<1>4. ExecPosition
  BY CostNone DEF ExecPosition
<1>5. ExecFlag
  BY DEF ExecFlag, NotYet
<1>6. ExecEnds
  BY DEF ExecEnds, SameAsWhole
<1> QED BY <1>2, <1>3, <1>4, <1>5, <1>6 DEF ExecInv

\* A program is admitted with its budget.
LEMMA AdmitHolds == ASSUME ExecInv, Admit PROVE ExecInv'
<1> USE ExecNumbers
<1>1. /\ UNCHANGED <<execMode, program, total, budget, yieldAt, threshold, ip, work, execOutcome, spent, since>>
      /\ execAt = "start" /\ flag' = (execMode = "file" /\ flag) /\ saved' = total /\ execAt' = "between"
  BY DEF Admit
<1>2. ExecTypeOK
  BY DEF ExecInv
<1>3. ExecTypeOK'
  BY <1>1, <1>2 DEF ExecTypeOK
<1>4. ExecPermits'
  BY <1>1, <1>2, ExecRanges DEF ExecInv, ExecPermits, PermitsExact, AmbientRestored
<1>5. ExecPosition'
  BY <1>1 DEF ExecInv, ExecPosition, CostOf
<1>6. ExecFlag'
  BY <1>1 DEF ExecInv, ExecFlag, ExecPermits
<1>7. ExecEnds'
  BY <1>1 DEF ExecInv, ExecEnds, SameAsWhole
<1> QED BY <1>3, <1>4, <1>5, <1>6, <1>7 DEF ExecInv

\* Ctrl-C.
LEMMA ExecInterruptHolds == ASSUME ExecInv, ExecInterrupt PROVE ExecInv'
<1> USE ExecNumbers
<1>1. /\ UNCHANGED <<execMode, program, total, execAt, saved, budget, yieldAt, threshold, ip, work, execOutcome, spent>>
      /\ execAt # "done" /\ ~flag /\ flag' = TRUE /\ since' = (IF execAt = "start" THEN NotRaised ELSE 0)
  BY DEF ExecInterrupt
<1>2. ExecTypeOK
  BY DEF ExecInv
<1>3. ExecTypeOK'
  BY <1>1, <1>2 DEF ExecTypeOK
<1>4. ExecPermits'
  BY <1>1 DEF ExecInv, ExecPermits, PermitsExact, AmbientRestored
<1>5. ExecPosition'
  BY <1>1 DEF ExecInv, ExecPosition, CostOf
<1>6. ExecFlag'
  <2>1. spent \in Nat /\ budget \in Nat /\ Window' = Window /\ execOutcome.how # "interrupted"
    BY <1>1, <1>2, ExecRanges DEF Window, ExecInv, ExecEnds, NotYet
  <2> QED BY <1>1, <2>1 DEF ExecInv, ExecFlag, ExecPermits
<1>7. ExecEnds'
  BY <1>1 DEF ExecInv, ExecEnds, SameAsWhole
<1> QED BY <1>3, <1>4, <1>5, <1>6, <1>7 DEF ExecInv

\* The next slice, or the next poll.
LEMMA ResumeHolds == ASSUME ExecInv, Resume PROVE ExecInv'
<1> USE ExecNumbers
<1>1. /\ UNCHANGED <<execMode, program, total, saved, ip, work, flag, execOutcome, spent, since>>
      /\ execAt \in {"between", "pending"} /\ budget' = saved /\ threshold' = Threshold(saved)
      /\ yieldAt' = 0 /\ execAt' = "running"
  BY DEF Resume
<1>2. ExecTypeOK
  BY DEF ExecInv
<1>3. Threshold(saved) \in 0..MaxBudget /\ saved \in 0..MaxBudget
  BY <1>2, ExecRanges DEF Threshold
<1>4. ExecTypeOK'
  BY <1>1, <1>2, <1>3 DEF ExecTypeOK
<1>5. ExecPermits'
  BY <1>1 DEF ExecInv, ExecPermits, PermitsExact, AmbientRestored
<1>6. ExecPosition'
  BY <1>1 DEF ExecInv, ExecPosition, CostOf
<1>7. ExecFlag'
  <2>1. execMode = "sliced" => saved <= Window'
    BY <1>1, <1>3 DEF Window, Threshold
  <2>2. execMode # "sliced" => threshold' = 0
    BY <1>1 DEF Threshold
  <2> HIDE DEF Window
  <2> QED BY <1>1, <1>3, <2>1, <2>2 DEF ExecInv, ExecFlag
<1>8. ExecEnds'
  BY <1>1 DEF ExecInv, ExecEnds, SameAsWhole
<1> QED BY <1>4, <1>5, <1>6, <1>7, <1>8 DEF ExecInv

\* The steps behind the next one cost what CostOf says, whatever is primed.
LEMMA CostKept == ASSUME program' = program, NEW n PROVE CostOf(n)' = CostOf(n)
  BY DEF CostOf

\* An execution that has ended.
LEMMA EndHolds ==
    ASSUME ExecInv, UNCHANGED <<execMode, program, total, threshold, flag>>,
           execAt \in {"running", "pending"}, execAt' = "done",
           ip' = ip, work' = work, saved' \in 0..MaxBudget, budget' = Unlimited, yieldAt' = 0,
           spent' \in 0..MaxBudget, spent' + saved' = total,
           execOutcome' \in Ending,
           since' \in 0..NotRaised,
           since' # NotRaised => since # NotRaised /\ since' <= spent',
           since # NotRaised => since' # NotRaised,
           execMode = "sliced" /\ since' # NotRaised => since' <= Slice,
           execOutcome'.how = "interrupted" => flag /\ (execMode = "file" => execAt = "pending"),
           execOutcome'.how # "interrupted" =>
              \/ execOutcome' = Whole
              \/ execMode # "sliced" /\ execOutcome'.how = "budget" /\ Whole.exhausted
    PROVE  ExecInv'
<1> USE ExecNumbers
<1>1. ExecTypeOK'
  BY DEF ExecInv, ExecTypeOK
<1>2. ExecPermits'
  BY DEF ExecPermits, PermitsExact, AmbientRestored
<1>3. ExecPosition'
  BY DEF ExecPosition
<1>4. ExecFlag'
  BY DEF ExecInv, ExecFlag
<1>5. ExecEnds'
  <2>1. Whole' = Whole
    BY DEF Whole, CostOf
  <2> QED BY <2>1 DEF ExecEnds, SameAsWhole
<1> QED BY <1>1, <1>2, <1>3, <1>4, <1>5 DEF ExecInv

\* One instruction of the outer machine.
LEMMA InstructionHolds == ASSUME ExecInv, Instruction PROVE ExecInv'
<1> USE ExecNumbers
<1>1. /\ UNCHANGED <<execMode, program, total, threshold, flag>>
      /\ execAt = "running" /\ work = 0 /\ ip <= Len(program) /\ budget > 0
      /\ ~(threshold # 0 /\ budget <= threshold)
      /\ spent' = spent + 1 /\ since' = (IF since = NotRaised THEN since ELSE since + 1)
  BY DEF Instruction, AtBoundary, Yields
<1>2. ExecTypeOK /\ program \in Program
  BY DEF ExecInv, ExecTypeOK
<1>3. /\ total \in 0..MaxBudget /\ saved \in 0..MaxBudget /\ spent \in 0..MaxBudget
      /\ threshold \in 0..MaxBudget /\ since \in 0..(MaxBudget + 1)
      /\ budget \in 1..MaxBudget /\ spent + budget = total
      /\ spent + 1 \in 0..MaxBudget /\ budget - 1 \in 0..MaxBudget /\ budget - 1 \in Nat
      /\ ip \in 1..Len(program) /\ ip \in Nat \ {0} /\ Len(program) \in Nat \ {0}
  <2>1. spent + budget = total
    BY <1>1 DEF ExecInv, ExecPermits, PermitsExact
  <2>2. /\ total \in 0..MaxBudget /\ saved \in 0..MaxBudget /\ spent \in 0..MaxBudget
        /\ budget \in 0..(MaxBudget + 1) /\ threshold \in 0..MaxBudget
        /\ ip \in Nat \ {0} /\ since \in 0..(MaxBudget + 1) /\ Len(program) \in Nat \ {0}
    BY <1>2, ExecRanges
  <2> QED BY <1>1, <2>1, <2>2
<1>4. /\ \A j \in 1..(ip - 1) : program[j].kind # "error"
      /\ spent = CostOf(ip - 1)
  BY <1>1 DEF ExecInv, ExecPosition
<1>5. CostOf(ip) = CostOf(ip - 1) + (1 + program[ip].cost)
  <2>1. ip - 1 \in 0..(Len(program) - 1) /\ (ip - 1) + 1 = ip
    BY <1>3
  <2> QED BY <1>2, <2>1, CostNext
<1>6. /\ program[ip].kind \in {"inst", "await", "error", "native", "nested"}
      /\ program[ip].cost \in 0..MaxCost
      /\ program[ip].kind \in {"native", "nested"} => program[ip].cost >= 1
      /\ program[ip].kind \notin {"native", "nested"} => program[ip].cost = 0
  BY <1>2, <1>3, ProgramFacts
<1>0. spent' + program[ip].cost = CostOf(ip) /\ spent' \in Nat
  <2> DEFINE c == program[ip].cost
  <2>1. c \in Nat
    BY <1>6
  <2>2. CostOf(ip) = spent + (1 + c) /\ spent' = spent + 1
    BY <1>1, <1>4, <1>5
  <2> HIDE DEF c
  <2>3. spent' + c = CostOf(ip) /\ spent' \in Nat
    BY <1>3, <2>1, <2>2
  <2> QED BY <2>3 DEF c
<1>7. /\ since # NotRaised => since <= spent /\ flag /\ since + 1 \in 0..MaxBudget
      /\ since' \in 0..NotRaised
      /\ since' # NotRaised => since # NotRaised /\ since' <= spent'
      /\ since # NotRaised => since' # NotRaised
      /\ execMode # "file" /\ flag => since # NotRaised
  BY <1>1, <1>3 DEF ExecInv, ExecFlag
<1>8. execMode = "sliced" =>
        /\ budget - 1 <= Window
        /\ since # NotRaised => since + 1 + (budget - 1) <= Window
        /\ since' # NotRaised => since' <= Slice
        /\ program[ip].kind # "await"
  <2> SUFFICES ASSUME execMode = "sliced"
               PROVE  /\ budget - 1 <= Window
                      /\ since # NotRaised => since + 1 + (budget - 1) <= Window
                      /\ since' # NotRaised => since' <= Slice
                      /\ program[ip].kind # "await"
    OBVIOUS
  <2>1. budget <= Window /\ (since # NotRaised => since + budget <= Window)
        /\ \A i \in DOMAIN program : program[i].kind # "await"
    BY <1>1 DEF ExecInv, ExecFlag
  <2>2. Window \in Nat /\ (threshold = 0 => Window = Slice) /\ (threshold # 0 => Window = threshold + Slice)
    BY <1>3 DEF Window
  <2>3. program[ip].kind # "await"
    BY <1>2, <1>3, <2>1, ExecRanges
  <2>4. budget - 1 <= Window /\ (since # NotRaised => since + 1 + (budget - 1) <= Window)
    BY <1>3, <2>1, <2>2
  <2>5. since' # NotRaised => since' <= Slice
    <3> HIDE DEF Window
    <3>1. CASE threshold = 0
      BY <1>1, <1>3, <1>7, <2>1, <2>2, <3>1
    <3>2. CASE threshold # 0
      BY <1>1, <1>3, <1>7, <2>1, <2>2, <3>2
    <3> QED BY <3>1, <3>2
  <2> QED BY <2>3, <2>4, <2>5
<1>9. Window' = Window
  BY <1>1 DEF Window
<1>10. execOutcome = NotYet /\ yieldAt = 0
  BY <1>1 DEF ExecInv, ExecEnds, ExecPermits
<1>11. CASE program[ip].kind = "inst"
  <2>1. ip' = ip + 1 /\ budget' = budget - 1 /\ UNCHANGED <<execAt, saved, work, execOutcome, yieldAt>>
    BY <1>11 DEF Instruction
  <2>2. ExecTypeOK'
    BY <1>1, <1>2, <1>3, <1>7, <2>1 DEF ExecTypeOK
  <2>3. ExecPermits'
    BY <1>1, <1>3, <1>10, <2>1 DEF ExecPermits, PermitsExact, AmbientRestored
  <2>4. ExecPosition'
    <3>1. ip' - 1 = ip /\ spent' = CostOf(ip)
      <4>1. program[ip].cost = 0
        BY <1>6, <1>11
      <4>2. spent' = CostOf(ip)
        BY <1>0, <4>1
      <4>3. ip' - 1 = ip
        BY <1>3, <2>1
      <4> QED BY <4>2, <4>3
    <3>2. \A j \in 1..ip : program[j].kind # "error"
      BY <1>3, <1>4, <1>11
    <3> QED BY <1>1, <2>1, <3>1, <3>2, CostKept DEF ExecPosition
  <2>5. ExecFlag'
    <3> HIDE DEF Window
    <3> QED BY <1>1, <1>3, <1>7, <1>8, <1>9, <1>10, <2>1 DEF ExecInv, ExecFlag, NotYet
  <2>6. ExecEnds'
    BY <1>1, <1>10, <2>1 DEF ExecEnds, SameAsWhole
  <2> QED BY <2>2, <2>3, <2>4, <2>5, <2>6 DEF ExecInv
<1>12. CASE program[ip].kind \in {"native", "nested"}
  <2>1. work' = program[ip].cost /\ budget' = budget - 1
        /\ UNCHANGED <<execAt, saved, ip, execOutcome, yieldAt>>
    BY <1>12 DEF Instruction
  <2>2. ExecTypeOK'
    BY <1>1, <1>2, <1>3, <1>6, <1>7, <2>1 DEF ExecTypeOK
  <2>3. ExecPermits'
    BY <1>1, <1>3, <1>10, <2>1 DEF ExecPermits, PermitsExact, AmbientRestored
  <2>4. ExecPosition'
    <3>1. spent' + work' = CostOf(ip) /\ work' # 0
      BY <1>0, <1>6, <1>12, <2>1
    <3> QED BY <1>1, <1>4, <1>6, <1>12, <2>1, <3>1, CostKept DEF ExecPosition
  <2>5. ExecFlag'
    <3> HIDE DEF Window
    <3> QED BY <1>1, <1>3, <1>7, <1>8, <1>9, <1>10, <2>1 DEF ExecInv, ExecFlag, NotYet
  <2>6. ExecEnds'
    BY <1>1, <1>10, <2>1 DEF ExecEnds, SameAsWhole
  <2> QED BY <2>2, <2>3, <2>4, <2>5, <2>6 DEF ExecInv
<1>13. CASE program[ip].kind = "await"
  <2>1. /\ ip' = ip + 1 /\ saved' = budget - 1 /\ execAt' = "pending" /\ budget' = Unlimited
        /\ yieldAt' = 0 /\ UNCHANGED <<work, execOutcome>>
    BY <1>13 DEF Instruction, Restore
  <2>2. ExecTypeOK'
    BY <1>1, <1>2, <1>3, <1>7, <2>1 DEF ExecTypeOK
  <2>3. ExecPermits'
    BY <1>1, <1>3, <2>1 DEF ExecPermits, PermitsExact, AmbientRestored
  <2>4. ExecPosition'
    <3>1. ip' - 1 = ip /\ spent' = CostOf(ip)
      <4>1. program[ip].cost = 0
        BY <1>6, <1>13
      <4>2. spent' = CostOf(ip)
        BY <1>0, <4>1
      <4>3. ip' - 1 = ip
        BY <1>3, <2>1
      <4> QED BY <4>2, <4>3
    <3>2. \A j \in 1..ip : program[j].kind # "error"
      BY <1>3, <1>4, <1>13
    <3> QED BY <1>1, <2>1, <3>1, <3>2, CostKept DEF ExecPosition
  <2>5. ExecFlag'
    <3>1. execMode # "sliced"
      BY <1>8, <1>13
    <3>2. ip' - 1 = ip /\ ip' > 1 /\ program' = program
      BY <1>1, <1>3, <2>1
    <3>3. program'[ip' - 1].kind = "await"
      BY <1>13, <3>2
    <3> QED BY <1>1, <1>3, <1>7, <1>10, <2>1, <3>1, <3>2, <3>3 DEF ExecInv, ExecFlag, NotYet
  <2>6. ExecEnds'
    BY <1>1, <1>10, <2>1 DEF ExecEnds, SameAsWhole
  <2> QED BY <2>2, <2>3, <2>4, <2>5, <2>6 DEF ExecInv
<1>14. CASE program[ip].kind = "error"
  <2>1. /\ saved' = budget - 1 /\ execAt' = "done" /\ budget' = Unlimited /\ yieldAt' = 0
        /\ execOutcome' = [how |-> "failed", exhausted |-> budget = 1] /\ UNCHANGED <<ip, work>>
    BY <1>14 DEF Instruction, End, Restore
  <2>2. total \in Nat /\ total >= CostOf(ip) /\ (total = CostOf(ip) <=> budget = 1)
    BY ONLY <1>3, <1>4, <1>5, <1>6, <1>14, SMTT(30)
  <2>3. Whole = [how |-> "failed", exhausted |-> total = CostOf(ip)]
    BY <1>2, <1>3, <1>4, <1>14, <2>2, WholeFails
  <2>4. (budget = 1) = (total = CostOf(ip))
    BY <2>2
  <2>5. execOutcome' = Whole /\ execOutcome' \in Ending /\ execOutcome'.how # "interrupted"
    BY <2>1, <2>3, <2>4 DEF Ending
  <2>6. /\ execAt \in {"running", "pending"} /\ saved' \in 0..MaxBudget
        /\ spent' \in 0..MaxBudget /\ spent' + saved' = total
    BY <1>1, <1>3, <2>1
  <2> QED BY <1>1, <1>7, <1>8, <2>1, <2>5, <2>6, EndHolds
<1> QED BY <1>6, <1>11, <1>12, <1>13, <1>14

\* One permit of a native loop, or one instruction of a nested machine.
LEMMA InnerHolds == ASSUME ExecInv, Inner PROVE ExecInv'
<1> USE ExecNumbers
<1>1. /\ UNCHANGED <<execMode, program, total, execAt, saved, yieldAt, threshold, flag, execOutcome, since>>
      /\ execAt = "running" /\ work > 0 /\ budget > 0 /\ budget' = budget - 1 /\ spent' = spent + 1
      /\ work' = work - 1 /\ ip' = (IF work = 1 THEN ip + 1 ELSE ip)
  BY DEF Inner
<1>2. ExecTypeOK /\ program \in Program
  BY DEF ExecInv, ExecTypeOK
<1>3. /\ ip \in Nat \ {0} /\ Len(program) \in Nat \ {0} /\ work \in 1..MaxCost /\ budget \in 1..MaxBudget
      /\ spent \in Nat /\ spent + 1 \in 0..MaxBudget /\ spent + budget = total /\ total \in Nat
      /\ since \in 0..(MaxBudget + 1) /\ threshold \in Nat
  <2>1. spent + budget = total
    BY <1>1 DEF ExecInv, ExecPermits, PermitsExact
  <2>2. /\ total \in 0..MaxBudget /\ spent \in 0..MaxBudget
        /\ budget \in 0..(MaxBudget + 1) /\ threshold \in 0..MaxBudget /\ work \in 0..MaxCost
        /\ ip \in Nat \ {0} /\ since \in 0..(MaxBudget + 1) /\ Len(program) \in Nat \ {0}
    BY <1>2, ExecRanges
  <2> QED BY <1>1, <2>1, <2>2
<1>4. /\ \A j \in 1..(ip - 1) : program[j].kind # "error"
      /\ ip <= Len(program) /\ work <= program[ip].cost
      /\ program[ip].kind \in {"native", "nested"} /\ spent + work = CostOf(ip)
  BY <1>1, <1>3 DEF ExecInv, ExecPosition
<1>5. ExecTypeOK'
  BY <1>1, <1>2, <1>3, <1>4 DEF ExecTypeOK
<1>6. ExecPermits'
  BY <1>1, <1>3 DEF ExecInv, ExecPermits, PermitsExact, AmbientRestored
<1>7. ExecPosition'
  <2>1. CASE work = 1
    <3>1. ip' - 1 = ip /\ spent' = CostOf(ip) /\ work' = 0
      BY <1>1, <1>3, <1>4, <2>1
    <3>2. \A j \in 1..ip : program[j].kind # "error"
      BY <1>3, <1>4
    <3> QED BY <1>1, <3>1, <3>2, CostKept DEF ExecPosition
  <2>2. CASE work # 1
    <3>1. ip' = ip /\ spent' + work' = CostOf(ip) /\ work' # 0 /\ work' <= program[ip].cost
      <4>1. program[ip].cost \in 0..MaxCost
        BY <1>2, <1>3, <1>4, ProgramFacts
      <4>2. ip' = ip /\ spent' = spent + 1 /\ work' = work - 1
        BY <1>1, <2>2
      <4>3. spent' + work' = spent + work /\ work' # 0 /\ work' <= work
        BY ONLY <1>3, <2>2, <4>2, ExecNumbers
      <4> QED BY ONLY <1>3, <1>4, <4>1, <4>2, <4>3, ExecNumbers
    <3> QED BY <1>1, <1>4, <3>1, CostKept DEF ExecPosition
  <2> QED BY <2>1, <2>2
<1>8. ExecFlag'
  <2>1. Window' = Window /\ Window \in Nat
    BY <1>1, <1>3 DEF Window
  <2>2. execOutcome'.how # "interrupted"
    BY <1>1 DEF ExecInv, ExecEnds, NotYet
  <2> HIDE DEF Window
  <2> QED BY <1>1, <1>3, <2>1, <2>2 DEF ExecInv, ExecFlag
<1>9. ExecEnds'
  BY <1>1 DEF ExecInv, ExecEnds, SameAsWhole
<1> QED BY <1>5, <1>6, <1>7, <1>8, <1>9 DEF ExecInv

\* A native loop without a permit, or a nested machine that halts.
LEMMA InnerHaltsHolds == ASSUME ExecInv, InnerHalts PROVE ExecInv'
<1> USE ExecNumbers
<1>1. /\ UNCHANGED <<execMode, program, total, threshold, ip, work, flag, spent, since>>
      /\ execAt = "running" /\ work > 0 /\ saved' = budget /\ (NestedYields \/ budget = 0)
      /\ budget' = Unlimited /\ yieldAt' = 0 /\ execAt' = "done"
      /\ \/ execOutcome' = [how |-> "failed", exhausted |-> budget = 0]
         \/ execMode # "sliced" /\ execOutcome' = [how |-> "budget", exhausted |-> FALSE]
  BY DEF InnerHalts, End, Restore
<1>2. ExecTypeOK /\ program \in Program
  BY DEF ExecInv, ExecTypeOK
<1>3. budget = 0
  BY <1>1 DEF NestedYields, ExecInv, ExecPermits
<1>4. /\ ip \in Nat \ {0} /\ Len(program) \in Nat \ {0} /\ work \in 1..MaxCost
      /\ spent = total /\ total \in 0..MaxBudget /\ total \in Nat /\ since \in 0..(MaxBudget + 1)
  <2>1. spent + budget = total
    BY <1>1 DEF ExecInv, ExecPermits, PermitsExact
  <2>2. /\ total \in 0..MaxBudget /\ spent \in 0..MaxBudget /\ work \in 0..MaxCost
        /\ ip \in Nat \ {0} /\ since \in 0..(MaxBudget + 1) /\ Len(program) \in Nat \ {0}
    BY <1>2, ExecRanges
  <2> QED BY <1>1, <1>3, <2>1, <2>2
<1>5. /\ \A j \in 1..(ip - 1) : program[j].kind # "error"
      /\ ip <= Len(program) /\ work <= program[ip].cost /\ spent + work = CostOf(ip)
  BY <1>1, <1>4 DEF ExecInv, ExecPosition
<1>6. ip \in 1..Len(program) /\ CostOf(ip) = CostOf(ip - 1) + (1 + program[ip].cost)
      /\ CostOf(ip - 1) \in Nat /\ program[ip].cost \in Nat
  <2>1. ip \in 1..Len(program) /\ ip - 1 \in 0..(Len(program) - 1) /\ (ip - 1) + 1 = ip
        /\ ip - 1 \in 0..Len(program)
    BY <1>4, <1>5
  <2>2. CostOf(ip) = CostOf(ip - 1) + (1 + program[ip].cost)
    BY <1>2, <2>1, CostNext
  <2>3. CostOf(ip - 1) \in Nat
    BY <1>2, <2>1, CostGrows
  <2>4. program[ip].cost \in 0..MaxCost
    BY <1>2, <2>1, ProgramFacts
  <2> QED BY <2>1, <2>2, <2>3, <2>4
<1>7. CostOf(ip - 1) < total /\ total < CostOf(ip)
  <2> DEFINE c == program[ip].cost
             b == CostOf(ip - 1)
  <2>1. c \in Nat /\ b \in Nat /\ work <= c /\ total + work = b + (1 + c)
    BY <1>4, <1>5, <1>6
  <2>2. total < CostOf(ip)
    <3>1. CostOf(ip) = total + work
      BY <1>4, <1>5
    <3> QED BY <1>4, <3>1
  <2> HIDE DEF c, b
  <2>3. b < total
    BY <1>4, <2>1
  <2> QED BY <2>2, <2>3 DEF b
<1>8. Whole = [how |-> "failed", exhausted |-> TRUE]
  <2>1. CostOf(ip - 1) <= total /\ total # CostOf(ip - 1)
    BY <1>4, <1>6, <1>7
  <2> QED BY <1>2, <1>4, <1>5, <1>6, <1>7, <2>1, WholeShort
<1>9. /\ execOutcome' \in Ending /\ execOutcome'.how # "interrupted"
      /\ \/ execOutcome' = Whole
         \/ execMode # "sliced" /\ execOutcome'.how = "budget" /\ Whole.exhausted
  <2>1. CASE execOutcome' = [how |-> "failed", exhausted |-> budget = 0]
    <3>1. (budget = 0) = TRUE
      BY <1>3
    <3>2. execOutcome' = [how |-> "failed", exhausted |-> TRUE]
      BY <2>1, <3>1
    <3> QED BY <1>8, <3>2 DEF Ending
  <2>2. CASE execMode # "sliced" /\ execOutcome' = [how |-> "budget", exhausted |-> FALSE]
    BY <1>8, <2>2 DEF Ending
  <2> QED BY <1>1, <2>1, <2>2
<1>10. /\ execAt \in {"running", "pending"} /\ saved' \in 0..MaxBudget
       /\ spent' \in 0..MaxBudget /\ spent' + saved' = total /\ since' \in 0..NotRaised
  BY <1>1, <1>3, <1>4
<1>11. /\ since' # NotRaised => since # NotRaised /\ since' <= spent'
       /\ since # NotRaised => since' # NotRaised
       /\ execMode = "sliced" /\ since' # NotRaised => since' <= Slice
  BY <1>1 DEF ExecInv, ExecFlag
<1> QED BY <1>1, <1>9, <1>10, <1>11, EndHolds

\* The outer machine stops between two instructions.
LEMMA LimitedHolds == ASSUME ExecInv, Limited PROVE ExecInv'
<1> USE ExecNumbers
<1>1. /\ UNCHANGED <<execMode, program, total, threshold, ip, work, flag, spent, since>>
      /\ execAt = "running" /\ work = 0 /\ ip <= Len(program) /\ saved' = budget
      /\ (threshold # 0 /\ budget <= threshold) \/ budget = 0
      /\ budget' = Unlimited /\ yieldAt' = 0
  BY DEF Limited, AtBoundary, Yields, End, Restore
<1>2. ExecTypeOK /\ program \in Program
  BY DEF ExecInv, ExecTypeOK
<1>3. /\ ip \in 1..Len(program) /\ Len(program) \in Nat \ {0} /\ ip \in Nat
      /\ spent + budget = total /\ total \in 0..MaxBudget /\ total \in Nat /\ budget \in 0..MaxBudget
      /\ spent \in 0..MaxBudget /\ since \in 0..(MaxBudget + 1)
  <2>1. spent + budget = total
    BY <1>1 DEF ExecInv, ExecPermits, PermitsExact
  <2>2. /\ total \in 0..MaxBudget /\ spent \in 0..MaxBudget /\ budget \in 0..(MaxBudget + 1)
        /\ ip \in Nat \ {0} /\ since \in 0..(MaxBudget + 1) /\ Len(program) \in Nat \ {0}
    BY <1>2, ExecRanges
  <2> QED BY <1>1, <2>1, <2>2
<1>4. /\ execAt \in {"running", "pending"} /\ saved' \in 0..MaxBudget
      /\ spent' \in 0..MaxBudget /\ spent' + saved' = total /\ since' \in 0..NotRaised
  BY <1>1, <1>3
<1>5. /\ since' # NotRaised => since # NotRaised /\ since' <= spent'
      /\ since # NotRaised => since' # NotRaised
      /\ execMode = "sliced" /\ since' # NotRaised => since' <= Slice
      /\ execMode # "sliced" => threshold = 0
  BY <1>1 DEF ExecInv, ExecFlag
<1>6. ASSUME budget = 0 PROVE Whole = [how |-> "budget", exhausted |-> FALSE]
  <2>1. /\ \A j \in 1..(ip - 1) : program[j].kind # "error"
        /\ spent = CostOf(ip - 1)
    BY <1>1 DEF ExecInv, ExecPosition
  <2>2. ip - 1 \in 0..Len(program) /\ ip \in 0..Len(program) /\ ip - 1 < ip
    BY <1>3
  <2>3. CostOf(ip - 1) < CostOf(ip) /\ CostOf(ip - 1) \in Nat
    BY <1>2, <2>2, CostGrows
  <2>4. total = CostOf(ip - 1) /\ CostOf(ip - 1) <= total /\ total < CostOf(ip)
    BY <1>3, <1>6, <2>1, <2>3
  <2> QED BY <1>2, <1>3, <2>1, <2>4, WholeShort
<1>7. CASE execMode = "sliced" /\ flag /\ End("interrupted", FALSE)
  <2>1. execAt' = "done" /\ execOutcome' = [how |-> "interrupted", exhausted |-> FALSE]
    BY <1>7 DEF End
  <2>2. execOutcome' \in Ending /\ execOutcome'.how = "interrupted" /\ flag /\ execMode # "file"
    BY <1>7, <2>1 DEF Ending
  <2> QED BY <1>1, <1>4, <1>5, <2>1, <2>2, EndHolds
<1>8. CASE budget = 0 /\ End("budget", FALSE)
  <2>1. execAt' = "done" /\ execOutcome' = [how |-> "budget", exhausted |-> FALSE]
    BY <1>8 DEF End
  <2>2. execOutcome' \in Ending /\ execOutcome'.how # "interrupted" /\ execOutcome' = Whole
    BY <1>6, <1>8, <2>1 DEF Ending
  <2> QED BY <1>1, <1>4, <1>5, <2>1, <2>2, EndHolds
<1>9. CASE execMode = "sliced" /\ ~flag /\ execAt' = "between" /\ UNCHANGED execOutcome
  <2>1. since = NotRaised
    BY <1>9 DEF ExecInv, ExecFlag
  <2>2. ExecTypeOK'
    BY <1>1, <1>2, <1>4, <1>9 DEF ExecTypeOK
  <2>3. ExecPermits'
    BY <1>1, <1>3, <1>4, <1>9 DEF ExecPermits, PermitsExact, AmbientRestored
  <2>4. ExecPosition'
    BY <1>1, <1>9, CostKept DEF ExecInv, ExecPosition
  <2>5. ExecFlag'
    BY <1>1, <1>9, <2>1 DEF ExecInv, ExecFlag
  <2>6. ExecEnds'
    BY <1>1, <1>9 DEF ExecInv, ExecEnds, SameAsWhole
  <2> QED BY <2>2, <2>3, <2>4, <2>5, <2>6 DEF ExecInv
<1>10. CASE execMode # "sliced" /\ End("budget", FALSE)
  <2>1. budget = 0
    BY <1>1, <1>5, <1>10
  <2> QED BY <1>8, <1>10, <2>1
<1> QED BY <1>7, <1>8, <1>9, <1>10 DEF Limited

\* The program returns.
LEMMA ExecExitHolds == ASSUME ExecInv, ExecExit PROVE ExecInv'
<1> USE ExecNumbers
<1>1. /\ UNCHANGED <<execMode, program, total, threshold, ip, work, flag, spent, since>>
      /\ execAt = "running" /\ work = 0 /\ ip > Len(program) /\ saved' = budget
      /\ budget' = Unlimited /\ yieldAt' = 0 /\ execAt' = "done"
      /\ \/ flag /\ execMode # "file" /\ execOutcome' = [how |-> "interrupted", exhausted |-> FALSE]
         \/ execOutcome' = [how |-> "complete", exhausted |-> FALSE]
  BY DEF ExecExit, End, Restore
<1>2. ExecTypeOK /\ program \in Program
  BY DEF ExecInv, ExecTypeOK
<1>3. /\ ip = Len(program) + 1 /\ Len(program) \in Nat \ {0}
      /\ spent + budget = total /\ total \in 0..MaxBudget /\ total \in Nat /\ budget \in 0..MaxBudget
      /\ spent \in 0..MaxBudget /\ since \in 0..(MaxBudget + 1)
  <2>1. spent + budget = total
    BY <1>1 DEF ExecInv, ExecPermits, PermitsExact
  <2>2. /\ total \in 0..MaxBudget /\ spent \in 0..MaxBudget /\ budget \in 0..(MaxBudget + 1)
        /\ ip \in Nat \ {0} /\ since \in 0..(MaxBudget + 1) /\ Len(program) \in Nat \ {0}
        /\ ip <= Len(program) + 1
    BY <1>2, ExecRanges
  <2> QED BY <1>1, <2>1, <2>2
<1>4. /\ execAt \in {"running", "pending"} /\ saved' \in 0..MaxBudget
      /\ spent' \in 0..MaxBudget /\ spent' + saved' = total /\ since' \in 0..NotRaised
  BY <1>1, <1>3
<1>5. /\ since' # NotRaised => since # NotRaised /\ since' <= spent'
      /\ since # NotRaised => since' # NotRaised
      /\ execMode = "sliced" /\ since' # NotRaised => since' <= Slice
  BY <1>1 DEF ExecInv, ExecFlag
<1>6. Whole = [how |-> "complete", exhausted |-> FALSE]
  <2>1. /\ \A j \in 1..(ip - 1) : program[j].kind # "error"
        /\ spent = CostOf(ip - 1)
    BY <1>1 DEF ExecInv, ExecPosition
  <2>2. ip - 1 = Len(program)
    BY <1>3
  <2>3. total >= CostOf(Len(program))
    <3>1. spent = CostOf(Len(program))
      BY <2>1, <2>2
    <3>2. total >= spent
      BY <1>3
    <3> QED BY <3>1, <3>2
  <2> QED BY <1>2, <1>3, <2>1, <2>2, <2>3, WholeComplete
<1>7. /\ execOutcome' \in Ending
      /\ execOutcome'.how = "interrupted" => flag /\ execMode # "file"
      /\ execOutcome'.how # "interrupted" => execOutcome' = Whole
  <2>1. CASE flag /\ execMode # "file" /\ execOutcome' = [how |-> "interrupted", exhausted |-> FALSE]
    BY <2>1 DEF Ending
  <2>2. CASE execOutcome' = [how |-> "complete", exhausted |-> FALSE]
    <3>1. execOutcome' = Whole /\ execOutcome'.how = "complete"
      BY <2>2, <1>6
    <3>2. execOutcome' \in Ending
      BY <2>2 DEF Ending
    <3> QED BY <3>1, <3>2
  <2> QED BY <1>1, <2>1, <2>2
<1> QED BY <1>1, <1>4, <1>5, <1>7, EndHolds

\* The cadence of Watched finds the flag.
LEMMA TickHolds == ASSUME ExecInv, Tick PROVE ExecInv'
<1> USE ExecNumbers
<1>1. /\ UNCHANGED <<execMode, program, total, saved, threshold, ip, work, flag, spent, since>>
      /\ execAt = "pending" /\ flag
      /\ budget' = Unlimited /\ yieldAt' = 0 /\ execAt' = "done"
      /\ execOutcome' = [how |-> "interrupted", exhausted |-> FALSE]
  BY DEF Tick, End, Restore
<1>2. ExecTypeOK
  BY DEF ExecInv
<1>3. /\ execAt \in {"running", "pending"} /\ saved' \in 0..MaxBudget
      /\ spent' \in 0..MaxBudget /\ since' \in 0..NotRaised
  BY <1>1, <1>2, ExecRanges
<1>4. spent' + saved' = total
  BY <1>1 DEF ExecInv, ExecPermits, PermitsExact
<1>5. /\ since' # NotRaised => since # NotRaised /\ since' <= spent'
      /\ since # NotRaised => since' # NotRaised
      /\ execMode = "sliced" /\ since' # NotRaised => since' <= Slice
  BY <1>1 DEF ExecInv, ExecFlag
<1>6. execOutcome' \in Ending /\ execOutcome'.how = "interrupted"
  BY <1>1 DEF Ending
<1> QED BY <1>1, <1>3, <1>4, <1>5, <1>6, EndHolds

\* Every step keeps the invariant.
LEMMA ExecStepHolds == ExecInv /\ [ExecNext]_execVars => ExecInv'
<1> SUFFICES ASSUME ExecInv, [ExecNext]_execVars PROVE ExecInv'
  OBVIOUS
<1>1. CASE UNCHANGED execVars
  <2>1. /\ UNCHANGED <<execMode, program, total, execAt, saved, budget, yieldAt, threshold, ip>>
        /\ UNCHANGED <<work, flag, execOutcome, spent, since>>
    BY <1>1 DEF execVars
  <2>2. ExecTypeOK'
    BY <2>1 DEF ExecInv, ExecTypeOK
  <2>3. ExecPermits' /\ ExecFlag'
    BY <2>1 DEF ExecInv, ExecPermits, PermitsExact, AmbientRestored, ExecFlag, Window
  <2>4. ExecPosition'
    BY <2>1, CostKept DEF ExecInv, ExecPosition
  <2>5. ExecEnds'
    <3>1. Whole' = Whole
      BY <2>1 DEF Whole, CostOf
    <3> QED BY <2>1, <3>1 DEF ExecInv, ExecEnds, SameAsWhole
  <2> QED BY <2>2, <2>3, <2>4, <2>5 DEF ExecInv
<1> QED
  BY <1>1, AdmitHolds, ExecInterruptHolds, ResumeHolds, InstructionHolds, InnerHolds,
     InnerHaltsHolds, LimitedHolds, ExecExitHolds, TickHolds DEF ExecNext

\* execute and its slices, for every budget, slice and program: however it is cut and
\* whenever it is polled, a program ends as it would in one piece, every permit is counted
\* once, Ctrl-C is seen within a slice, ends a session's input only if it came during that
\* input and a file only while it waits, and the thread is left without a budget.
THEOREM ExecutionIsWhole == ExecSpec => []ExecutionSound
<1>1. ExecInv => ExecutionSound
  BY DEF ExecInv, ExecutionSound, ExecPermits, ExecEnds, ExecFlag, InterruptPrompt
<1> QED BY <1>1, ExecInitially, ExecStepHolds, PTL DEF ExecSpec

=============================================================================
