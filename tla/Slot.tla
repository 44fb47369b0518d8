-------------------------------- MODULE Slot --------------------------------
(***************************************************************************)
(* Reusable invocation slots, src/server.rs, over the lifecycle that each  *)
(* of them owns (module Lifecycle; a slot is a context).                   *)
(*                                                                         *)
(* The host holds slots.  `prepare` turns one into a call, `run` executes  *)
(* the handler once, and `close` gives the slot back or retires it.  The   *)
(* future of `run` may be dropped at any time, and so may the call.        *)
(* Values of the script may outlive all of this: Tracked values kept       *)
(* elsewhere are polled and dropped whenever their holder likes.           *)
(***************************************************************************)
EXTENDS Lifecycle

VARIABLES
    place,    \* who has the slot: "unmade", "pool", "call", "retired"
    stage,    \* SlotInvocation.stage
    cause,    \* category of SlotInvocation.failure, or "none"
    cleanup,  \* SlotInvocation.cleanup is Some
    base      \* history: State.next when the call was prepared

slotCallVars == <<place, stage, cause, cleanup, base>>
slotVars == <<vars, slotCallVars>>

SlotTypeOK ==
    /\ TypeOK
    /\ place \in [Context -> {"unmade", "pool", "call", "retired"}]
    /\ stage \in [Context -> {"Ready", "Begun", "Done"}]
    /\ cause \in [Context -> {"none", "vm", "cancelled", "cleanup"}]
    /\ cleanup \in [Context -> BOOLEAN]
    /\ base \in [Context -> 1 .. Max]

SlotInit ==
    /\ Init
    /\ place = [c \in Context |-> "unmade"]
    /\ stage = [c \in Context |-> "Done"]
    /\ cause = [c \in Context |-> "none"]
    /\ cleanup = [c \in Context |-> FALSE]
    /\ base = [c \in Context |-> 1]

\* Lifecycle::reusable once the step at hand is done; `failed` if that step fails
\* the context.
Reusable(c, failed) ==
    ~active[c] /\ Live(c) /\ generation[c] < Max /\ ~failure[c] /\ ~failed

----------------------------------------------------------------------------
\* Program::slot
Make(c) ==
    /\ place[c] = "unmade"
    /\ New(c)
    /\ place' = [place EXCEPT ![c] = "pool"]
    /\ UNCHANGED <<stage, cause, cleanup, base>>

\* Slot::prepare, of a budget within its limits.
Prepare(c) ==
    /\ place[c] = "pool"
    /\ place' = [place EXCEPT ![c] = "call"]
    /\ stage' = [stage EXCEPT ![c] = "Ready"]
    /\ cause' = [cause EXCEPT ![c] = "none"]
    /\ cleanup' = [cleanup EXCEPT ![c] = FALSE]
    /\ base' = [base EXCEPT ![c] = next[c]]
    /\ UNCHANGED vars

\* Slot::retire_unless_healthy and Owner::close, once the operations K are
\* disposed of.
Retire(c, K, panics) ==
    /\ Dispose(c, K \cup Revocable(c, TRUE), panics)
    /\ status' = [status EXCEPT ![c] = "retired"]
    /\ place' = [place EXCEPT ![c] = "retired"]

HandBack(c, K) ==
    /\ Dispose(c, K, FALSE)
    /\ place' = [place EXCEPT ![c] = "pool"]
    /\ UNCHANGED status

\* Slot::prepare, of any other budget: the arguments are dropped, and with them
\* perhaps the last references to the operations in K.
PrepareRefused(c, K, panics) ==
    /\ place[c] = "pool"
    /\ K \subseteq handle[c]
    /\ handle' = [handle EXCEPT ![c] = @ \ K]
    /\ IF Reusable(c, panics) THEN HandBack(c, K) ELSE Retire(c, K, panics)
    /\ outcome' = "failed"
    /\ UNCHANGED <<generation, active, next, stamp, touched, stage, cause, cleanup, base>>

\* SlotInvocation::run, its first poll.
Run(c) ==
    /\ place[c] = "call"
    /\ stage[c] = "Ready"
    /\ IF Reusable(c, FALSE)
       THEN /\ Begin(c)
            /\ stage' = [stage EXCEPT ![c] = "Begun"]
            /\ UNCHANGED <<cause, cleanup>>
       ELSE /\ BeginRefused(c)
            /\ stage' = [stage EXCEPT ![c] = "Done"]
            /\ cause' = [cause EXCEPT ![c] = "cleanup"]
            /\ cleanup' = [cleanup EXCEPT ![c] = TRUE]
    /\ UNCHANGED <<place, base>>

\* SlotFinish::finish (the handler returned, `why` is "none" or "vm") and
\* SlotFinish::drop (the future of run was dropped, "cancelled").
RunEnds(c, why, panics) ==
    /\ place[c] = "call"
    /\ stage[c] = "Begun"
    /\ Finish(c, why # "none", panics)
    /\ stage' = [stage EXCEPT ![c] = "Done"]
    /\ cause' = [cause EXCEPT ![c] = IF outcome' = "failed" THEN "cleanup" ELSE why]
    /\ cleanup' = [cleanup EXCEPT ![c] = outcome' = "failed"]
    /\ UNCHANGED <<place, base>>

\* Mutant of CloseCall: an ordinary close returns without clear.
CloseCallUncleared(c, panics) ==
    /\ place[c] = "call"
    /\ stage[c] # "Begun"
    /\ IF ~cleanup[c] /\ Reusable(c, panics)
       THEN ~panics /\ HandBack(c, {})
       ELSE Retire(c, {}, panics)
    /\ outcome' = "ok"
    /\ UNCHANGED <<generation, active, next, handle, stamp, touched, stage, cause, cleanup, base>>

\* SlotInvocation::close: clear, then the cleanup failure of the run or of this
\* clear retires the slot, and so does a context that cannot serve again.
CloseCall(c, panics) ==
    /\ place[c] = "call"
    /\ stage[c] # "Begun"
    /\ IF ~cleanup[c] /\ Reusable(c, panics)
       THEN HandBack(c, Revocable(c, TRUE))
       ELSE Retire(c, {}, panics)
    /\ outcome' = IF cleanup[c] \/ ~Reusable(c, panics) THEN "failed" ELSE "ok"
    /\ UNCHANGED <<generation, active, next, handle, stamp, touched, stage, cause, cleanup, base>>

\* Drop of a SlotInvocation that was not closed.
DropCall(c, panics) ==
    /\ place[c] = "call"
    /\ stage[c] # "Begun"
    /\ Retire(c, {}, panics)
    /\ outcome' = "dropped"
    /\ UNCHANGED <<generation, active, next, handle, stamp, touched, stage, cause, cleanup, base>>

\* What the script does: it starts operations only while it executes, and what
\* it or anyone else kept of them is polled and dropped at any time.
ScriptStep(c) ==
    /\ \/ stage[c] = "Begun" /\ (Track(c) \/ \E panics \in BOOLEAN : TrackExhausted(c, panics))
       \/ \E k \in Key :
             \/ PollCancelled(c, k)
             \/ PollPending(c, k)
             \/ \E panics \in BOOLEAN :
                   \/ PollRetired(c, k, panics)
                   \/ PollReady(c, k, panics)
                   \/ DropTracked(c, k, panics)
    /\ UNCHANGED slotCallVars

SlotNext ==
    \E c \in Context :
        \/ Make(c) \/ Prepare(c) \/ Run(c) \/ ScriptStep(c)
        \/ \E panics \in BOOLEAN :
              \/ CloseCall(c, panics)
              \/ DropCall(c, panics)
              \/ \E why \in {"none", "vm", "cancelled"} : RunEnds(c, why, panics)
              \/ \E K \in SUBSET Key : PrepareRefused(c, K, panics)

SlotSpec == SlotInit /\ [][SlotNext]_slotVars

----------------------------------------------------------------------------
(* Properties *)

\* Slot, "at every request boundary close revokes every operation the slot
\* owns": a slot in the pool can serve (its next begin succeeds) and holds no
\* native future, although the callers may have kept values of every earlier
\* request and go on polling them.
PooledIsClean ==
    \A c \in Context : place[c] = "pool" =>
        /\ held[c] = {} /\ owners[c] = {}
        /\ Live(c) /\ ~active[c] /\ ~failure[c] /\ generation[c] < Max

\* A native future that exists during a call was started by this call: nothing
\* of an earlier request is alive in it, whatever way that request ended.
NoCarryOver ==
    \A c \in Context : place[c] = "call" => \A k \in held[c] : k >= base[c]

\* Stage: "finish happens exactly once".  An execution of a slot's lifecycle is open
\* exactly while a call is between the first poll of its run and its end.
FinishedOnce ==
    \A c \in Context : place[c] # "unmade" =>
        (active[c] <=> place[c] = "call" /\ stage[c] = "Begun")

\* Slot: requests that share a slot share nothing else.  What the pool holds is clean, what
\* a call holds is its own, and every execution that was begun is finished once.
RequestsIsolated == SlotTypeOK /\ PooledIsClean /\ NoCarryOver /\ FinishedOnce

=============================================================================
