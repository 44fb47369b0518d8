----------------------------- MODULE Lifecycle -----------------------------
(***************************************************************************)
(* Ownership of native operations by serving contexts, src/lifecycle.rs.   *)
(*                                                                         *)
(* A serving context (a session, a server slot, one `rnx run`) owns a      *)
(* Lifecycle.  Extensions hand native futures to Scope::track; the script  *)
(* holds the Tracked value it gets back, for as long as it likes and also  *)
(* after the execution that created it.  The context keeps a registry of   *)
(* weak references to the owners, so that it can take the native future    *)
(* away from under the script: the ones a failed execution polled, or all  *)
(* of them on reset and teardown.  A destructor of a native future may     *)
(* panic; the first such panic is the context's failure.                   *)
(*                                                                         *)
(* Everything happens on the thread of the contexts, so an operation is    *)
(* one step.                                                               *)
(***************************************************************************)
EXTENDS Naturals

CONSTANTS
    Context,  \* the contexts of one thread
    Max       \* u64::MAX: the largest operation key and generation

ASSUME MaxAssumption == Max \in Nat \ {0}

Key == 1 .. (Max - 1)   \* Max itself is never handed out: next must grow first

VARIABLES
    status,      \* "unmade", "live", "retired" (State.retired), "gone" (State dropped)
    generation,  \* State.generation
    active,      \* State.active
    next,        \* State.next, the key of the next owner
    failure,     \* State.failure is Some
    owners,      \* keys of State.owners, the registry of weak references
    handle,      \* keys whose Tracked (the only strong reference) is alive
    held,        \* keys whose Owner.future is Some: the native future exists
    stamp,       \* Owner.stamp, the generation of the last poll
    touched,     \* history: keys polled since the last begin
    outcome      \* what the last operation returned

contextVars == <<status, generation, active, next, failure>>
ownerVars == <<owners, handle, held, stamp>>
vars == <<contextVars, ownerVars, touched, outcome>>

Outcome == {"none", "made", "tracked", "retired", "exhausted", "wrong thread",
            "pending", "ready", "cancelled", "dropped", "ok", "failed"}

TypeOK ==
    /\ status \in [Context -> {"unmade", "live", "retired", "gone"}]
    /\ generation \in [Context -> 0 .. Max]
    /\ active \in [Context -> BOOLEAN]
    /\ next \in [Context -> 1 .. Max]
    /\ failure \in [Context -> BOOLEAN]
    /\ owners \in [Context -> SUBSET Key]
    /\ handle \in [Context -> SUBSET Key]
    /\ held \in [Context -> SUBSET Key]
    /\ stamp \in [Context -> [Key -> 0 .. Max]]
    /\ touched \in [Context -> SUBSET Key]
    /\ outcome \in Outcome

Init ==
    /\ status = [c \in Context |-> "unmade"]
    /\ generation = [c \in Context |-> 0]
    /\ active = [c \in Context |-> FALSE]
    /\ next = [c \in Context |-> 1]
    /\ failure = [c \in Context |-> FALSE]
    /\ owners = [c \in Context |-> {}]
    /\ handle = [c \in Context |-> {}]
    /\ held = [c \in Context |-> {}]
    /\ stamp = [c \in Context |-> [k \in Key |-> 0]]
    /\ touched = [c \in Context |-> {}]
    /\ outcome = "none"

----------------------------------------------------------------------------
(* Helpers: disposing of native futures *)

\* State.retired is not set, and a Weak<State> still upgrades.
Live(c) == status[c] = "live"
\* A Weak<State> still upgrades.
Exists(c) == status[c] \in {"live", "retired"}

\* The owners State::revoke reaches: it upgrades the weak references of the
\* registry, and takes all of them or those stamped with this generation.
Revocable(c, all) ==
    {k \in owners[c] \cap handle[c] : all \/ stamp[c][k] = generation[c]}

\* Owner::dispose of each key in K: its registry entry goes, its native future
\* is dropped, and a destructor that panics fills State.failure once.  The
\* registry and the failure are only there while the State exists.
Dispose(c, K, panics) ==
    /\ panics => K \cap held[c] # {}
    /\ held' = [held EXCEPT ![c] = @ \ K]
    /\ owners' = IF Exists(c) THEN [owners EXCEPT ![c] = @ \ K] ELSE owners
    /\ failure' = IF Exists(c) THEN [failure EXCEPT ![c] = @ \/ panics] ELSE failure

\* Lifecycle::finish's and clear's last lines: a failure retires the context,
\* which revokes whatever is left, and is returned.
Settle(c, K, panics) ==
    /\ panics => K \cap held[c] # {}
    /\ IF failure[c] \/ panics
       THEN /\ Dispose(c, K \cup Revocable(c, TRUE), panics)
            /\ status' = [status EXCEPT ![c] = "retired"]
            /\ outcome' = "failed"
       ELSE /\ Dispose(c, K, FALSE)
            /\ outcome' = "ok"
            /\ UNCHANGED status

----------------------------------------------------------------------------
(* Operations of the script *)

\* Lifecycle::new
New(c) ==
    /\ status[c] = "unmade"
    /\ status' = [status EXCEPT ![c] = "live"]
    /\ outcome' = "made"
    /\ UNCHANGED <<generation, active, next, failure, ownerVars, touched>>

\* Mutant of Track: the key is not advanced.
TrackSameKey(c) ==
    /\ Live(c)
    /\ next[c] < Max
    /\ owners' = [owners EXCEPT ![c] = @ \cup {next[c]}]
    /\ handle' = [handle EXCEPT ![c] = @ \cup {next[c]}]
    /\ held' = [held EXCEPT ![c] = @ \cup {next[c]}]
    /\ stamp' = [stamp EXCEPT ![c][next[c]] = 0]
    /\ outcome' = "tracked"
    /\ UNCHANGED <<status, generation, active, next, failure, touched>>

\* Mutant of Track: the retired filter is missing.
TrackAnyContext(c) ==
    /\ Exists(c)
    /\ next[c] < Max
    /\ next' = [next EXCEPT ![c] = @ + 1]
    /\ owners' = [owners EXCEPT ![c] = @ \cup {next[c]}]
    /\ handle' = [handle EXCEPT ![c] = @ \cup {next[c]}]
    /\ held' = [held EXCEPT ![c] = @ \cup {next[c]}]
    /\ stamp' = [stamp EXCEPT ![c][next[c]] = 0]
    /\ outcome' = "tracked"
    /\ UNCHANGED <<status, generation, active, failure, touched>>

\* Scope::track.  A refused future is dropped at once; its destructor's panic
\* goes into the returned error and not into the context.
Track(c) ==
    /\ Live(c)
    /\ next[c] < Max
    /\ next' = [next EXCEPT ![c] = @ + 1]
    /\ owners' = [owners EXCEPT ![c] = @ \cup {next[c]}]
    /\ handle' = [handle EXCEPT ![c] = @ \cup {next[c]}]
    /\ held' = [held EXCEPT ![c] = @ \cup {next[c]}]
    /\ stamp' = [stamp EXCEPT ![c][next[c]] = 0]
    /\ outcome' = "tracked"
    /\ UNCHANGED <<status, generation, active, failure, touched>>

\* next cannot grow: the owner made for the operation is dropped again.
TrackExhausted(c, panics) ==
    /\ Live(c)
    /\ next[c] = Max
    /\ failure' = [failure EXCEPT ![c] = @ \/ panics]
    /\ outcome' = "exhausted"
    /\ UNCHANGED <<status, generation, active, next, ownerVars, touched>>

TrackRefused(c) ==
    /\ status[c] # "unmade"
    /\ outcome' \in {"wrong thread"} \cup (IF Live(c) THEN {} ELSE {"retired"})
    /\ UNCHANGED <<contextVars, ownerVars, touched>>

\* Tracked::poll on a context that is retired or gone.
PollRetired(c, k, panics) ==
    /\ k \in handle[c]
    /\ ~Live(c)
    /\ Dispose(c, {k}, panics)
    /\ outcome' = "cancelled"
    /\ UNCHANGED <<status, generation, active, next, handle, stamp, touched>>

\* Tracked::poll of an operation whose native future is gone.
PollCancelled(c, k) ==
    /\ k \in handle[c] \ held[c]
    /\ Live(c)
    /\ stamp' = [stamp EXCEPT ![c][k] = generation[c]]
    /\ outcome' = "cancelled"
    /\ UNCHANGED <<contextVars, owners, handle, held, touched>>

\* Tracked::poll that polls the native future.
PollPending(c, k) ==
    /\ k \in handle[c] \cap held[c]
    /\ Live(c)
    /\ stamp' = [stamp EXCEPT ![c][k] = generation[c]]
    /\ touched' = [touched EXCEPT ![c] = @ \cup {k}]
    /\ outcome' = "pending"
    /\ UNCHANGED <<contextVars, owners, handle, held>>

PollReady(c, k, panics) ==
    /\ k \in handle[c] \cap held[c]
    /\ Live(c)
    /\ stamp' = [stamp EXCEPT ![c][k] = generation[c]]
    /\ touched' = [touched EXCEPT ![c] = @ \cup {k}]
    /\ Dispose(c, {k}, panics)
    /\ outcome' = "ready"
    /\ UNCHANGED <<status, generation, active, next, handle>>

\* The script's last reference to the Tracked value goes: Owner::drop.
DropTracked(c, k, panics) ==
    /\ k \in handle[c]
    /\ handle' = [handle EXCEPT ![c] = @ \ {k}]
    /\ Dispose(c, {k}, panics)
    /\ outcome' = "dropped"
    /\ UNCHANGED <<status, generation, active, next, stamp, touched>>

----------------------------------------------------------------------------
(* Operations of the owner of the context *)

\* Lifecycle::begin, before an execution.
Begin(c) ==
    /\ Live(c)
    /\ ~failure[c]
    /\ generation[c] < Max
    /\ generation' = [generation EXCEPT ![c] = @ + 1]
    /\ active' = [active EXCEPT ![c] = TRUE]
    /\ touched' = [touched EXCEPT ![c] = {}]
    /\ outcome' = "ok"
    /\ UNCHANGED <<status, next, failure, ownerVars>>

BeginRefused(c) ==
    /\ Exists(c)
    /\ \/ failure[c] /\ outcome' = "failed"
       \/ ~failure[c] /\ ~Live(c) /\ outcome' = "retired"
       \/ ~failure[c] /\ Live(c) /\ generation[c] = Max /\ outcome' = "exhausted"
    /\ UNCHANGED <<contextVars, ownerVars, touched>>

\* Mutant of Finish: a failure revokes whether or not an execution was active.
FinishInactive(c, failed, panics) ==
    /\ Exists(c)
    /\ active' = [active EXCEPT ![c] = FALSE]
    /\ Settle(c, IF failed THEN Revocable(c, FALSE) ELSE {}, panics)
    /\ UNCHANGED <<generation, next, handle, stamp, touched>>

\* Lifecycle::finish, after an input or a request; also of one that never
\* began an execution because it did not compile.
Finish(c, failed, panics) ==
    /\ Exists(c)
    /\ active' = [active EXCEPT ![c] = FALSE]
    /\ Settle(c, IF active[c] /\ failed THEN Revocable(c, FALSE) ELSE {}, panics)
    /\ UNCHANGED <<generation, next, handle, stamp, touched>>

\* Lifecycle::clear, on reset and between two requests of a server slot.
Clear(c, panics) ==
    /\ Exists(c)
    /\ Settle(c, Revocable(c, TRUE), panics)
    /\ UNCHANGED <<generation, active, next, handle, stamp, touched>>

\* Lifecycle::close.
Close(c, panics) ==
    /\ Exists(c)
    /\ status' = [status EXCEPT ![c] = "retired"]
    /\ Dispose(c, Revocable(c, TRUE), panics)
    /\ outcome' = IF failure'[c] THEN "failed" ELSE "ok"
    /\ UNCHANGED <<generation, active, next, handle, stamp, touched>>

\* Drop of the last Lifecycle: close unless retired, and the State goes.
Release(c, panics) ==
    /\ Exists(c)
    /\ status' = [status EXCEPT ![c] = "gone"]
    /\ IF Live(c) THEN Dispose(c, Revocable(c, TRUE), panics)
                  ELSE ~panics /\ UNCHANGED <<held, owners, failure>>
    /\ outcome' = "dropped"
    /\ UNCHANGED <<generation, active, next, handle, stamp, touched>>

\* close_thread, before an explicit process exit: every context still listed
\* in the thread's CONTEXTS is retired, whatever the others reported.
CloseThread(P) ==
    /\ P \subseteq {c \in Context : Live(c) /\ Revocable(c, TRUE) \cap held[c] # {}}
    /\ status' = [c \in Context |-> IF Live(c) THEN "retired" ELSE status[c]]
    /\ held' = [c \in Context |-> IF Live(c) THEN held[c] \ Revocable(c, TRUE) ELSE held[c]]
    /\ owners' = [c \in Context |-> IF Live(c) THEN owners[c] \ Revocable(c, TRUE) ELSE owners[c]]
    /\ failure' = [c \in Context |-> failure[c] \/ c \in P]
    /\ outcome' = IF \E c \in Context : Live(c) /\ failure'[c] THEN "failed" ELSE "ok"
    /\ UNCHANGED <<generation, active, next, handle, stamp, touched>>

----------------------------------------------------------------------------
Script(c) ==
    \/ Track(c)
    \/ TrackRefused(c)
    \/ \E panics \in BOOLEAN : TrackExhausted(c, panics)
    \/ \E k \in Key :
          \/ PollCancelled(c, k)
          \/ PollPending(c, k)
          \/ \E panics \in BOOLEAN :
                \/ PollRetired(c, k, panics)
                \/ PollReady(c, k, panics)
                \/ DropTracked(c, k, panics)

Owner(c) ==
    \/ New(c)
    \/ Begin(c)
    \/ BeginRefused(c)
    \/ \E panics \in BOOLEAN :
          \/ \E failed \in BOOLEAN : Finish(c, failed, panics)
          \/ Clear(c, panics)
          \/ Close(c, panics)
          \/ Release(c, panics)

Next ==
    \/ \E c \in Context : Script(c) \/ Owner(c)
    \/ \E P \in SUBSET Context : CloseThread(P)

Spec == Init /\ [][Next]_vars

----------------------------------------------------------------------------
(* Properties *)

\* Lifecycle.registry and retirement (State::revoke, Owner::dispose): every
\* native future that exists is one the context can still take away.  It is in
\* the registry of a live context, its weak reference upgrades, and the registry
\* has no entry besides: a context that is retired or gone holds no native
\* future, although the script may still hold the Tracked values.
NoEscape ==
    \A c \in Context :
        /\ held[c] = IF Live(c) THEN owners[c] \cap handle[c] ELSE {}
        /\ status[c] # "gone" => owners[c] = held[c]

\* Lifecycle::finish: an execution that failed takes away exactly the native
\* futures it polled, those left from earlier executions included and those it
\* only created excluded; one that succeeded, and an input that never began to
\* execute, take none.
FinishRevokesExactly ==
    [][\A c \in Context, failed \in BOOLEAN, panics \in BOOLEAN :
          Finish(c, failed, panics) /\ status'[c] = "live"
             => held'[c] = held[c] \ (IF active[c] /\ failed THEN touched[c] ELSE {})]_vars

\* Scope::track's contract, "Repolling a revoked value returns
\* Err(operation cancelled), without polling the native future again": an
\* operation the script holds never gets a native future back, not even by a
\* later operation taking its key.
RevokedStaysRevoked ==
    [][\A c \in Context : held'[c] \cap (handle[c] \ held[c]) = {}]_vars

\* State, revoke and dispose: both counters stay within u64 and no native future escapes the
\* context that can take it away.
LifecycleSound == TypeOK /\ NoEscape

=============================================================================
