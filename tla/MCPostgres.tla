----------------------------- MODULE MCPostgres -----------------------------
(***************************************************************************)
(* The server with a database, for TLC: the pool of a worker (PgPool) and  *)
(* the dispatch of requests to the workers (PgDispatch).                   *)
(*                                                                         *)
(* The parts are not connected: a behaviour takes steps of one of them.    *)
(* "pool" and "dispatch" are the two modules, where the handler of a       *)
(* patient request does not panic; "full" is the second one with a request *)
(* more, r2, that comes when the others are there: nothing fails, nobody   *)
(* leaves and nothing expires.                                             *)
(***************************************************************************)
EXTENDS PgPool, PgDispatch, TLC

CONSTANTS m1, m2, r1, r2

VARIABLE part

\* Jobs and patient requests are the same model values.
MCSymmetry == Permutations(Job) \cup Permutations(Conn)

MCInit == part \in {"pool", "dispatch", "full"} /\ PoolInit /\ DispatchInit

\* What the clients of a part do.
Clients ==
    IF part = "dispatch" THEN at'[r2] = "new" /\ \A r \in Patient : task'[r] # "panicked" ELSE
    /\ expired' = {} /\ ~term' /\ \A w \in Worker : thread'[w] = "up"
    /\ \A r \in Request : status'[r] # "left" /\ task'[r] # "panicked"
    /\ at'[r1] # "new" => \A r \in Patient : reply'[r] # "none"
    /\ at'[r2] # "new" => reply'[r1] # "none"

MCNext ==
    \/ part = "pool" /\ PoolNext /\ UNCHANGED <<part, pgDispatchVars>>
    \/ part # "pool" /\ DispatchNext /\ Clients /\ UNCHANGED <<part, pgPoolVars>>

MCSpec == MCInit /\ [][MCNext]_<<part, pgPoolVars, pgDispatchVars>>

MCFairSpec ==
    /\ MCSpec
    /\ (part = "pool" /\ PoolFairness) \/ (part = "dispatch" /\ DispatchFairness)
=============================================================================
