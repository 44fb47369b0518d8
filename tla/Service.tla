------------------------------ MODULE Service ------------------------------
(***************************************************************************)
(* What an HTTP host of handlers promises of a request, whatever its       *)
(* workers, queues and timers: a handler executes at most once, a request  *)
(* has at most one verdict, and a request that was refused is one that can *)
(* be repeated, because its handler has not run and never will.  The       *)
(* answer of a handler is that of an execution that came to its end.       *)
(* Nothing is promised about timed out and failed requests: their handler  *)
(* may not have begun, may be running or may have completed.               *)
(***************************************************************************)
CONSTANT Request

VARIABLES
    ran,      \* how far the handler of a request got
    verdict   \* what became of the request for its client

vars == <<ran, verdict>>

Verdict == {"refused", "failed", "timeout", "handler", "left"}

TypeOK ==
    /\ ran \in [Request -> {"no", "begun", "complete"}]
    /\ verdict \in [Request -> {"none"} \cup Verdict]

Init ==
    /\ ran = [r \in Request |-> "no"]
    /\ verdict = [r \in Request |-> "none"]

Begin(r) ==
    /\ ran[r] = "no"
    /\ verdict[r] # "refused"
    /\ ran' = [ran EXCEPT ![r] = "begun"]
    /\ UNCHANGED verdict

Complete(r) ==
    /\ ran[r] = "begun"
    /\ ran' = [ran EXCEPT ![r] = "complete"]
    /\ UNCHANGED verdict

Decide(r, v) ==
    /\ verdict[r] = "none"
    /\ v = "refused" => ran[r] = "no"
    /\ v = "handler" => ran[r] = "complete"
    /\ verdict' = [verdict EXCEPT ![r] = v]
    /\ UNCHANGED ran

\* Several clients may leave at once, when a server stops.
Leave(R) ==
    /\ \A r \in R : verdict[r] = "none"
    /\ verdict' = [r \in Request |-> IF r \in R THEN "left" ELSE verdict[r]]
    /\ UNCHANGED ran

Next ==
    \/ \E r \in Request : Begin(r) \/ Complete(r) \/ \E v \in Verdict : Decide(r, v)
    \/ \E R \in SUBSET Request : Leave(R)

Spec == Init /\ [][Next]_vars
=============================================================================
