------------------------------ MODULE MCKernel ------------------------------
(***************************************************************************)
(* Kernel for TLC: a few requests, of the kinds the scheduler treats       *)
(* differently.  Beside it, in behaviours of its own, Containment.         *)
(***************************************************************************)
EXTENDS Kernel, Containment

CONSTANTS c1, c2

VARIABLE part     \* what may happen to this kernel

Plain     == [size |-> "fits", silent |-> FALSE, store |-> TRUE, stop |-> TRUE]
Oversized == [size |-> "oversized", silent |-> FALSE, store |-> TRUE, stop |-> FALSE]
Query     == [size |-> "empty", silent |-> TRUE, store |-> FALSE, stop |-> TRUE]
Invalid   == [size |-> "invalid", silent |-> FALSE, store |-> TRUE, stop |-> TRUE]

MCOption == {Plain, Oversized, Query, Invalid}
MCPlain == {Plain}

\* The numbers of processes are alike.
MCInit == part \in {"routes", "credit", "sweep"} /\ Init /\ ContainInit /\ pid[Leader] = 1

\* In "routes" connections end and refuse replies; in "credit" publications are refused,
\* and requests that are not valid come; in "sweep" the worker is terminated.  The cell
\* that needs an interrupt is a plain one.
MCNext ==
    /\ \/ /\ Next /\ UNCHANGED containVars
          /\ \A c \in Sent' \ {c1} : option'[c] = Plain
          /\ \/ part = "routes" /\ ~choked' /\ option'[c1] # Invalid
             \/ part = "credit" /\ closed' = {} /\ option'[c1] \in {NoOption, Plain, Invalid}
       \/ part = "sweep" /\ ContainNext /\ UNCHANGED vars
    /\ UNCHANGED part

MCSpec == MCInit /\ [][MCNext]_<<part, vars, containVars>>
=============================================================================
