----------------------------- MODULE MCJupyter ------------------------------
(***************************************************************************)
(* The kernel and what it publishes, for TLC: the scheduler (Kernel), the  *)
(* output of the worker (Streams) and publication (Fanout).                *)
(*                                                                         *)
(* The parts are not connected: a behaviour takes steps of one of them.    *)
(***************************************************************************)
EXTENDS Kernel, Streams, Fanout, TLC

CONSTANTS
    m1, m2, m3,
    Parts       \* the parts looked at

VARIABLE part

MCOption == {[size |-> "fits", silent |-> FALSE, store |-> TRUE, stop |-> TRUE]}
MCMark == <<"a", "a", "k">>

\* The cells are interchangeable where none is set apart by a constant.
MCSymmetry == Permutations(Cell)

MCInit == part \in Parts /\ Init /\ StreamInit /\ FanInit

\* kernel_info, which only publishes a status, is left to MCKernel.
MCNext ==
    \/ part = "kernel" /\ Next /\ status'.by # "info" /\ UNCHANGED <<part, streamVars, fanVars>>
    \/ part = "streams" /\ StreamNext /\ UNCHANGED <<part, vars, fanVars>>
    \/ part = "fanout" /\ FanNext /\ UNCHANGED <<part, vars, streamVars>>

MCSpec == MCInit /\ [][MCNext]_<<part, vars, streamVars, fanVars>>

MCFairSpec ==
    /\ MCSpec
    /\ (part = "kernel" /\ Fairness) \/ (part = "fanout" /\ FanFairness)
=============================================================================
