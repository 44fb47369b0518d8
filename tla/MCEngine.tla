------------------------------ MODULE MCEngine ------------------------------
(***************************************************************************)
(* What a host does with a program, for TLC: the ownership of operations   *)
(* (Lifecycle), the slots over it (Slot), execution under a budget         *)
(* (Execution) and child processes (ChildRun).                             *)
(*                                                                         *)
(* The parts are not connected.  A behaviour takes steps of one of them,   *)
(* named by `part`, so that the states are those of the parts together and *)
(* not their product.                                                      *)
(***************************************************************************)
EXTENDS Slot, Execution, ChildRun

CONSTANT c1

VARIABLE part

\* Windows with an input that fills the pipe, and with more output than is kept; Unix
\* with such output.
MCCase == {[blocking |-> TRUE, procs |-> {"group", "stray"}, input |-> 2, output |-> 0],
           [blocking |-> TRUE, procs |-> {"stray"}, input |-> 0, output |-> 2],
           [blocking |-> FALSE, procs |-> {"stray"}, input |-> 0, output |-> 2]}

MCInit ==
    /\ part \in {"lifecycle", "slot", "execution", "child"}
    /\ SlotInit /\ ExecInit /\ ChildInit
    /\ part # "execution" => /\ execMode = "sliced" /\ total = 0 /\ ~flag
                             /\ program = <<[kind |-> "inst", cost |-> 0]>>
    /\ part # "child" => ~how.blocking

MCNext ==
    \/ part = "lifecycle" /\ Next /\ UNCHANGED <<part, slotCallVars, execVars, how, childVars>>
    \/ part = "slot" /\ SlotNext /\ UNCHANGED <<part, execVars, how, childVars>>
    \/ part = "execution" /\ ExecNext /\ UNCHANGED <<part, slotVars, how, childVars>>
    \/ part = "child" /\ ChildNext /\ UNCHANGED <<part, slotVars, execVars>>

MCSpec == MCInit /\ [][MCNext]_<<part, slotVars, execVars, how, childVars>>
=============================================================================
