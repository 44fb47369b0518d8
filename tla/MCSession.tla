----------------------------- MODULE MCSession ------------------------------
(***************************************************************************)
(* A session and the runtimes it may be given, for TLC: Session and        *)
(* RuntimeInstall.  Types, functions and names are interchangeable.        *)
(*                                                                         *)
(* The parts are not connected: a behaviour takes steps of one of them.    *)
(* In "values" inputs declare and bind names, nothing is renumbered and    *)
(* the ceiling is not met; in "numbers" inputs bind nothing, and there are *)
(* more.  In "store" commands on runtimes fail and are killed; in "outage" *)
(* the machine loses its power.                                            *)
(***************************************************************************)
EXTENDS Session, RuntimeInstall, TLC

CONSTANT MaxValues    \* bound on the inputs of "values"

VARIABLE part

MCSymmetry == Permutations(Types) \cup Permutations(Functions) \cup Permutations(Names)

MCInit ==
    /\ part \in {"values", "numbers", "store", "outage"}
    /\ Init /\ RuntimeInit /\ \A f \in File : source[f] = 0

\* The last input binds no new name.
EvalValues ==
    \E i \in Input : /\ inputs = MaxValues - 1 => i.lets = {}
                     /\ RunFails(i) \/ RunSucceeds(i)

SessionNext ==
    \/ part = "values" /\ (RefuseInput \/ Reset) /\ ~over'
    \/ part = "values" /\ inputs < MaxValues /\ (RefuseSource \/ EvalValues) /\ ~over'
    \/ part = "numbers" /\ Next /\ names' = {} /\ declarations' = Nothing

StoreNext ==
    \/ part = "store" /\ (Commands \/ Owner \/ Faulty)
    \/ part = "outage" /\ (Commands \/ Owner \/ Outage)

MCNext ==
    \/ SessionNext /\ UNCHANGED <<part, runtimeVars>>
    \/ StoreNext /\ UNCHANGED <<part, vars>>

MCSpec == MCInit /\ [][MCNext]_<<part, vars, runtimeVars>>
=============================================================================
