---------------------------- MODULE MCTransport -----------------------------
(***************************************************************************)
(* What passes between the kernel, its worker and its frontends, for TLC:  *)
(* the protocol with the worker (WorkerLink), publications (Fanout) and    *)
(* the reading of messages (Intake).                                       *)
(*                                                                         *)
(* The parts are not connected: a behaviour takes steps of one of them.    *)
(***************************************************************************)
EXTENDS WorkerLink, Fanout, Intake, TLC

CONSTANTS c1, c2, c3

VARIABLE part

\* Connections and identities are interchangeable.
MCSymmetry == Permutations(FanConn) \cup Permutations(Ident)

MCInit == part \in {"link", "fanout", "intake"} /\ Init /\ FanInit /\ IntakeInit

\* Leftover processes write to stdout: the two streams are read alike.
LinkNext == Supervisor \/ Fail \/ Readers \/ WorkerProcess \/ WorkerDies \/ Stray("stdout")

\* Replies are small and come before the last publication.
FanoutNext ==
    \/ \E c \in FanConn : Lives(c) \/ (pubs < Pubs /\ FanReply(c, 1))
    \/ Shutdown \/ \E n \in Size : FanPublish(n)

MCNext ==
    \/ part = "link" /\ LinkNext /\ UNCHANGED <<part, fanVars, intakeVars>>
    \/ part = "fanout" /\ FanoutNext /\ UNCHANGED <<part, vars, intakeVars>>
    \/ part = "intake" /\ IntakeNext /\ UNCHANGED <<part, vars, fanVars>>

MCSpec == MCInit /\ [][MCNext]_<<part, vars, fanVars, intakeVars>>
=============================================================================
