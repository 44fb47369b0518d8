------------------------------- MODULE Intake -------------------------------
(***************************************************************************)
(* Incoming messages of one endpoint of the kernel's transport             *)
(* (message_with and connection in jupyter/src/transport.rs).              *)
(*                                                                         *)
(* A connection reads a message part by part.  The bytes of a part are     *)
(* credits of the endpoint, taken when its length is known and before      *)
(* anything is allocated; the message keeps them until its handler has     *)
(* returned.  Taking them waits when too few are left, and the connections *)
(* that hold the others may be waiting too.                                *)
(***************************************************************************)
EXTENDS Naturals, FiniteSets, Functions

CONSTANTS
    IntakeConn,     \* connections
    IntakeSlots,    \* Endpoint.slots
    MessageCap,     \* bytes of a message (M)
    IntakeCredits,  \* Endpoint.incoming
    Parts,          \* parts of a message
    Lengths         \* lengths a part may declare

ASSUME IntakeAssumption ==
    /\ IsFiniteSet(IntakeConn) /\ Lengths \subseteq Nat
    /\ {IntakeSlots, MessageCap, IntakeCredits, Parts} \subseteq Nat

\* Slots, MessageCap and IntakeCredits are the code's own: an endpoint has the credits of one full
\* message for each of its connections.
ASSUME CreditsAssumption == IntakeCredits = IntakeSlots * MessageCap

VARIABLES
    reading,  \* "new", "idle", "header", "acquire", "body", "handle", "closed", "joined"
    total,    \* bytes of the parts read
    parts,    \* their number
    need,     \* the length of the part being read
    held      \* credits the connection holds

intakeVars == <<reading, total, parts, need, held>>

Available == IntakeCredits - SumFunctionOnSet(held, IntakeConn)

IntakeInit ==
    /\ reading = [c \in IntakeConn |-> "new"]
    /\ total = [c \in IntakeConn |-> 0] /\ parts = [c \in IntakeConn |-> 0]
    /\ need = [c \in IntakeConn |-> 0] /\ held = [c \in IntakeConn |-> 0]

IntakeAdmitted == {c \in IntakeConn : reading[c] \notin {"new", "joined"}}

Open(c) ==
    /\ reading[c] = "new" /\ Cardinality(IntakeAdmitted) < IntakeSlots
    /\ reading' = [reading EXCEPT ![c] = "idle"]
    /\ UNCHANGED <<total, parts, need, held>>

\* The first byte of a message arrives and its deadline starts.
First(c) ==
    /\ reading[c] = "idle"
    /\ reading' = [reading EXCEPT ![c] = "header"]
    /\ UNCHANGED <<total, parts, need, held>>

\* A command, before a message or between its parts; before a message there is none.
Command(c) ==
    /\ reading[c] = "header"
    /\ reading' = [reading EXCEPT ![c] = IF parts[c] = 0 THEN "idle" ELSE "header"]
    /\ UNCHANGED <<total, parts, need, held>>

\* The task ends; its message and the slot go in this order.
Closed(c) ==
    /\ reading' = [reading EXCEPT ![c] = "closed"]
    /\ held' = [held EXCEPT ![c] = 0] /\ need' = [need EXCEPT ![c] = 0]
    /\ total' = [total EXCEPT ![c] = 0] /\ parts' = [parts EXCEPT ![c] = 0]

TooLarge(c, n) == parts[c] = Parts \/ n > MessageCap - total[c]

\* The length of the next part is known.
Header(c, n) ==
    /\ reading[c] = "header"
    /\ IF TooLarge(c, n) THEN Closed(c)
       ELSE /\ reading' = [reading EXCEPT ![c] = "acquire"]
            /\ need' = [need EXCEPT ![c] = n]
            /\ UNCHANGED <<total, parts, held>>

Acquire(c) ==
    /\ reading[c] = "acquire" /\ Available >= need[c]
    /\ held' = [held EXCEPT ![c] = @ + need[c]]
    /\ reading' = [reading EXCEPT ![c] = "body"]
    /\ UNCHANGED <<total, parts, need>>

\* The part has arrived; it may be the last.
Body(c) ==
    /\ reading[c] = "body"
    /\ total' = [total EXCEPT ![c] = @ + need[c]]
    /\ parts' = [parts EXCEPT ![c] = @ + 1] /\ need' = [need EXCEPT ![c] = 0]
    /\ \E next \in {"header", "handle"} : reading' = [reading EXCEPT ![c] = next]
    /\ UNCHANGED held

\* Mutant of Handled: the message outlives the loop's turn.
HandledKept(c) ==
    /\ reading[c] = "handle"
    /\ reading' = [reading EXCEPT ![c] = "idle"]
    /\ total' = [total EXCEPT ![c] = 0] /\ parts' = [parts EXCEPT ![c] = 0]
    /\ UNCHANGED <<held, need>>

\* The handler returns and the message is dropped.
Handled(c) ==
    /\ reading[c] = "handle"
    /\ reading' = [reading EXCEPT ![c] = "idle"]
    /\ total' = [total EXCEPT ![c] = 0] /\ parts' = [parts EXCEPT ![c] = 0]
    /\ held' = [held EXCEPT ![c] = 0]
    /\ UNCHANGED need

\* A read fails, a frame is malformed, the deadline of the message passes, the handler
\* fails, or the connection is stopped.
IntakeFail(c) == reading[c] \notin {"new", "closed", "joined"} /\ Closed(c)

IntakeJoin(c) ==
    /\ reading[c] = "closed"
    /\ reading' = [reading EXCEPT ![c] = "joined"]
    /\ UNCHANGED <<total, parts, need, held>>

IntakeNext ==
    \E c \in IntakeConn :
        \/ Open(c) \/ First(c) \/ Command(c) \/ Acquire(c) \/ Body(c) \/ Handled(c)
        \/ IntakeFail(c) \/ IntakeJoin(c)
        \/ \E n \in Lengths : Header(c, n)

IntakeSpec == IntakeInit /\ [][IntakeNext]_intakeVars

----------------------------------------------------------------------------
(* Properties *)

IntakeTypeOK ==
    /\ reading \in [IntakeConn -> {"new", "idle", "header", "acquire", "body", "handle", "closed",
                        "joined"}]
    /\ total \in [IntakeConn -> 0 .. MessageCap] /\ need \in [IntakeConn -> 0 .. MessageCap]
    /\ parts \in [IntakeConn -> 0 .. Parts] /\ held \in [IntakeConn -> 0 .. MessageCap]
    /\ Available \in 0 .. IntakeCredits

\* No connection ever waits for credits, however the others fill theirs: the connections
\* that an endpoint admits cannot block each other, nor hold a message past its deadline.
NeverWaits == \A c \in IntakeConn : reading[c] = "acquire" => Available >= need[c]

\* read_message: what is read stays within the caps, and the credits suffice for all.
IntakeSound == IntakeTypeOK /\ NeverWaits

=============================================================================
