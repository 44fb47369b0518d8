------------------------------ MODULE Session -------------------------------
(***************************************************************************)
(* The interactive session (src/session.rs, as repl.rs drives it).         *)
(*                                                                         *)
(* An input is compiled with every retained declaration into a unit of its *)
(* own, runs on the bindings it mentions, and publishes its bindings and   *)
(* declarations only when it has run to its end.  Values are shared        *)
(* handles: what a failed input did to one stays.  Units are held weakly,  *)
(* with the map from their code to the inputs it came from.                *)
(*                                                                         *)
(* An input is what the parser and the scan for names make of it: the      *)
(* declarations it enters, the names it binds and the names it mentions.   *)
(* What its code does is any choice of the values the code can reach.      *)
(***************************************************************************)
EXTENDS Naturals, Sequences, FiniteSets

CONSTANTS
    Names,          \* identifiers
    Types,          \* sources of structs and enums: the shapes
    Functions,      \* sources of functions and consts
    MaxDecls,       \* declarations of one input
    MaxItems,       \* values in one handle
    MaxInputs,      \* bound on the inputs admitted
    MaxNumberings   \* bound on :renumber

ASSUME SessionAssumption ==
    /\ {MaxDecls, MaxItems, MaxInputs, MaxNumberings} \subseteq Nat
    /\ Types \cap Functions = {}

Sources == Types \cup Functions
\* A handle is made by an input for a name.  It holds closures, which keep the unit
\* they are code of, and instances of types, as that unit declared them.
Handle == (1..MaxInputs) \X Names
Closure == [unit : 1..MaxInputs]
Instance == [unit : 1..MaxInputs, type : Names, source : Types]
Item == Closure \cup Instance

Empty == [h \in Handle |-> {}]
NoCode == [n \in 1..MaxInputs |-> {}]
Nothing == [n \in {} |-> 0]

VARIABLES
    declarations,  \* names -> sources
    names,         \* published names
    state,         \* published bindings: names -> handles
    inputs,        \* number of inputs admitted
    numberings,    \* inputs admitted before each :renumber
    units,         \* inputs whose unit has an entry (Retained)
    over,          \* over_ceiling
    held,          \* what each handle holds
    code,          \* the types each unit was compiled with
    answer,        \* what the last command told: "none", "value", "error", "refused"
    ended,         \* the process has left
    published      \* history: inputs that published

content == <<declarations, names, state, units, held, code, published>>
vars == <<declarations, names, state, inputs, numberings, units, over, held, code, answer,
          ended, published>>

-----------------------------------------------------------------------------

\* The items in the handles hs.
Held(hs) == UNION {held[h] : h \in hs}
Reachable == {state[n] : n \in DOMAIN state}
ClosuresOf(items) == items \cap Closure

\* A unit that no closure keeps is dropped, its entry stays until the next input.
Live == {c.unit : c \in ClosuresOf(Held(Reachable))}

Init ==
    /\ declarations = Nothing /\ names = {} /\ state = Nothing
    /\ inputs = 0 /\ numberings = <<>> /\ units = {}
    /\ over = FALSE /\ held = Empty /\ code = NoCode
    /\ answer = "none" /\ ended = FALSE /\ published = {}

\* mentions: published names (mentioned), other than the ones it binds.
Input ==
    {i \in [decls : UNION {[1..k -> Names \X Sources] : k \in 0..MaxDecls},
            lets : SUBSET Names, mentions : SUBSET names] : i.lets \cap i.mentions = {}}

\* The declarations after the first k of input i.
Declared(i, k) ==
    LET entered == {i.decls[j][1] : j \in 1..k}
        Last(m) == CHOOSE j \in 1..k :
                      /\ i.decls[j][1] = m
                      /\ \A l \in (j + 1)..k : i.decls[l][1] # m
    IN  [m \in DOMAIN declarations \cup entered |->
            IF m \in entered THEN i.decls[Last(m)][2] ELSE declarations[m]]

\* A type whose shape changed, or something else that becomes a type.
Changed(i) ==
    \E j \in DOMAIN i.decls :
        LET before == Declared(i, j - 1)
            m == i.decls[j][1]
        IN  /\ m \in DOMAIN before
            /\ before[m] # i.decls[j][2]
            /\ {before[m], i.decls[j][2]} \cap Types # {}

\* The sample at the end of every command latches the ceiling; a process that leaves
\* takes none.
Sampled(latched) == over' = latched \/ (~ended' /\ over' = TRUE)

\* The prompt's number, and the number of an input in a diagnostic: its position in its
\* numbering, and which numbering that is when it is not the current one.
NextNumber ==
    inputs + 1 - (IF numberings = <<>> THEN 0 ELSE numberings[Len(numberings)])

InputNumber(index) ==
    LET epoch == Cardinality({k \in DOMAIN numberings : numberings[k] < index})
    IN  [position |-> index - (IF epoch = 0 THEN 0 ELSE numberings[epoch]),
         older |-> IF epoch = Len(numberings) THEN 0 ELSE epoch + 1]

CurrentNumber == InputNumber(inputs)

-----------------------------------------------------------------------------
\* One input.

\* Refused before it is admitted: at the ceiling, or too long.
RefuseInput ==
    /\ ~ended
    /\ answer' = "refused"
    /\ UNCHANGED <<content, inputs, numberings, ended>>
    /\ Sampled(over)

Admit ==
    /\ ~ended /\ ~over
    /\ inputs < MaxInputs
    /\ inputs' = inputs + 1
    /\ UNCHANGED numberings

\* The input does not parse, enters something a session does not take, changes a type,
\* or neither of its wrappers compiles.
RefuseSource ==
    /\ Admit
    /\ answer' = "error"
    /\ UNCHANGED <<content, ended>>
    /\ Sampled(FALSE)

Compiles(i) == ~Changed(i)

\* Mutant: the entry of an input that fails is not kept.
RegisterBare == units' = units \cap Live

\* The entries of units nobody can call go; the input's own is there before it runs.
Register == units' = (units \cap Live) \cup {inputs + 1}

\* The types the input's unit is compiled with.
TypesOf(i) ==
    LET decls == Declared(i, Len(i.decls))
    IN  {<<m, decls[m]>> : m \in {m \in DOMAIN decls : decls[m] \in Types}}

Referenced(i) == names \cap (i.mentions \cup i.lets)
Handles(i) == {state[n] : n \in Referenced(i)}

\* What unit u's code can make.
MadeBy(u, types) == {[unit |-> u]} \cup {[unit |-> u, type |-> t[1], source |-> t[2]] : t \in types}

\* What the input's code can reach or make, calling the closures it can reach.
Values(i) ==
    LET found == Held(Handles(i))
    IN  found \cup MadeBy(inputs + 1, TypesOf(i))
              \cup UNION {MadeBy(c.unit, code[c.unit]) : c \in ClosuresOf(found)}

Contents(i) == {s \in SUBSET Values(i) : Cardinality(s) <= MaxItems}

\* What the code did to one of its handles.
Mutated(i) ==
    {held} \cup {[held EXCEPT ![h] = s] : h \in Handles(i), s \in Contents(i)}

\* The names the wrapper returns, and the values they may have: a handle the input
\* had, or a new one.
Delta(i) == Referenced(i) \cup i.lets
Bound(i) ==
    {b \in [Delta(i) -> Handles(i) \cup {<<inputs + 1, n>> : n \in Delta(i)}] :
        \A n \in Delta(i) : b[n][1] = inputs + 1 => b[n][2] = n}

\* The same, with something in the handles the input made.
Filled(i, b) ==
    LET fresh == {b[n] : n \in DOMAIN b} \ Reachable
    IN  IF fresh = {} THEN Mutated(i)
        ELSE {[h \in Handle |-> IF h \in fresh THEN s ELSE heap[h]] :
                  heap \in Mutated(i), s \in Contents(i)}

\* What no binding holds is dropped, and the units no closure keeps with it.
Kept(heaps, bound) ==
    {[h \in Handle |-> IF \E n \in DOMAIN bound : bound[n] = h THEN heap[h] ELSE {}] :
        heap \in heaps}
KeepCode(i) ==
    code' = [u \in 1..MaxInputs |-> IF u \notin Live' THEN {}
                                   ELSE IF u = inputs + 1 THEN TypesOf(i) ELSE code[u]]

Merged(b) == [n \in DOMAIN state \cup DOMAIN b |-> IF n \in DOMAIN b THEN b[n] ELSE state[n]]

\* Mutant: declarations are kept when the run fails.
RunFailsDeclared(i) ==
    /\ Admit /\ Compiles(i)
    /\ Register
    /\ held' \in Mutated(i)
    /\ declarations' = Declared(i, Len(i.decls))
    /\ answer' = "error" /\ ended' = FALSE
    /\ UNCHANGED <<names, state, published>>
    /\ KeepCode(i)
    /\ Sampled(FALSE)

\* The run fails, is interrupted or exhausts its budget; nothing is published.
RunFails(i) ==
    /\ Admit /\ Compiles(i)
    /\ Register
    /\ held' \in Mutated(i)
    /\ answer' = "error"
    /\ ended' \in BOOLEAN           \* lifecycle.finish: an operation's cleanup failed
    /\ Sampled(FALSE)
    /\ UNCHANGED <<declarations, names, state, published>>
    /\ KeepCode(i)

\* The run returns and its delta, declarations and names are published, whatever
\* lifecycle.finish says afterwards.
RunSucceeds(i) ==
    /\ Admit /\ Compiles(i)
    /\ Register
    /\ \E b \in Bound(i) :
          /\ state' = Merged(b)
          /\ held' \in Kept(Filled(i, b), Merged(b))
    /\ KeepCode(i)
    /\ declarations' = Declared(i, Len(i.decls))
    /\ names' = names \cup i.lets
    /\ published' = published \cup {inputs + 1}
    /\ \/ answer' = "value" /\ UNCHANGED ended
       \/ answer' = "error" /\ ended' = TRUE
    /\ Sampled(FALSE)

Eval == \E i \in Input : RunFails(i) \/ RunSucceeds(i)

-----------------------------------------------------------------------------
\* Commands.

Renumber ==
    /\ ~ended
    /\ Len(numberings) < MaxNumberings
    /\ numberings' = Append(numberings, inputs)
    /\ answer' = "none"
    /\ UNCHANGED <<content, inputs, ended>>
    /\ Sampled(over)

\* :reset; the process leaves when an operation's cleanup fails.
Reset ==
    /\ ~ended
    /\ declarations' = Nothing /\ names' = {} /\ state' = Nothing
    /\ inputs' = 0 /\ numberings' = <<>> /\ units' = {}
    /\ held' = Empty /\ code' = NoCode /\ published' = {}
    /\ answer' = "none"
    /\ ended' \in BOOLEAN
    /\ Sampled(FALSE)

Next == RefuseInput \/ RefuseSource \/ Eval \/ Renumber \/ Reset

Spec == Init /\ [][Next]_vars

-----------------------------------------------------------------------------

TypeOK ==
    /\ declarations \in UNION {[d -> Sources] : d \in SUBSET Names}
    /\ names \subseteq Names
    /\ state \in UNION {[d -> Handle] : d \in SUBSET Names}
    /\ inputs \in 0..MaxInputs
    /\ numberings \in Seq(0..inputs) /\ Len(numberings) <= MaxNumberings
    /\ units \cup published \subseteq 1..inputs
    /\ held \in [Handle -> SUBSET Item]
    /\ code \in [1..MaxInputs -> SUBSET (Names \X Types)]
    /\ answer \in {"none", "value", "error", "refused"}
    /\ {over, ended} \subseteq BOOLEAN

\* Every published name has a value, and nothing else has one: the prelude of a later
\* input (let x = __rnx_state["x"]) finds each name it restores, whatever inputs failed
\* in between and however.
NamesBound == names = DOMAIN state

\* An input that is answered with an error leaves the names, the declarations and the
\* handle of every binding as they were, unless the session ends with it.
FailedKeeps ==
    [][answer' = "error" /\ ~ended' => UNCHANGED <<declarations, names, state>>]_vars

\* A closure that some binding can reach has the map of its unit, so an error inside it
\* is placed: also when it was kept by an input that failed, and whatever was pruned since.
ClosuresMapped == Live \subseteq units

\* An instance that a published unit's code made has the shape its type is declared with,
\* until :reset, whoever called that code and however often the type was redeclared.
InstancesOfPublished ==
    \A x \in Held(Reachable) \cap Instance :
        x.unit \in published => /\ x.type \in DOMAIN declarations
                               /\ declarations[x.type] = x.source

\* No two inputs are cited by the same number, however numberings were started.
NumbersUnique ==
    \A i, j \in 1..inputs : InputNumber(i) = InputNumber(j) => i = j

\* The number on the prompt is the one a diagnostic of that input has, without a numbering.
PromptHonest ==
    [][inputs' = inputs + 1 =>
          CurrentNumber' = [position |-> NextNumber, older |-> 0]]_vars

\* plans/0001_the_first_release.md:86, "Changed types require a reset": no binding reaches
\* an instance of a declared type with another shape.
InstancesMatch ==
    \A x \in Held(Reachable) \cap Instance :
        x.type \in DOMAIN declarations => declarations[x.type] = x.source

\* Session: its tables agree with each other and with the values, after every order of
\* inputs that succeed, fail and are refused.
TablesAgree == TypeOK /\ NamesBound /\ ClosuresMapped /\ InstancesOfPublished /\ NumbersUnique

\* Session::eval: what an input says of itself, that it failed or which one it is, is true.
InputsHonest == FailedKeeps /\ PromptHonest

=============================================================================
