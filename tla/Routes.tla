------------------------------- MODULE Routes -------------------------------
(***************************************************************************)
(* The routing table of `rnx serve` (src/http_server/routes.rs, value.rs). *)
(*                                                                         *)
(* The rows of routes() are decoded one by one into a table, or refused    *)
(* with it.  A request selects a pattern by its path, then a row by its    *)
(* method; an error may be answered by a hook of the program, whose status *)
(* and Allow header the host settles.                                      *)
(***************************************************************************)
EXTENDS Naturals, Sequences, SequencesExt

CONSTANTS
    Row,        \* rows routes() may return: [method, pattern, valid]
    Method,     \* methods of requests
    Path,       \* paths of requests, sequences of raw parts
    Empty,      \* the part of no characters
    Decoded,    \* of each part, what its percent escapes stand for, or Malformed
    Malformed,
    HookSet,    \* error hooks a program may export
    MAX_ROUTES

Segment == [kind : {"literal", "param"}, text : STRING]

\* A path and a pattern that are split at their slashes have at least one part.
ASSUME RoutesAssumption ==
    /\ MAX_ROUTES \in Nat
    /\ \A p \in Path : p \in Seq(DOMAIN Decoded) /\ p # <<>>
    /\ \A r \in Row : r.pattern \in Seq(Segment) /\ r.pattern # <<>>

VARIABLES
    phase,      \* "decoding", "refused" or "serving"
    entries,    \* Routes.entries
    hooks,      \* Routes.hooks
    routeReply  \* the last request, its Selection and what the client is told

routesVars == <<phase, entries, hooks, routeReply>>

Statuses == {404, 405, 400}
NoReply == [status |-> 0]

RouteInit ==
    /\ phase = "decoding" /\ entries = <<>>
    /\ hooks \in HookSet
    /\ routeReply = NoReply

-----------------------------------------------------------------------------
\* Patterns.

Param(s) == s.kind = "param"

same_shape(a, b) ==
    /\ Len(a) = Len(b)
    /\ \A i \in DOMAIN a : a[i] = b[i] \/ (Param(a[i]) /\ Param(b[i]))

\* Mutant: the pattern with more literals.
more_literals(a, b) ==
    LET Literals(p) == Len(SelectSeq(p, LAMBDA s : ~Param(s)))
    IN  Literals(a) > Literals(b)

\* The first segment where one is a literal and the other a parameter decides.
more_specific(a, b) ==
    \E i \in DOMAIN a \cap DOMAIN b :
        /\ ~Param(a[i]) /\ Param(b[i])
        /\ \A j \in 1..(i - 1) : Param(a[j]) = Param(b[j])

Matches(pattern, path) ==
    /\ Len(pattern) = Len(path)
    /\ \A i \in DOMAIN path :
          IF Param(pattern[i]) THEN path[i] # Empty ELSE pattern[i].text = path[i]

-----------------------------------------------------------------------------
\* Routes::decode.

\* A row of the same shape is the same pattern, under another method.
Conflicts(row) ==
    \E i \in DOMAIN entries :
        /\ same_shape(entries[i].pattern, row.pattern)
        /\ entries[i].pattern # row.pattern \/ entries[i].method = row.method

DecodeRow(row) ==
    /\ phase = "decoding" /\ Len(entries) < MAX_ROUTES
    /\ row.valid /\ ~Conflicts(row)
    /\ entries' = Append(entries, row)
    /\ UNCHANGED <<phase, hooks, routeReply>>

\* One row refuses the table, and the server does not start.
RefuseRow(row) ==
    /\ phase = "decoding"
    /\ ~row.valid \/ Conflicts(row) \/ Len(entries) = MAX_ROUTES
    /\ phase' = "refused"
    /\ UNCHANGED <<entries, hooks, routeReply>>

\* Every row is decoded; a hook of another arity than one refuses the table too.
CheckHooks ==
    /\ phase = "decoding"
    /\ phase' \in {"serving", "refused"}
    /\ UNCHANGED <<entries, hooks, routeReply>>

-----------------------------------------------------------------------------
\* Routes::select.

Error(status, allow) == [handler |-> "none", status |-> status, allow |-> allow, params |-> <<>>]

\* Of two patterns that match, the first stays unless the second is more specific.
Better(best, e) ==
    IF /\ Matches(e.pattern, best.path)
       /\ best.pattern = <<>> \/ more_specific(e.pattern, best.pattern)
    THEN [best EXCEPT !.pattern = e.pattern] ELSE best

Best(table, path) == FoldLeft(Better, [path |-> path, pattern |-> <<>>], table).pattern

Params(pattern, path) ==
    {[name |-> pattern[i].text, value |-> Decoded[path[i]]] :
        i \in {j \in DOMAIN path : Param(pattern[j])}}

MethodsOf(table, pattern) ==
    {table[i].method : i \in {j \in DOMAIN table : table[j].pattern = pattern}}

\* GET answers HEAD too.
Allow(methods) == methods \cup (IF "GET" \in methods THEN {"HEAD"} ELSE {})

select(table, method, path) ==
    LET best == Best(table, path)
        params == Params(best, path)
        methods == MethodsOf(table, best)
        row == IF method = "HEAD" /\ "HEAD" \notin methods THEN "GET" ELSE method
    IN  IF best = <<>> THEN Error(404, {})
        ELSE IF \E p \in params : p.value = Malformed THEN Error(400, {})
        ELSE IF row \in methods
             THEN [handler |-> "row", status |-> 0, allow |-> {}, params |-> params,
                   row |-> [method |-> row, pattern |-> best]]
        ELSE Error(405, Allow(methods))

-----------------------------------------------------------------------------
\* The answer: request (mod.rs), Output::routed.

\* A hook of another status is a failure; the host's Allow replaces the hook's.
Routed(selection, output) ==
    IF output.status # selection.status THEN [status |-> 500, allow |-> {}]
    ELSE [status |-> output.status,
          allow |-> IF selection.status = 405 THEN selection.allow ELSE output.allow]

\* The program's answer to an error: a hook returns what it likes; without one, the host.
Outputs(selection) ==
    IF selection.status \in hooks
    THEN [status : {selection.status, 200}, allow : {{"GET"}}]
    ELSE {[status |-> selection.status, allow |-> {}]}

RouteRequest(method, path) ==
    /\ phase = "serving" /\ routeReply = NoReply
    /\ LET selection == select(entries, method, path)
       IN  IF selection.handler = "row"
           THEN routeReply' = [method |-> method, path |-> path, selection |-> selection,
                               status |-> 200]
           ELSE \E output \in Outputs(selection) :
                   routeReply' = [method |-> method, path |-> path, selection |-> selection,
                             status |-> Routed(selection, output).status,
                             allow |-> Routed(selection, output).allow]
    /\ UNCHANGED <<phase, entries, hooks>>

\* The client has its answer.
RouteDone == routeReply # NoReply /\ routeReply' = NoReply /\ UNCHANGED <<phase, entries, hooks>>

Refused == phase = "refused" /\ UNCHANGED routesVars

RouteNext ==
    \/ \E row \in Row : DecodeRow(row) \/ RefuseRow(row)
    \/ CheckHooks \/ Refused \/ RouteDone
    \/ \E method \in Method, path \in Path : RouteRequest(method, path)

RouteSpec == RouteInit /\ [][RouteNext]_routesVars

-----------------------------------------------------------------------------

RouteTypeOK ==
    /\ phase \in {"decoding", "refused", "serving"}
    /\ entries \in Seq(Row) /\ Len(entries) <= MAX_ROUTES
    /\ hooks \in HookSet
    /\ routeReply = NoReply \/ routeReply.status \in Statuses \cup {200, 500}

Answered == routeReply # NoReply

\* The order of the rows decides nothing: any other order of the same table selects the
\* same handler, parameters, status and Allow.
OrderIrrelevant ==
    Answered =>
        \A table \in {[i \in DOMAIN entries |-> entries[p[i]]] :
                        p \in {f \in [DOMAIN entries -> DOMAIN entries] : IsInjective(f)}} :
            select(table, routeReply.method, routeReply.path) = routeReply.selection

\* The pattern that answers has a literal wherever an earlier agreement leaves a choice,
\* whether or not it has the method: a row that would take the request is passed over
\* only for a pattern that is more literal at the first segment where the two differ.
MostSpecific ==
    Answered =>
        \A i \in DOMAIN entries :
            Matches(entries[i].pattern, routeReply.path) =>
                LET best == Best(entries, routeReply.path)
                    pattern == entries[i].pattern
                IN  pattern = best
                    \/ \E k \in DOMAIN best :
                          /\ ~Param(best[k]) /\ Param(pattern[k])
                          /\ \A j \in 1..(k - 1) : Param(best[j]) = Param(pattern[j])

\* A client told 405 is told every method that the path answers, and no other, whatever
\* the hook returned.
AllowHonest ==
    Answered /\ routeReply.selection.handler = "none" /\ routeReply.status = 405 =>
        \A m \in Method :
            m \in routeReply.allow <=> select(entries, m, routeReply.path).handler = "row"

\* select: which row answers a request depends on the set of rows only, and Allow is true.
RoutesSound == RouteTypeOK /\ OrderIrrelevant /\ MostSpecific /\ AllowHonest

=============================================================================
