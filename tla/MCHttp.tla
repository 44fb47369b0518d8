------------------------------- MODULE MCHttp -------------------------------
(***************************************************************************)
(* The HTTP server, for TLC: its threads (HttpServer), its log (HttpLog)   *)
(* and the choice of a route (Routes).                                     *)
(*                                                                         *)
(* The parts are not connected: a behaviour takes steps of one of them.    *)
(* The routes are patterns of one and two segments over one literal, the   *)
(* empty one and two parameters, and paths that match several of them.     *)
(***************************************************************************)
EXTENDS HttpServer, HttpLog, Routes, TLC

CONSTANTS m1, m2, m3

VARIABLE part

L(t) == [kind |-> "literal", text |-> t]
P(n) == [kind |-> "param", text |-> n]

MCPattern ==
    {<<L("a")>>, <<P("x")>>,
     <<L("a"), P("x")>>, <<P("x"), L("a")>>, <<P("x"), P("y")>>, <<P("y"), P("x")>>,
     <<P("x"), L("")>>}

MCRow == [method : {"GET", "POST"}, pattern : MCPattern, valid : {TRUE}]
         \cup {[method |-> "HEAD", pattern |-> <<L("a")>>, valid |-> TRUE]}
         \cup {[method |-> "GET", pattern |-> <<L("a")>>, valid |-> FALSE]}

MCMethod == {"GET", "HEAD", "POST"}

\* "%61" stands for "a", "%6" for nothing.
MCDecoded == "a" :> "a" @@ "%61" :> "a" @@ "" :> "" @@ "%6" :> "malformed"

MCPath ==
    {<<"a">>, <<"%61">>, <<"">>,
     <<"a", "a">>, <<"a", "">>, <<"a", "%6">>, <<"%6", "a">>, <<"", "a">>}

MCHookSet == {{}, {405}}

\* Two patient requests and two producers are the same model values.
MCSymmetry == Permutations(Patient)

MCInit ==
    /\ part \in {"server", "log", "routes"}
    /\ HttpInit /\ LogInit /\ RouteInit
    /\ part # "routes" => hooks = {}

MCNext ==
    \/ /\ part = "server" /\ HttpNext /\ \A r \in Patient : status'[r] # "left"
       /\ UNCHANGED <<part, logVars, routesVars>>
    \/ part = "log" /\ LogNext /\ UNCHANGED <<part, httpVars, routesVars>>
    \/ part = "routes" /\ RouteNext /\ UNCHANGED <<part, httpVars, logVars>>

MCSpec == MCInit /\ [][MCNext]_<<part, httpVars, logVars, routesVars>>
=============================================================================
