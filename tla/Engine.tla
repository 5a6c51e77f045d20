-------------------------------- MODULE Engine --------------------------------
(****************************************************************************)
(* The Engine of pkg/exporter/engine.go, from the file to the receivers:    *)
(* main loads the configuration and compiles the rules of its routes        *)
(* (module Startup), NewEngine keeps its tree, and once the watcher runs    *)
(* OnEvent takes each event through that tree (module Routing).             *)
(*                                                                          *)
(* A pattern matches the same values when it is compiled at the start and   *)
(* when rule.go:89-93 compiles it for each event, and no other setting has  *)
(* a part in the routing, so events are followed after some of the starts.  *)
(****************************************************************************)
EXTENDS Startup, Routing

CONSTANTS
    Followed,       \* bound: the configurations after which events are followed
    FirstEvent      \* bound: the first event; OnEvent brings any

\* The rules of a route: its place, which of the lists, and the place in it.
RulesAt(r) == ({r} \X {"drop"} \X DOMAIN Drop[r]) \cup ({r} \X {"match"} \X DOMAIN Match[r])

\* config.Route, which main has compiled, is the tree of the Engine.
ASSUME SameTreeAssumption ==
    /\ RouteNode = Route /\ RootNode = Root
    /\ \A r \in Route :
         SubRoutes[r] = {Sub[r][i] : i \in DOMAIN Sub[r]} /\ RulesOf[r] = RulesAt(r)

engineVars == <<vars, routingVars>>

EngineInit == Init /\ event = FirstEvent /\ RoutingInit

Start == Next /\ UNCHANGED routingVars

\* Events are processed by the rules as the start has left them.
Process ==
    /\ step = "running" /\ given \in Followed
    /\ RoutingNext
    /\ UNCHANGED vars

EngineNext == Start \/ Process

EngineSpec == EngineInit /\ [][EngineNext]_engineVars

=============================================================================
