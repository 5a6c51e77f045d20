------------------------------- MODULE Routing -------------------------------
(****************************************************************************)
(* Rule.MatchesEvent and Route.ProcessEvent of pkg/exporter: which          *)
(* receivers an event is sent to on its way through the tree of routes.     *)
(*                                                                          *)
(* ProcessEvent calls itself for the sub-routes, one after the other.  The  *)
(* calls still to be made are the stack todo; one step is one call up to    *)
(* its own recursion.  SendEvent only starts a goroutine, so nothing else   *)
(* happens between two sends.  Only the event's goroutine is involved       *)
(* (engine.go:39-41).                                                       *)
(*                                                                          *)
(* A pattern is the set of values its regular expression matches.  A rule   *)
(* field left empty in the configuration is not in the rule's domain.       *)
(****************************************************************************)
EXTENDS Integers, Sequences

CONSTANTS
    Route,          \* the nodes of the tree
    Root,
    Sub,            \* Route.Routes of each node: a sequence of nodes
    Drop,           \* Route.Drop of each node: a sequence of rules
    Match,          \* Route.Match of each node: a sequence of rules
    NoReceiver,     \* the receiver of a rule that names none
    Event           \* bound: the events that may occur

\* b is a sub-route of a.
IsSub(a, b) == \E i \in DOMAIN Sub[a] : Sub[a][i] = b

\* The routes above r in the tree: the least set that holds the parent of r
\* and the parent of each of its members.
Above(r) ==
    {a \in Route : \A S \in SUBSET Route :
        (\A p, q \in Route : IsSub(p, q) /\ (q = r \/ q \in S) => p \in S) => a \in S}

\* Routes are values nested in their parent (route.go:8-12): each has one place,
\* and all but the root are somewhere below it.
ASSUME TreeAssumption ==
    /\ Root \in Route
    /\ Sub \in [Route -> Seq(Route)]
    /\ \A r \in Route : ~IsSub(r, Root)
    /\ \A p, q, r \in Route : IsSub(p, r) /\ IsSub(q, r) => p = q
    /\ \A r \in Route : \A i, j \in DOMAIN Sub[r] : Sub[r][i] = Sub[r][j] => i = j
    /\ \A r \in Route \ {Root} : Root \in Above(r)
    /\ DOMAIN Match = Route /\ DOMAIN Drop = Route

\* A match rule, by its place in the tree.
Entry == UNION {{r} \X DOMAIN Match[r] : r \in Route}

VARIABLES
    event,          \* the event being processed
    todo,           \* the calls of ProcessEvent still to be made, next one first
    sent            \* how often each match rule has sent the event to its receiver

routingVars == <<event, todo, sent>>

RoutingTypeOK ==
    /\ event \in Event
    /\ todo \in Seq(Route)
    /\ sent \in [Entry -> Nat]

-----------------------------------------------------------------------------
(* Rules *)

\* Rule.MatchesEvent: every field given has to match, every label and
\* annotation asked for has to be there and match, and the event has to be
\* old enough in counts.
MatchesEvent(rule, ev) ==
    /\ \A f \in DOMAIN rule.fields : ev.fields[f] \in rule.fields[f]
    /\ \A k \in DOMAIN rule.labels :
         k \in DOMAIN ev.labels /\ ev.labels[k] \in rule.labels[k]
    /\ \A k \in DOMAIN rule.annotations :
         k \in DOMAIN ev.annotations /\ ev.annotations[k] \in rule.annotations[k]
    /\ ev.count >= rule.minCount

IsDropped(r, ev) == \E i \in DOMAIN Drop[r] : MatchesEvent(Drop[r][i], ev)

MatchesAll(r, ev) == \A i \in DOMAIN Match[r] : MatchesEvent(Match[r][i], ev)

\* The rule at e matches and names a receiver.
Sends(e, ev) ==
    LET rule == Match[e[1]][e[2]]
    IN  MatchesEvent(rule, ev) /\ rule.receiver # NoReceiver

-----------------------------------------------------------------------------
(* Engine.OnEvent and Route.ProcessEvent *)

RoutingInit ==
    /\ event \in Event
    /\ todo = <<Root>>
    /\ sent = [e \in Entry |-> 0]

OnEvent(ev) ==
    /\ todo = <<>>
    /\ event' = ev
    /\ todo' = <<Root>>
    /\ sent' = [e \in Entry |-> 0]

\* Fault: the drop ends the processing of the whole tree.
ProcessDroppedAll ==
    /\ todo # <<>>
    /\ IsDropped(Head(todo), event)
    /\ todo' = <<>>
    /\ UNCHANGED <<event, sent>>

\* A drop rule matches: the call returns and the subtree is not visited.
ProcessDropped ==
    /\ todo # <<>>
    /\ IsDropped(Head(todo), event)
    /\ todo' = Tail(todo)
    /\ UNCHANGED <<event, sent>>

\* Fault: each rule overwrites what the one before it said of matchesAll.
ProcessRouteLast ==
    /\ todo # <<>>
    /\ ~IsDropped(Head(todo), event)
    /\ sent' = [e \in Entry |->
                  sent[e] + IF e[1] = Head(todo) /\ Sends(e, event) THEN 1 ELSE 0]
    /\ LET rules == Match[Head(todo)]
       IN  todo' = (IF rules = <<>> \/ MatchesEvent(rules[Len(rules)], event)
                    THEN Sub[Head(todo)] ELSE <<>>) \o Tail(todo)
    /\ UNCHANGED event

\* Every match rule is looked at; the sub-routes follow only if all of them
\* match, at once and before the siblings of this route.
ProcessRoute ==
    /\ todo # <<>>
    /\ ~IsDropped(Head(todo), event)
    /\ sent' = [e \in Entry |->
                  sent[e] + IF e[1] = Head(todo) /\ Sends(e, event) THEN 1 ELSE 0]
    /\ todo' = (IF MatchesAll(Head(todo), event) THEN Sub[Head(todo)] ELSE <<>>)
                 \o Tail(todo)
    /\ UNCHANGED event

RoutingNext ==
    \/ \E ev \in Event : OnEvent(ev)
    \/ ProcessDropped
    \/ ProcessRoute

RoutingSpec == RoutingInit /\ [][RoutingNext]_routingVars

-----------------------------------------------------------------------------
(* What routing promises *)

\* The event comes to route r: no route above drops it and all their match
\* rules match.
Reaches(r, ev) == \A a \in Above(r) : ~IsDropped(a, ev) /\ MatchesAll(a, ev)

\* A receiver gets the event only from a rule that matches it, in a route that
\* does not drop it and that it comes to: a drop anywhere on the path, or a
\* match rule that fails above, protects the whole subtree (route.go:14-43).
\* This is the code's routing, not the README's: see RoutedAsDocumented.
SentOnlyWhenReached ==
    \A e \in Entry : sent[e] > 0 =>
        Sends(e, event) /\ Reaches(e[1], event) /\ ~IsDropped(e[1], event)

\* And it gets the event from every such rule exactly once: a sibling's drop
\* or failed match costs no other route its events.
SentToAllReached ==
    todo = <<>> => \A e \in Entry :
        sent[e] = IF Sends(e, event) /\ Reaches(e[1], event) /\ ~IsDropped(e[1], event)
                  THEN 1 ELSE 0

-----------------------------------------------------------------------------
(* What the README says of it *)

\* The way down to r as the README has it.
ComesTo(r, ev) ==
    \A a \in Above(r) :
        /\ ~IsDropped(a, ev)
        /\ Match[a] = <<>> \/ \E i \in DOMAIN Match[a] : MatchesEvent(Match[a][i], ev)

\* "The match rules in a route are independent of each other. If an event matches
\* a rule, it goes down it's subtree.  If all the match rules are matched, the
\* event is passed to the receiver." (README.md:78-79): when the event has been
\* processed, those receivers have it whose route it comes to in this way, is not
\* dropped by and matches altogether.  ProcessEvent has it the other way round: it
\* sends for each rule by itself (route.go:27), and goes down the subtree if all
\* the rules match (route.go:38).
RoutedAsDocumented ==
    todo = <<>> => \A e \in Entry :
        sent[e] > 0 <=>
            /\ ComesTo(e[1], event) /\ ~IsDropped(e[1], event)
            /\ MatchesAll(e[1], event) /\ Sends(e, event)

=============================================================================
