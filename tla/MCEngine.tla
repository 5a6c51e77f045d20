------------------------------- MODULE MCEngine -------------------------------
(****************************************************************************)
(* Engine for TLC.  The tree is that of the README's example, with a drop   *)
(* rule at the root and two levels more below its route for critical        *)
(* events.  Every setting is absent, legal, at the edge of its range and    *)
(* beyond it.                                                               *)
(****************************************************************************)
EXTENDS Engine, TLC

CONSTANTS root, dump, critical, repeated, dev, users

MCRoute == {root, dump, critical, repeated, dev, users}

MCSub ==
    root :> <<dump, critical, users>> @@ critical :> <<repeated>>
      @@ repeated :> <<dev>> @@ dump :> <<>> @@ dev :> <<>> @@ users :> <<>>

\* A rule without conditions, and rules that add to it.
Anything == [fields |-> <<>>, labels |-> <<>>, annotations |-> <<>>,
        minCount |-> 0, receiver |-> NoReceiver]
To(rule, name) == [rule EXCEPT !.receiver = name]
In(rule, f, pattern) == [rule EXCEPT !.fields = (f :> pattern) @@ @]
Labelled(rule, pattern) == [rule EXCEPT !.labels = "version" :> pattern]
Noted(rule, pattern) == [rule EXCEPT !.annotations = "team" :> pattern]
AtLeast(rule, n) == [rule EXCEPT !.minCount = n]

MCDrop ==
    root :> <<In(Anything, "namespace", {"kube"})>>
      @@ critical :> <<In(Anything, "namespace", {"test"}), In(Anything, "type", {"Normal"})>>
      @@ dev :> <<Noted(Anything, {"muted"})>>
      @@ dump :> <<>> @@ repeated :> <<>> @@ users :> <<>>

MCMatch ==
    root :> <<>>
      @@ dump :> <<To(Anything, "dump")>>
      @@ critical :> <<To(Anything, "queue")>>
      @@ repeated :> <<AtLeast(To(Anything, "pager"), 2), In(Anything, "kind", {"Pod"})>>
      @@ dev :> <<To(Labelled(Anything, {"dev"}), "slack"), To(AtLeast(Anything, 3), "opsgenie")>>
      @@ users :> <<To(Labelled(In(Anything, "kind", {"Pod"}), {"dev"}), "slack")>>

MCEvent ==
    [fields : [namespace : {"prod", "test", "kube"}, type : {"Normal", "Warning"},
               kind : {"Pod", "Node"}],
     labels : {<<>>, "version" :> "dev", "version" :> "prod"},
     annotations : {<<>>, "team" :> "muted"},
     count : 1 .. 3]

\* The one that matches one of the two rules of repeated, and all of dev.
PagedNode ==
    {ev \in MCEvent :
        /\ ev.fields = [namespace |-> "prod", type |-> "Warning", kind |-> "Node"]
        /\ ev.labels = ("version" :> "dev") /\ ev.annotations = <<>> /\ ev.count = 3}

MCFirstEvent == CHOOSE ev \in PagedNode : TRUE

-----------------------------------------------------------------------------
(* The start *)

MCSubRoutes == [r \in MCRoute |-> {MCSub[r][i] : i \in DOMAIN MCSub[r]}]
MCRulesOf == [r \in MCRoute |-> RulesAt(r)]
MCRule == UNION {MCRulesOf[r] : r \in MCRoute}

\* One at the top and one at the bottom.
DropRule == <<root, "drop", 1>>
LeafRule == <<dev, "match", 1>>

\* Metrics may be named go_ and so on: go_build_info is one of the Go collectors.
MCPrefix == {Unset, "event_exporter_", "go_"}
MCTakenPrefix == {"go_"}

\* All the numbers, and the other settings one at a time.
MCGiven ==
    [cacheSize : {-1, 0, 1, 2, 2048},
     mappingCacheSize : {-1, 0, 1, 300},
     cacheTTL : {Unset, Malformed, 0, 1, MaxCacheTTL, MaxCacheTTL + 1},
     throttlePeriod : {-1, 0, 30},
     maxEventAgeSeconds : {-1, 0, 60},
     logLegal : {TRUE},
     metricsNamePrefix : MCPrefix,
     broken : {{}, {DropRule}, {LeafRule}}]
    \cup
    [cacheSize : {0}, mappingCacheSize : {0}, cacheTTL : {Unset}, throttlePeriod : {0},
     maxEventAgeSeconds : {0}, logLegal : BOOLEAN,
     metricsNamePrefix : MCPrefix \cup {Malformed}, broken : {{}, {DropRule}}]

MCEnv == {Unset, Malformed, 0, 1, 200}

MCFollowed ==
    {c \in MCGiven :
        /\ c.cacheSize = 0 /\ c.mappingCacheSize = 0 /\ c.cacheTTL = Unset
        /\ c.throttlePeriod = 0 /\ c.maxEventAgeSeconds = 0 /\ c.logLegal
        /\ c.metricsNamePrefix = Unset /\ c.broken = {}}

=============================================================================
