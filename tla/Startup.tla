------------------------------- MODULE Startup -------------------------------
(****************************************************************************)
(* From the configuration file to a running watcher: the part of main.go    *)
(* before signal.NotifyContext, with SetDefaults and Validate of            *)
(* pkg/exporter/config.go, the options of pkg/kube/watcher_options.go and   *)
(* the caches that pkg/kube/objects.go makes with them.                     *)
(*                                                                          *)
(* A value is checked in up to three places, and none checks all of them.   *)
(* Durations are in hours, a regular expression compiles or does not, and   *)
(* the settings that are only passed on (cluster name, namespace, QPS and   *)
(* burst of the client, leader election, pprof) are left out.               *)
(****************************************************************************)
EXTENDS Integers

CONSTANTS
    Given,              \* the configurations to start from, see Config
    Env,                \* the values of MAPPING_CACHE_SIZE to start with
    Unset, Malformed,   \* a setting that is absent, one that does not parse
    Prefix,             \* of the names of the metrics; Unset is the empty one
    TakenPrefix,        \* those under which there is a metric of that name already
    Rule,
    RouteNode,          \* the routes of the tree
    RootNode,
    RulesOf,            \* the drop and match rules of each route
    SubRoutes           \* the sub-routes of each route

Config == [cacheSize : Int, mappingCacheSize : Int,
           cacheTTL : Int \cup {Unset, Malformed},
           throttlePeriod : Int, maxEventAgeSeconds : Int,
           logLegal : BOOLEAN,          \* logLevel and logFormat are known
           metricsNamePrefix : Prefix \cup {Malformed},
           broken : SUBSET Rule]        \* the rules with a pattern that does not compile

ASSUME GivenAssumption == Given \subseteq Config
ASSUME EnvAssumption == Env \subseteq Int \cup {Unset, Malformed}
ASSUME NoValueAssumption == Unset \notin Int /\ Malformed \notin Int /\ Unset # Malformed
ASSUME PrefixAssumption == Malformed \notin Prefix /\ TakenPrefix \subseteq Prefix
ASSUME RouteAssumption ==
    /\ RootNode \in RouteNode
    /\ RulesOf \in [RouteNode -> SUBSET Rule]
    /\ SubRoutes \in [RouteNode -> SUBSET RouteNode]

DefaultCacheSize == 1024
DefaultMappingCacheSize == DefaultCacheSize \div 4
DefaultCacheTTL == 12
MaxCacheTTL == 30 * 24
DefaultMaxEventAge == 5

VARIABLES
    given,      \* the configuration in the file
    env,        \* MAPPING_CACHE_SIZE
    config,     \* cfg, as main goes on changing it
    ttl,        \* cfg.cacheTTLDuration, 0 until it is parsed
    compiled,   \* the rules whose patterns have been compiled
    step,       \* what main does next, or how it ended
    blame       \* history: why log.Fatal was called

vars == <<given, env, config, ttl, compiled, step, blame>>

TypeOK ==
    /\ given \in Given
    /\ env \in Env
    /\ config \in Config
    /\ ttl \in 0 .. MaxCacheTTL
    /\ compiled \subseteq Rule
    /\ step \in {"file", "log", "defaults", "age", "ttl", "prefix", "patterns", "kube",
                 "metrics", "sinks", "options", "caches", "running", "fatal", "panicked"}
    /\ blame \in {"nothing", "config", "environment"}

Init ==
    /\ given \in Given
    /\ env \in Env
    /\ config = given
    /\ ttl = 0
    /\ compiled = {}
    /\ step = "file"
    /\ blame = "nothing"

Goto(from, to) == step = from /\ step' = to

Fatal(from, why) ==
    /\ Goto(from, "fatal")
    /\ blame' = why
    /\ UNCHANGED <<given, env, config, ttl, compiled>>

Larger(a, b) == IF a >= b THEN a ELSE b

-----------------------------------------------------------------------------
(* The file and the log                                                     *)

ParseConfigFromBytes ==
    /\ Goto("file", "log")
    /\ UNCHANGED <<given, env, config, ttl, compiled, blame>>

\* It cannot be read, or is no configuration in YAML.
ParseConfigFails == Fatal("file", "environment")

SetLog ==
    /\ config.logLegal
    /\ Goto("log", "defaults")
    /\ UNCHANGED <<given, env, config, ttl, compiled, blame>>

RejectLog ==
    /\ ~config.logLegal
    /\ Fatal("log", "config")

-----------------------------------------------------------------------------
(* Config.SetDefaults                                                       *)

CacheSizeOrDefault(c) == IF c.cacheSize = 0 THEN DefaultCacheSize ELSE c.cacheSize

\* Fault: the environment comes before the configuration.
MappingCacheSizeFromEnv(c) ==
    CASE env \notin {Unset, Malformed} /\ env > 0 -> env
      [] c.mappingCacheSize <= 0 /\ env = Unset ->
            Larger(DefaultMappingCacheSize, CacheSizeOrDefault(c) \div 4)
      [] OTHER -> c.mappingCacheSize

\* The configuration, else the environment, else a quarter of the cache.
MappingCacheSizeOrDefault(c) ==
    CASE c.mappingCacheSize > 0 -> c.mappingCacheSize
      [] c.mappingCacheSize <= 0 /\ env = Unset ->
            Larger(DefaultMappingCacheSize, CacheSizeOrDefault(c) \div 4)
      [] c.mappingCacheSize <= 0 /\ env # Unset ->
            IF env # Malformed /\ env > 0 THEN env ELSE c.mappingCacheSize

SetDefaults ==
    /\ Goto("defaults", "age")
    /\ config' = [config EXCEPT
                    !.cacheSize = CacheSizeOrDefault(config),
                    !.mappingCacheSize = MappingCacheSizeOrDefault(config),
                    !.cacheTTL = IF @ = Unset THEN DefaultCacheTTL ELSE @]
    /\ UNCHANGED <<given, env, ttl, compiled, blame>>

-----------------------------------------------------------------------------
(* Config.Validate, which completes the configuration as well               *)

ValidateMaxEventAge ==
    /\ config.throttlePeriod = 0 \/ config.maxEventAgeSeconds = 0
    /\ Goto("age", "ttl")
    /\ config' = [config EXCEPT !.maxEventAgeSeconds =
                    CASE config.throttlePeriod # 0 -> config.throttlePeriod
                      [] config.throttlePeriod = 0 /\ @ = 0 -> DefaultMaxEventAge
                      [] OTHER -> @]
    /\ UNCHANGED <<given, env, ttl, compiled, blame>>

RejectMaxEventAge ==
    /\ config.throttlePeriod # 0 /\ config.maxEventAgeSeconds # 0
    /\ Fatal("age", "config")

\* Fault: no upper limit.
TTLPositive(t) == t \notin {Unset, Malformed} /\ t > 0

TTLLegal(t) == t \notin {Unset, Malformed} /\ t > 0 /\ t <= MaxCacheTTL

ValidateCacheTTL ==
    /\ TTLLegal(config.cacheTTL)
    /\ Goto("ttl", "prefix")
    /\ ttl' = config.cacheTTL
    /\ UNCHANGED <<given, env, config, compiled, blame>>

RejectCacheTTL ==
    /\ ~TTLLegal(config.cacheTTL)
    /\ Fatal("ttl", "config")

ValidateMetricsNamePrefix ==
    /\ config.metricsNamePrefix # Malformed
    /\ Goto("prefix", "patterns")
    /\ UNCHANGED <<given, env, config, ttl, compiled, blame>>

RejectMetricsNamePrefix ==
    /\ config.metricsNamePrefix = Malformed
    /\ Fatal("prefix", "config")

\* Fault: only the top route and its own sub-routes are compiled.
VisitedTop == {RootNode} \cup SubRoutes[RootNode]

\* The routes preCompileRoute comes to: the least set that holds the top route
\* and with each route its sub-routes.
Visited ==
    {n \in RouteNode : \A S \in SUBSET RouteNode :
        RootNode \in S /\ (\A r \in S : SubRoutes[r] \subseteq S) => n \in S}

RulesVisited == UNION {RulesOf[r] : r \in Visited}

PreCompilePatterns ==
    /\ RulesVisited \cap config.broken = {}
    /\ Goto("patterns", "kube")
    /\ compiled' = RulesVisited
    /\ UNCHANGED <<given, env, config, ttl, blame>>

RejectPatterns ==
    /\ RulesVisited \cap config.broken # {}
    /\ Fatal("patterns", "config")

-----------------------------------------------------------------------------
(* The client configuration, the metrics, the sinks and the watcher         *)

GetKubernetesConfig ==
    /\ Goto("kube", "metrics")
    /\ UNCHANGED <<given, env, config, ttl, compiled, blame>>

GetKubernetesConfigFails == Fatal("kube", "environment")

\* Registering a metric whose name is taken panics.  Validate does not know the
\* names of the other collectors, go_build_info among them.
NewMetricsStore ==
    /\ Goto("metrics", IF config.metricsNamePrefix \in TakenPrefix
                       THEN "panicked" ELSE "sinks")
    /\ UNCHANGED <<given, env, config, ttl, compiled, blame>>

\* NewEngine: the sinks are made and registered.
MakeSinks ==
    /\ Goto("sinks", "options")
    /\ UNCHANGED <<given, env, config, ttl, compiled, blame>>

MakeSinksFails == Fatal("sinks", "environment")

OptionsLegal ==
    /\ config.cacheSize > 0
    /\ config.mappingCacheSize > 0
    /\ ttl > 0
    /\ config.maxEventAgeSeconds > 0

NewEventWatcherRequired ==
    /\ OptionsLegal
    /\ Goto("options", "caches")
    /\ UNCHANGED <<given, env, config, ttl, compiled, blame>>

\* By now the sinks are open, and nothing closes them.
RejectOptions ==
    /\ ~OptionsLegal
    /\ Fatal("options", "config")

\* External: a 2Q cache keeps ghosts for half of its size, rounded down, and
\* cannot be made without any.
TwoQueueLegal(size) == size \div 2 > 0

MakeCaches ==
    /\ Goto("caches", IF TwoQueueLegal(config.cacheSize)
                            /\ TwoQueueLegal(config.mappingCacheSize)
                      THEN "running" ELSE "panicked")
    /\ UNCHANGED <<given, env, config, ttl, compiled, blame>>

-----------------------------------------------------------------------------
Ended == step \in {"running", "fatal", "panicked"} /\ UNCHANGED vars

Next ==
    \/ ParseConfigFromBytes \/ ParseConfigFails
    \/ SetLog \/ RejectLog
    \/ SetDefaults
    \/ ValidateMaxEventAge \/ RejectMaxEventAge
    \/ ValidateCacheTTL \/ RejectCacheTTL
    \/ ValidateMetricsNamePrefix \/ RejectMetricsNamePrefix
    \/ PreCompilePatterns \/ RejectPatterns
    \/ GetKubernetesConfig \/ GetKubernetesConfigFails
    \/ NewMetricsStore
    \/ MakeSinks \/ MakeSinksFails
    \/ NewEventWatcherRequired \/ RejectOptions
    \/ MakeCaches
    \/ Ended

Spec == Init /\ [][Next]_vars

-----------------------------------------------------------------------------
(* Properties.                                                              *)

\* Whatever the file says, a watcher that runs has caches it can use, a time
\* to live within the limit, an age limit that lets something through, and
\* no rule, however deep, whose pattern is still a string (config.go:71-208,
\* rule.go:11-14): no one check establishes it, they do together.
RunningIsSound ==
    step = "running" =>
        /\ config.cacheSize > 1 /\ config.mappingCacheSize > 1
        /\ ttl \in 1 .. MaxCacheTTL
        /\ config.maxEventAgeSeconds > 0
        /\ compiled = Rule /\ compiled \cap config.broken = {}

\* A setting is legal when it is left out or in its range.
Legal ==
    /\ given.cacheSize = 0 \/ given.cacheSize > 1
    /\ \/ given.mappingCacheSize > 1
       \/ /\ given.mappingCacheSize <= 0
          /\ env = Unset \/ (env # Malformed /\ env > 1)
    /\ given.cacheTTL = Unset \/ TTLLegal(given.cacheTTL)
    /\ given.throttlePeriod >= 0 /\ given.maxEventAgeSeconds >= 0
    /\ given.throttlePeriod = 0 \/ given.maxEventAgeSeconds = 0
    /\ given.logLegal
    /\ given.metricsNamePrefix \in Prefix \ TakenPrefix
    /\ given.broken = {}

\* A legal configuration is never refused, half-way or by a panic, and what
\* it sets is what the watcher gets: no default, no environment variable and
\* no other setting takes its place (config.go:71-164).
LegalIsObeyed ==
    Legal =>
        /\ step # "panicked"
        /\ blame # "config"
        /\ step = "running" =>
             /\ given.cacheSize # 0 => config.cacheSize = given.cacheSize
             /\ given.mappingCacheSize > 0 =>
                  config.mappingCacheSize = given.mappingCacheSize
             /\ given.cacheTTL # Unset => ttl = given.cacheTTL
             /\ config.maxEventAgeSeconds \in
                  {DefaultMaxEventAge, given.maxEventAgeSeconds, given.throttlePeriod} \ {0}
             /\ given.maxEventAgeSeconds + given.throttlePeriod # 0 =>
                  config.maxEventAgeSeconds =
                      given.maxEventAgeSeconds + given.throttlePeriod

=============================================================================
