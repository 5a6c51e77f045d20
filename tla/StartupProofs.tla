---------------------------- MODULE StartupProofs ----------------------------
(****************************************************************************)
(* Theorems about Startup, for every configuration file, every value of the *)
(* environment variable and every tree of routes.  The invariant says, for  *)
(* each step of main, what the steps before it have established.            *)
(****************************************************************************)
EXTENDS Startup, TLAPS

USE GivenAssumption, EnvAssumption, NoValueAssumption, PrefixAssumption, RouteAssumption

\* The steps that follow a check that let the configuration pass.
BeforeDefaults == {"file", "log", "defaults"}
AfterDefaults == {"age", "ttl", "prefix", "patterns", "kube", "metrics", "sinks", "options",
                  "caches", "running", "panicked"}
AfterAge == AfterDefaults \ {"age"}
AfterTTL == AfterAge \ {"ttl"}
AfterPrefix == AfterTTL \ {"prefix"}
AfterPatterns == AfterPrefix \ {"patterns"}
AfterOptions == {"caches", "running"}

\* What main never changes of the file.
KeptInv ==
    /\ config.throttlePeriod = given.throttlePeriod
    /\ config.logLegal = given.logLegal
    /\ config.metricsNamePrefix = given.metricsNamePrefix
    /\ config.broken = given.broken

\* The age limit Validate gives a configuration that it lets pass.
AgeLimit ==
    CASE given.throttlePeriod # 0 -> given.throttlePeriod
      [] given.throttlePeriod = 0 /\ given.maxEventAgeSeconds = 0 -> DefaultMaxEventAge
      [] OTHER -> given.maxEventAgeSeconds

\* What SetDefaults has done.
DefaultsInv ==
    /\ step \in BeforeDefaults => config = given
    /\ step \in AfterDefaults =>
         /\ config.cacheSize = CacheSizeOrDefault(given)
         /\ config.mappingCacheSize = MappingCacheSizeOrDefault(given)
         /\ config.cacheTTL = IF given.cacheTTL = Unset THEN DefaultCacheTTL
                              ELSE given.cacheTTL

\* What the checks have found, each from its step on.
CheckedInv ==
    /\ step = "age" => config.maxEventAgeSeconds = given.maxEventAgeSeconds
    /\ step \in AfterAge =>
         /\ given.throttlePeriod = 0 \/ given.maxEventAgeSeconds = 0
         /\ config.maxEventAgeSeconds = AgeLimit
    /\ step \in AfterTTL => TTLLegal(config.cacheTTL) /\ ttl = config.cacheTTL
    /\ step \in AfterPatterns =>
         compiled = RulesVisited /\ RulesVisited \cap config.broken = {}
    /\ step \in AfterOptions => OptionsLegal
    /\ step = "running" =>
         TwoQueueLegal(config.cacheSize) /\ TwoQueueLegal(config.mappingCacheSize)
    /\ step = "panicked" =>
         \/ config.metricsNamePrefix \in TakenPrefix
         \/ ~(TwoQueueLegal(config.cacheSize) /\ TwoQueueLegal(config.mappingCacheSize))

\* A configuration is blamed for what it is.
BlameInv == blame = "config" => step = "fatal" /\ ~Legal

IInv == TypeOK /\ KeptInv /\ DefaultsInv /\ CheckedInv /\ BlameInv

\* What a legal configuration is after SetDefaults and the checks of Validate.
LEMMA LegalPasses ==
  ASSUME given \in Config, env \in Env, Legal
  PROVE  /\ CacheSizeOrDefault(given) > 1
         /\ MappingCacheSizeOrDefault(given) > 1
         /\ AgeLimit > 0
         /\ given.cacheTTL # Unset => TTLLegal(given.cacheTTL)
  <1>1. given.cacheSize \in Int /\ given.mappingCacheSize \in Int
        /\ given.throttlePeriod \in Int /\ given.maxEventAgeSeconds \in Int
    BY DEF Config
  <1>2. CacheSizeOrDefault(given) > 1
    BY <1>1 DEF Legal, CacheSizeOrDefault, DefaultCacheSize
  <1>3. MappingCacheSizeOrDefault(given) > 1
    <2>1. CASE given.mappingCacheSize > 1
      BY <1>1, <2>1 DEF MappingCacheSizeOrDefault
    <2>2. CASE given.mappingCacheSize <= 0 /\ env = Unset
      <3>1. DefaultMappingCacheSize = 256
        BY DEF DefaultMappingCacheSize, DefaultCacheSize
      <3>2. CacheSizeOrDefault(given) \div 4 \in Int
        BY <1>1 DEF CacheSizeOrDefault, DefaultCacheSize
      <3>3. Larger(DefaultMappingCacheSize, CacheSizeOrDefault(given) \div 4) > 1
        BY <3>1, <3>2 DEF Larger
      <3> QED
        BY <1>1, <2>2, <3>3 DEF MappingCacheSizeOrDefault
    <2>3. CASE given.mappingCacheSize <= 0 /\ env # Unset
      <3>1. env \in Int /\ env # Malformed /\ env > 1
        BY <1>1, <2>3 DEF Legal
      <3>2. env > 0 /\ MappingCacheSizeOrDefault(given) = env
        BY <1>1, <2>3, <3>1 DEF MappingCacheSizeOrDefault
      <3> QED
        BY <3>1, <3>2
    <2> QED
      BY <1>1, <2>1, <2>2, <2>3 DEF Legal
  <1>4. AgeLimit > 0
    BY <1>1 DEF Legal, AgeLimit, DefaultMaxEventAge
  <1> QED
    BY <1>2, <1>3, <1>4 DEF Legal

\* Every file and environment satisfies the invariant at the start.
LEMMA InitIInv == Init => IInv
  BY DEF Init, IInv, TypeOK, KeptInv, DefaultsInv, CheckedInv, BlameInv, BeforeDefaults,
         AfterDefaults, AfterAge, AfterTTL, AfterPrefix, AfterPatterns, AfterOptions, MaxCacheTTL

\* SetDefaults gives every setting a value of its type.
LEMMA SetDefaultsIInv ==
  ASSUME IInv, SetDefaults
  PROVE  IInv'
  <1>1. /\ config = given /\ given \in Config /\ config \in Config /\ env \in Env
        /\ step = "defaults" /\ step' = "age" /\ UNCHANGED <<given, env, ttl, compiled, blame>>
    BY DEF IInv, TypeOK, DefaultsInv, BeforeDefaults, SetDefaults, Goto
  <1>2. CacheSizeOrDefault(config) \in Int
    BY <1>1 DEF CacheSizeOrDefault, Config, DefaultCacheSize
  <1>3. MappingCacheSizeOrDefault(config) \in Int
    <2>1. config.mappingCacheSize \in Int
      BY <1>1 DEF Config
    <2>2. DefaultMappingCacheSize \in Int /\ CacheSizeOrDefault(config) \div 4 \in Int
      BY <1>2 DEF DefaultMappingCacheSize, DefaultCacheSize
    <2>3. Larger(DefaultMappingCacheSize, CacheSizeOrDefault(config) \div 4) \in Int
      BY <2>2 DEF Larger
    <2>4. env # Unset /\ env # Malformed => env \in Int
      BY <1>1
    <2> QED
      BY <2>1, <2>3, <2>4 DEF MappingCacheSizeOrDefault
  <1>4. config' = [config EXCEPT
                     !.cacheSize = CacheSizeOrDefault(config),
                     !.mappingCacheSize = MappingCacheSizeOrDefault(config),
                     !.cacheTTL = IF config.cacheTTL = Unset THEN DefaultCacheTTL
                                  ELSE config.cacheTTL]
    BY DEF SetDefaults
  <1>5. config' \in Config
    <2>1. (IF config.cacheTTL = Unset THEN DefaultCacheTTL ELSE config.cacheTTL)
            \in Int \cup {Unset, Malformed}
      BY <1>1 DEF Config, DefaultCacheTTL
    <2> QED
      BY <1>1, <1>2, <1>3, <1>4, <2>1 DEF Config
  <1>6. /\ config'.cacheSize = CacheSizeOrDefault(config)
        /\ config'.mappingCacheSize = MappingCacheSizeOrDefault(config)
        /\ config'.cacheTTL = IF config.cacheTTL = Unset THEN DefaultCacheTTL
                              ELSE config.cacheTTL
        /\ config'.throttlePeriod = config.throttlePeriod
        /\ config'.maxEventAgeSeconds = config.maxEventAgeSeconds
        /\ config'.logLegal = config.logLegal
        /\ config'.metricsNamePrefix = config.metricsNamePrefix
        /\ config'.broken = config.broken
    BY <1>1, <1>4 DEF Config
  <1>7. TypeOK'
    BY <1>1, <1>5 DEF IInv, TypeOK
  <1>9. KeptInv' /\ DefaultsInv'
    BY <1>1, <1>6 DEF IInv, KeptInv, DefaultsInv, BeforeDefaults, CacheSizeOrDefault,
           MappingCacheSizeOrDefault
  <1>10. CheckedInv'
    BY <1>1, <1>6 DEF CheckedInv, AfterDefaults, AfterAge, AfterTTL, AfterPrefix,
           AfterPatterns, AfterOptions
  <1>11. BlameInv'
    BY <1>1 DEF IInv, BlameInv
  <1> QED
    BY <1>7, <1>9, <1>10, <1>11 DEF IInv

\* Validate lets the age settings pass and picks the limit.
LEMMA ValidateMaxEventAgeIInv ==
  ASSUME IInv, ValidateMaxEventAge
  PROVE  IInv'
  <1>1. /\ given \in Config /\ config \in Config
        /\ step = "age" /\ step' = "ttl" /\ UNCHANGED <<given, env, ttl, compiled, blame>>
    BY DEF IInv, TypeOK, ValidateMaxEventAge, Goto
  <1>2. /\ config.throttlePeriod = given.throttlePeriod
        /\ config.maxEventAgeSeconds = given.maxEventAgeSeconds
    BY <1>1 DEF IInv, KeptInv, CheckedInv
  <1>3. config' = [config EXCEPT !.maxEventAgeSeconds = AgeLimit]
    BY <1>2 DEF ValidateMaxEventAge, AgeLimit
  <1>4. AgeLimit \in Int
    BY <1>1 DEF AgeLimit, Config, DefaultMaxEventAge
  <1>5. /\ config' \in Config
        /\ config'.maxEventAgeSeconds = AgeLimit
        /\ config'.cacheSize = config.cacheSize
        /\ config'.mappingCacheSize = config.mappingCacheSize
        /\ config'.cacheTTL = config.cacheTTL
        /\ config'.throttlePeriod = config.throttlePeriod
        /\ config'.logLegal = config.logLegal
        /\ config'.metricsNamePrefix = config.metricsNamePrefix
        /\ config'.broken = config.broken
    BY <1>1, <1>3, <1>4 DEF Config
  <1>6. TypeOK'
    BY <1>1, <1>5 DEF IInv, TypeOK
  <1>7. KeptInv'
    BY <1>1, <1>5 DEF IInv, KeptInv
  <1>8. DefaultsInv'
    BY <1>1, <1>5 DEF IInv, DefaultsInv, BeforeDefaults, AfterDefaults, CacheSizeOrDefault,
           MappingCacheSizeOrDefault
  <1>9. CheckedInv'
    <2>1. given.throttlePeriod = 0 \/ given.maxEventAgeSeconds = 0
      BY <1>2 DEF ValidateMaxEventAge
    <2> QED
      BY <1>1, <1>5, <2>1 DEF CheckedInv, AgeLimit, AfterDefaults, AfterAge, AfterTTL,
             AfterPrefix, AfterPatterns, AfterOptions
  <1>10. BlameInv'
    BY <1>1 DEF IInv, BlameInv
  <1> QED
    BY <1>6, <1>7, <1>8, <1>9, <1>10 DEF IInv

\* Only rules of the tree are compiled.
LEMMA CompiledAreRules == RulesVisited \subseteq Rule
  BY DEF RulesVisited, Visited

\* The steps before SetDefaults that go on.
LEMMA ReadIInv ==
  ASSUME IInv, ParseConfigFromBytes \/ SetLog
  PROVE  IInv'
  <1>1. /\ step \in {"file", "log"} /\ step' \in {"log", "defaults"}
        /\ UNCHANGED <<given, env, config, ttl, compiled, blame>>
    BY DEF ParseConfigFromBytes, SetLog, Goto
  <1>2. TypeOK' /\ KeptInv' /\ BlameInv'
    BY <1>1 DEF IInv, TypeOK, KeptInv, BlameInv
  <1>3. DefaultsInv' /\ CheckedInv'
    BY <1>1 DEF IInv, DefaultsInv, CheckedInv, BeforeDefaults, AfterDefaults, AfterAge,
           AfterTTL, AfterPrefix, AfterPatterns, AfterOptions
  <1> QED
    BY <1>2, <1>3 DEF IInv

\* The steps that leave the configuration alone and go on.
LEMMA PassIInv ==
  ASSUME IInv,
         \/ ValidateCacheTTL \/ ValidateMetricsNamePrefix \/ PreCompilePatterns
         \/ GetKubernetesConfig \/ NewMetricsStore
         \/ MakeSinks \/ NewEventWatcherRequired \/ MakeCaches
  PROVE  IInv'
  <1>1. /\ step \in {"ttl", "prefix", "patterns", "kube", "metrics", "sinks", "options",
                     "caches"}
        /\ UNCHANGED <<given, env, config, blame>>
    BY DEF ValidateCacheTTL, ValidateMetricsNamePrefix, PreCompilePatterns,
           GetKubernetesConfig, NewMetricsStore, MakeSinks, NewEventWatcherRequired,
           MakeCaches, Goto
  <1>2. step' \in {"prefix", "patterns", "kube", "metrics", "sinks", "options", "caches",
                   "running", "panicked"}
    BY DEF ValidateCacheTTL, ValidateMetricsNamePrefix, PreCompilePatterns,
           GetKubernetesConfig, NewMetricsStore, MakeSinks, NewEventWatcherRequired,
           MakeCaches, Goto
  <1>3. ttl' \in 0 .. MaxCacheTTL
    <2>1. CASE ValidateCacheTTL
      <3>1. config.cacheTTL \in Int /\ config.cacheTTL > 0 /\ config.cacheTTL <= MaxCacheTTL
        BY <2>1 DEF ValidateCacheTTL, TTLLegal, IInv, TypeOK, Config
      <3> QED
        BY <2>1, <3>1 DEF ValidateCacheTTL, MaxCacheTTL
    <2>2. CASE UNCHANGED ttl
      BY <2>2 DEF IInv, TypeOK
    <2> QED
      BY <2>1, <2>2 DEF ValidateMetricsNamePrefix, PreCompilePatterns, GetKubernetesConfig,
             NewMetricsStore, MakeSinks, NewEventWatcherRequired, MakeCaches
  <1>4. compiled' \subseteq Rule
    <2>1. RulesVisited \cap config.broken = {} /\ compiled' = RulesVisited
            => compiled' \subseteq Rule
      BY CompiledAreRules
    <2> QED
      BY <2>1 DEF ValidateCacheTTL, ValidateMetricsNamePrefix, PreCompilePatterns,
             GetKubernetesConfig, NewMetricsStore, MakeSinks, NewEventWatcherRequired,
             MakeCaches, IInv, TypeOK
  <1>5. TypeOK'
    BY <1>1, <1>2, <1>3, <1>4 DEF IInv, TypeOK
  <1>6. KeptInv' /\ DefaultsInv'
    BY <1>1, <1>2 DEF IInv, KeptInv, DefaultsInv, BeforeDefaults, AfterDefaults,
           CacheSizeOrDefault, MappingCacheSizeOrDefault
  <1>7. CheckedInv'
    <2> USE DEF CheckedInv, AfterOptions, AfterPatterns, AfterPrefix, AfterTTL, AfterAge,
                AfterDefaults, Goto
    <2>1. AgeLimit' = AgeLimit
      BY <1>1 DEF AgeLimit
    <2>2. CASE ValidateCacheTTL
      BY <1>1, <2>1, <2>2 DEF IInv, ValidateCacheTTL, TTLLegal
    <2>3. CASE ValidateMetricsNamePrefix \/ GetKubernetesConfig \/ MakeSinks
      BY <1>1, <2>1, <2>3 DEF IInv, ValidateMetricsNamePrefix, GetKubernetesConfig,
             MakeSinks, TTLLegal
    <2>7. CASE NewMetricsStore
      BY <1>1, <2>1, <2>7 DEF IInv, NewMetricsStore, TTLLegal
    <2>4. CASE PreCompilePatterns
      BY <1>1, <2>1, <2>4 DEF IInv, PreCompilePatterns, TTLLegal
    <2>5. CASE NewEventWatcherRequired
      BY <1>1, <2>1, <2>5 DEF IInv, NewEventWatcherRequired, TTLLegal, OptionsLegal
    <2>6. CASE MakeCaches
      BY <1>1, <2>1, <2>6 DEF IInv, MakeCaches, TTLLegal, OptionsLegal, TwoQueueLegal
    <2> QED
      BY <2>2, <2>3, <2>4, <2>5, <2>6, <2>7
  <1>8. BlameInv'
    BY <1>1 DEF IInv, BlameInv
  <1> QED
    BY <1>5, <1>6, <1>7, <1>8 DEF IInv

\* The steps that end in log.Fatal: the configuration is blamed by a check
\* that a legal one passes.
LEMMA FailIInv ==
  ASSUME IInv,
         \/ ParseConfigFails \/ RejectLog
         \/ RejectMaxEventAge \/ RejectCacheTTL \/ RejectMetricsNamePrefix
         \/ RejectPatterns \/ GetKubernetesConfigFails \/ MakeSinksFails \/ RejectOptions
  PROVE  IInv'
  <1>1. /\ step' = "fatal" /\ blame' \in {"config", "environment"}
        /\ UNCHANGED <<given, env, config, ttl, compiled>>
    BY DEF ParseConfigFails, RejectLog, RejectMaxEventAge, RejectCacheTTL,
           RejectMetricsNamePrefix, RejectPatterns, GetKubernetesConfigFails,
           MakeSinksFails, RejectOptions, Fatal, Goto
  <1>2. TypeOK' /\ KeptInv' /\ DefaultsInv' /\ CheckedInv'
    BY <1>1 DEF IInv, TypeOK, KeptInv, DefaultsInv, CheckedInv, AfterOptions, AfterPatterns,
           AfterPrefix, AfterTTL, AfterAge, AfterDefaults, BeforeDefaults
  <1>3. given \in Config /\ env \in Env
    BY DEF IInv, TypeOK
  <1> DEFINE EnvironmentFails ==
               ParseConfigFails \/ GetKubernetesConfigFails \/ MakeSinksFails
  <1>4. CASE EnvironmentFails
    BY <1>1, <1>2, <1>4
       DEF ParseConfigFails, GetKubernetesConfigFails, MakeSinksFails, Fatal, BlameInv, IInv
  <1>5. ASSUME Legal, ~EnvironmentFails PROVE FALSE
    <2>1. /\ CacheSizeOrDefault(given) > 1 /\ MappingCacheSizeOrDefault(given) > 1
          /\ AgeLimit > 0 /\ (given.cacheTTL # Unset => TTLLegal(given.cacheTTL))
      BY <1>3, <1>5, LegalPasses
    <2>2. CASE RejectMaxEventAge
      BY <1>5, <2>2 DEF RejectMaxEventAge, Fatal, Goto, Legal, IInv, KeptInv, CheckedInv
    <2>3. CASE RejectCacheTTL
      <3>1. config.cacheTTL = IF given.cacheTTL = Unset THEN DefaultCacheTTL
                              ELSE given.cacheTTL
        BY <2>3 DEF RejectCacheTTL, Fatal, Goto, IInv, DefaultsInv, AfterDefaults
      <3>2. TTLLegal(DefaultCacheTTL)
        BY DEF TTLLegal, DefaultCacheTTL, MaxCacheTTL
      <3> QED
        BY <2>1, <2>3, <3>1, <3>2 DEF RejectCacheTTL
    <2>4. CASE RejectMetricsNamePrefix \/ RejectLog
      BY <1>5, <2>4 DEF RejectMetricsNamePrefix, RejectLog, Legal, IInv, KeptInv
    <2>5. CASE RejectPatterns
      BY <1>5, <2>5 DEF RejectPatterns, Legal, IInv, KeptInv
    <2>6. CASE RejectOptions
      <3>1. step = "options"
        BY <2>6 DEF RejectOptions, Fatal, Goto
      <3>2. config.cacheSize > 1 /\ config.mappingCacheSize > 1
            /\ config.maxEventAgeSeconds > 0
        BY <2>1, <3>1 DEF IInv, DefaultsInv, CheckedInv, AfterDefaults, AfterAge
      <3>3. ttl > 0
        BY <3>1 DEF IInv, CheckedInv, AfterDefaults, AfterAge, AfterTTL, TTLLegal
      <3>4. config.cacheSize \in Int /\ config.mappingCacheSize \in Int
        BY DEF IInv, TypeOK, Config
      <3> QED
        BY <2>6, <3>2, <3>3, <3>4 DEF RejectOptions, OptionsLegal
    <2> QED
      BY <1>5, <2>2, <2>3, <2>4, <2>5, <2>6
  <1>6. Legal' <=> Legal
    BY <1>1 DEF Legal
  <1> QED
    BY <1>1, <1>2, <1>4, <1>5, <1>6 DEF IInv, BlameInv

\* Every step of main keeps the invariant.
LEMMA StepIInv == IInv /\ [Next]_vars => IInv'
  <1> SUFFICES ASSUME IInv, [Next]_vars PROVE IInv'
    OBVIOUS
  <1>1. CASE UNCHANGED vars
    <2>1. UNCHANGED <<given, env, config, ttl, compiled, step, blame>>
      BY <1>1 DEF vars
    <2>2. TypeOK' /\ KeptInv' /\ BlameInv'
      BY <2>1 DEF IInv, TypeOK, KeptInv, BlameInv, Legal
    <2>3. DefaultsInv'
      BY <2>1 DEF IInv, DefaultsInv, CacheSizeOrDefault, MappingCacheSizeOrDefault
    <2>4. AgeLimit' = AgeLimit /\ OptionsLegal' = OptionsLegal
      BY <2>1 DEF AgeLimit, OptionsLegal
    <2>5. CheckedInv'
      BY <2>1, <2>4 DEF IInv, CheckedInv
    <2> QED
      BY <2>2, <2>3, <2>5 DEF IInv
  <1> QED
    BY <1>1, ReadIInv, SetDefaultsIInv, ValidateMaxEventAgeIInv, PassIInv, FailIInv
       DEF Next, Ended

\* The invariant holds in every reachable state.
THEOREM Invariance == Spec => []IInv
  BY InitIInv, StepIInv, PTL DEF Spec

-----------------------------------------------------------------------------
\* TypeOK of Startup: whatever the environment says, the configuration keeps
\* its types and the time to live stays within its limit.
THEOREM TypeCorrect == Spec => []TypeOK
  <1>1. IInv => TypeOK
    BY DEF IInv
  <1> QED
    BY <1>1, Invariance, PTL

\* A legal configuration is neither refused nor replaced nor fatal to the
\* caches, for all values of the settings and of MAPPING_CACHE_SIZE
\* (config.go:71-164).
THEOREM LegalPassesAll == Spec => []LegalIsObeyed
  <1>1. IInv => LegalIsObeyed
    <2> SUFFICES ASSUME IInv, Legal
                 PROVE  /\ step # "panicked"
                        /\ blame # "config"
                        /\ step = "running" =>
                             /\ given.cacheSize # 0 => config.cacheSize = given.cacheSize
                             /\ given.mappingCacheSize > 0 =>
                                  config.mappingCacheSize = given.mappingCacheSize
                             /\ given.cacheTTL # Unset => ttl = given.cacheTTL
                             /\ config.maxEventAgeSeconds \in
                                  {DefaultMaxEventAge, given.maxEventAgeSeconds,
                                   given.throttlePeriod} \ {0}
                             /\ given.maxEventAgeSeconds + given.throttlePeriod # 0 =>
                                  config.maxEventAgeSeconds =
                                      given.maxEventAgeSeconds + given.throttlePeriod
      BY DEF LegalIsObeyed
    <2>1. /\ given \in Config /\ config \in Config /\ env \in Env
          /\ given.throttlePeriod \in Int /\ given.maxEventAgeSeconds \in Int
          /\ given.mappingCacheSize \in Int /\ given.cacheSize \in Int
          /\ config.cacheSize \in Int /\ config.mappingCacheSize \in Int
      BY DEF IInv, TypeOK, Config
    <2>2. step \in {"running", "panicked"} =>
            config.cacheSize > 1 /\ config.mappingCacheSize > 1
      BY <2>1, LegalPasses DEF IInv, DefaultsInv, AfterDefaults
    <2>3. step # "panicked"
      BY <2>1, <2>2 DEF IInv, KeptInv, CheckedInv, TwoQueueLegal, Legal
    <2>4. blame # "config"
      BY DEF IInv, BlameInv
    <2>5. ASSUME step = "running"
          PROVE  /\ given.cacheSize # 0 => config.cacheSize = given.cacheSize
                 /\ given.mappingCacheSize > 0 =>
                      config.mappingCacheSize = given.mappingCacheSize
                 /\ given.cacheTTL # Unset => ttl = given.cacheTTL
      BY <2>1, <2>5 DEF IInv, DefaultsInv, CheckedInv, AfterDefaults, AfterAge, AfterTTL,
             CacheSizeOrDefault, MappingCacheSizeOrDefault
    <2>6. ASSUME step = "running"
          PROVE  /\ config.maxEventAgeSeconds \in
                      {DefaultMaxEventAge, given.maxEventAgeSeconds,
                       given.throttlePeriod} \ {0}
                 /\ given.maxEventAgeSeconds + given.throttlePeriod # 0 =>
                      config.maxEventAgeSeconds =
                          given.maxEventAgeSeconds + given.throttlePeriod
      <3>1. config.maxEventAgeSeconds = AgeLimit
        BY <2>6 DEF IInv, CheckedInv, AfterDefaults, AfterAge
      <3>2. given.throttlePeriod = 0 \/ given.maxEventAgeSeconds = 0
        BY DEF Legal
      <3> QED
        BY <2>1, <3>1, <3>2 DEF AgeLimit, DefaultMaxEventAge
    <2> QED
      BY <2>3, <2>4, <2>5, <2>6
  <1> QED
    BY <1>1, Invariance, PTL

\* A watcher that runs has usable caches, a bounded time to live, an age
\* limit that lets something through and compiled patterns, whatever the tree
\* of routes that holds the rules (config.go:71-208).
THEOREM RunningSound ==
  ASSUME \A rule \in Rule : \E n \in Visited : rule \in RulesOf[n]
  PROVE  Spec => []RunningIsSound
  <1>1. IInv => RunningIsSound
    <2> SUFFICES ASSUME IInv, step = "running"
                 PROVE  /\ config.cacheSize > 1 /\ config.mappingCacheSize > 1
                        /\ ttl \in 1 .. MaxCacheTTL
                        /\ config.maxEventAgeSeconds > 0
                        /\ compiled = Rule /\ compiled \cap config.broken = {}
      BY DEF RunningIsSound
    <2>1. config.cacheSize \in Int /\ config.mappingCacheSize \in Int
          /\ ttl \in 0 .. MaxCacheTTL
      BY DEF IInv, TypeOK, Config
    <2>2. /\ TwoQueueLegal(config.cacheSize) /\ TwoQueueLegal(config.mappingCacheSize)
          /\ OptionsLegal
          /\ compiled = RulesVisited /\ RulesVisited \cap config.broken = {}
      BY DEF IInv, CheckedInv, AfterDefaults, AfterAge, AfterTTL, AfterPrefix,
             AfterPatterns, AfterOptions
    <2>3. RulesVisited = Rule
      BY CompiledAreRules DEF RulesVisited
    <2>4. config.cacheSize > 1 /\ config.mappingCacheSize > 1
      BY <2>1, <2>2 DEF TwoQueueLegal
    <2>5. ttl \in 1 .. MaxCacheTTL /\ config.maxEventAgeSeconds > 0
      BY <2>1, <2>2 DEF OptionsLegal, MaxCacheTTL
    <2> QED
      BY <2>2, <2>3, <2>4, <2>5
  <1> QED
    BY <1>1, Invariance, PTL

=============================================================================
