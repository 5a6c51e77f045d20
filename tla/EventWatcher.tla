----------------------------- MODULE EventWatcher -----------------------------
(****************************************************************************)
(* eventWatcher.onEvent of pkg/kube/watcher.go and the metadata cache of    *)
(* pkg/kube/objects.go.                                                     *)
(*                                                                          *)
(* The informer calls OnAdd and OnUpdate one after the other.  A call       *)
(* discards the event or looks up the metadata of the object it is about,   *)
(* in the cache, by the UID of the reference, or else from the API server,  *)
(* by kind, namespace and name, and hands the event to the engine.  The UID *)
(* of a reference is optional: those without one share a key of the cache.  *)
(* The cluster changes and time passes between any two steps of a call.     *)
(*                                                                          *)
(* Labels, annotations, owners and the deletion timestamp are one piece of  *)
(* data, known by the object it is of and the name and the time it was read *)
(* by, which the code does not keep: it stamps what it stores with the      *)
(* later time of the store.  The two 2Q caches of hashicorp/golang-lru are  *)
(* external: a full one forgets any of its keys, and one for a single key   *)
(* cannot be made.                                                          *)
(****************************************************************************)
EXTENDS Integers, FiniteSets

CONSTANTS
    Name,               \* namespaced names
    Kind,
    KindOf,             \* the group, version and kind a name belongs to
    Uid,                \* bound: the objects that ever exist
    NoUid,              \* no object, or a reference without a UID
    TTL,                \* o.ttl
    CacheSize,
    MappingCacheSize,
    MaxEventAge,        \* e.maxEventAgeSeconds
    MaxLatency,         \* bound: how long a call of onEvent lasts
    MaxTime,            \* bound: how long the model runs
    MaxEvents           \* bound: how many events are counted by a metric

ASSUME KindOfAssumption == KindOf \in [Name -> Kind]
ASSUME NoUidAssumption == NoUid \notin Uid
ASSUME TTLAssumption == TTL \in Nat \ {0}
ASSUME SizeAssumption == CacheSize \in Nat \ {0, 1} /\ MappingCacheSize \in Nat \ {0, 1}
ASSUME AgeAssumption == MaxEventAge \in Nat
ASSUME BoundAssumption == MaxLatency \in Nat /\ MaxTime \in Nat \ {0} /\ MaxEvents \in Nat

VARIABLES
    now,                \* the clock; 0 is the zero time, the process starts at 1
    object,             \* the object that has a name, NoUid if none has
    home,               \* the name each object has or had
    omitLookup,
    cache,              \* o.cache: an entry for some UIDs
    mapped,             \* o.mappingCache: the kinds whose resource is known
    pc,                 \* where the call of onEvent is
    about,              \* event.InvolvedObject
    result,             \* what the lookup has come to
    waited,             \* history: how long the call lasts already
    processed,          \* the EventsProcessed metric
    eventsDiscarded,    \* the EventsDiscarded metric
    handed              \* history: how many events were given to e.fn

clusterVars == <<object, home>>
callVars == <<pc, about, result>>
cacheVars == <<cache, mapped>>
metricVars == <<processed, eventsDiscarded>>
historyVars == <<waited, handed>>
vars == <<now, clusterVars, omitLookup, cacheVars, callVars, metricVars,
          historyVars>>

Time == 0 .. MaxTime
NoTime == 0
StartUpTime == 1
NoSeries == -1

\* The API is asked by the name of a reference, the cache by its UID.
Reference == [name : Name, uid : Uid \cup {NoUid}]

\* What is known of an object: which it is, by which name it was read, and when.
Metadata == [uid : Uid \cup {NoUid}, of : Name, readAt : Time]
Entry == [metadata : Metadata, fetchedAt : Time]
NoReference == [uid |-> NoUid]
NoResult == [status |-> "none"]
Failed == [status |-> "failed"]
Omitted == [status |-> "omitted"]
Found(m) == [status |-> "found", metadata |-> m]
NotFound(m) == [status |-> "notFound", metadata |-> m]

Result ==
    {NoResult, Failed, Omitted}
        \cup [status : {"found", "notFound"}, metadata : Metadata]

TypeOK ==
    /\ now \in Time
    /\ object \in [Name -> Uid \cup {NoUid}]
    /\ DOMAIN home \subseteq Uid /\ \A u \in DOMAIN home : home[u] \in Name
    /\ omitLookup \in BOOLEAN
    /\ DOMAIN cache \subseteq DOMAIN home \cup {NoUid}
    /\ \A u \in DOMAIN cache : cache[u] \in Entry
    /\ Cardinality(DOMAIN cache) <= CacheSize
    /\ mapped \subseteq Kind /\ Cardinality(mapped) <= MappingCacheSize
    /\ pc \in {"idle", "lookup", "mapping", "get", "store", "hand"}
    /\ pc # "idle" =>
         /\ about \in Reference
         /\ about.uid # NoUid => about.uid \in DOMAIN home /\ about.name = home[about.uid]
    /\ result \in Result
    /\ waited \in 0 .. MaxLatency
    /\ processed \in 0 .. MaxEvents
    /\ eventsDiscarded \in 0 .. MaxEvents
    /\ handed \in 0 .. MaxEvents

Init ==
    /\ now = StartUpTime
    /\ object = [n \in Name |-> NoUid]
    /\ home = [u \in {} |-> 0]
    /\ omitLookup \in BOOLEAN
    /\ cache = [u \in {} |-> 0]
    /\ mapped = {}
    /\ pc = "idle"
    /\ about = NoReference
    /\ result = NoResult
    /\ waited = 0
    /\ processed = 0
    /\ eventsDiscarded = 0
    /\ handed = 0

-----------------------------------------------------------------------------
(* The cluster, external.                                                   *)

Create(n, u) ==
    /\ object[n] = NoUid
    /\ u \notin DOMAIN home
    /\ object' = [object EXCEPT ![n] = u]
    /\ home' = [v \in DOMAIN home \cup {u} |-> IF v = u THEN n ELSE home[v]]
    /\ UNCHANGED <<now, omitLookup, cacheVars, callVars, metricVars,
                   historyVars>>

Remove(n) ==
    /\ object[n] # NoUid
    /\ object' = [object EXCEPT ![n] = NoUid]
    /\ UNCHANGED <<now, home, omitLookup, cacheVars, callVars,
                   metricVars, historyVars>>

Tick ==
    /\ now < MaxTime
    /\ now' = now + 1
    /\ \/ pc = "idle" /\ waited' = waited
       \/ pc # "idle" /\ waited < MaxLatency /\ waited' = waited + 1
    /\ UNCHANGED <<clusterVars, omitLookup, cacheVars, callVars, metricVars,
                   handed>>

-----------------------------------------------------------------------------
(* The age of an event: watcher.go:93-118.                                  *)

\* The times of an event: not set, or as old as the age tells apart.
PastTime == {NoTime} \cup ({now - a : a \in {0, MaxEventAge, MaxEventAge + 1}} \cap Time)

\* A series may be absent, or without a time.
Stamps ==
    [series : PastTime \cup {NoSeries}, lastTimestamp : PastTime, eventTime : PastTime]

\* Fault: a series without a time is not passed over.
TimestampOfSeries(s) ==
    CASE s.series # NoSeries -> s.series
      [] s.series = NoSeries /\ s.lastTimestamp # NoTime -> s.lastTimestamp
      [] OTHER -> s.eventTime

Timestamp(s) ==
    CASE s.series \notin {NoSeries, NoTime} -> s.series
      [] s.series \in {NoSeries, NoTime} /\ s.lastTimestamp # NoTime -> s.lastTimestamp
      [] OTHER -> s.eventTime

\* The zero time lies centuries back.
Older(t) == t = NoTime \/ now - t > MaxEventAge

IsEventDiscarded(s) == Older(Timestamp(s))

Discard(s) ==
    /\ pc = "idle"
    /\ processed + eventsDiscarded < MaxEvents
    /\ IsEventDiscarded(s)
    /\ eventsDiscarded' = eventsDiscarded + (IF Timestamp(s) > StartUpTime THEN 1 ELSE 0)
    /\ UNCHANGED <<now, clusterVars, omitLookup, cacheVars, callVars, processed,
                   waited, handed>>

\* The references of the events there may be: to an object, which may have gone
\* since, or to whatever has a name.
References == {[name |-> home[u], uid |-> u] : u \in DOMAIN home}
                \cup {[name |-> n, uid |-> NoUid] : n \in Name}

\* An event is to be handed on.
Accept(ref) ==
    /\ pc = "idle"
    /\ ref \in References
    /\ \E s \in Stamps : ~IsEventDiscarded(s)
    /\ processed + eventsDiscarded < MaxEvents
    /\ processed' = processed + 1
    /\ about' = ref
    /\ \/ omitLookup /\ pc' = "hand" /\ result' = Omitted
       \/ ~omitLookup /\ pc' = "lookup" /\ result' = NoResult
    /\ UNCHANGED <<now, clusterVars, omitLookup, cacheVars, eventsDiscarded,
                   waited, handed>>

-----------------------------------------------------------------------------
(* getObjectMetadata: objects.go:67-136.                                    *)

\* Fault: the name, which one object after the other may have.
CacheKeyByName(ref) == ref.name

CacheKey(ref) == ref.uid

\* A full 2Q cache forgets a key to take another.
KeptBy(keys, size) ==
    IF Cardinality(keys) < size THEN {keys} ELSE {keys \ {k} : k \in keys}

\* Fault: off by one.
FreshAtTTL(entry) == now - entry.fetchedAt <= TTL

Fresh(entry) == now - entry.fetchedAt < TTL

CacheHit ==
    /\ pc = "lookup"
    /\ CacheKey(about) \in DOMAIN cache
    /\ Fresh(cache[CacheKey(about)])
    /\ result' = Found(cache[CacheKey(about)].metadata)
    /\ pc' = "hand"
    /\ UNCHANGED <<now, clusterVars, omitLookup, cacheVars, about, metricVars,
                   historyVars>>

\* An entry that has expired is removed.
CacheMiss ==
    /\ pc = "lookup"
    /\ CacheKey(about) \in DOMAIN cache => ~Fresh(cache[CacheKey(about)])
    /\ cache' = [u \in DOMAIN cache \ {CacheKey(about)} |-> cache[u]]
    /\ pc' = "mapping"
    /\ UNCHANGED <<now, clusterVars, omitLookup, mapped, about, result,
                   metricVars, historyVars>>

\* The resource of the kind, known or asked of the discovery API, which may
\* fail.
MapKind ==
    /\ pc = "mapping"
    /\ LET k == KindOf[about.name] IN
       \/ /\ k \in mapped
          /\ mapped' = mapped
       \/ /\ k \notin mapped
          /\ \E kept \in KeptBy(mapped, MappingCacheSize) : mapped' = kept \cup {k}
    /\ pc' = "get"
    /\ UNCHANGED <<now, clusterVars, omitLookup, cache, about, result,
                   metricVars, historyVars>>

MapKindFails ==
    /\ pc = "mapping"
    /\ KindOf[about.name] \notin mapped
    /\ result' = Failed
    /\ pc' = "hand"
    /\ UNCHANGED <<now, clusterVars, omitLookup, cacheVars, about, metricVars,
                   historyVars>>

\* The API server reads whatever object has the name now.
Get ==
    /\ pc = "get"
    /\ LET read == [uid |-> object[about.name], of |-> about.name, readAt |-> now] IN
       \/ /\ read.uid = NoUid
          /\ result' = NotFound(read)
          /\ pc' = "hand"
       \/ /\ read.uid # NoUid
          /\ result' = Found(read)
          /\ pc' = "store"
    /\ UNCHANGED <<now, clusterVars, omitLookup, cacheVars, about, metricVars,
                   historyVars>>

\* Fault: the event is dropped with the error.
GetFailsAndReturns ==
    /\ pc = "get"
    /\ pc' = "idle"
    /\ about' = NoReference
    /\ result' = NoResult
    /\ waited' = 0
    /\ UNCHANGED <<now, clusterVars, omitLookup, cacheVars, metricVars, handed>>

GetFails ==
    /\ pc = "get"
    /\ result' = Failed
    /\ pc' = "hand"
    /\ UNCHANGED <<now, clusterVars, omitLookup, cacheVars, about, metricVars,
                   historyVars>>

\* Fault: the cache is a map.
StoreWithoutLimit ==
    /\ pc = "store"
    /\ cache' = [u \in DOMAIN cache \cup {CacheKey(about)} |->
                   IF u = CacheKey(about)
                   THEN [metadata |-> result.metadata, fetchedAt |-> now]
                   ELSE cache[u]]
    /\ pc' = "hand"
    /\ UNCHANGED <<now, clusterVars, omitLookup, mapped, about, result,
                   metricVars, historyVars>>

Store ==
    /\ pc = "store"
    /\ \E kept \in KeptBy(DOMAIN cache \ {CacheKey(about)}, CacheSize) :
         cache' = [u \in kept \cup {CacheKey(about)} |->
                     IF u = CacheKey(about)
                     THEN [metadata |-> result.metadata, fetchedAt |-> now]
                     ELSE cache[u]]
    /\ pc' = "hand"
    /\ UNCHANGED <<now, clusterVars, omitLookup, mapped, about, result,
                   metricVars, historyVars>>

\* e.fn(ev): with the metadata, with Deleted alone, or with neither.
Hand ==
    /\ pc = "hand"
    /\ handed' = handed + 1
    /\ pc' = "idle"
    /\ about' = NoReference
    /\ result' = NoResult
    /\ waited' = 0
    /\ UNCHANGED <<now, clusterVars, omitLookup, cacheVars, metricVars>>

-----------------------------------------------------------------------------
Next ==
    \/ \E n \in Name, u \in Uid : Create(n, u)
    \/ \E n \in Name : Remove(n)
    \/ Tick
    \/ \E s \in Stamps : Discard(s)
    \/ \E ref \in References : Accept(ref)
    \/ CacheHit \/ CacheMiss
    \/ MapKind \/ MapKindFails
    \/ Get \/ GetFails
    \/ Store
    \/ Hand

Spec == Init /\ [][Next]_vars

-----------------------------------------------------------------------------
(* Properties.                                                              *)

\* What an event carries was read from the API server less than a TTL and two
\* calls ago: the entry may be as old as the call that stored it was slow,
\* and the call that hands it on takes its time as well (objects.go:69-74,
\* 134).  That an object is gone is never known from the cache.
MetadataFresh ==
    pc = "hand" =>
        /\ result.status = "found" => now - result.metadata.readAt < TTL + 2 * MaxLatency
        /\ result.status = "notFound" => now - result.metadata.readAt <= MaxLatency

\* An event about an object that is still there carries what was read of that
\* very object, and is not told that it is deleted, although the cache goes by
\* UID and the API by name (objects.go:68, 113-116).  One about an object that
\* has gone may carry what was read of its successor, of the same name; one
\* without a UID, what was read of any other without.
MetadataOfObject ==
    pc = "hand" /\ about.uid # NoUid /\ result.status \in {"found", "notFound"} =>
        /\ result.metadata.of = about.name
        /\ object[about.name] = about.uid => result.metadata.uid = about.uid

\* Every event counted as processed is handed to the engine, once, whatever
\* became of its lookup (watcher.go:132-160).
ProcessedAreHanded ==
    processed = handed + (IF pc = "idle" THEN 0 ELSE 1)

\* At no time is an event discarded all of whose times are recent, or accepted
\* none of whose times is, whichever of them are set (watcher.go:93-105).
AgeRespected ==
    \A s \in Stamps :
        LET known == {s.series, s.lastTimestamp, s.eventTime} \ {NoSeries, NoTime} IN
        IF IsEventDiscarded(s) THEN (\E t \in known : Older(t)) \/ known = {}
                               ELSE \E t \in known : ~Older(t)

=============================================================================
