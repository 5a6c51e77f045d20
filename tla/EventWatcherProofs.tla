-------------------------- MODULE EventWatcherProofs --------------------------
(****************************************************************************)
(* Theorems about EventWatcher, for all sizes of the caches, all times to   *)
(* live and latencies, and any cluster: how old and whose the metadata is   *)
(* that an event carries, and that no event is lost between being counted   *)
(* and being handed on.                                                     *)
(****************************************************************************)
EXTENDS EventWatcher, FiniteSetTheorems, TLAPS

USE KindOfAssumption, NoUidAssumption, TTLAssumption, SizeAssumption, AgeAssumption,
    BoundAssumption

\* The caches are finite, as Cardinality needs.
FiniteInv == IsFiniteSet(DOMAIN cache) /\ IsFiniteSet(mapped)

\* m was read of the object that ref is about, unless that object has gone.
ReadOf(m, ref) ==
    ref.uid # NoUid =>
        /\ m.of = ref.name
        /\ object[ref.name] = ref.uid => m.uid = ref.uid

\* An entry is about the object of its UID, and the store that stamped it came
\* at most one call after the read.
CacheInv ==
    \A u \in DOMAIN cache :
        /\ u # NoUid => ReadOf(cache[u].metadata, [name |-> home[u], uid |-> u])
        /\ cache[u].fetchedAt - cache[u].metadata.readAt <= MaxLatency

\* What the call under way has found is about its own object, and gets older
\* only while the call lasts.
CallInv ==
    /\ pc = "store" =>
         /\ result.status = "found"
         /\ result.metadata \in Metadata
         /\ ReadOf(result.metadata, about)
         /\ now - result.metadata.readAt <= waited
    /\ pc = "hand" =>
         /\ result.status = "found" =>
              /\ result.metadata \in Metadata
              /\ ReadOf(result.metadata, about)
              /\ now - result.metadata.readAt < TTL + MaxLatency + waited
         /\ result.status = "notFound" =>
              /\ result.metadata \in Metadata
              /\ ReadOf(result.metadata, about)
              /\ now - result.metadata.readAt <= waited

IInv ==
    /\ TypeOK
    /\ FiniteInv
    /\ CacheInv
    /\ CallInv
    /\ ProcessedAreHanded

\* A cache that makes room for a key stays within its size.
LEMMA KeptFits ==
  ASSUME NEW keys, IsFiniteSet(keys), NEW size \in Nat \ {0}, Cardinality(keys) <= size,
         NEW x, x \notin keys, NEW kept \in KeptBy(keys, size)
  PROVE  /\ kept \subseteq keys
         /\ IsFiniteSet(kept \cup {x})
         /\ Cardinality(kept \cup {x}) <= size
  <1>1. Cardinality(keys) \in Nat
    BY FS_CardinalityType
  <1>2. CASE Cardinality(keys) < size
    <2>1. kept = keys
      BY <1>2 DEF KeptBy
    <2>2. IsFiniteSet(keys \cup {x}) /\ Cardinality(keys \cup {x}) = Cardinality(keys) + 1
      BY FS_AddElement
    <2> QED
      BY <1>1, <1>2, <2>1, <2>2
  <1>3. CASE ~(Cardinality(keys) < size)
    <2>1. PICK k \in keys : kept = keys \ {k}
      BY <1>3 DEF KeptBy
    <2>2. IsFiniteSet(kept) /\ Cardinality(kept) = Cardinality(keys) - 1
      BY <2>1, FS_RemoveElement
    <2>3. x \notin kept
      BY <2>1
    <2>4. IsFiniteSet(kept \cup {x}) /\ Cardinality(kept \cup {x}) = Cardinality(kept) + 1
      BY <2>2, <2>3, FS_AddElement
    <2> QED
      BY <1>1, <2>1, <2>2, <2>4
  <1> QED
    BY <1>2, <1>3

\* The invariant holds when the watcher starts.
LEMMA InitIInv == Init => IInv
  <1> SUFFICES ASSUME Init PROVE IInv
    OBVIOUS
  <1>1. cache = [u \in {} |-> 0] /\ home = [u \in {} |-> 0] /\ mapped = {}
    BY DEF Init
  <1>2. DOMAIN cache = {} /\ DOMAIN home = {}
    BY <1>1
  <1>3. IsFiniteSet({}) /\ Cardinality({}) = 0
    BY FS_EmptySet
  <1>4. TypeOK
    BY <1>1, <1>2, <1>3 DEF Init, TypeOK, Time, StartUpTime, Result, NoResult
  <1>5. FiniteInv /\ CacheInv
    BY <1>1, <1>2, <1>3 DEF FiniteInv, CacheInv
  <1>6. CallInv /\ ProcessedAreHanded
    BY DEF Init, CallInv, ProcessedAreHanded
  <1> QED
    BY <1>4, <1>5, <1>6 DEF IInv

\* Objects come and go; what is known of the others stays true.
LEMMA ClusterIInv ==
  ASSUME IInv, \/ \E n \in Name, u \in Uid : Create(n, u)
               \/ \E n \in Name : Remove(n)
  PROVE  IInv'
  <1>1. /\ UNCHANGED <<now, omitLookup, cache, mapped, pc, about, result, waited,
                       processed, eventsDiscarded, handed>>
        /\ object' \in [Name -> Uid \cup {NoUid}]
    <2>1. CASE \E n \in Name, u \in Uid : Create(n, u)
      BY <2>1 DEF IInv, TypeOK, Create, cacheVars, callVars, metricVars, historyVars
    <2>2. CASE \E n \in Name : Remove(n)
      BY <2>2 DEF IInv, TypeOK, Remove, cacheVars, callVars, metricVars, historyVars
    <2> QED
      BY <2>1, <2>2
  <1>2. /\ DOMAIN home \subseteq DOMAIN home' /\ DOMAIN home' \subseteq Uid
        /\ \A v \in DOMAIN home : home'[v] = home[v]
        /\ \A v \in DOMAIN home' : home'[v] \in Name
        /\ \A v \in DOMAIN home, m \in Name : object'[m] = v => object[m] = v
    <2>1. CASE \E n \in Name : Remove(n)
      BY <2>1 DEF Remove, IInv, TypeOK
    <2>2. ASSUME NEW n \in Name, NEW u \in Uid, Create(n, u)
          PROVE  /\ DOMAIN home \subseteq DOMAIN home' /\ DOMAIN home' \subseteq Uid
                 /\ \A v \in DOMAIN home : home'[v] = home[v]
                 /\ \A v \in DOMAIN home' : home'[v] \in Name
                 /\ \A v \in DOMAIN home, m \in Name : object'[m] = v => object[m] = v
      BY <2>2 DEF Create, IInv, TypeOK
    <2> QED
      BY <2>1, <2>2
  <1>3. TypeOK'
    BY <1>1, <1>2 DEF IInv, TypeOK
  <1>4. CacheInv'
    <2>1. ASSUME NEW u \in DOMAIN cache', u # NoUid
          PROVE  ReadOf(cache[u].metadata, [name |-> home[u], uid |-> u])'
      <3>1. u \in DOMAIN cache /\ u \in DOMAIN home /\ home'[u] = home[u] /\ home[u] \in Name
        BY <1>1, <1>2, <2>1 DEF IInv, TypeOK
      <3>2. ReadOf(cache[u].metadata, [name |-> home[u], uid |-> u])
        BY <2>1, <3>1 DEF IInv, CacheInv
      <3> QED
        BY <1>1, <1>2, <3>1, <3>2 DEF ReadOf
    <2> QED
      BY <1>1, <2>1 DEF IInv, CacheInv
  <1>5. CallInv'
    <2>1. ASSUME pc # "idle", ReadOf(result.metadata, about)
          PROVE  ReadOf(result.metadata, about)'
      <3>1. /\ about \in Reference
            /\ about.uid # NoUid => about.uid \in DOMAIN home
        BY <2>1 DEF IInv, TypeOK
      <3>2. about.name \in Name
        BY <3>1 DEF Reference
      <3> QED
        BY <1>1, <1>2, <2>1, <3>1, <3>2 DEF ReadOf
    <2> QED
      BY <1>1, <2>1 DEF IInv, CallInv
  <1> QED
    BY <1>1, <1>3, <1>4, <1>5 DEF IInv, FiniteInv, ProcessedAreHanded

\* Time passes: a call grows older by as much as what it has found.
LEMMA TickIInv ==
  ASSUME IInv, Tick
  PROVE  IInv'
  <1>1. /\ now' = now + 1 /\ now \in 0 .. MaxTime /\ now < MaxTime
        /\ UNCHANGED <<object, home, omitLookup, cache, mapped, pc, about, result,
                       processed, eventsDiscarded, handed>>
    BY DEF IInv, TypeOK, Time, Tick, clusterVars, cacheVars, callVars, metricVars
  <1>2. /\ waited \in 0 .. MaxLatency /\ waited' \in 0 .. MaxLatency
        /\ pc # "idle" => waited' = waited + 1
    BY DEF IInv, TypeOK, Tick
  <1>3. now' \in Time
    BY <1>1 DEF Time
  <1>4. TypeOK'
    BY <1>1, <1>2, <1>3 DEF IInv, TypeOK
  <1>5. CacheInv'
    BY <1>1 DEF IInv, CacheInv, ReadOf
  <1>6. CallInv'
    <2>1. ASSUME pc \in {"store", "hand"}, result.metadata \in Metadata
          PROVE  now' - result.metadata.readAt = (now - result.metadata.readAt) + 1
                 /\ now - result.metadata.readAt \in Int
      BY <1>1, <2>1 DEF Metadata, Time
    <2>2. waited' = waited + 1 \/ pc \notin {"store", "hand"}
      BY <1>2
    <2> QED
      BY <1>1, <1>2, <2>1, <2>2 DEF IInv, CallInv, ReadOf
  <1> QED
    BY <1>1, <1>4, <1>5, <1>6 DEF IInv, FiniteInv, ProcessedAreHanded

\* The times an event may carry are naturals; Timestamp picks one that is set,
\* if any is.
LEMMA TimestampIsKnown ==
  ASSUME NEW s \in Stamps, now \in Time
  PROVE  /\ Timestamp(s) \in Time
         /\ \/ Timestamp(s) \in {s.series, s.lastTimestamp, s.eventTime} \ {NoSeries, NoTime}
            \/ /\ Timestamp(s) = NoTime
               /\ {s.series, s.lastTimestamp, s.eventTime} \ {NoSeries, NoTime} = {}
  <1>1. PastTime \subseteq Time
    BY DEF PastTime, Time, NoTime
  <1>2. /\ s.series \in PastTime \cup {NoSeries} /\ s.lastTimestamp \in PastTime
        /\ s.eventTime \in PastTime
    BY DEF Stamps
  <1>3. NoSeries \notin Time
    BY DEF NoSeries, Time
  <1> QED
    BY <1>1, <1>2, <1>3 DEF Timestamp

\* The age of an event is judged by a time it has, if it has any.
LEMMA AgeIsJudged == now \in Time => AgeRespected
  <1> SUFFICES ASSUME now \in Time, NEW s \in Stamps
               PROVE  LET known == {s.series, s.lastTimestamp, s.eventTime} \ {NoSeries, NoTime}
                      IN IF IsEventDiscarded(s)
                         THEN (\E t \in known : Older(t)) \/ known = {}
                         ELSE \E t \in known : ~Older(t)
    BY DEF AgeRespected
  <1> DEFINE known == {s.series, s.lastTimestamp, s.eventTime} \ {NoSeries, NoTime}
  <1>1. Timestamp(s) \in known \/ (Timestamp(s) = NoTime /\ known = {})
    BY TimestampIsKnown
  <1>2. Older(NoTime)
    BY DEF Older
  <1> QED
    BY <1>1, <1>2 DEF IsEventDiscarded

\* An event arrives and is discarded, or counted and looked up.
LEMMA ArrivalIInv ==
  ASSUME IInv, (\E s \in Stamps : Discard(s)) \/ (\E ref \in References : Accept(ref))
  PROVE  IInv'
  <1>1. processed \in 0 .. MaxEvents /\ eventsDiscarded \in 0 .. MaxEvents
        /\ processed + eventsDiscarded < MaxEvents /\ handed \in 0 .. MaxEvents
    BY DEF IInv, TypeOK, Discard, Accept
  <1>2. ASSUME NEW s \in Stamps, Discard(s) PROVE IInv'
    <2>1. /\ pc = "idle" /\ eventsDiscarded' \in 0 .. MaxEvents
          /\ UNCHANGED <<now, object, home, omitLookup, cache, mapped, pc, about, result,
                         processed, waited, handed>>
      BY <1>1, <1>2 DEF Discard, clusterVars, cacheVars, callVars
    <2>2. TypeOK'
      BY <2>1 DEF IInv, TypeOK
    <2> QED
      BY <2>1, <2>2 DEF IInv, FiniteInv, CacheInv, CallInv, ProcessedAreHanded, ReadOf
  <1>3. ASSUME NEW ref \in References, Accept(ref) PROVE IInv'
    <2>1. /\ pc = "idle" /\ about' = ref
          /\ processed' = processed + 1 /\ processed' \in 0 .. MaxEvents
          /\ UNCHANGED <<now, object, home, omitLookup, cache, mapped, eventsDiscarded,
                         waited, handed>>
      BY <1>1, <1>3 DEF Accept, clusterVars, cacheVars
    <2>2. \/ pc' = "hand" /\ result' = Omitted
          \/ pc' = "lookup" /\ result' = NoResult
      BY <1>3 DEF Accept
    <2>3. result' \in Result
      BY <2>2 DEF Result
    <2>4. /\ ref \in Reference
          /\ ref.uid # NoUid => ref.uid \in DOMAIN home /\ ref.name = home[ref.uid]
      BY DEF IInv, TypeOK, References, Reference
    <2>5. TypeOK'
      BY <2>1, <2>2, <2>3, <2>4 DEF IInv, TypeOK
    <2>6. FiniteInv' /\ CacheInv'
      BY <2>1 DEF IInv, FiniteInv, CacheInv, ReadOf
    <2>7. CallInv'
      BY <2>2 DEF CallInv, Omitted, NoResult
    <2>8. ProcessedAreHanded'
      BY <1>1, <2>1, <2>2 DEF IInv, ProcessedAreHanded
    <2> QED
      BY <2>5, <2>6, <2>7, <2>8 DEF IInv
  <1> QED
    BY <1>2, <1>3

\* A hit: the entry is younger than its time to live, and was read at most one
\* call before it was stored.
LEMMA CacheHitIInv ==
  ASSUME IInv, CacheHit
  PROVE  IInv'
  <1> DEFINE entry == cache[about.uid]
  <1>1. /\ about.uid \in DOMAIN cache /\ pc = "lookup" /\ pc' = "hand"
        /\ now - entry.fetchedAt < TTL /\ result' = Found(entry.metadata)
        /\ UNCHANGED <<now, object, home, omitLookup, cache, mapped, about, processed,
                       eventsDiscarded, waited, handed>>
    BY DEF CacheHit, CacheKey, Fresh, clusterVars, cacheVars, metricVars, historyVars
  <1>2. /\ entry.metadata \in Metadata /\ entry.metadata.readAt \in Nat
        /\ entry.fetchedAt \in Nat /\ now \in Nat /\ waited \in Nat
    BY <1>1 DEF IInv, TypeOK, Entry, Metadata, Time
  <1>3. /\ ReadOf(entry.metadata, about)
        /\ entry.fetchedAt - entry.metadata.readAt <= MaxLatency
    <2>1. about.uid # NoUid => ReadOf(entry.metadata, [name |-> home[about.uid], uid |-> about.uid])
      BY <1>1 DEF IInv, CacheInv
    <2>2. about.uid # NoUid => about.name = home[about.uid]
      BY <1>1 DEF IInv, TypeOK
    <2> QED
      BY <1>1, <2>1, <2>2 DEF IInv, CacheInv, ReadOf
  <1>4. result' \in [status : {"found", "notFound"}, metadata : Metadata]
        /\ result'.status = "found" /\ result'.metadata = entry.metadata
    BY <1>1, <1>2 DEF Found
  <1>5. result' \in Result
    BY <1>4 DEF Result
  <1>6. TypeOK'
    BY <1>1, <1>5 DEF IInv, TypeOK
  <1>7. CallInv'
    <2>1. now - entry.metadata.readAt < TTL + MaxLatency + waited
      BY <1>1, <1>2, <1>3
    <2> QED
      BY <1>1, <1>2, <1>3, <1>4, <2>1 DEF CallInv, ReadOf
  <1> QED
    BY <1>1, <1>6, <1>7 DEF IInv, FiniteInv, CacheInv, ProcessedAreHanded, ReadOf

\* A miss: the entries that stay are as they were.
LEMMA CacheMissIInv ==
  ASSUME IInv, CacheMiss
  PROVE  IInv'
  <1>1. /\ pc = "lookup" /\ pc' = "mapping"
        /\ cache' = [u \in DOMAIN cache \ {about.uid} |-> cache[u]]
        /\ UNCHANGED <<now, object, home, omitLookup, mapped, about, result, processed,
                       eventsDiscarded, waited, handed>>
    BY DEF CacheMiss, CacheKey, clusterVars, metricVars, historyVars
  <1>2. /\ DOMAIN cache' \subseteq DOMAIN cache
        /\ \A u \in DOMAIN cache' : cache'[u] = cache[u]
    BY <1>1
  <1>3. IsFiniteSet(DOMAIN cache') /\ Cardinality(DOMAIN cache') <= CacheSize
    <2>1. IsFiniteSet(DOMAIN cache) /\ Cardinality(DOMAIN cache) <= CacheSize
      BY DEF IInv, FiniteInv, TypeOK
    <2>2. /\ IsFiniteSet(DOMAIN cache')
          /\ Cardinality(DOMAIN cache') <= Cardinality(DOMAIN cache)
      BY <1>2, <2>1, FS_Subset
    <2>3. Cardinality(DOMAIN cache) \in Nat /\ Cardinality(DOMAIN cache') \in Nat
      BY <2>1, <2>2, FS_CardinalityType
    <2> QED
      BY <2>1, <2>2, <2>3
  <1>4. TypeOK'
    BY <1>1, <1>2, <1>3 DEF IInv, TypeOK
  <1>5. CacheInv'
    BY <1>1, <1>2 DEF IInv, CacheInv, ReadOf
  <1> QED
    BY <1>1, <1>3, <1>4, <1>5 DEF IInv, FiniteInv, CallInv, ProcessedAreHanded

\* The resource of the kind is found, remembered, or not to be had.
LEMMA MapKindIInv ==
  ASSUME IInv, MapKind \/ MapKindFails
  PROVE  IInv'
  <1>1. /\ pc = "mapping"
        /\ UNCHANGED <<now, object, home, omitLookup, cache, about, processed,
                       eventsDiscarded, waited, handed>>
    BY DEF MapKind, MapKindFails, clusterVars, cacheVars, metricVars, historyVars
  <1>2. \/ pc' = "get" /\ result' = result
        \/ pc' = "hand" /\ result' = Failed
    BY DEF MapKind, MapKindFails
  <1>3. /\ mapped \subseteq Kind /\ IsFiniteSet(mapped)
        /\ Cardinality(mapped) <= MappingCacheSize
    BY DEF IInv, TypeOK, FiniteInv
  <1>4. /\ mapped' \subseteq Kind /\ IsFiniteSet(mapped')
        /\ Cardinality(mapped') <= MappingCacheSize
    <2> DEFINE k == KindOf[about.name]
    <2>1. k \in Kind
      BY <1>1 DEF IInv, TypeOK, Reference
    <2>2. CASE mapped' = mapped
      BY <1>3, <2>2
    <2>3. ASSUME k \notin mapped, NEW kept \in KeptBy(mapped, MappingCacheSize),
                 mapped' = kept \cup {k}
          PROVE  /\ mapped' \subseteq Kind /\ IsFiniteSet(mapped')
                 /\ Cardinality(mapped') <= MappingCacheSize
      BY <1>3, <2>1, <2>3, KeptFits
    <2> QED
      BY <2>2, <2>3 DEF MapKind, MapKindFails, cacheVars
  <1>5. TypeOK'
    BY <1>1, <1>2, <1>4 DEF IInv, TypeOK, Result
  <1>6. CallInv'
    BY <1>2 DEF CallInv, Failed
  <1> QED
    BY <1>1, <1>2, <1>4, <1>5, <1>6
       DEF IInv, FiniteInv, CacheInv, ProcessedAreHanded, ReadOf

\* The API server answers with the object of that name, with none, or not.
LEMMA GetIInv ==
  ASSUME IInv, Get \/ GetFails
  PROVE  IInv'
  <1>1. /\ pc = "get" /\ pc' \in {"store", "hand"}
        /\ UNCHANGED <<now, object, home, omitLookup, cache, mapped, about, processed,
                       eventsDiscarded, waited, handed>>
    BY DEF Get, GetFails, clusterVars, cacheVars, metricVars, historyVars
  <1> DEFINE read == [uid |-> object[about.name], of |-> about.name, readAt |-> now]
  <1>2. /\ about.name \in Name /\ now \in Time /\ now \in Nat /\ waited \in Nat
    BY <1>1 DEF IInv, TypeOK, Time, Reference
  <1>3. CASE result' = Failed /\ pc' = "hand"
    <2>1. TypeOK'
      BY <1>1, <1>3 DEF IInv, TypeOK, Result
    <2>2. CallInv'
      BY <1>3 DEF CallInv, Failed
    <2> QED
      BY <1>1, <1>3, <2>1, <2>2
         DEF IInv, FiniteInv, CacheInv, ProcessedAreHanded, ReadOf
  <1>4. CASE /\ result'.status \in {"found", "notFound"}
             /\ result'.metadata = read
             /\ result' \in [status : {"found", "notFound"}, metadata : Metadata]
             /\ pc' = "store" => result'.status = "found"
    <2>1. TypeOK'
      BY <1>1, <1>4 DEF IInv, TypeOK, Result
    <2>2. CallInv'
      <3>1. /\ result'.metadata \in Metadata /\ ReadOf(result.metadata, about)'
            /\ now' - result'.metadata.readAt = 0
        BY <1>1, <1>2, <1>4 DEF Metadata, ReadOf
      <3>2. waited' \in Nat /\ 0 < TTL + MaxLatency + waited'
        BY <1>1, <1>2
      <3> QED
        BY <1>4, <3>1, <3>2 DEF CallInv
    <2> QED
      BY <1>1, <2>1, <2>2 DEF IInv, FiniteInv, CacheInv, ProcessedAreHanded, ReadOf
  <1>5. read \in Metadata
    BY <1>2 DEF Metadata, IInv, TypeOK
  <1>6. CASE GetFails
    BY <1>3, <1>6 DEF GetFails
  <1>7. CASE Get
    BY <1>4, <1>5, <1>7 DEF Get, Found, NotFound
  <1> QED
    BY <1>6, <1>7

\* The entry stored is stamped with a time at most one call after the read.
LEMMA StoreIInv ==
  ASSUME IInv, Store
  PROVE  IInv'
  <1>1. /\ pc = "store" /\ pc' = "hand"
        /\ UNCHANGED <<now, object, home, omitLookup, mapped, about, result, processed,
                       eventsDiscarded, waited, handed>>
    BY DEF Store, clusterVars, metricVars, historyVars
  <1>2. PICK kept \in KeptBy(DOMAIN cache \ {about.uid}, CacheSize) :
          cache' = [u \in kept \cup {about.uid} |->
                      IF u = about.uid
                      THEN [metadata |-> result.metadata, fetchedAt |-> now]
                      ELSE cache[u]]
    BY DEF Store, CacheKey
  <1>3. /\ now \in Time /\ now \in Nat /\ waited \in 0 .. MaxLatency
        /\ about.uid \in DOMAIN home \cup {NoUid}
        /\ about.uid # NoUid => about.name = home[about.uid]
        /\ DOMAIN cache \subseteq DOMAIN home \cup {NoUid}
        /\ IsFiniteSet(DOMAIN cache) /\ Cardinality(DOMAIN cache) <= CacheSize
    BY <1>1 DEF IInv, TypeOK, FiniteInv, Time
  <1>4. /\ result.status = "found" /\ result.metadata \in Metadata
        /\ ReadOf(result.metadata, about)
        /\ now - result.metadata.readAt <= waited
        /\ result.metadata.readAt \in Nat
    BY <1>1 DEF IInv, CallInv, Metadata, Time
  <1>5. LET keys == DOMAIN cache \ {about.uid} IN
          IsFiniteSet(keys) /\ Cardinality(keys) <= CacheSize
    <2>1. /\ IsFiniteSet(DOMAIN cache \ {about.uid})
          /\ Cardinality(DOMAIN cache \ {about.uid}) <= Cardinality(DOMAIN cache)
      BY <1>3, FS_Subset
    <2>2. /\ Cardinality(DOMAIN cache \ {about.uid}) \in Nat
          /\ Cardinality(DOMAIN cache) \in Nat
      BY <1>3, <2>1, FS_CardinalityType
    <2> QED
      BY <1>3, <2>1, <2>2
  <1>6. /\ kept \subseteq DOMAIN cache \ {about.uid}
        /\ IsFiniteSet(kept \cup {about.uid}) /\ Cardinality(kept \cup {about.uid}) <= CacheSize
    BY <1>2, <1>5, KeptFits
  <1>7. /\ DOMAIN cache' = kept \cup {about.uid}
        /\ cache'[about.uid] = [metadata |-> result.metadata, fetchedAt |-> now]
        /\ \A u \in kept : cache'[u] = cache[u]
    BY <1>2, <1>6
  <1>8. cache'[about.uid] \in Entry
    BY <1>3, <1>4, <1>7 DEF Entry
  <1>9. TypeOK'
    <2>1. \A u \in DOMAIN cache' : cache'[u] \in Entry
      BY <1>6, <1>7, <1>8 DEF IInv, TypeOK
    <2> QED
      BY <1>1, <1>3, <1>6, <1>7, <2>1 DEF IInv, TypeOK
  <1>10. CacheInv'
    <2>1. /\ cache'[about.uid].metadata = result.metadata
          /\ cache'[about.uid].fetchedAt - cache'[about.uid].metadata.readAt <= MaxLatency
      BY <1>3, <1>4, <1>7
    <2>2. about.uid # NoUid =>
            ReadOf(result.metadata, [name |-> home[about.uid], uid |-> about.uid])
      BY <1>3, <1>4 DEF ReadOf
    <2>3. ASSUME NEW u \in DOMAIN cache'
          PROVE  /\ u # NoUid => ReadOf(cache[u].metadata, [name |-> home[u], uid |-> u])'
                 /\ cache'[u].fetchedAt - cache'[u].metadata.readAt <= MaxLatency
      <3>1. CASE u = about.uid
        BY <1>1, <2>1, <2>2, <3>1 DEF ReadOf
      <3>2. CASE u # about.uid
        <4>1. u \in DOMAIN cache /\ cache'[u] = cache[u]
          BY <1>6, <1>7, <3>2
        <4> QED
          BY <1>1, <4>1 DEF IInv, CacheInv, ReadOf
      <3> QED
        BY <3>1, <3>2
    <2> QED
      BY <2>3 DEF CacheInv
  <1>11. CallInv'
    BY <1>1, <1>3, <1>4 DEF CallInv, ReadOf
  <1> QED
    BY <1>1, <1>6, <1>7, <1>9, <1>10, <1>11
       DEF IInv, FiniteInv, ProcessedAreHanded

\* The event is handed on, and the call is over.
LEMMA HandIInv ==
  ASSUME IInv, Hand
  PROVE  IInv'
  <1>1. /\ pc = "hand" /\ pc' = "idle" /\ handed' = handed + 1
        /\ result' = NoResult /\ waited' = 0
        /\ UNCHANGED <<now, object, home, omitLookup, cache, mapped, processed,
                       eventsDiscarded>>
    BY DEF Hand, clusterVars, cacheVars, metricVars
  <1>2. processed = handed + 1 /\ handed \in Nat /\ processed \in 0 .. MaxEvents
    BY <1>1 DEF IInv, TypeOK, ProcessedAreHanded
  <1>3. TypeOK'
    BY <1>1, <1>2 DEF IInv, TypeOK, Result
  <1> QED
    BY <1>1, <1>2, <1>3 DEF IInv, FiniteInv, CacheInv, CallInv, ProcessedAreHanded, ReadOf

\* Every step keeps the invariant.
LEMMA StepIInv == IInv /\ [Next]_vars => IInv'
  <1> SUFFICES ASSUME IInv, [Next]_vars PROVE IInv'
    OBVIOUS
  <1>1. CASE UNCHANGED vars
    <2>1. UNCHANGED <<now, object, home, omitLookup, cache, mapped, pc, about, result,
                      processed, eventsDiscarded, waited, handed>>
      BY <1>1 DEF vars, clusterVars, cacheVars, callVars, metricVars, historyVars
    <2> QED
      BY <2>1 DEF IInv, TypeOK, FiniteInv, CacheInv, CallInv, ProcessedAreHanded, ReadOf
  <1> QED
    BY <1>1, ClusterIInv, TickIInv, ArrivalIInv, CacheHitIInv, CacheMissIInv, MapKindIInv,
       GetIInv, StoreIInv, HandIInv DEF Next

\* The invariant holds in every reachable state, for all constants.
THEOREM Invariance == Spec => []IInv
  BY InitIInv, StepIInv, PTL DEF Spec

-----------------------------------------------------------------------------
\* TypeOK of EventWatcher: the caches stay within their sizes.
THEOREM TypeCorrect == Spec => []TypeOK
  <1>1. IInv => TypeOK
    BY DEF IInv
  <1> QED
    BY <1>1, Invariance, PTL

\* The effective bound on the age of what an event carries: the time to live
\* and the time of two calls (objects.go:69-74, 134).
THEOREM MetadataAge == Spec => []MetadataFresh
  <1>1. IInv => MetadataFresh
    <2> SUFFICES ASSUME IInv, pc = "hand"
                 PROVE  /\ result.status = "found" =>
                             now - result.metadata.readAt < TTL + 2 * MaxLatency
                        /\ result.status = "notFound" =>
                             now - result.metadata.readAt <= MaxLatency
      BY DEF MetadataFresh
    <2>1. waited \in 0 .. MaxLatency /\ now \in Nat
      BY DEF IInv, TypeOK, Time
    <2>2. result.status \in {"found", "notFound"} => result.metadata.readAt \in Nat
      BY DEF IInv, CallInv, Metadata, Time
    <2> QED
      BY <2>1, <2>2 DEF IInv, CallInv
  <1> QED
    BY <1>1, Invariance, PTL

\* An event about an object that is still there carries that object's metadata,
\* and never that of another name (objects.go:68, 113-116).
THEOREM RightObject == Spec => []MetadataOfObject
  <1>1. IInv => MetadataOfObject
    BY DEF IInv, CallInv, MetadataOfObject, ReadOf
  <1> QED
    BY <1>1, Invariance, PTL

\* No event counted as processed is lost to a failed lookup (watcher.go:132-160).
THEOREM NoneLost == Spec => []ProcessedAreHanded
  <1>1. IInv => ProcessedAreHanded
    BY DEF IInv
  <1> QED
    BY <1>1, Invariance, PTL

\* Events are discarded for their age only, whichever times they have, for
\* every age limit (watcher.go:93-105).
THEOREM AgeOnly == Spec => []AgeRespected
  <1>1. IInv => AgeRespected
    BY AgeIsJudged DEF IInv, TypeOK
  <1> QED
    BY <1>1, Invariance, PTL

=============================================================================
