# Verification of kubernetes-event-exporter

TLA+ modules, TLC configurations and TLAPS proofs for the event exporter: a
single Go process that watches the events of a Kubernetes cluster, completes
each one with metadata of the object it is about, routes it through a tree of
rules, and sends it to receivers (webhooks, queues, search engines, files, ...).

Paths such as `pkg/batch/writer.go:57` are relative to `src/`.

## 1. The system

    Kubernetes API  <-- Lease, written and watched by the replicas of the exporter
         |  informer callback (one goroutine)           main.go: signals, leader
         |                                              election, shutdown order
         v
    EventWatcher.onEvent -- getObjectMetadata (two caches, API Get)
         |  fn(event)  = Engine.OnEvent
         v
    Route.ProcessEvent (tree of drop and match rules)
         |  SendEvent(receiver, event)
         v
    ChannelBasedReceiverRegistry: one goroutine, one unbuffered channel and one
         |  exit channel for each receiver; one goroutine for each send
         v
    Sink.Send(ctx, event)   one of 21 kinds; BigQuery behind a batch.Writer

### Components

| component | state | operations | shared with | modelled by |
|---|---|---|---|---|
| batch writer, `pkg/batch/writer.go` | fixed buffer of slots with attempt counts, `len`, ticker, unbuffered channels `items`, `done`, `stopDone` | `Start` (goroutine), `Submit`, `Stop`, `processBuffer` | its caller and the handler it calls | `BatchContract`, `BatchWriter`, `BatchWriterProofs` |
| receiver registry, `pkg/exporter/channel_registry.go` | maps name -> channel and name -> exit channel, one wait group, an error counter | `Register` (+ its goroutine), `SendEvent` (+ its goroutine), `Close` | engine, sinks | `ReceiverRegistry`, `ChannelRegistry`, `MCChannelRegistry`, `ChannelRegistryProofs` |
| routing, `pkg/exporter/{route,rule,router}.go` | none (the tree is fixed after startup) | `ProcessEvent`, `MatchesEvent`, `OnEvent` | registry | `Routing`, `Engine`, `MCEngine`, `RoutingProofs` |
| engine and process, `main.go`, `pkg/exporter/engine.go` | where main is, `wasLeader`, the watcher's stopper and wait group, the context | `NewEngine`, `Start`/`Stop` of the watcher, `RunOrDie` callbacks, `Engine.Stop` | watcher, elector, registry | `Exporter` over `ReceiverRegistry`, `ExporterProofs` |
| leader election, `pkg/kube/leaderelection.go`, `main.go:158-206` | the Lease in the cluster; per replica what it has seen of it and since when, its timers | `NewLeaderElector`, the elector's acquire and renew, the callbacks, the wait before the end | API server, the other replicas | `LeaderHandover`, `MCLeaderHandover`, `LeaderHandoverProofs` |
| event watcher, `pkg/kube/{watcher,objects}.go` | cache uid -> metadata with time stamps, cache kind -> resource, start-up time | `isEventDiscarded`, `onEvent`, `getObjectMetadata` | API server, engine | `EventWatcher`, `MCEventWatcher`, `EventWatcherProofs` |
| startup, `main.go:31-153`, `pkg/exporter/config.go`, `pkg/setup/setup.go`, `pkg/kube/{client,watcher_options}.go`, `pkg/metrics/metrics.go` | the configuration while it is completed | parsing, log settings, `SetDefaults`, `Validate`, registering the metrics, option checks, cache construction | environment, watcher | `Startup`, `Engine`, `MCEngine`, `StartupProofs` |
| BigQuery sink, `pkg/sinks/bigquery.go` | a batch writer, a file on disk | handler (write file, load, answer), `Send`, `Close` | disk, BigQuery | `BigQuery` over `BatchWriter`, `BatchWriterProofs` |
| the other sinks, `pkg/sinks/*.go`, `pkg/kube/event.go` | per-receiver configuration; **the process-wide `http.DefaultClient`**; label maps shared by copies of an event; the client each constructor makes | constructors, `Send`, `DeDot`, `Close` | one another, engine | `Sinks`, `SinkClients`, `MCSinks`, `SinksProofs` |

What is not modelled is in section 8, with the reasons.

### Where it is hard

* The registry's goroutines: senders blocked on a channel race the exit signal;
  `Close` sends on each unbuffered exit channel in turn, then waits for all.
* The shutdown order of main: stop the informer with the callback in progress,
  then close the registry, whose maps have no lock. The leader callback runs in a
  goroutine of client-go that may still be about to start the watcher when main
  has stopped it.
* Replicas that take over from one another by timers that none of them shares: a
  lease counts from when it was last *seen* to change, requests and their replies are
  lost, and a leader goes on watching while it leaves.
* The compaction in the batch writer moves failed items down the array while it
  reads the answers for the slots above; a full buffer, the ticker and `Stop`
  reach it with different follow-ups.
* Two caches keyed by different things (UID, kind) in front of an API asked by
  name; time stamps taken before or after the call they are about.
* Sinks running in parallel share a transport and the maps of an event; each calls,
  without a test, what its constructor made under conditions of its own.
* Defaults, an environment variable and later checks that complete the
  configuration in an order on which each of them relies.

`PROJECT.json` lists each hazard at its line and the properties that cover it.

### What makes each component correct

* *Batch writer*: every accepted item is given to the handler, in order, at most
  `MaxRetries + 1` times and never after a success, and leaves in the end.
* *Registry*: a sink serves one event at a time and none once closed; `Close`
  returns only when all sinks are closed and does return unless a sink hangs; a slow
  receiver does not hold up another; the error counter is exact.
* *Routing*: a receiver gets an event exactly if a path of routes lets it through (by
  the code's rules for that, which are not the README's: section 6).
* *Process*: no send overlaps the closing of the registry; what began to be
  handled is handed to all its receivers; a cancelled context ends the process.
* *Leader election*: one replica leads at a time; an orderly handover leaves a short
  gap at most and loses no event; a long overlap is not possible either.
* *Watcher*: no event is lost to a failed lookup; metadata is of the right object
  and of bounded age; an event is discarded by its age only.
* *Startup*: no illegal setting reaches a running watcher, no legal one is refused.
* *Sinks*: `nil` means delivered, as far as the sink can see; a receiver's settings concern that receiver only; a
  client is made before it is used and closed with its sink.

## 2. Plan and state of the modules

In order of importance; all of it is done.

| # | modules | abstract specification | run | proofs |
|---|---|---|---|---|
| 1 | `BatchWriter` | `BatchContract` | `batch_writer` | safety and refinement |
| 2 | `ChannelRegistry` | `ReceiverRegistry` | `channel_registry`, `registry_shared_name` | safety and refinement |
| 3 | `Routing` | - | `engine`, `routing_readme` | soundness and completeness |
| 4 | `Exporter` (uses `ReceiverRegistry`) | - | `exporter` | safety |
| 5 | `LeaderHandover` | - | `leader_handover`, `leader_gap` | safety (one leader, gap, overlap) |
| 6 | `EventWatcher` | - | `event_watcher` | safety |
| 7 | `Startup`, `Engine` (extends `Startup` and `Routing`) | - | `engine` | safety; `Engine` implements both |
| 8 | `BigQuery` (extends `BatchWriter`) | `BatchContract` through `BatchWriter` | `bigquery` | safety and refinement |
| 9 | `Sinks`, `SinkClients` (extends `Sinks`) | - | `sinks`, `sinks_shared_client` | safety |

A second implementation of `ReceiverRegistry` for `sync_registry.go`, once planned, has
been given up: three methods of one line each, used by tests only.

How they compose: `Exporter` uses the *contract* of the registry
(`Registry == INSTANCE ReceiverRegistry`), and `ChannelRegistry` is shown to
implement that contract, so the process is checked without the registry's
channels and the registry without the process. `BigQuery` extends `BatchWriter` and
replaces its abstract handler (any answers) by the steps of the real one. `SinkClients`
extends `Sinks` and puts the making and closing of the clients around its sends: the
engine makes all sinks before the first event, a sink is closed by its own goroutine.
`Engine` extends `Startup` and `Routing`: the tree whose patterns the start has compiled is
the one that events go through, and none does before the watcher runs.
`LeaderHandover` has several processes and of each only what `Exporter` shows main to do
around the elector.

## 3. Modules and how they correspond to the code

`map` in `PROJECT.json` names the lines of every definition. Definitions under a
comment *Fault:* are plausible bugs, used only to see that each property can be broken
by a change of the code; no specification uses them.

**BatchWriter.** `pc` is where the goroutine of `Start` is (`select`, inside the
handler, in the compaction loop, about to signal `stopDone`, gone); `trigger` is the
select case that called `processBuffer`. `TakeItem`, `TakeItemFull`, `TakeDone` and
`Tick` are the select cases (an unbuffered receive is one step with its sender),
`HandlerReturns(Ok)` is any vector of answers, `CompactStep` is one turn of the loop
over the answers, `CompactDone` the return to the caller, `SignalStop` the last send.
Items are numbered in the order they are accepted; `acked` and `calls` are history.
One goroutine calls `Submit` and `Stop`, as the registry's goroutine of the
receiver does. `BatchContract` promises per item: tried in rounds, delivered at most
once, given up only after all its tries or when room is needed.

**ChannelRegistry.** A sink is a receiver's goroutine; `wg`, `ch` and `exitCh` are the
registry's maps and wait group by *name*, which is where two receivers of one name
meet. `SendEvent(j, n)` starts a goroutine blocked on the receiver's
channel; for a name nobody has that is a nil channel, and it blocks for ever;
`Receive`, `SendReturns`, `TakeExit`, `SinkCloses` are the goroutine's loop; `Close`,
`SignalExit`, `AwaitSinks`, `CloseReturns` are `Close` (map iteration in any
order). `Hang` is a sink whose `Send` never returns. `ReceiverRegistry` is the
interface's promise: an event goes new, pending, serving, delivered or failed; a sink
goes new, open, closed; `Close` is over when all are closed.

**Routing.** The tree, the rules and the events are constants: a pattern is the set of
strings it matches, a rule a record of conditions. `OnEvent` starts an event at the
root; `ProcessDropped` and `ProcessRoute` are the two outcomes of `ProcessEvent` for
the next route of `todo`, which is the recursion's stack, depth first.

**Exporter.** `main` walks through `main.go`; `elector` is client-go's elector with
the callback goroutine (`MarkLeader`, `StartLeading`); `informer`, `stopper`, `wg` are
the watcher's; `event[e]` and `targets[e]` are a callback in progress and the
receivers its route has (any set: `Routing` says which). Every `log.Fatal` ends the
process at once. Without leader election main starts the watcher itself.

**LeaderHandover.** A replica is down, acquiring, has won the lease, leads with its
watcher, or leaves, asleep in main's wait with the watcher still running. `LookFails`,
`LookAndWait`, `Acquire`, `AcquireReplyLost`, `RenewSucceeds` and `RenewFails` are
client-go's elector as `NewLeaderElector` sets it up: `age[r]` runs from when r has seen
the Lease change, not from when it was written (`unseen` says who has not seen it yet).
`CallbackRuns` is `OnStartedLeading`, with the listing by which a new watcher gets the
events there are; `LeaveUnled` and `LeaveLed` are the two sides of `if wasLeader`, for a
signal or a lost lease; `SleepOver` is the end of main. Timers run down together in
`Tick`, which waits for whatever is due, so that no replica oversleeps; the jitter of
those who wait is a choice in `RetryPeriod .. RetryMax`. One event of the cluster occurs
at any time and grows old; `excused` remembers that a process went that could not hand
over (killed, or without anybody waiting, or cut off from the API server itself).

**EventWatcher.** A cluster in which objects of a name are created (with a fresh UID)
and removed, and a clock in ticks. An event refers to an object by name and UID, or by
name alone: the API server is asked by the one, the cache by the other. `Discard` and
`Accept` are the two outcomes of `isEventDiscarded` (three optional time stamps, each
zero, recent or old); `CacheHit`/`CacheMiss`, `MapKind`, `Get`, `Store`, `Hand` are `getObjectMetadata` and
the end of `onEvent`, with time passing between them. Both caches may evict any entry
when full.

**Startup.** One action per check, in the order of the code, from reading the
configuration file to a running watcher, a fatal error or a panic. Numbers are integers at and
around the limits; `Unset` and `Malformed` are strings that are absent or do not parse. `TakenPrefix` are
the prefixes of metrics that pass `Validate` and collide with a collector that is
registered before (`go_` with `go_build_info`).

**Engine.** The two of them one after the other: `Start` is a step of main up to the
running watcher, `Process` a step of `OnEvent` and `ProcessEvent` from then on, over the
same tree (`SameTreeAssumption`). `Followed` and `FirstEvent` are bounds: no setting but
the rules has a part in the routing, and the compiled patterns match what rule.go:89-93
matches with those it compiles for each event, so events are followed after one of the
configurations that reach the watcher only, beginning with one event that `OnEvent`
follows up by any other.

**BigQuery.** `HandleBatch` of `BatchWriter` in steps: `WriteFile` (may fail: only
logged), `LoadSucceeds`/`LoadFails` (file removed or kept), and an answer that is true
for every item in either case.

**Sinks.** Each receiver's goroutine: `Begin`, `Prepare` (or `PrepareFails` for each
template, header or encoding the sink needs), `Do`, `Answer`. `GetSink` chooses by the
order of the fields in `receiver.go`. An assignment to `http.DefaultClient.Transport`
is a two-word store (`StoreType`, `StoreData`), because the assignment is a data race
when two receivers do it: a reader in between gets a `Torn` value, and using one
may panic. `RepliesTo` is what may come of a request to each kind, and the reply tables
say for which replies the code of each returns nil. The clients of `net/http` follow a 301,
302 or 303 with a GET that has no body, and the sink sees the answer to that only
(`followed`; a 307 or 308 repeats the request and ends like one that was not redirected); a
write to syslog over udp, or to a peer that is gone, succeeds although the message is
lost (`unsent`); any service may answer 200 and not take the event (`inBody`). `Blind` names
these where the sink looks at nothing that would tell them from a delivery; `misled` is
the history of the sends that got one. A client library is taken to make an error of all
that is not a complete success.
`PreparePanics` is the avro encoder with a schema id that is not hexadecimal.

**SinkClients.** A constructor is a sequence of steps (`Steps`): what it checks, asks
for or connects to, in the order of its code. `GetNextSink`, `MakeStep`, `RegisterSink`
are the loop of `NewEngine`; `MakeFails` is an error, which ends the process in
`log.Fatal`, or a panic; `held` is what the sink has made and not closed. `SendStep` lets
the sends of `Sinks` happen once all are made; `CloseSink` is the `Close` of each kind.
`Option` names the settings a constructor branches on.

## 4. Runs

Each run finishes in at most about a minute; the number of distinct states is in
brackets. Deadlock is checked where the cfg does not say `CHECK_DEADLOCK FALSE`; it
does so where the program may come to rest (the process has exited, the bounded
numbers of events and ticks are used up, a sink has panicked).

| run | question | bounds, and why they are enough |
|---|---|---|
| `batch_writer` [22 291] | Do the select cases and the compaction, in every order, keep items, order and retry counts, and does everything end? | 3 slots, 1 retry, 4 items. Three slots are the fewest in which a failed item moves down past a delivered one with another behind it; the fourth item meets a full buffer; one retry gives items both kept and given up in a batch |
| `channel_registry` [2 914] | Does `Close`, racing blocked senders, sinks that fail and sinks that hang, wait for all and return? | 2 receivers with names of their own, 3 names (one nobody has), 2 events: two senders may block on one sink, or one on each, or on nothing |
| `registry_shared_name` | Is every sink signalled? **Violated**: see section 6 | 2 receivers of one name |
| `engine` [368 314] | Can an illegal setting reach a running watcher, or a legal one be refused or replaced? Does each receiver then get exactly what its path lets through? | 48 650 combinations of a file and the environment variable, each number at, below and above its limits, rules that do not compile at the top and at the bottom of the tree; the README's example with a drop rule at the root and four levels, so that a drop can stop subtrees at different depths; 216 events that differ in every condition a rule has |
| `routing_readme` | Does an event that matches a rule go down its subtree, and to the receiver only if it matches all? **Violated**: see section 6 | the same tree, and the event that matches one of the two rules of a route and all rules of the route below |
| `exporter` [44 011] | Do signals, a lost lease, late leader callbacks and failing starts in any order keep sends before the close, and does a shutdown complete? | 2 events x 2 sinks: one event in its callback while another waits at a sink, one sink closed and another still serving; with and without leader election |
| `leader_handover` [83 960] | Do replicas that are signalled, killed and cut off lead one at a time? How long is nobody watching, or more than one, and is an event lost? | 2 replicas (symmetric), restarting without limit with fresh identities; ticks of two seconds, so that 15/10/2/4 s become 8/5/1/2 and a retry may fall before, at and after the end of a lease; an event may be as old as the longest gap (`MaxEventAge` 4). Three replicas with a lease of 5 pass as well (7.3 million states) |
| `leader_gap` | Does the leader's wait cover the handover? **Violated**: see section 6 | the same in seconds: lease 15, deadline 10, retry 2, 4 with jitter, events of up to 5 s |
| `event_watcher` [300 278] | How old, and whose, is the metadata an event carries? Is any event lost? | 2 names of 2 kinds, 2 UIDs (symmetric) and references without one, time to live 2, calls of up to 1 tick, 5 ticks, 3 events, caches of 2: enough for an entry to be stored, to expire, to be evicted, and for its object to be deleted and recreated in between |
| `bigquery` [2 897] | Where is an item after the sink has answered for it? | 2 slots, 1 retry, 3 items; disk and load may fail at each batch |
| `sinks` [193 719] | Does nil mean delivered? Are receivers independent? Is what a sink calls there, and closed in the end? | 14 pairs of receivers in which each of the 21 kinds and every option occurs, from the first constructor to the last `Close`, 2 events, any template and any step of a constructor failing, every kind of reply |
| `sinks_shared_client` | Does each webhook send with its own transport? **Violated**: see section 6 | 2 webhooks |

What each property says is in the comment above it in its module. The ones that
take several steps of several actors to break:

* `AnswersMatchSlots`, `NoneLeavesUntried`, `ImplementsContract` (`BatchWriter`):
  relations between the array in the middle of a compaction, the answers still ahead
  and the history of every item.
* `OneEventPerSink`, `ImplementsContract`, `EventServed`, `CloseCompletes`
  (`ChannelRegistry`).
* `SendsEndBeforeClose`, `HandledReachAll`, `RunningLeaderWaits`,
  `ShutdownCompletes` (`Exporter`): main, the leader callback, the informer and the
  sinks' goroutines in any order.
* `OneLeader`, `GapBounded`, `OverlapBounded`, `NoEventLost` (`LeaderHandover`): each
  needs a renewal, a look that was early or late, and a wait of two processes.
* `MetadataFresh`, `MetadataOfObject` (`EventWatcher`): the *effective* bound on the age
  of what an event carries, which is the time to live plus the time of two API calls;
  and that it is never what was read of another object, as long as its own is there.
* `RunningIsSound`, `LegalIsObeyed` (`Startup`): no single check establishes them.
* `LoadedOrKept`, `HandedOnce`, `StoppedIsFlushed` (`BigQuery`).
* `NilMeansDelivered`, `BodyAsConfigured`, `OwnTransport` (`Sinks`), `ClientLifetime`
  (`SinkClients`).

## 5. Fairness

* *Batch writer*: strong fairness of each select case. Go chooses uniformly among
  the ready cases, so a case that is ready again and again is taken, though not
  continuously enabled (the goroutine leaves the select for the handler). Weak
  fairness of the handler's return and of the compaction, which nothing disables. The
  client owes nothing: it may never call `Stop`.
* *Registry*: strong fairness of `Receive` and `TakeExit`, for the same reason; weak
  fairness of the rest of each goroutine and of `Close`. `Hang` is never required, and
  `EventServed` and `CloseCompletes` except the sink that hangs, as the comment of
  `Close` does. No caller has to call.
* *Exporter*: weak fairness of main, of the leader callback, the informer, each
  `Send` and each sink's `Close`. `RunReturns` is fair only once the context is
  cancelled: the elector owes an end to nobody else. Signals, leases and events are
  not owed. A `Send` that hangs would block the shutdown; that is `CloseCompletes`
  above and is excluded here by the fairness of `Finish`.
* *BigQuery*: the batch writer's, with the handler's steps in place of its return.

The other modules have safety properties only.

## 6. Disagreements between code and documentation

* `registry_shared_name`: `Close` is documented to signal all sinks
  (`pkg/exporter/channel_registry.go:73`). Two receivers of one name, which nothing
  rejects, share one map entry: the first one's goroutine is never signalled, and
  `Close` waits for it for ever.
* `leader_gap`: `main.go:200` says the leader waits one lease so that no event is lost
  until the next leader is elected, who "will only be elected after leaseDuration
  seconds". It is elected later: a replica that waits counts the lease from when it has
  *seen* the last renewal, one retry late at most, and looks again up to a retry after
  the lease has run out. In the run the old leader has stopped watching for more than 5 s
  when the new one starts, and an event of the default age limit of 5 s is discarded by the new one.
  `GapBounded` is what does hold, and is proved for all durations (`GapShort`): two
  retries, which with the jitter of client-go (a factor of up to 2.2) are 8.8 s. With an
  age limit of no less than that, no event is lost (`NoEventLost` in `leader_handover`,
  `NoneLostInHandover`).
* `sinks_shared_client`: each webhook makes a transport of its own TLS settings
  (`pkg/sinks/webhook.go:23-31`) but stores it in the process-wide client before each
  request, so that two webhooks send with each other's. `OwnTransportIfAlone` proves that
  a webhook without another one sends with its own.
* `routing_readme`: `README.md:78-79` says that an event goes down
  the subtree if it matches *a* rule, and to the receiver if *all* rules match
  (`RoutedAsDocumented`). `ProcessEvent` has it the other way round: the receiver of each
  rule that matches gets the event (`route.go:27`), and the sub-routes follow if all rules
  match (`route.go:38`). In the run an event matches one of the two rules of a route: the
  receiver of that rule gets it, and the sub-route below, all rules of which match, does not.
  `SentOnlyWhenReached` and `SentToAllReached`, and the theorems about them, are about what
  the code does.

One more that no run is spent on:

* `main.go:200` says a leader waits before it stops. `wasLeader` is set in a goroutine of
  client-go and read by main without synchronisation: a signal right after the lease was
  won skips the wait (`AskLeader` before `MarkLeader` in `Exporter`, `LeaveUnled` in
  phase "won" in `LeaderHandover`). `RunningLeaderWaits` is what does hold, and is
  proved: a leader whose *watcher runs* waits.

Not counted as disagreements, because no line of the repository says otherwise, but
visible in the models:

* A full buffer gives the slots of items that failed to the next item
  (`pkg/batch/writer.go:57-60`); `OnlySettledLeave` names this case. The one user of
  the writer, BigQuery, always answers true, so that it does not occur in the program
  (`HandedOnce`).
* Without receivers `Close` waits on a nil wait group and panics
  (`channel_registry.go:80`). `NoPanic` proves that one receiver is enough.
* Teams, Elasticsearch, OpenSearch and EventBridge answer nil to events they have not
  delivered; `NilMeansDelivered` is about the other kinds.
* A webhook, Loki or Teams that is redirected (301, 302, 303) to something that answers a
  GET with 200 returns nil, and the event is lost; so is a syslog message over udp that does
  not arrive, and what a service answers with 200 without taking it (`Blind`).
* A BigQuery batch whose file cannot be written is lost and answered with true
  (`unwritten` in `LoadedOrKept`).
* Events about objects without a UID in their reference share one key of the metadata
  cache: the second such object gets the labels of the first
  (`pkg/kube/objects.go:68`; `MetadataOfObject` is about references with a UID).
* An event about an object that was deleted and recreated carries what belongs to the
  new one (`pkg/kube/objects.go:116`).
* The time stamp that decides the age of an event is the first that is set, not the most
  recent one, as the comment above it can be read (`pkg/kube/watcher.go:94`).
* A `metricsNamePrefix` of `go_` passes `Validate` and panics when the metrics are
  registered (`TakenPrefix` in `Startup`).
* An avro schema id of 32 characters that are not hexadecimal is accepted at the start and
  ends the process at the first event (`pkg/sinks/avro.go:41`).
* Kafka's constructor leaves its producer open when the encoder cannot be made
  (`pkg/sinks/kafka.go:76`; excepted in `ClientLifetime`), leaves out a client
  certificate of which one file is missing, where the other sinks refuse, and takes
  an unknown compression codec for none.
* `create_topic` of Pub/Sub asks for a new topic at each start, and a topic that is there
  already is an error that ends the process (`pkg/sinks/pubsub.go:104`).
* A negative BigQuery batch size or interval panics (`MustFail` in `SinkClients`).
* A webhook that stores its transport in the shared client while Teams sends can make
  Teams use half of it, and the process panics (`DoPanics`).

## 7. Proofs

TLAPS proves, for every value of the constants:

| module | theorem | assumptions on constants |
|---|---|---|
| `BatchWriterProofs`, about `BatchWriter` | `TypeCorrect`, `EveryItemTried`, `CompactionSound`, `BatchesOrdered`, `NoEarlyDrop`, `Refinement` | `BatchSize > 0`; `MaxRetries`, `MaxItems` natural |
| `BatchWriterProofs`, about `BigQuery` | `SinkTypeCorrect`, `NothingVanishes`, `NeverRetried`, `StopFlushes`, `SinkIsWriter`, `SinkRefinement` | the same |
| `ChannelRegistryProofs` | `TypeCorrect`, `OneAtATime`, `CloseWaits`, `ExitsTaken`, `ErrorsExact`, `NoPanic`, `Refinement`, `DistinctAllSignalled`, `DistinctWaitHasEnd` | a natural number of receivers with any names, shared or not; finitely many sends; `NoPanic`: at least one receiver; the last two: no two receivers of one name |
| `RoutingProofs` | `TypeCorrect`, `RoutingSound`, `RoutingComplete`, and `EngineImplements`, about `Engine` | any rules on any tree: each route but the root is below the root and has one parent and one place among its sub-routes |
| `ExporterProofs` | `TypeCorrect`, `NoneCutShort`, `NoLateSend`, `LeaderSleeps` | none: any sets of events and sinks |
| `EventWatcherProofs` | `TypeCorrect`, `MetadataAge`, `RightObject`, `NoneLost`, `AgeOnly` | caches of two or more, a positive time to live, any latency, age limit, names, kinds and UIDs |
| `StartupProofs` | `TypeCorrect`, `LegalPassesAll`, `RunningSound` | any files, environment and routes; `RunningSound`: every rule is in the tree below the root |
| `LeaderHandoverProofs` | `TypeCorrect`, `OnlyOneLeads`, `OverlapShort`, `GapShort`, `NoneLostInHandover` | any replicas and bound of the history; `0 < RetryPeriod <= RetryMax`, `RetryPeriod + RenewDeadline < LeaseDuration`; `NoneLostInHandover`: `2 * RetryMax <= MaxEventAge` |
| `SinksProofs` | `TypeCorrect`, `NilDelivers`, `BodiesAsConfigured`, `OwnTransportIfAlone`, `NeverTornIfAlone`, `LifetimeKept` | any receivers, each with at least one of the 21 kinds of sink; any parts, options and events. `OwnTransportIfAlone`: in a configuration with one webhook at most; `NeverTornIfAlone`: and without Teams |

`BatchesOrdered`, `NoEarlyDrop`, `CloseWaits`, `ErrorsExact`, `SinkTypeCorrect` and
`RoutingProofs!TypeCorrect` are about definitions (`BatchInOrder`, `OnlySettledLeave`,
`CloseWaitsForAll`, `ErrorsCounted`, `SinkTypeOK`, `RoutingTypeOK`) that no run checks any
more: the proofs cover them for all constants, and the refinements checked by the runs
imply most of them.

The arguments:

* *Batch writer.* `NoneLeavesUntried` is not inductive: in the middle of a compaction
  the array holds moved items, stale copies and items not looked at yet. `IInv` adds
  `ControlInv` (which variables are in use at which `pc`), `LiveInv` (the live
  slots are those below `newItemsCount` and those from `idx` on, with distinct
  items in increasing order), `HeldInv` (the item waiting for room is in no slot) and
  `HistoryInv` (the handler has seen accepted items only, and not the one that waits), with `RetriesCounted` and
  `AnswersMatchSlots` for the loop. `Refinement` maps each step to a step of
  `BatchContract` or a stutter: the moves of a compaction are stutters, an item leaves
  when the index passes it.
* *Registry.* `CountInv` (the wait group is the number of goroutines that run),
  `RegistrationInv` (who is registered, and which map entries lead where),
  `ServiceInv` (goroutine and event agree), `SignalInv` (whose exit was
  signalled) and `ExitInv`. `CloseWaits` then follows from a zero count, for shared
  names too. That `CloseCompletes` needs different names is what the violation shows.
  With different names `DistinctInv` holds as well: each receiver's name is still to be
  signalled, is being signalled, or has been heard. `DistinctAllSignalled`, the property
  of the violated run, follows, and with the count `DistinctWaitHasEnd`: `Close` waits only
  while some goroutine is on its way out (or its sink hangs). With `ExitsTaken` this is the part
  of `CloseCompletes` that does not depend on fairness.
* *Routing.* `TodoReached`: every route on the stack is reached by the event. A
  child of a route that matched is reached because the routes above the child are its
  parent and those above it (`AboveSub`). That nothing is left out needs more: the
  stack holds disjoint parts of the tree (`TodoApart`), and a rule has sent what it is
  to send unless its route is still below one on the stack (`SentSoFar`). When a route is
  taken off, what was pending because of it is its own rules, or is below exactly
  one of its sub-routes (`StepDown`, `SubsApart`); when it is dropped or does not match,
  nothing below it is reached (`NothingBelow`). With an empty stack `SentSoFar` is
  `SentToAllReached`. The routes above a route are the least set closed under parents, so
  what holds of the parent and of each parent of a member holds of all
  (`AboveLeast`): no induction over the tree is needed, not even for `NoCycle` and for the
  routes above a route being a chain (`PathIsChain`).
* *Process.* `StartInv` and `StopInv` say when the informer may run and that after
  `Stop` it only ends; `EventInv` ties the callback in progress to what it has sent.
* *Leader election.* A leader's own timers say how long ago it wrote the Lease
  (`SinceRenewal`), and nobody has seen that renewal earlier (`AgeInv`): as it gives up
  before a lease is over, nobody takes the lease from it (`LeaseKept`). For the overlap:
  what those who wait have seen of a lease that is left, and what remains of the wait,
  is at most a lease and the notice time (`LeavingInv`); of two that watch one is soon
  gone (`PairInv`); while two watch, the lease has been seen too recently for a third to
  take it (`FreshInv`); a replica whose acquisition was written but not answered is
  treated as the holder it is (`OwnedInv`). The bound of the history does not matter:
  either it is below the bound proved, or the invariant holds. For the gap, `StandbyInv` says
  that somebody leads, or that one of those who wait takes over in time. `Remaining` is
  the longest that can still take: the rest of the lease as this replica sees
  it and a retry. While a leader sleeps it is less than the rest of its sleep and two retries
  (`CoveredBy`); once nobody watches, less than two retries without the time that
  has gone (`TakesOverSoon`), and without the age of an event nobody has seen.
* *Watcher.* `MetadataOfObject` rests on what an entry under a UID may hold: something
  read by the name of that object, and of the object itself if it is still there,
  because a UID never comes back to a name it has left. The bound of `MetadataFresh`
  needs two facts with a history: an entry was
  stamped at most one call after it was read (`CacheInv`), and what the call under way
  has found has aged by no more than the call has lasted (`CallInv`). A hit adds the
  two to the time to live. `KeptFits` is the lemma that a full cache makes room.
* *Startup.* The invariant says for each step of main what the checks before it have
  established (`DefaultsInv`, `CheckedInv`), and that whatever a check refuses is not
  legal (`BlameInv`); `LegalPasses` is the arithmetic of defaults and limits. The
  routes that are compiled are the least set closed under sub-routes, so that no
  induction over the tree is needed.
* *BigQuery.* Every step of the sink is a step of `BatchWriter` or leaves it alone
  (`SinkStepIsStep`), so `IInv` of the batch writer is reused. `StageInv` says where the
  items of the batch are between the handler's steps. `StopFlushes` composes the two:
  the goroutine has ended, so nothing is left in the writer; what left it was tried
  (`NoneLeavesUntried`); what was tried was answered for (`HandedOnce`). In the same way
  `SinkIsWriter`, with `Refinement`, gives `SinkRefinement`: the sink keeps the writer's contract.
* *Sinks.* Of a Send under way `SendInv` says that its event is still open, that its body
  is the one its own receiver is configured for (which rests on `LabelInv`: nobody writes to the
  shared maps), and that it was taken if the reply says so, or else the send is one of those misled.
  `NilOfTaken` is what the reply tables come to: but for the four lenient kinds nil is an
  answer to such replies only. `TransportInv`: only a webhook stores a transport, so that with one of them
  nothing changes it between the store and the request.
* *Clients.* `LifeInv`: a receiver that is being made has what the first n steps of its
  constructor make, for some n, and one that is open has all of it. The rest is about
  the constructors of the 21 kinds: `AllThatIsUsed` (together they make what
  Send calls), `MadeLast` (what must be closed is made last, or the steps that
  follow cannot fail, or close it, or are Kafka's encoder), and from it
  `ClosedWithSink` and `ClosedOnFailure`. `KindKnown` is about `GetSink`: a receiver with a sink
  gets one of the known kinds, as there is a first one. That a set of numbers has
  a least member (`LeastNatural`) comes from the well-founded order of finite sets
  in the library, whose theorems need no operator as a parameter.

### Only model-checked

* Liveness (`EveryItemSettled`, `CallsReturn`, `EventServed`, `CloseCompletes`,
  `ShutdownCompletes`, `ItemsLeave`) and everything with `ENABLED`: beyond the prover.
* What the violations refute: `AllSinksSignalled`, `NoEventLost` and `OwnTransport` outside
  the hypotheses of their theorems, `RoutedAsDocumented`.

Every invariant and action property of a passing run is the subject of a theorem. Nothing
needs an induction over data: the recursive part of the program, the tree of routes, is
described by least closed sets.

### Assumed of the outside

* client-go: one informer goroutine calls the handler for one event at a time; a closed
  stopper ends it after the callback in progress; `RunOrDie` starts the leader
  callback in a goroutine of its own and returns when the context is cancelled or the
  lease is lost.
* `lru.New2Q` refuses a size whose half is zero.
* client-go's elector writes and reads the Lease as `LeaderHandover` says; a request takes
  no time there, and the clocks of the replicas run at the same speed.
* The services behind the sinks, the disk and the API server answer, fail or are slow
  in any order; they do nothing else.

## 8. Not modelled

* `pkg/exporter/sync_registry.go`: used by tests only, and without a state a step could
  leave half-way.
* What YAML the parser accepts and how the environment is expanded in it
  (`os.ExpandEnv` also empties a `$x` that a template meant for itself), pprof, the
  metrics server, the build information: I/O and libraries without state of interest.
* The text of templates, of the JSON of an event and of BigQuery's rows: formatting. Two
  label keys that become one when dots are replaced are not distinguished.
* Idle connections (closed by Webhook and Loki only), file rotation, and what a pipe's
  file held before the start truncated it (`pkg/sinks/pipe.go:31`).
* Requests of the elector that take longer than a tick, and clocks that drift apart.
* An age limit so large that its nanoseconds overflow (`pkg/kube/watcher.go:56`).
* The placeholder sinks (`cloudwatch`, `logstash`, `redis`, `splunk`, `email`, `sms`):
  files without code.
