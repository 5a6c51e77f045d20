------------------------------- MODULE Exporter -------------------------------
(****************************************************************************)
(* The life of one exporter process: main.go from NewEngine to its return,  *)
(* with Start and Stop of pkg/kube/watcher.go, and the two parts it runs.   *)
(*                                                                          *)
(* The goroutines are main itself, the OnStartedLeading callback that the   *)
(* leader elector spawns, the informer of the watcher, and those of the     *)
(* registry.  The registry is the contract ReceiverRegistry, which          *)
(* ChannelRegistry implements; the leader elector and the informer are      *)
(* client-go's and modelled from how main.go and watcher.go use them:       *)
(*   - Run of the elector spawns OnStartedLeading once the lease is         *)
(*     acquired and comes back when the context is cancelled or the lease   *)
(*     is lost, without waiting for that goroutine;                         *)
(*   - Run of the informer calls OnAdd and OnUpdate one after the other,    *)
(*     and once the stop channel is closed it comes back when the call in   *)
(*     progress has; notifications still queued may be dropped.             *)
(* Which sinks an event goes to is Routing's business: any subset here, the *)
(* empty one for an event that is discarded as too old or dropped.          *)
(****************************************************************************)
EXTENDS Naturals

CONSTANTS
    Event,          \* bound: the notifications the informer may see
    Sink,           \* the receivers of the configuration
    NoSink

VARIABLES
    leaderMode,     \* cfg.LeaderElection.Enabled
    main,           \* where main is
    signalled,      \* is ctx cancelled
    elector,        \* the leader elector: "none", "acquiring", "leading"
    callback,       \* the OnStartedLeading goroutine
    wasLeader,
    stopper,        \* is e.stopper closed
    wg,             \* the counter of e.wg
    informer,       \* the goroutine of e.informer.Run
    event,          \* how far each notification has come
    targets,        \* the sinks the route of each handled event leads to
    status, receiver, sink, over    \* the registry, see ReceiverRegistry

mainVars == <<leaderMode, main, signalled>>
leaderVars == <<elector, callback, wasLeader>>
watcherVars == <<stopper, wg, informer, event, targets>>
registryVars == <<status, receiver, sink, over>>
vars == <<mainVars, leaderVars, watcherVars, registryVars>>

\* The goroutine that sends event j[1] to sink j[2].
Job == Event \X Sink

Registry == INSTANCE ReceiverRegistry

TypeOK ==
    /\ leaderMode \in BOOLEAN
    /\ main \in {"register", "options", "elect", "serve", "ran", "sleep",
                 "stop", "await", "close", "exited", "fatal"}
    /\ signalled \in BOOLEAN
    /\ elector \in {"none", "acquiring", "leading"}
    /\ callback \in {"none", "spawned", "marked", "returned"}
    /\ wasLeader \in BOOLEAN
    /\ stopper \in BOOLEAN
    /\ wg \in 0 .. 1
    /\ informer \in {"none", "running", "ended"}
    /\ event \in [Event -> {"unseen", "queued", "handling", "handled"}]
    /\ targets \in [Event -> SUBSET Sink]
    /\ status \in [Job -> {"new", "pending", "serving", "delivered", "failed"}]
    /\ receiver \in [Job -> Sink \cup {NoSink}]
    /\ sink \in [Sink -> {"new", "open", "closed"}]
    /\ over \in BOOLEAN

Init ==
    /\ leaderMode \in BOOLEAN
    /\ main = "register"
    /\ signalled = FALSE
    /\ elector = "none"
    /\ callback = "none"
    /\ wasLeader = FALSE
    /\ stopper = FALSE
    /\ wg = 0
    /\ informer = "none"
    /\ event = [e \in Event |-> "unseen"]
    /\ targets = [e \in Event |-> {}]
    /\ Registry!RegistryInit

Goto(from, to) == main = from /\ main' = to

\* The process runs: every goroutine ends with main.
Alive == main \notin {"exited", "fatal"}

-----------------------------------------------------------------------------
(* Start: main.go:121-156.                                                  *)

\* One turn of the loop of NewEngine.
RegisterSink ==
    /\ main = "register"
    /\ \E s \in Sink : Registry!Open(s)
    /\ UNCHANGED <<mainVars, leaderVars, watcherVars>>

EngineMade ==
    /\ Goto("register", "options")
    /\ \A s \in Sink : sink[s] # "new"
    /\ UNCHANGED <<leaderMode, signalled, leaderVars, watcherVars, registryVars>>

\* log.Fatal, for a sink that cannot be made or an option out of range: the
\* process ends on the spot, with the sinks made so far still open.
Fatal ==
    /\ \/ main = "register" /\ \E s \in Sink : sink[s] = "new"
       \/ main = "options"
    /\ main' = "fatal"
    /\ UNCHANGED <<leaderMode, signalled, leaderVars, watcherVars, registryVars>>

\* NewEventWatcher returned an error: engine.Stop and os.Exit.
WatcherFails ==
    /\ Goto("options", "close")
    /\ UNCHANGED <<leaderMode, signalled, leaderVars, watcherVars, registryVars>>

\* Fault: the goroutine is not counted by the wait group.
StartInformerUncounted ==
    /\ wg' = wg
    /\ informer' = "running"
    /\ UNCHANGED <<stopper, event, targets>>

\* eventWatcher.Start.  With the stop channel closed already, informer.Run
\* comes back without having listed anything.
StartInformer ==
    /\ wg' = wg + 1
    /\ informer' = "running"
    /\ UNCHANGED <<stopper, event, targets>>

WatcherMade ==
    /\ \/ /\ leaderMode
          /\ Goto("options", "elect")
          /\ UNCHANGED watcherVars
       \/ /\ ~leaderMode
          /\ Goto("options", "serve")
          /\ StartInformer
    /\ UNCHANGED <<leaderMode, signalled, leaderVars, registryVars>>

\* SIGINT or SIGTERM once signal.NotifyContext listens.
Signal ==
    /\ main \in {"elect", "serve", "ran", "sleep"}
    /\ ~signalled
    /\ signalled' = TRUE
    /\ UNCHANGED <<leaderMode, main, leaderVars, watcherVars, registryVars>>

-----------------------------------------------------------------------------
(* Leader election: main.go:158-206.                                        *)

ElectorFails ==
    /\ elector = "none"
    /\ Goto("elect", "stop")
    /\ signalled' = TRUE
    /\ UNCHANGED <<leaderMode, leaderVars, watcherVars, registryVars>>

ElectorRuns ==
    /\ main = "elect"
    /\ elector = "none"
    /\ elector' = "acquiring"
    /\ UNCHANGED <<mainVars, callback, wasLeader, watcherVars, registryVars>>

Acquire ==
    /\ main = "elect"
    /\ elector = "acquiring"
    /\ ~signalled
    /\ elector' = "leading"
    /\ callback' = "spawned"
    /\ UNCHANGED <<mainVars, wasLeader, watcherVars, registryVars>>

\* The elector comes back from Run: cancelled, or the lease is lost.
RunReturns ==
    /\ \/ elector = "acquiring" /\ signalled
       \/ elector = "leading"
    /\ Goto("elect", "ran")
    /\ UNCHANGED <<leaderMode, signalled, leaderVars, watcherVars, registryVars>>

\* Fault: the callback sets a variable of its own.
MarkLeaderShadowed ==
    /\ Alive
    /\ callback = "spawned"
    /\ callback' = "marked"
    /\ UNCHANGED <<mainVars, elector, wasLeader, watcherVars, registryVars>>

\* The first statement of OnStartedLeading, in a goroutine main does not
\* wait for: main may read wasLeader before or after it.
MarkLeader ==
    /\ Alive
    /\ callback = "spawned"
    /\ callback' = "marked"
    /\ wasLeader' = TRUE
    /\ UNCHANGED <<mainVars, elector, watcherVars, registryVars>>

StartLeading ==
    /\ Alive
    /\ callback = "marked"
    /\ callback' = "returned"
    /\ StartInformer
    /\ UNCHANGED <<mainVars, elector, wasLeader, registryVars>>

AskLeader ==
    /\ Goto("ran", IF wasLeader THEN "sleep" ELSE "stop")
    /\ UNCHANGED <<leaderMode, signalled, leaderVars, watcherVars, registryVars>>

\* The leader has slept for the duration of a lease.
SleepOver ==
    /\ Goto("sleep", "stop")
    /\ UNCHANGED <<leaderMode, signalled, leaderVars, watcherVars, registryVars>>

-----------------------------------------------------------------------------
(* Shutdown: main.go:208-215.                                               *)

ServeOver ==
    /\ Goto("serve", "stop")
    /\ signalled
    /\ UNCHANGED <<leaderMode, signalled, leaderVars, watcherVars, registryVars>>

\* Fault: the channel stays open.
StopInformerOpen ==
    /\ Goto("stop", "await")
    /\ UNCHANGED <<leaderMode, signalled, leaderVars, watcherVars, registryVars>>

\* Fault: the channel is closed and nobody waits.
StopInformerAsync ==
    /\ Goto("stop", "close")
    /\ stopper' = TRUE
    /\ UNCHANGED <<leaderMode, signalled, leaderVars, wg, informer, event,
                   targets, registryVars>>

\* eventWatcher.Stop closes the channel ...
StopInformer ==
    /\ Goto("stop", "await")
    /\ stopper' = TRUE
    /\ UNCHANGED <<leaderMode, signalled, leaderVars, wg, informer, event,
                   targets, registryVars>>

\* Fault: the wait is left out.
AwaitInformerNot ==
    /\ Goto("await", "close")
    /\ UNCHANGED <<leaderMode, signalled, leaderVars, watcherVars, registryVars>>

\* ... and waits for the informer goroutine, if there is one.
AwaitInformer ==
    /\ Goto("await", "close")
    /\ wg = 0
    /\ UNCHANGED <<leaderMode, signalled, leaderVars, watcherVars, registryVars>>

\* Engine.Stop: the registry closes its sinks and comes back.
CloseSink(s) ==
    /\ main = "close"
    /\ Registry!Shut(s)
    /\ UNCHANGED <<mainVars, leaderVars, watcherVars>>

Exit ==
    /\ Goto("close", "exited")
    /\ Registry!End
    /\ UNCHANGED <<leaderMode, signalled, leaderVars, watcherVars>>

-----------------------------------------------------------------------------
(* The informer goroutine and those of the registry.                        *)

Idle == \A e \in Event : event[e] # "handling"

\* The reflector lists or watches an event; it ends with the stop channel.
Watch(e) ==
    /\ Alive
    /\ informer = "running"
    /\ ~stopper
    /\ event[e] = "unseen"
    /\ event' = [event EXCEPT ![e] = "queued"]
    /\ UNCHANGED <<mainVars, leaderVars, stopper, wg, informer, targets,
                   registryVars>>

\* OnAdd or OnUpdate is called; the route will lead to the sinks S.
Notify(e, S) ==
    /\ Alive
    /\ informer = "running"
    /\ Idle
    /\ event[e] = "queued"
    /\ event' = [event EXCEPT ![e] = "handling"]
    /\ targets' = [targets EXCEPT ![e] = S]
    /\ UNCHANGED <<mainVars, leaderVars, stopper, wg, informer, registryVars>>

\* Engine.OnEvent sends to one more of them.
SendNext(e, s) ==
    /\ Alive
    /\ event[e] = "handling"
    /\ s \in targets[e]
    /\ Registry!Dispatch(<<e, s>>, s)
    /\ UNCHANGED <<mainVars, leaderVars, watcherVars>>

NotifyReturns(e) ==
    /\ Alive
    /\ event[e] = "handling"
    /\ \A s \in targets[e] : status[<<e, s>>] # "new"
    /\ event' = [event EXCEPT ![e] = "handled"]
    /\ UNCHANGED <<mainVars, leaderVars, stopper, wg, informer, targets,
                   registryVars>>

InformerEnds ==
    /\ Alive
    /\ informer = "running"
    /\ stopper
    /\ Idle
    /\ informer' = "ended"
    /\ wg' = wg - 1
    /\ UNCHANGED <<mainVars, leaderVars, stopper, event, targets, registryVars>>

Serve(j) ==
    /\ Alive
    /\ Registry!Serve(j)
    /\ UNCHANGED <<mainVars, leaderVars, watcherVars>>

Finish(j) ==
    /\ Alive
    /\ \E result \in {"delivered", "failed"} : Registry!Finish(j, result)
    /\ UNCHANGED <<mainVars, leaderVars, watcherVars>>

-----------------------------------------------------------------------------
MainStep ==
    \/ RegisterSink \/ EngineMade \/ Fatal \/ WatcherFails \/ WatcherMade
    \/ ElectorFails \/ ElectorRuns \/ AskLeader \/ SleepOver \/ ServeOver
    \/ StopInformer \/ AwaitInformer \/ Exit

LeadingStep == MarkLeader \/ StartLeading

InformerStep ==
    \/ \E e \in Event : NotifyReturns(e) \/ \E s \in Sink : SendNext(e, s)
    \/ \E e \in Event, S \in SUBSET Sink : Notify(e, S)
    \/ InformerEnds

Next ==
    \/ MainStep
    \/ Signal
    \/ Acquire
    \/ RunReturns
    \/ LeadingStep
    \/ \E e \in Event : Watch(e)
    \/ InformerStep
    \/ \E j \in Job : Serve(j) \/ Finish(j)
    \/ \E s \in Sink : CloseSink(s)

Spec == Init /\ [][Next]_vars

\* The Go scheduler runs every goroutine that can run, the elector notices a
\* cancelled context, a Send comes back, and so does a sink's Close.  Nothing
\* makes a signal arrive, a lease be won or lost, or an event happen.
Fairness ==
    /\ WF_vars(MainStep)
    /\ WF_vars(RunReturns /\ signalled)
    /\ WF_vars(LeadingStep)
    /\ WF_vars(InformerStep)
    /\ \A j \in Job : WF_vars(Serve(j)) /\ WF_vars(Finish(j))
    /\ \A s \in Sink : WF_vars(CloseSink(s))

FairSpec == Spec /\ Fairness

-----------------------------------------------------------------------------
(* Properties.                                                              *)

\* No event is sent to a sink once main has asked the registry to close
\* (main.go:214-215): SendEvent and Close share unguarded maps
\* (channel_registry.go:25-34, 75-81), so they must not overlap, late
\* watcher starts by the leader callback included.
SendsEndBeforeClose ==
    [][\A j \in Job : status[j] = "new" /\ status'[j] # "new" =>
          main \notin {"close", "exited"}]_vars

\* An event whose callback began has been handed to every sink of its route
\* when main returns: Stop of the watcher does not cut a callback short
\* (watcher.go:173-176).
HandledReachAll ==
    main = "exited" =>
        \A e \in Event : event[e] \in {"handling", "handled"} =>
            \A s \in targets[e] : status[<<e, s>>] # "new"

\* A leader whose watcher runs is never stopped without the wait that bridges
\* the gap to the next leader (main.go:198-206).
RunningLeaderWaits ==
    [][main = "ran" /\ informer = "running" => main' # "stop"]_vars

\* A cancelled context ends the process, whatever the elector, the informer
\* and the sinks were doing.
ShutdownCompletes == signalled ~> ~Alive

=============================================================================
