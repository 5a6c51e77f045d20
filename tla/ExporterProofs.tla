---------------------------- MODULE ExporterProofs ----------------------------
(****************************************************************************)
(* Theorems about Exporter, for every set of events and of receivers.       *)
(****************************************************************************)
EXTENDS Exporter, TLAPS

\* The wait group counts the informer goroutine, which starts at most once:
\* by main itself or by the leader callback, after it has set wasLeader.
StartInv ==
    /\ wg = IF informer = "running" THEN 1 ELSE 0
    /\ callback = "none" <=> elector # "leading"
    /\ main \in {"register", "options"} => informer = "none" /\ elector = "none"
    /\ main \in {"elect", "ran", "sleep"} => leaderMode
    /\ ~leaderMode => elector = "none"
    /\ leaderMode /\ callback # "returned" => informer = "none"
    /\ callback \in {"marked", "returned"} => wasLeader

\* Once main has waited, an informer can only be one that started late: it
\* found the channel closed and has seen nothing.
StopInv ==
    /\ main \in {"await", "close", "exited"} /\ elector = "leading" => stopper
    /\ main \in {"close", "exited"} /\ informer = "running" =>
           /\ stopper
           /\ \A e \in Event : event[e] = "unseen"
    /\ main \in {"register", "options"} => ~stopper

\* Where events are, and what has been sent of those handled.
EventInv ==
    /\ informer = "none" => \A e \in Event : event[e] = "unseen"
    /\ \A e \in Event : event[e] = "handling" => informer = "running"
    /\ \A e \in Event : event[e] = "handled" =>
           \A s \in targets[e] : status[<<e, s>>] # "new"

IInv == TypeOK /\ StartInv /\ StopInv /\ EventInv

\* The process main starts as satisfies the invariant.
LEMMA InitIInv == Init => IInv
  <1> SUFFICES ASSUME Init PROVE IInv
    OBVIOUS
  <1>1. TypeOK
    <2>1. /\ status \in [Job -> {"new", "pending", "serving", "delivered", "failed"}]
          /\ receiver \in [Job -> Sink \cup {NoSink}]
          /\ sink \in [Sink -> {"new", "open", "closed"}]
          /\ over \in BOOLEAN
      BY DEF Init, Registry!RegistryInit
    <2>2. /\ event \in [Event -> {"unseen", "queued", "handling", "handled"}]
          /\ targets \in [Event -> SUBSET Sink]
      BY DEF Init
    <2>3. /\ leaderMode \in BOOLEAN
          /\ signalled \in BOOLEAN
          /\ wasLeader \in BOOLEAN
          /\ stopper \in BOOLEAN
      BY Zenon DEF Init
    <2>4. main = "register" /\ elector = "none" /\ callback = "none"
          /\ wg = 0 /\ informer = "none"
      BY Zenon DEF Init
    <2>5. QED
      BY <2>1, <2>2, <2>3, <2>4 DEF TypeOK
  <1>2. StartInv /\ StopInv /\ EventInv
    BY DEF Init, StartInv, StopInv, EventInv
  <1>3. QED
    BY <1>1, <1>2 DEF IInv

\* The steps of main leave the events alone.
LEMMA MainIInv == IInv /\ MainStep => IInv'
  <1> SUFFICES ASSUME IInv, MainStep PROVE IInv'
    OBVIOUS
  <1> USE DEF IInv, TypeOK, StartInv, StopInv, EventInv, Goto, mainVars,
              leaderVars, watcherVars, registryVars, Job
  <1>1. CASE RegisterSink
    BY <1>1 DEF RegisterSink, Registry!Open
  <1>2. CASE EngineMade \/ Fatal \/ WatcherFails
    BY <1>2 DEF EngineMade, Fatal, WatcherFails
  <1>3. CASE WatcherMade
    BY <1>3 DEF WatcherMade, StartInformer
  <1>4. CASE ElectorFails
    BY <1>4 DEF ElectorFails
  <1>5. CASE ElectorRuns
    BY <1>5 DEF ElectorRuns
  <1>6. CASE AskLeader \/ SleepOver \/ ServeOver
    BY <1>6 DEF AskLeader, SleepOver, ServeOver
  <1>7. CASE StopInformer
    BY <1>7 DEF StopInformer
  <1>8. CASE AwaitInformer
    BY <1>8 DEF AwaitInformer
  <1>9. CASE Exit
    BY <1>9 DEF Exit, Registry!End
  <1>10. QED
    BY <1>1, <1>2, <1>3, <1>4, <1>5, <1>6, <1>7, <1>8, <1>9 DEF MainStep

\* The elector and the leader callback, which may start the informer late.
LEMMA LeaderIInv == IInv /\ (Signal \/ Acquire \/ RunReturns \/ LeadingStep) => IInv'
  <1> SUFFICES ASSUME IInv, Signal \/ Acquire \/ RunReturns \/ LeadingStep
               PROVE  IInv'
    OBVIOUS
  <1> USE DEF IInv, TypeOK, StartInv, StopInv, EventInv, Goto, mainVars,
              leaderVars, watcherVars, registryVars, Job, Alive
  <1>1. CASE Signal
    BY <1>1 DEF Signal
  <1>2. CASE Acquire
    BY <1>2 DEF Acquire
  <1>3. CASE RunReturns
    BY <1>3 DEF RunReturns
  <1>4. CASE MarkLeader
    BY <1>4 DEF MarkLeader
  <1>5. CASE StartLeading
    BY <1>5 DEF StartLeading, StartInformer
  <1>6. QED
    BY <1>1, <1>2, <1>3, <1>4, <1>5 DEF LeadingStep

\* The informer goroutine: it works only while main has not stopped waiting.
LEMMA InformerIInv ==
    IInv /\ ((\E e \in Event : Watch(e)) \/ InformerStep) => IInv'
  <1> SUFFICES ASSUME IInv, (\E e \in Event : Watch(e)) \/ InformerStep
               PROVE  IInv'
    OBVIOUS
  <1> USE DEF IInv, TypeOK, StartInv, StopInv, EventInv, mainVars, leaderVars,
              watcherVars, registryVars, Alive, Idle
  <1>1. CASE \E e \in Event : Watch(e)
    BY <1>1 DEF Watch
  <1>2. ASSUME NEW e \in Event, NEW S \in SUBSET Sink, Notify(e, S)
        PROVE  IInv'
    BY <1>2 DEF Notify
  <1>3. ASSUME NEW e \in Event, NEW s \in Sink, SendNext(e, s)
        PROVE  IInv'
    BY <1>3 DEF SendNext, Registry!Dispatch, Job
  <1>4. ASSUME NEW e \in Event, NotifyReturns(e)
        PROVE  IInv'
    BY <1>4 DEF NotifyReturns
  <1>5. CASE InformerEnds
    BY <1>5 DEF InformerEnds
  <1>6. QED
    BY <1>1, <1>2, <1>3, <1>4, <1>5 DEF InformerStep

\* The goroutines of the registry move jobs that have been sent.
LEMMA RegistryIInv ==
    IInv /\ ((\E j \in Job : Serve(j) \/ Finish(j)) \/ \E s \in Sink : CloseSink(s))
        => IInv'
  <1> SUFFICES ASSUME IInv,
                      (\E j \in Job : Serve(j) \/ Finish(j))
                        \/ \E s \in Sink : CloseSink(s)
               PROVE  IInv'
    OBVIOUS
  <1> USE DEF IInv, TypeOK, StartInv, StopInv, EventInv, mainVars, leaderVars,
              watcherVars
  <1>1. ASSUME NEW j \in Job, Serve(j)
        PROVE  IInv'
    BY <1>1 DEF Serve, Registry!Serve, Job
  <1>2. ASSUME NEW j \in Job, Finish(j)
        PROVE  IInv'
    BY <1>2 DEF Finish, Registry!Finish, Job
  <1>3. CASE \E s \in Sink : CloseSink(s)
    BY <1>3 DEF CloseSink, Registry!Shut
  <1>4. QED
    BY <1>1, <1>2, <1>3

\* Every step keeps the invariant.
LEMMA StepIInv == IInv /\ [Next]_vars => IInv'
  <1> SUFFICES ASSUME IInv, [Next]_vars PROVE IInv'
    OBVIOUS
  <1>1. CASE UNCHANGED vars
    BY <1>1 DEF vars, mainVars, leaderVars, watcherVars, registryVars, IInv,
                TypeOK, StartInv, StopInv, EventInv
  <1>2. CASE Next
    BY <1>2, MainIInv, LeaderIInv, InformerIInv, RegistryIInv DEF Next
  <1>3. QED
    BY <1>1, <1>2

\* The invariant holds throughout every run of the process.
THEOREM Invariance == Spec => []IInv
  <1>1. Init => IInv
    BY InitIInv
  <1>2. IInv /\ [Next]_vars => IInv'
    BY StepIInv
  <1>3. QED
    BY <1>1, <1>2, PTL DEF Spec

\* The type invariant: in particular the wait group of the watcher is never
\* negative (watcher.go:167-176).
THEOREM TypeCorrect == Spec => []TypeOK
  BY Invariance, PTL DEF IInv

\* When main returns, no callback has been cut short (watcher.go:173-176).
THEOREM NoneCutShort == Spec => []HandledReachAll
  <1>1. IInv => HandledReachAll
    BY DEF IInv, TypeOK, EventInv, StopInv, HandledReachAll
  <1>2. QED
    BY <1>1, Invariance, PTL

\* SendEvent and Close of the registry never overlap, however late the leader
\* callback starts the watcher (main.go:173-177, 213-215).
THEOREM NoLateSend == Spec => SendsEndBeforeClose
  <1>1. ASSUME IInv, Next, NEW j \in Job, status[j] = "new", status'[j] # "new"
        PROVE  main \notin {"close", "exited"}
    <2>1. PICK e \in Event, s \in Sink : SendNext(e, s)
      BY <1>1 DEF Next, MainStep, RegisterSink, EngineMade, Fatal, WatcherFails,
           WatcherMade, ElectorFails, ElectorRuns, AskLeader, SleepOver, ServeOver,
           StopInformer, AwaitInformer, Exit, Signal, Acquire, RunReturns,
           LeadingStep, MarkLeader, StartLeading, Watch, InformerStep, Notify,
           NotifyReturns, InformerEnds, Serve, Finish, CloseSink, Registry!Open,
           Registry!End, Registry!Serve, Registry!Finish, Registry!Shut,
           mainVars, leaderVars, watcherVars, registryVars, IInv, TypeOK
    <2>2. event[e] = "handling"
      BY <2>1 DEF SendNext
    <2>3. QED
      BY <1>1, <2>2 DEF IInv, EventInv, StopInv
  <1>2. IInv /\ [Next]_vars =>
          [\A j \in Job : status[j] = "new" /\ status'[j] # "new" =>
              main \notin {"close", "exited"}]_vars
    BY <1>1
  <1>3. QED
    BY <1>2, Invariance, PTL DEF Spec, SendsEndBeforeClose

\* A leader with a running watcher sleeps before it stops it (main.go:198-206).
THEOREM LeaderSleeps == Spec => RunningLeaderWaits
  <1>1. IInv /\ [Next]_vars =>
          [main = "ran" /\ informer = "running" => main' # "stop"]_vars
    <2> SUFFICES ASSUME IInv, Next, main = "ran", informer = "running"
                 PROVE  main' # "stop"
      OBVIOUS
    <2>1. wasLeader
      BY DEF IInv, TypeOK, StartInv
    <2>2. QED
      BY <2>1 DEF Next, MainStep, RegisterSink, EngineMade, Fatal, WatcherFails,
           WatcherMade, ElectorFails, ElectorRuns, AskLeader, SleepOver, ServeOver,
           StopInformer, AwaitInformer, Exit, Signal, Acquire, RunReturns,
           LeadingStep, MarkLeader, StartLeading, Watch, InformerStep, Notify,
           SendNext, NotifyReturns, InformerEnds, Serve, Finish, CloseSink, Goto,
           mainVars
  <1>2. QED
    BY <1>1, Invariance, PTL DEF Spec, RunningLeaderWaits

=============================================================================
