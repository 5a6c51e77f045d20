--------------------------- MODULE ChannelRegistry ---------------------------
(****************************************************************************)
(* ChannelBasedReceiverRegistry of pkg/exporter/channel_registry.go.        *)
(*                                                                          *)
(* Register starts one goroutine per receiver, which selects over the       *)
(* receiver's event channel and exit channel.  SendEvent spawns a goroutine *)
(* that blocks on the event channel.  Close sends on every exit channel,    *)
(* one after the other, and waits for the goroutines.  All channels are     *)
(* unbuffered, so a receive step is also the step that releases the sender. *)
(*                                                                          *)
(* The callers are those of the program: NewEngine registers the receivers  *)
(* of the configuration before the watcher sends the first event            *)
(* (engine.go:16-31), and main stops the watcher before it closes the       *)
(* registry (main.go:213-215), so SendEvent and Close do not overlap; the   *)
(* goroutines SendEvent has left blocked overlap with everything.           *)
(****************************************************************************)
EXTENDS Integers, FiniteSets

CONSTANTS
    NumReceivers,   \* how many receivers the configuration lists
    Name,           \* receiver names, those no receiver has included
    NameOf,         \* the name of each receiver, in the order of the list
    Job,            \* bound: the calls of SendEvent
    NoJob,
    NoName

Sink == 1 .. NumReceivers
NoSink == 0

ASSUME NumReceiversAssumption == NumReceivers \in Nat
ASSUME NameOfAssumption == NameOf \in [Sink -> Name]
ASSUME JobAssumption == IsFiniteSet(Job)
ASSUME NoneAssumption == NoJob \notin Job /\ NoName \notin Name

VARIABLES
    registered,     \* how many receivers NewEngine has registered
    ch,             \* r.ch: the receiver whose event channel a name leads to
    exitCh,         \* r.exitCh: the same for the exit channels
    wg,             \* the counter of r.wg
    job,            \* the goroutine of each SendEvent, then what became of the event
    dest,           \* the channel each of these goroutines captured
    sinkPc,         \* where each receiver's goroutine is
    holding,        \* the event a receiver's goroutine is sending
    sendErrors,     \* the SendErrors metric
    closer,         \* where the caller of Close is
    toSignal,       \* the names its range over r.exitCh has still to visit
    signalling      \* the name whose exit channel it is blocked on

callerVars == <<closer, toSignal, signalling>>
eventVars == <<job, dest>>
sinkVars == <<sinkPc, holding, wg, sendErrors>>
mapVars == <<registered, ch, exitCh>>
vars == <<registered, ch, exitCh, wg, job, dest, sinkPc, holding, sendErrors,
          closer, toSignal, signalling>>

TypeOK ==
    /\ registered \in 0 .. NumReceivers
    /\ ch \in [Name -> Sink \cup {NoSink}]
    /\ exitCh \in [Name -> Sink \cup {NoSink}]
    /\ wg \in 0 .. NumReceivers
    /\ job \in [Job -> {"none", "blocked", "taken", "delivered", "failed"}]
    /\ dest \in [Job -> Sink \cup {NoSink}]
    /\ sinkPc \in [Sink -> {"none", "select", "send", "exit", "stuck", "closed"}]
    /\ holding \in [Sink -> Job \cup {NoJob}]
    /\ sendErrors \in Nat
    /\ closer \in {"idle", "signal", "wait", "returned", "panicked"}
    /\ toSignal \in SUBSET Name
    /\ signalling \in Name \cup {NoName}

Init ==
    /\ registered = 0
    /\ ch = [n \in Name |-> NoSink]
    /\ exitCh = [n \in Name |-> NoSink]
    /\ wg = 0
    /\ job = [j \in Job |-> "none"]
    /\ dest = [j \in Job |-> NoSink]
    /\ sinkPc = [s \in Sink |-> "none"]
    /\ holding = [s \in Sink |-> NoJob]
    /\ sendErrors = 0
    /\ closer = "idle"
    /\ toSignal = {}
    /\ signalling = NoName

-----------------------------------------------------------------------------
(* The callers *)

\* Register: a later receiver of the same name takes the map entries over.
Register ==
    /\ registered < NumReceivers
    /\ registered' = registered + 1
    /\ ch' = [ch EXCEPT ![NameOf[registered + 1]] = registered + 1]
    /\ exitCh' = [exitCh EXCEPT ![NameOf[registered + 1]] = registered + 1]
    /\ wg' = wg + 1
    /\ sinkPc' = [sinkPc EXCEPT ![registered + 1] = "select"]
    /\ UNCHANGED <<eventVars, holding, sendErrors, callerVars>>

\* SendEvent: the goroutine captures the channel.  For a name without one it
\* blocks on a nil channel, for ever.
SendEvent(j, n) ==
    /\ registered = NumReceivers
    /\ closer = "idle"
    /\ job[j] = "none"
    /\ job' = [job EXCEPT ![j] = "blocked"]
    /\ dest' = [dest EXCEPT ![j] = ch[n]]
    /\ UNCHANGED <<mapVars, sinkVars, callerVars>>

\* Close: the range over r.exitCh visits the names in any order.
Close ==
    /\ registered = NumReceivers
    /\ closer = "idle"
    /\ closer' = "signal"
    /\ toSignal' = {n \in Name : exitCh[n] # NoSink}
    /\ UNCHANGED <<signalling, mapVars, eventVars, sinkVars>>

\* ec <- 1 blocks until the receiver's goroutine takes it.
SignalExit(n) ==
    /\ closer = "signal"
    /\ signalling = NoName
    /\ n \in toSignal
    /\ signalling' = n
    /\ toSignal' = toSignal \ {n}
    /\ UNCHANGED <<closer, mapVars, eventVars, sinkVars>>

\* The loop is over: r.wg.Wait(), on a nil r.wg if nothing was registered.
AwaitSinks ==
    /\ closer = "signal"
    /\ signalling = NoName
    /\ toSignal = {}
    /\ closer' = IF registered = 0 THEN "panicked" ELSE "wait"
    /\ UNCHANGED <<toSignal, signalling, mapVars, eventVars, sinkVars>>

CloseReturns ==
    /\ closer = "wait"
    /\ wg = 0
    /\ closer' = "returned"
    /\ UNCHANGED <<toSignal, signalling, mapVars, eventVars, sinkVars>>

-----------------------------------------------------------------------------
(* The goroutine of a receiver *)

\* Fault: every event gets a goroutine that calls receiver.Send.
ReceiveConcurrently(s, j) ==
    /\ sinkPc[s] \in {"select", "send"}
    /\ job[j] = "blocked"
    /\ dest[j] = s
    /\ job' = [job EXCEPT ![j] = "taken"]
    /\ sinkPc' = [sinkPc EXCEPT ![s] = "send"]
    /\ holding' = [holding EXCEPT ![s] = j]
    /\ UNCHANGED <<mapVars, dest, wg, sendErrors, callerVars>>

\* Fault: the receivers share one lock around receiver.Send.
ReceiveLocked(s, j) ==
    /\ sinkPc[s] = "select"
    /\ \A t \in Sink : holding[t] = NoJob
    /\ job[j] = "blocked"
    /\ dest[j] = s
    /\ job' = [job EXCEPT ![j] = "taken"]
    /\ sinkPc' = [sinkPc EXCEPT ![s] = "send"]
    /\ holding' = [holding EXCEPT ![s] = j]
    /\ UNCHANGED <<mapVars, dest, wg, sendErrors, callerVars>>

\* case ev := <-ch
Receive(s, j) ==
    /\ sinkPc[s] = "select"
    /\ job[j] = "blocked"
    /\ dest[j] = s
    /\ job' = [job EXCEPT ![j] = "taken"]
    /\ sinkPc' = [sinkPc EXCEPT ![s] = "send"]
    /\ holding' = [holding EXCEPT ![s] = j]
    /\ UNCHANGED <<mapVars, dest, wg, sendErrors, callerVars>>

\* receiver.Send returns; an error is counted and the event is gone.
SendReturns(s, result) ==
    /\ sinkPc[s] = "send"
    /\ job' = [job EXCEPT ![holding[s]] = result]
    /\ sendErrors' = sendErrors + IF result = "failed" THEN 1 ELSE 0
    /\ sinkPc' = [sinkPc EXCEPT ![s] = "select"]
    /\ holding' = [holding EXCEPT ![s] = NoJob]
    /\ UNCHANGED <<mapVars, dest, wg, callerVars>>

\* A sink may never come back from Send or Close: nothing sets a deadline, the
\* context is context.Background().
Hang(s) ==
    /\ sinkPc[s] \in {"send", "exit"}
    /\ sinkPc' = [sinkPc EXCEPT ![s] = "stuck"]
    /\ UNCHANGED <<mapVars, eventVars, holding, wg, sendErrors, callerVars>>

\* Fault: the exit signal is taken in the middle of a Send.
TakeExitAnyTime(s) ==
    /\ sinkPc[s] \in {"select", "send"}
    /\ signalling # NoName
    /\ exitCh[signalling] = s
    /\ sinkPc' = [sinkPc EXCEPT ![s] = "exit"]
    /\ signalling' = NoName
    /\ UNCHANGED <<closer, toSignal, mapVars, eventVars, holding, wg, sendErrors>>

\* case <-exitCh
TakeExit(s) ==
    /\ sinkPc[s] = "select"
    /\ signalling # NoName
    /\ exitCh[signalling] = s
    /\ sinkPc' = [sinkPc EXCEPT ![s] = "exit"]
    /\ signalling' = NoName
    /\ UNCHANGED <<closer, toSignal, mapVars, eventVars, holding, wg, sendErrors>>

\* Fault: the goroutine counts itself done twice.
SinkClosesTwice(s) ==
    /\ sinkPc[s] = "exit"
    /\ sinkPc' = [sinkPc EXCEPT ![s] = "closed"]
    /\ wg' = wg - 2
    /\ UNCHANGED <<mapVars, eventVars, holding, sendErrors, callerVars>>

\* Fault: the goroutine does not count itself done.
SinkClosesUncounted(s) ==
    /\ sinkPc[s] = "exit"
    /\ sinkPc' = [sinkPc EXCEPT ![s] = "closed"]
    /\ UNCHANGED <<mapVars, eventVars, holding, wg, sendErrors, callerVars>>

\* receiver.Close() returns and the goroutine ends, which is wg.Done.
SinkCloses(s) ==
    /\ sinkPc[s] = "exit"
    /\ sinkPc' = [sinkPc EXCEPT ![s] = "closed"]
    /\ wg' = wg - 1
    /\ UNCHANGED <<mapVars, eventVars, holding, sendErrors, callerVars>>

-----------------------------------------------------------------------------
\* Close has returned or crashed, or waits for a sink that never comes back.
Ended ==
    /\ closer \in {"returned", "panicked"} \/ \E s \in Sink : sinkPc[s] = "stuck"
    /\ closer # "idle"
    /\ UNCHANGED vars

Next ==
    \/ Register
    \/ \E j \in Job, n \in Name : SendEvent(j, n)
    \/ Close
    \/ \E n \in Name : SignalExit(n)
    \/ AwaitSinks
    \/ CloseReturns
    \/ \E s \in Sink, j \in Job : Receive(s, j)
    \/ \E s \in Sink, result \in {"delivered", "failed"} : SendReturns(s, result)
    \/ \E s \in Sink : Hang(s)
    \/ \E s \in Sink : TakeExit(s)
    \/ \E s \in Sink : SinkCloses(s)
    \/ Ended

Spec == Init /\ [][Next]_vars

\* The callers owe nothing before Close is called.  Blocked senders of one
\* channel are served in the order they queued up and a select picks evenly
\* among its ready cases, hence SF on both receives.  A Send or Close returns
\* unless it hangs.
Fairness ==
    /\ \A n \in Name : WF_vars(SignalExit(n))
    /\ WF_vars(AwaitSinks)
    /\ WF_vars(CloseReturns)
    /\ \A s \in Sink :
         /\ \A j \in Job : SF_vars(Receive(s, j))
         /\ SF_vars(TakeExit(s))
         /\ WF_vars(\E result \in {"delivered", "failed"} : SendReturns(s, result))
         /\ WF_vars(SinkCloses(s))

FairSpec == Spec /\ Fairness

-----------------------------------------------------------------------------
(* Safety *)

\* A receiver works on at most one event, the sender of that event is
\* released, and no event is at two receivers (channel_registry.go:56-58).
OneEventPerSink ==
    /\ \A s \in Sink :
         /\ sinkPc[s] = "send" => holding[s] # NoJob
         /\ holding[s] # NoJob => sinkPc[s] \in {"send", "stuck"}
    /\ \A j \in Job : job[j] = "taken" <=> \E s \in Sink : holding[s] = j
    /\ \A s \in Sink : holding[s] # NoJob => dest[holding[s]] = s

\* Close comes back only when every registered sink is closed, also when two
\* receivers share a name: the wait group counts them (channel_registry.go:52, 80).
CloseWaitsForAll ==
    closer = "returned" => \A s \in Sink : sinkPc[s] = "closed"

\* The goroutine Close is blocked on has not left its loop, so the send on the
\* exit channel can still be received (channel_registry.go:77-79).
ExitCanBeTaken ==
    signalling # NoName =>
        /\ exitCh[signalling] # NoSink
        /\ sinkPc[exitCh[signalling]] \in {"select", "send", "stuck"}

\* The metric is the number of Sends that failed (channel_registry.go:58-60).
ErrorsCounted == sendErrors = Cardinality({j \in Job : job[j] = "failed"})

\* "Close signals closing to all sinks and waits for them to complete"
\* (channel_registry.go:73): once it waits, every sink got its signal.  With two
\* receivers of one name this is not so.
AllSinksSignalled ==
    closer \in {"wait", "returned"} =>
        \A s \in Sink : sinkPc[s] \in {"exit", "stuck", "closed"}

\* Close does not crash on a nil wait group (channel_registry.go:80).  Without
\* receivers it does: no Register has made r.wg.
CloseDoesNotPanic == closer # "panicked"

-----------------------------------------------------------------------------
(* Liveness *)

\* An event sent to a sink is served, unless that sink hangs or is told to
\* exit first: other receivers, however slow or stuck, do not hold it up
\* (channel_registry.go:31-33, one goroutine per event).
EventServed ==
    \A j \in Job, s \in Sink :
        job[j] = "blocked" /\ dest[j] = s
            ~> \/ job[j] \in {"delivered", "failed"}
               \/ sinkPc[s] \in {"stuck", "exit", "closed"}

\* Close completes unless a sink hangs, as its comment says: "The wait could
\* block indefinitely depending on the sink implementations"
\* (channel_registry.go:73-81).
CloseCompletes ==
    closer = "signal" ~> closer = "returned" \/ \E s \in Sink : sinkPc[s] = "stuck"

-----------------------------------------------------------------------------
(* The contract of the interface *)

StatusOf(j) ==
    CASE job[j] = "none" -> "new"
      [] job[j] = "blocked" -> "pending"
      [] job[j] = "taken" -> "serving"
      [] OTHER -> job[j]

SinkStateOf(s) ==
    CASE sinkPc[s] = "none" -> "new"
      [] sinkPc[s] = "closed" -> "closed"
      [] OTHER -> "open"

Contract == INSTANCE ReceiverRegistry
    WITH status <- [j \in Job |-> StatusOf(j)],
         receiver <- dest,
         sink <- [s \in Sink |-> SinkStateOf(s)],
         over <- closer = "returned"

\* Every step of the registry is a step of the contract or leaves it alone.
ImplementsContract == Contract!RegistrySpec

=============================================================================
