------------------------ MODULE ChannelRegistryProofs ------------------------
(****************************************************************************)
(* Theorems about ChannelRegistry, for any number of receivers and events   *)
(* and any names, shared ones included.                                     *)
(****************************************************************************)
EXTENDS ChannelRegistry, FiniteSetTheorems, TLAPS

USE NumReceiversAssumption, NameOfAssumption, JobAssumption, NoneAssumption

\* Registration comes first: before it is over nothing is sent or closed.
RegistrationInv ==
    /\ \A s \in Sink : sinkPc[s] = "none" <=> s > registered
    /\ closer # "idle" => registered = NumReceivers
    /\ \A n \in Name : exitCh[n] # NoSink => NameOf[exitCh[n]] = n /\ exitCh[n] <= registered

\* Which event a receiver's goroutine has at hand.
ServiceInv ==
    /\ \A s \in Sink :
         /\ sinkPc[s] = "send" => holding[s] # NoJob
         /\ holding[s] # NoJob => /\ sinkPc[s] \in {"send", "stuck"}
                                  /\ job[holding[s]] = "taken"
                                  /\ dest[holding[s]] = s
    /\ \A j \in Job : job[j] = "taken" => dest[j] \in Sink /\ holding[dest[j]] = j
    /\ \A j \in Job : job[j] = "none" => dest[j] = NoSink

\* The goroutines whose name Close has still to signal have not been told.
SignalInv ==
    /\ signalling # NoName => closer = "signal" /\ signalling \notin toSignal
    /\ closer # "signal" => toSignal = {}
    /\ \A n \in Name : n \in toSignal \/ n = signalling =>
         exitCh[n] # NoSink /\ sinkPc[exitCh[n]] \in {"select", "send", "stuck"}

\* The receivers' goroutines that have not ended, and the failed events.
Running == {s \in Sink : sinkPc[s] \notin {"none", "closed"}}
Failed == {j \in Job : job[j] = "failed"}

CountInv ==
    /\ wg = Cardinality(Running)
    /\ sendErrors = Cardinality(Failed)

\* Nobody leaves the loop before Close, so signals are never sent in vain.
ExitInv ==
    \A s \in Sink : sinkPc[s] \in {"exit", "closed"} => closer # "idle"

IInv ==
    /\ TypeOK
    /\ RegistrationInv
    /\ ServiceInv
    /\ SignalInv
    /\ CountInv
    /\ ExitInv
    /\ CloseWaitsForAll

\* The sets that are counted are finite.
LEMMA CountedFinite ==
  /\ IsFiniteSet(Running) /\ IsFiniteSet(Failed)
  /\ IsFiniteSet(Running') /\ IsFiniteSet(Failed')
  <1>1. IsFiniteSet(Sink)
    BY FS_Interval DEF Sink
  <1>2. /\ Running \in SUBSET Sink /\ Running' \in SUBSET Sink
        /\ Failed \in SUBSET Job /\ Failed' \in SUBSET Job
    BY DEF Running, Failed
  <1> QED
    BY <1>1, <1>2, FS_Subset

\* Before the first Register nothing runs, so every part holds.
LEMMA InitIInv == Init => IInv
  <1> SUFFICES ASSUME Init PROVE IInv
    OBVIOUS
  <1> USE DEF Init
  <1>1. TypeOK
    BY DEF TypeOK
  <1>2. RegistrationInv /\ ServiceInv /\ SignalInv /\ ExitInv /\ CloseWaitsForAll
    BY DEF RegistrationInv, ServiceInv, SignalInv, ExitInv, CloseWaitsForAll, Sink
  <1>3. Running = {} /\ Failed = {}
    BY DEF Running, Failed
  <1>4. CountInv
    BY <1>3, FS_EmptySet DEF CountInv
  <1> QED
    BY <1>1, <1>2, <1>4 DEF IInv

\* Register starts a goroutine under a number no other has.
LEMMA RegisterIInv ==
  ASSUME IInv, Register
  PROVE  IInv'
  <1> USE DEF IInv, Register, eventVars, callerVars
  <1> DEFINE r == registered + 1
  <1>1. /\ r \in Sink /\ NameOf[r] \in Name /\ sinkPc[r] = "none" /\ r # NoSink
        /\ registered \in Nat
    BY DEF TypeOK, RegistrationInv, Sink, NoSink
  <1>2. holding[r] = NoJob
    BY <1>1 DEF ServiceInv
  <1>3. closer = "idle" /\ \A n \in Name : exitCh[n] # r
    <2>1. closer = "idle"
      BY <1>1 DEF RegistrationInv
    <2>2. \A n \in Name : exitCh[n] = r => r <= registered
      BY <1>1 DEF RegistrationInv
    <2> QED BY <1>1, <2>1, <2>2
  <1>4. \A n \in Name : n \notin toSignal /\ n # signalling
    BY <1>3 DEF SignalInv
  <1>5. Running' = Running \cup {r} /\ r \notin Running /\ Failed' = Failed
    BY <1>1 DEF Running, Failed, TypeOK
  <1>6. CountInv'
    BY <1>5, CountedFinite, FS_AddElement DEF CountInv
  <1>7. wg' \in 0 .. NumReceivers
    <2>1. IsFiniteSet(Sink) /\ Cardinality(Sink) = NumReceivers
      BY FS_Interval DEF Sink
    <2>2. Running' \in SUBSET Sink
      BY DEF Running
    <2>3. Cardinality(Running') <= NumReceivers /\ Cardinality(Running') \in Nat
      BY <2>1, <2>2, FS_Subset, FS_CardinalityType
    <2> QED BY <1>6, <2>3 DEF CountInv
  <1>8. TypeOK'
    BY <1>1, <1>7 DEF TypeOK
  <1>9. RegistrationInv'
    BY <1>1, <1>3 DEF RegistrationInv, TypeOK, Sink
  <1>10. ServiceInv'
    BY <1>1, <1>2 DEF ServiceInv, TypeOK
  <1>11. SignalInv' /\ ExitInv' /\ CloseWaitsForAll'
    BY <1>1, <1>3, <1>4 DEF SignalInv, ExitInv, CloseWaitsForAll, TypeOK
  <1> QED
    BY <1>6, <1>8, <1>9, <1>10, <1>11

\* A new blocked goroutine leaves receivers and Close alone (channel_registry.go:25-34).
LEMMA SendEventIInv ==
  ASSUME IInv, NEW j \in Job, NEW n \in Name, SendEvent(j, n)
  PROVE  IInv'
  <1> USE DEF IInv, SendEvent, mapVars, sinkVars, callerVars
  <1>1. TypeOK'
    BY DEF TypeOK
  <1>2. RegistrationInv' /\ SignalInv' /\ ExitInv' /\ CloseWaitsForAll'
    BY DEF RegistrationInv, SignalInv, ExitInv, CloseWaitsForAll
  <1>3. ServiceInv'
    BY DEF ServiceInv, TypeOK
  <1>4. Running' = Running /\ Failed' = Failed
    BY DEF Running, Failed, TypeOK
  <1> QED
    BY <1>1, <1>2, <1>3, <1>4 DEF CountInv

\* The caller of Close: the maps and the receivers stay as they are.
LEMMA CallerIInv ==
  ASSUME IInv, Close \/ AwaitSinks \/ \E n \in Name : SignalExit(n)
  PROVE  IInv'
  <1> USE DEF IInv, Close, AwaitSinks, SignalExit, mapVars, eventVars, sinkVars
  <1>1. UNCHANGED <<mapVars, eventVars, sinkVars>>
    OBVIOUS
  <1>2. TypeOK'
    BY DEF TypeOK
  <1>3. RegistrationInv' /\ ServiceInv' /\ ExitInv'
    BY DEF RegistrationInv, ServiceInv, ExitInv
  <1>4. SignalInv'
    <2>1. CASE Close
      <3>1. \A n \in Name : exitCh[n] # NoSink => sinkPc[exitCh[n]] \in {"select", "send", "stuck"}
        <4> SUFFICES ASSUME NEW n \in Name, exitCh[n] # NoSink
                     PROVE  sinkPc[exitCh[n]] \in {"select", "send", "stuck"}
          OBVIOUS
        <4>1. exitCh[n] \in Sink /\ exitCh[n] <= registered /\ registered \in Nat
          BY DEF TypeOK, RegistrationInv
        <4>2. sinkPc[exitCh[n]] # "none"
          BY <4>1 DEF RegistrationInv, Sink
        <4>3. sinkPc[exitCh[n]] \notin {"exit", "closed"}
          BY <2>1, <4>1 DEF ExitInv
        <4> QED BY <4>1, <4>2, <4>3 DEF TypeOK
      <3> QED BY <2>1, <3>1 DEF SignalInv
    <2>2. CASE AwaitSinks
      BY <2>2 DEF SignalInv
    <2>3. ASSUME NEW n \in Name, SignalExit(n) PROVE SignalInv'
      BY <2>3 DEF SignalInv
    <2> QED BY <2>1, <2>2, <2>3
  <1>5. CloseWaitsForAll'
    BY DEF CloseWaitsForAll
  <1>6. Running' = Running /\ Failed' = Failed
    BY DEF Running, Failed
  <1> QED
    BY <1>2, <1>3, <1>4, <1>5, <1>6 DEF CountInv

\* The wait is over when the counter is 0: then no goroutine runs any more.
LEMMA CloseReturnsIInv ==
  ASSUME IInv, CloseReturns
  PROVE  IInv'
  <1> USE DEF IInv, CloseReturns, mapVars, eventVars, sinkVars
  <1>1. TypeOK' /\ RegistrationInv' /\ ServiceInv' /\ SignalInv' /\ ExitInv'
    BY DEF TypeOK, RegistrationInv, ServiceInv, SignalInv, ExitInv
  <1>2. Running = {}
    BY CountedFinite, FS_EmptySet DEF CountInv
  <1>3. CloseWaitsForAll'
    BY <1>2 DEF CloseWaitsForAll, Running, RegistrationInv, TypeOK, Sink
  <1>4. Running' = Running /\ Failed' = Failed
    BY DEF Running, Failed
  <1> QED
    BY <1>1, <1>3, <1>4 DEF CountInv

\* Receiving gives an idle receiver an event nobody else has (channel_registry.go:57).
LEMMA ReceiveIInv ==
  ASSUME IInv, NEW s \in Sink, NEW j \in Job, Receive(s, j)
  PROVE  IInv'
  <1> USE DEF IInv, Receive, mapVars, callerVars
  <1>1. j # NoJob /\ s # NoSink
    BY DEF Sink, NoSink
  <1>2. TypeOK'
    BY DEF TypeOK
  <1>3. RegistrationInv' /\ SignalInv' /\ ExitInv' /\ CloseWaitsForAll'
    BY DEF RegistrationInv, SignalInv, ExitInv, CloseWaitsForAll, TypeOK
  <1>4. ServiceInv'
    BY <1>1 DEF ServiceInv, TypeOK
  <1>5. Running' = Running /\ Failed' = Failed
    BY DEF Running, Failed, TypeOK
  <1> QED
    BY <1>2, <1>3, <1>4, <1>5 DEF CountInv

\* The receiver is free again, and a failure is counted (channel_registry.go:58-62).
LEMMA SendReturnsIInv ==
  ASSUME IInv, NEW s \in Sink, NEW result \in {"delivered", "failed"}, SendReturns(s, result)
  PROVE  IInv'
  <1> USE DEF IInv, SendReturns, mapVars, callerVars
  <1> DEFINE j == holding[s]
  <1>1. /\ j \in Job /\ j # NoJob /\ job[j] = "taken" /\ dest[j] = s
        /\ \A t \in Sink : t # s => holding[t] # j
    BY DEF ServiceInv, TypeOK
  <1>2. TypeOK'
    BY <1>1 DEF TypeOK
  <1>3. RegistrationInv' /\ SignalInv' /\ ExitInv' /\ CloseWaitsForAll'
    BY DEF RegistrationInv, SignalInv, ExitInv, CloseWaitsForAll, TypeOK
  <1>4. ServiceInv'
    BY <1>1 DEF ServiceInv, TypeOK
  <1>5. Running' = Running
    BY DEF Running, TypeOK
  <1>6. sendErrors' = Cardinality(Failed')
    <2>1. CASE result = "failed"
      <3>1. Failed' = Failed \cup {j} /\ j \notin Failed
        BY <1>1, <2>1 DEF Failed, TypeOK
      <3> QED BY <2>1, <3>1, CountedFinite, FS_AddElement DEF CountInv
    <2>2. CASE result = "delivered"
      <3>1. Failed' = Failed
        BY <1>1, <2>2 DEF Failed, TypeOK
      <3> QED BY <2>2, <3>1 DEF CountInv, TypeOK
    <2> QED BY <2>1, <2>2
  <1> QED
    BY <1>2, <1>3, <1>4, <1>5, <1>6 DEF CountInv

\* A sink that hangs keeps its event and its place in the wait group.
LEMMA HangIInv ==
  ASSUME IInv, NEW s \in Sink, Hang(s)
  PROVE  IInv'
  <1> USE DEF IInv, Hang, mapVars, eventVars, callerVars
  <1>1. TypeOK'
    BY DEF TypeOK
  <1>2. RegistrationInv' /\ SignalInv' /\ ExitInv' /\ CloseWaitsForAll' /\ ServiceInv'
    BY DEF RegistrationInv, SignalInv, ExitInv, CloseWaitsForAll, ServiceInv, TypeOK
  <1>3. Running' = Running /\ Failed' = Failed
    BY DEF Running, Failed, TypeOK
  <1> QED
    BY <1>1, <1>2, <1>3 DEF CountInv

\* The signal goes to the goroutine of that name only: names lead to
\* different goroutines, because each leads to one of its own name.
LEMMA TakeExitIInv ==
  ASSUME IInv, NEW s \in Sink, TakeExit(s)
  PROVE  IInv'
  <1> USE DEF IInv, TakeExit, mapVars, eventVars
  <1>1. TypeOK'
    BY DEF TypeOK
  <1>2. \A n \in Name : n \in toSignal => exitCh[n] # s
    BY DEF SignalInv, RegistrationInv, TypeOK
  <1>3. RegistrationInv' /\ ExitInv' /\ CloseWaitsForAll' /\ ServiceInv'
    BY DEF RegistrationInv, SignalInv, ExitInv, CloseWaitsForAll, ServiceInv, TypeOK
  <1>4. SignalInv'
    BY <1>2 DEF SignalInv, TypeOK
  <1>5. Running' = Running /\ Failed' = Failed
    BY DEF Running, Failed, TypeOK
  <1> QED
    BY <1>1, <1>3, <1>4, <1>5 DEF CountInv

\* The goroutine that ends is one the wait group counts (channel_registry.go:68-69).
LEMMA SinkClosesIInv ==
  ASSUME IInv, NEW s \in Sink, SinkCloses(s)
  PROVE  IInv'
  <1> USE DEF IInv, SinkCloses, mapVars, eventVars, callerVars
  <1>1. Running' = Running \ {s} /\ s \in Running /\ Failed' = Failed
    BY DEF Running, Failed, TypeOK
  <1>2. CountInv'
    BY <1>1, CountedFinite, FS_RemoveElement DEF CountInv
  <1>3. wg' \in 0 .. NumReceivers
    BY <1>2, CountedFinite, FS_CardinalityType DEF CountInv, TypeOK
  <1>4. TypeOK'
    BY <1>3 DEF TypeOK
  <1>5. RegistrationInv' /\ SignalInv' /\ ExitInv' /\ CloseWaitsForAll' /\ ServiceInv'
    BY DEF RegistrationInv, SignalInv, ExitInv, CloseWaitsForAll, ServiceInv, TypeOK
  <1> QED
    BY <1>2, <1>4, <1>5

\* Every step of Next preserves the invariant, one lemma per action.
LEMMA StepIInv == IInv /\ [Next]_vars => IInv'
  <1> SUFFICES ASSUME IInv, [Next]_vars PROVE IInv'
    OBVIOUS
  <1>1. CASE UNCHANGED vars
    BY <1>1 DEF vars, IInv, TypeOK, RegistrationInv, ServiceInv, SignalInv, CountInv,
           ExitInv, CloseWaitsForAll, Running, Failed
  <1> QED
    BY <1>1, RegisterIInv, SendEventIInv, CallerIInv, CloseReturnsIInv, ReceiveIInv,
       SendReturnsIInv, HangIInv, TakeExitIInv, SinkClosesIInv DEF Next, Ended

-----------------------------------------------------------------------------
\* The invariant holds in every reachable state, for all constants.
THEOREM Invariance == Spec => []IInv
  BY InitIInv, StepIInv, PTL DEF Spec

\* TypeOK: among the rest, the wait group's counter never leaves
\* 0 .. NumReceivers (a negative counter panics in Go).
THEOREM TypeCorrect == Spec => []TypeOK
  <1>1. IInv => TypeOK
    BY DEF IInv
  <1> QED
    BY <1>1, Invariance, PTL

\* A receiver serves one event at a time and no event is at two receivers.
THEOREM OneAtATime == Spec => []OneEventPerSink
  <1>1. IInv => OneEventPerSink
    BY DEF IInv, OneEventPerSink, ServiceInv, TypeOK
  <1> QED
    BY <1>1, Invariance, PTL

\* Close returns only after every registered sink is closed.
THEOREM CloseWaits == Spec => []CloseWaitsForAll
  <1>1. IInv => CloseWaitsForAll
    BY DEF IInv
  <1> QED
    BY <1>1, Invariance, PTL

\* The exit channel Close is blocked on still has its receiver.
THEOREM ExitsTaken == Spec => []ExitCanBeTaken
  <1>1. IInv => ExitCanBeTaken
    BY DEF IInv, ExitCanBeTaken, SignalInv, TypeOK
  <1> QED
    BY <1>1, Invariance, PTL

\* The SendErrors metric counts exactly the failed Sends.
THEOREM ErrorsExact == Spec => []ErrorsCounted
  <1>1. IInv => ErrorsCounted
    BY DEF IInv, ErrorsCounted, CountInv, Failed
  <1> QED
    BY <1>1, Invariance, PTL

-----------------------------------------------------------------------------
(* The contract *)

\* The states of the contract that ChannelRegistry maps to.
Status == [j \in Job |-> StatusOf(j)]
SinkState == [s \in Sink |-> SinkStateOf(s)]
mapped == <<Status, dest, SinkState, closer = "returned">>

\* A step that changes neither the jobs nor the sinks nor ends Close is
\* invisible.
LEMMA Invisible ==
  ASSUME UNCHANGED <<job, dest, sinkPc>>, (closer = "returned")' = (closer = "returned")
  PROVE  UNCHANGED mapped
  BY DEF mapped, Status, SinkState, StatusOf, SinkStateOf

\* Every step of the registry is a step of the contract or a stutter.
LEMMA StepContract ==
  ASSUME IInv, [Next]_vars
  PROVE  [Contract!RegistryNext]_mapped
  <1> USE DEF mapVars, eventVars, sinkVars, callerVars
  <1>1. CASE Close \/ AwaitSinks \/ (\E n \in Name : SignalExit(n)) \/ UNCHANGED vars
    BY <1>1, Invisible DEF Close, AwaitSinks, SignalExit, vars
  <1>2. CASE Register
    <2> DEFINE r == registered + 1
    <2>1. r \in Sink /\ sinkPc[r] = "none" /\ closer # "returned"
      BY <1>2 DEF Register, IInv, TypeOK, RegistrationInv, Sink
    <2>2. Status' = Status /\ dest' = dest /\ closer' = closer
      BY <1>2 DEF Register, Status, StatusOf
    <2>3. SinkState[r] = "new"
      BY <2>1 DEF SinkState, SinkStateOf
    <2>4. SinkState' = [SinkState EXCEPT ![r] = "open"]
      BY <1>2, <2>1 DEF Register, SinkState, SinkStateOf, IInv, TypeOK
    <2>5. Contract!Open(r)
      BY <2>1, <2>2, <2>3, <2>4 DEF Contract!Open, Status, SinkState
    <2> QED
      BY <2>1, <2>5 DEF Contract!RegistryNext
  <1>3. ASSUME NEW j \in Job, NEW n \in Name, SendEvent(j, n)
        PROVE  Contract!RegistryNext
    <2>1. /\ Status[j] = "new" /\ Status' = [Status EXCEPT ![j] = "pending"]
          /\ SinkState' = SinkState /\ closer' = closer
          /\ ch[n] \in Sink \cup {NoSink} /\ dest' = [dest EXCEPT ![j] = ch[n]]
      BY <1>3 DEF SendEvent, Status, StatusOf, SinkState, SinkStateOf, IInv, TypeOK
    <2>2. Contract!Dispatch(j, ch[n])
      BY <2>1 DEF Contract!Dispatch, Status, SinkState
    <2> QED
      BY <2>1, <2>2 DEF Contract!RegistryNext
  <1>4. ASSUME NEW s \in Sink, NEW j \in Job, Receive(s, j)
        PROVE  Contract!RegistryNext
    <2>1. /\ Status[j] = "pending" /\ Status' = [Status EXCEPT ![j] = "serving"]
          /\ SinkState' = SinkState /\ closer' = closer /\ dest' = dest
          /\ SinkState[s] = "open" /\ dest[j] = s
      BY <1>4 DEF Receive, Status, StatusOf, SinkState, SinkStateOf, IInv, TypeOK
    <2>2. \A k \in Job : dest[k] = s => Status[k] # "serving"
      BY <1>4 DEF Receive, Status, StatusOf, IInv, ServiceInv, TypeOK
    <2>3. Contract!Serve(j)
      BY <2>1, <2>2 DEF Contract!Serve, Status, SinkState
    <2> QED
      BY <2>3 DEF Contract!RegistryNext
  <1>5. ASSUME NEW s \in Sink, NEW result \in {"delivered", "failed"}, SendReturns(s, result)
        PROVE  Contract!RegistryNext
    <2> DEFINE j == holding[s]
    <2>1. j \in Job /\ job[j] = "taken"
      BY <1>5 DEF SendReturns, IInv, ServiceInv, TypeOK
    <2>2. /\ Status[j] = "serving" /\ Status' = [Status EXCEPT ![j] = result]
          /\ SinkState' = SinkState /\ closer' = closer /\ dest' = dest
      BY <1>5, <2>1 DEF SendReturns, Status, StatusOf, SinkState, SinkStateOf, IInv, TypeOK
    <2>3. Contract!Finish(j, result)
      BY <2>2 DEF Contract!Finish, Status, SinkState
    <2> QED
      BY <2>1, <2>3 DEF Contract!RegistryNext
  <1>6. ASSUME NEW s \in Sink, Hang(s) \/ TakeExit(s)
        PROVE  UNCHANGED mapped
    BY <1>6 DEF Hang, TakeExit, mapped, Status, StatusOf, SinkState, SinkStateOf, IInv, TypeOK
  <1>7. ASSUME NEW s \in Sink, SinkCloses(s)
        PROVE  Contract!RegistryNext
    <2>1. /\ SinkState[s] = "open" /\ SinkState' = [SinkState EXCEPT ![s] = "closed"]
          /\ Status' = Status /\ closer' = closer /\ dest' = dest
      BY <1>7 DEF SinkCloses, Status, StatusOf, SinkState, SinkStateOf, IInv, TypeOK
    <2>2. \A k \in Job : dest[k] = s => Status[k] # "serving"
      BY <1>7 DEF SinkCloses, Status, StatusOf, IInv, ServiceInv, TypeOK
    <2>3. Contract!Shut(s)
      BY <2>1, <2>2 DEF Contract!Shut, Status, SinkState
    <2> QED
      BY <2>3 DEF Contract!RegistryNext
  <1>8. CASE CloseReturns
    <2>1. closer' = "returned" /\ closer # "returned"
      BY <1>8 DEF CloseReturns
    <2>2. \A s \in Sink : sinkPc[s] = "closed"
      BY <1>8, <2>1, CloseReturnsIInv DEF CloseReturns, IInv, CloseWaitsForAll
    <2>3. \A s \in Sink : SinkState[s] # "open"
      BY <2>2 DEF SinkState, SinkStateOf
    <2>4. Status' = Status /\ SinkState' = SinkState /\ dest' = dest
      BY <1>8 DEF CloseReturns, Status, StatusOf, SinkState, SinkStateOf
    <2>5. Contract!End
      BY <2>1, <2>3, <2>4 DEF Contract!End, Status, SinkState
    <2> QED
      BY <2>5 DEF Contract!RegistryNext
  <1> QED
    BY <1>1, <1>2, <1>3, <1>4, <1>5, <1>6, <1>7, <1>8 DEF Next, Ended

\* With a receiver in the configuration Close never waits on a nil wait group,
\* since it is only called once all receivers are registered
\* (engine.go:16-31, channel_registry.go:48-50, 80).
THEOREM NoPanic ==
    ASSUME NumReceivers > 0
    PROVE  Spec => []CloseDoesNotPanic
  <1>1. Init => CloseDoesNotPanic
    BY DEF Init, CloseDoesNotPanic
  <1>2. IInv /\ CloseDoesNotPanic /\ [Next]_vars => CloseDoesNotPanic'
    <2> SUFFICES ASSUME IInv, CloseDoesNotPanic, [Next]_vars PROVE CloseDoesNotPanic'
      OBVIOUS
    <2>1. CASE AwaitSinks
      BY <2>1 DEF AwaitSinks, IInv, RegistrationInv, CloseDoesNotPanic
    <2>2. CASE ~AwaitSinks
      BY <2>2 DEF Next, vars, Register, SendEvent, Close, SignalExit,
        CloseReturns, Receive, SendReturns, Hang, TakeExit, SinkCloses, Ended,
        callerVars, CloseDoesNotPanic
    <2> QED
      BY <2>1, <2>2
  <1> QED
    BY <1>1, <1>2, Invariance, PTL DEF Spec

-----------------------------------------------------------------------------
\* ChannelRegistry implements ReceiverRegistry: for all constants, names
\* shared or not, every behaviour is one the contract allows.
THEOREM Refinement == Spec => ImplementsContract
  <1>1. Init => Contract!RegistryInit
    BY DEF Init, Contract!RegistryInit, StatusOf, SinkStateOf
  <1>2. IInv /\ [Next]_vars => [Contract!RegistryNext]_(Contract!registryVars)
    BY StepContract DEF mapped, Contract!registryVars, Status, SinkState
  <1> QED
    BY <1>1, <1>2, Invariance, PTL DEF Spec, ImplementsContract, Contract!RegistrySpec

-----------------------------------------------------------------------------
(* Receivers with names of their own *)

DistinctNames == \A s, t \in Sink : NameOf[s] = NameOf[t] => s = t

\* Every receiver's exit channel is in the map under its name, and Close, from its
\* start on, has its name before it, is blocked on it, or has been heard.
DistinctInv ==
    /\ \A s \in Sink : s <= registered => exitCh[NameOf[s]] = s
    /\ closer # "idle" => \A s \in Sink :
         \/ NameOf[s] \in toSignal
         \/ NameOf[s] = signalling
         \/ sinkPc[s] \in {"exit", "stuck", "closed"}
    /\ closer \in {"wait", "returned", "panicked"} => toSignal = {} /\ signalling = NoName

LEMMA InitDistinctInv == Init => DistinctInv
  BY DEF Init, DistinctInv, Sink

LEMMA StepDistinctInv ==
  ASSUME DistinctNames, IInv, DistinctInv, [Next]_vars
  PROVE  DistinctInv'
  <1> USE DEF mapVars, eventVars, sinkVars, callerVars
  <1>1. CASE Register
    <2>1. closer = "idle" /\ closer' = "idle"
      BY <1>1 DEF IInv, TypeOK, RegistrationInv, Register
    <2>2. ASSUME NEW s \in Sink, s <= registered' PROVE exitCh'[NameOf[s]] = s
      <3>1. registered + 1 \in Sink /\ registered' = registered + 1
        BY <1>1 DEF IInv, TypeOK, Register, Sink
      <3>2. exitCh' = [exitCh EXCEPT ![NameOf[registered + 1]] = registered + 1]
        BY <1>1 DEF Register
      <3>3. DOMAIN exitCh = Name /\ NameOf[s] \in Name
        BY DEF IInv, TypeOK
      <3>4. CASE s = registered + 1
        BY <3>2, <3>3, <3>4
      <3>5. CASE s # registered + 1
        <4>1. s <= registered /\ NameOf[s] # NameOf[registered + 1]
          BY <2>2, <3>1, <3>5 DEF DistinctNames, IInv, TypeOK, Sink
        <4> QED
          BY <3>2, <3>3, <4>1 DEF DistinctInv
      <3> QED
        BY <3>4, <3>5
    <2> QED
      BY <2>1, <2>2 DEF DistinctInv
  <1>2. CASE Close
    <2>1. \A s \in Sink : exitCh[NameOf[s]] = s /\ s # NoSink
      BY <1>2 DEF DistinctInv, Close, Sink, NoSink
    <2> QED
      BY <1>2, <2>1 DEF DistinctInv, Close
  <1>3. CASE \E n \in Name : SignalExit(n)
    BY <1>3 DEF DistinctInv, SignalExit
  <1>4. CASE AwaitSinks \/ CloseReturns
    BY <1>4 DEF DistinctInv, AwaitSinks, CloseReturns
  <1>5. CASE (\E s \in Sink, j \in Job : Receive(s, j))
             \/ (\E s \in Sink, result \in {"delivered", "failed"} : SendReturns(s, result))
             \/ (\E s \in Sink : Hang(s) \/ SinkCloses(s))
    <2>1. UNCHANGED <<registered, exitCh, closer, toSignal, signalling>>
      BY <1>5 DEF Receive, SendReturns, Hang, SinkCloses
    <2>2. \A s \in Sink : sinkPc[s] \in {"exit", "stuck", "closed"} =>
                sinkPc'[s] \in {"exit", "stuck", "closed"}
      BY <1>5 DEF IInv, TypeOK, Receive, SendReturns, Hang, SinkCloses
    <2> QED
      BY <2>1, <2>2 DEF DistinctInv
  <1>6. CASE \E s \in Sink : TakeExit(s)
    <2>1. PICK t \in Sink : TakeExit(t)
      BY <1>6
    <2>2. /\ exitCh[signalling] = t /\ signalling # NoName /\ signalling' = NoName
          /\ UNCHANGED <<registered, exitCh, closer, toSignal>>
          /\ sinkPc' = [sinkPc EXCEPT ![t] = "exit"]
      BY <2>1 DEF TakeExit
    <2>3. NameOf[t] = signalling /\ closer = "signal"
      BY <2>2 DEF IInv, TypeOK, RegistrationInv, SignalInv, Sink, NoSink
    <2>4. ASSUME NEW s \in Sink
          PROVE  \/ NameOf[s] \in toSignal'
                 \/ NameOf[s] = signalling'
                 \/ sinkPc'[s] \in {"exit", "stuck", "closed"}
      <3>1. NameOf[s] = signalling => s = t
        BY <2>3 DEF DistinctNames
      <3> QED
        BY <2>2, <2>3, <3>1 DEF DistinctInv, IInv, TypeOK
    <2> QED
      BY <2>2, <2>3, <2>4 DEF DistinctInv
  <1>7. CASE \E j \in Job, n \in Name : SendEvent(j, n)
    BY <1>7 DEF DistinctInv, SendEvent
  <1>8. CASE UNCHANGED vars
    BY <1>8 DEF DistinctInv, vars
  <1> QED
    BY <1>1, <1>2, <1>3, <1>4, <1>5, <1>6, <1>7, <1>8 DEF Next, Ended

\* What the comment of Close promises (channel_registry.go:73) is kept when no two
\* receivers have the same name: once it waits, every goroutine has its signal.
THEOREM DistinctAllSignalled ==
  ASSUME DistinctNames
  PROVE  Spec => []AllSinksSignalled
  <1>1. IInv /\ DistinctInv => AllSinksSignalled
    BY DEF DistinctInv, IInv, TypeOK, AllSinksSignalled
  <1>2. IInv /\ DistinctInv /\ [Next]_vars => DistinctInv'
    BY StepDistinctInv
  <1> QED
    BY <1>1, <1>2, InitDistinctInv, Invariance, PTL DEF Spec

\* The wait of Close is never in vain: as long as the wait group is not zero there is
\* a goroutine that has left its loop and is in the Close of its sink, or one
\* whose sink hangs.
WaitHasEnd ==
    closer = "wait" => wg = 0 \/ \E s \in Sink : sinkPc[s] \in {"exit", "stuck"}

\* No deadlock of Close (channel_registry.go:77-80): while it signals, the goroutine
\* it is blocked on is in its loop (ExitsTaken); while it waits, one is on its way out.
THEOREM DistinctWaitHasEnd ==
  ASSUME DistinctNames
  PROVE  Spec => []WaitHasEnd
  <1>1. IInv /\ AllSinksSignalled => WaitHasEnd
    <2> SUFFICES ASSUME IInv, AllSinksSignalled, closer = "wait",
                        \A s \in Sink : sinkPc[s] \notin {"exit", "stuck"}
                 PROVE  wg = 0
      BY DEF WaitHasEnd
    <2>1. Running = {}
      BY DEF AllSinksSignalled, Running
    <2> QED
      BY <2>1, FS_EmptySet DEF IInv, CountInv
  <1> QED
    BY <1>1, DistinctAllSignalled, Invariance, PTL

=============================================================================
