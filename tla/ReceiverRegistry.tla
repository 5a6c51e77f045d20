--------------------------- MODULE ReceiverRegistry ---------------------------
(****************************************************************************)
(* What the ReceiverRegistry interface (pkg/exporter/receivers.go) promises *)
(* the engine and the sinks, however events travel to a sink: an event sent *)
(* to a receiver is given to that receiver's sink at most once, a sink      *)
(* serves one event at a time and none once it is closed, and Close comes   *)
(* back only after every registered sink is closed.                         *)
(****************************************************************************)

CONSTANTS
    Job,            \* the calls of SendEvent
    Sink,           \* the sinks that may be registered
    NoSink          \* the receiver of an event whose name is not registered

VARIABLES
    status,         \* "new", "pending", "serving", "delivered", "failed", per job
    receiver,       \* the sink each job was sent to
    sink,           \* "new", "open" or "closed", for each sink
    over            \* has Close returned

registryVars == <<status, receiver, sink, over>>

RegistryInit ==
    /\ status = [j \in Job |-> "new"]
    /\ receiver = [j \in Job |-> NoSink]
    /\ sink = [s \in Sink |-> "new"]
    /\ over = FALSE

Open(s) ==
    /\ sink[s] = "new"
    /\ ~over
    /\ sink' = [sink EXCEPT ![s] = "open"]
    /\ UNCHANGED <<status, receiver, over>>

Dispatch(j, s) ==
    /\ status[j] = "new"
    /\ status' = [status EXCEPT ![j] = "pending"]
    /\ receiver' = [receiver EXCEPT ![j] = s]
    /\ UNCHANGED <<sink, over>>

\* The sink starts on an event: it is open and has no other at hand.
Serve(j) ==
    /\ status[j] = "pending"
    /\ receiver[j] \in Sink
    /\ sink[receiver[j]] = "open"
    /\ \A k \in Job : receiver[k] = receiver[j] => status[k] # "serving"
    /\ status' = [status EXCEPT ![j] = "serving"]
    /\ UNCHANGED <<receiver, sink, over>>

Finish(j, result) ==
    /\ status[j] = "serving"
    /\ status' = [status EXCEPT ![j] = result]
    /\ UNCHANGED <<receiver, sink, over>>

\* A sink is closed between two events, once.
Shut(s) ==
    /\ sink[s] = "open"
    /\ \A k \in Job : receiver[k] = s => status[k] # "serving"
    /\ sink' = [sink EXCEPT ![s] = "closed"]
    /\ UNCHANGED <<status, receiver, over>>

End ==
    /\ \A s \in Sink : sink[s] # "open"
    /\ ~over
    /\ over' = TRUE
    /\ UNCHANGED <<status, receiver, sink>>

RegistryNext ==
    \/ \E s \in Sink : Open(s) \/ Shut(s)
    \/ \E j \in Job, s \in Sink \cup {NoSink} : Dispatch(j, s)
    \/ \E j \in Job : Serve(j)
    \/ \E j \in Job, result \in {"delivered", "failed"} : Finish(j, result)
    \/ End

RegistrySpec == RegistryInit /\ [][RegistryNext]_registryVars

=============================================================================
