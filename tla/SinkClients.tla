----------------------------- MODULE SinkClients -----------------------------
(****************************************************************************)
(* The clients of the sinks, from NewEngine (engine.go:17), which makes the *)
(* sinks one after the other and ends the process when one fails, to the    *)
(* Close of each sink by its goroutine.  Between the two the sinks send as  *)
(* in module Sinks.                                                         *)
(*                                                                          *)
(* A constructor is the sequence of what it does that can fail or that the  *)
(* sink keeps.  Idle connections, which only Webhook and Loki close, and    *)
(* the files lumberjack opens at the first write are not told apart from    *)
(* their transport and logger.                                              *)
(****************************************************************************)
EXTENDS Sinks

VARIABLES
    life,           \* "new", "making", "open", "closed" or "failed", per receiver
    rest,           \* what its constructor has yet to do
    held            \* what it has made and not closed

lifeVars == <<life, rest, held>>
clientVars == <<vars, lifeVars>>

-----------------------------------------------------------------------------
(* Constructors *)

\* The kinds that only talk HTTP: a transport of their TLS settings, and a client
\* around it.
HTTPSteps == <<"tls", "transport">>
SearchSteps == <<"tls", "client">>

\* The AWS clients are made of the region and an endpoint; SQS asks for the URL
\* of its queue as well.
AWSSteps == <<"client">>
SQSSteps == <<"client", "queueURL">>

KafkaSteps(c) ==
    <<"version", "tls", "sasl", "producer">> \o
    (IF "avro" \in c.parts THEN <<"encoder">> ELSE <<>>)

PubsubSteps(c) ==
    <<"client">> \o
    (IF "createTopic" \in c.options THEN <<"topic">> ELSE <<>>) \o <<"publisher">>

\* The dataset is asked for, and nothing depends on the answer.
BigQuerySteps == <<"required", "dataset", "writer">>

Steps(r) ==
    LET kind == KindOf(r)
    IN  CASE kind \in {"webhook", "loki"} -> HTTPSteps
          [] kind \in {"elasticsearch", "opensearch"} -> SearchSteps
          [] kind \in {"sns", "kinesis", "firehose", "opscenter", "eventbridge"} ->
                AWSSteps
          [] kind = "sqs" -> SQSSteps
          [] kind = "opsgenie" -> <<"client">>
          [] kind = "kafka" -> KafkaSteps(conf[r])
          [] kind = "pubsub" -> PubsubSteps(conf[r])
          [] kind = "bigquery" -> BigQuerySteps
          [] kind \in {"pipe", "file"} -> <<"file">>
          [] kind = "syslog" -> <<"connection">>
          [] OTHER -> <<>>

Product == {"transport", "client", "queueURL", "producer", "encoder", "publisher",
            "writer", "file", "connection"}

\* setupTLS wants both or none of the two files of a client certificate; the
\* constructor of Kafka leaves the certificate out if one is missing.
HalfCertificate(r) ==
    /\ KindOf(r) # "kafka"
    /\ Cardinality({"cert", "key"} \cap conf[r].options) = 1

\* make() panics over a negative size, as does NewTicker in Start.
MustFail(r, step) ==
    \/ step = "tls" /\ HalfCertificate(r)
    \/ step = "writer" /\ "negativeSize" \in conf[r].options

\* Files that cannot be read, names that are not known, services that are not
\* there.  For Kafka "ca" stands for TLS at all.
MayFail(r, step) ==
    CASE step = "tls" ->
            \/ "ca" \in conf[r].options
            \/ {"cert", "key"} \subseteq conf[r].options /\ KindOf(r) # "kafka"
      [] step \in {"version", "sasl"} -> step \in conf[r].options
      [] step = "file" -> KindOf(r) = "pipe"
      [] step \in {"dataset", "transport", "publisher", "writer"} -> FALSE
      [] OTHER -> TRUE

-----------------------------------------------------------------------------
ClientsInit ==
    /\ Init
    /\ life = [r \in Receiver |-> "new"]
    /\ rest = [r \in Receiver |-> <<>>]
    /\ held = [r \in Receiver |-> {}]

AllMade == \A r \in Receiver : life[r] \notin {"new", "making"}

\* NewEngine takes the next receiver and calls GetSink.
GetNextSink(r) ==
    /\ life[r] = "new"
    /\ \A q \in Receiver : life[q] \in {"new", "open"}
    /\ life' = [life EXCEPT ![r] = "making"]
    /\ rest' = [rest EXCEPT ![r] = Steps(r)]
    /\ UNCHANGED <<vars, held>>

\* The constructor does its next step, and the sink keeps what the step made.
MakeStep(r) ==
    /\ life[r] = "making"
    /\ rest[r] # <<>>
    /\ ~MustFail(r, Head(rest[r]))
    /\ held' = [held EXCEPT ![r] = @ \cup ({Head(rest[r])} \cap Product)]
    /\ rest' = [rest EXCEPT ![r] = Tail(@)]
    /\ UNCHANGED <<vars, life>>

\* Fault: the error is returned and the client forgotten.
ClosedOnErrorNothing(step) == {}

\* What a constructor closes before it answers with an error: Pub/Sub its client
\* when the topic cannot be created.
ClosedOnError(step) == IF step = "topic" THEN {"client"} ELSE {}

\* A step fails, and log.Fatal (or the panic) ends the process.
MakeFails(r) ==
    /\ life[r] = "making"
    /\ rest[r] # <<>>
    /\ MustFail(r, Head(rest[r])) \/ MayFail(r, Head(rest[r]))
    /\ life' = [life EXCEPT ![r] = "failed"]
    /\ held' = [held EXCEPT ![r] = @ \ ClosedOnError(Head(rest[r]))]
    /\ running' = FALSE
    /\ UNCHANGED <<conf, shared, labels, sendVars, outcome, received, misled,
                   rest>>

\* The sink is made, and the registry starts its goroutine.
RegisterSink(r) ==
    /\ life[r] = "making"
    /\ rest[r] = <<>>
    /\ life' = [life EXCEPT ![r] = "open"]
    /\ UNCHANGED <<vars, rest, held>>

\* Events come once all sinks are made; a closed sink gets none.
SendStep ==
    /\ AllMade
    /\ Next
    /\ \A r \in Receiver : pc'[r] # pc[r] => life[r] = "open"
    /\ UNCHANGED lifeVars

\* What the Close of a kind of sink closes.
Closes(kind) ==
    CASE kind = "kafka" -> {"producer"}
      [] kind = "pubsub" -> {"publisher", "client"}
      [] kind \in {"webhook", "loki"} -> {"transport"}
      [] kind \in {"pipe", "file"} -> {"file"}
      [] kind = "syslog" -> {"connection"}
      [] kind = "bigquery" -> {"writer"}
      [] OTHER -> {}

\* The goroutine of the receiver has taken its exit, between two events.
CloseSink(r) ==
    /\ AllMade
    /\ life[r] = "open"
    /\ pc[r] = "idle"
    /\ life' = [life EXCEPT ![r] = "closed"]
    /\ held' = [held EXCEPT ![r] = @ \ Closes(KindOf(r))]
    /\ UNCHANGED <<vars, rest>>

Lifecycle ==
    \E r \in Receiver :
        GetNextSink(r) \/ MakeStep(r) \/ MakeFails(r) \/ RegisterSink(r) \/ CloseSink(r)

ClientsNext == running /\ (Lifecycle \/ SendStep)

ClientsSpec == ClientsInit /\ [][ClientsNext]_clientVars

-----------------------------------------------------------------------------
(* Safety *)

\* What Send calls without a test for nil: kafka.go:104-113, pubsub.go:125,
\* sqs.go:96 and the like.
Uses(r) ==
    CASE KindOf(r) = "kafka" -> {"producer"} \cup
            (IF KafkaParts(conf[r].parts) = {"avro"} THEN {"encoder"} ELSE {})
      [] KindOf(r) = "pubsub" -> {"publisher", "client"}
      [] KindOf(r) = "sqs" -> {"client", "queueURL"}
      [] KindOf(r) = "bigquery" -> {"writer"}
      [] KindOf(r) \in {"pipe", "file"} -> {"file"}
      [] KindOf(r) = "syslog" -> {"connection"}
      [] KindOf(r) \in {"webhook", "loki"} -> {"transport"}
      [] KindOf(r) \in {"teams", "slack", "stdout", "inMemory"} -> {}
      [] OTHER -> {"client"}

\* What keeps goroutines, buffers or descriptors until it is closed.
MustClose(r) ==
    {"producer", "publisher", "writer", "file", "connection"} \cup
    (IF KindOf(r) = "pubsub" THEN {"client"} ELSE {})

\* A Send finds all that it calls, whichever of the parts and options of its
\* sink are set, and nothing that must be closed outlives the Close of its sink
\* or a constructor that failed.  One constructor is excepted: Kafka's leaves
\* its producer open when the encoder cannot be made (kafka.go:76).
ClientLifetime ==
    \A r \in Receiver :
        /\ pc[r] # "idle" => Uses(r) \subseteq held[r]
        /\ life[r] = "closed" => held[r] \cap MustClose(r) = {}
        /\ life[r] = "failed" /\ Head(rest[r]) # "encoder" =>
                held[r] \cap MustClose(r) = {}

=============================================================================
