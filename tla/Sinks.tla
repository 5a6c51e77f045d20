-------------------------------- MODULE Sinks --------------------------------
(****************************************************************************)
(* The Send of every sink of pkg/sinks, as the goroutines of                *)
(* channel_registry.go call it: one event at a time per receiver, several   *)
(* receivers at once.  What they share is the client of net/http that       *)
(* webhook.go and teams.go use, and the maps of the event they all get.     *)
(* BigQuery's Send only queues the event; module BigQuery has the rest.     *)
(*                                                                          *)
(* A Send prepares a body (templates, dedotting), makes one request and     *)
(* makes an error or nil of the reply.  Templates and bodies are abstracted *)
(* to the names of the configured parts, one of which may fail, and to      *)
(* whether the dots in label keys were replaced.  The services are          *)
(* external: a request has any outcome of Reply its kind of sink can see.   *)
(****************************************************************************)
EXTENDS Naturals, FiniteSets, Sequences

CONSTANTS
    Receiver,
    Event,          \* bound: the events each receiver is sent
    NoEvent,
    Default,        \* the transport of net/http, used while a client has none
    Torn,           \* a transport of which one word of two has been stored
    Configurations  \* the receivers' configurations to be checked

\* The kinds of sink in the order in which GetSink looks for them.
KindOrder == <<"inMemory", "pipe", "webhook", "file", "syslog", "stdout",
    "elasticsearch", "kinesis", "firehose", "opensearch", "opsgenie", "sqs",
    "sns", "slack", "kafka", "pubsub", "opscenter", "teams", "bigquery", "eventbridge",
    "loki">>

Kind == {KindOrder[i] : i \in DOMAIN KindOrder}

\* A receiver lists its sinks, the parts it has templates for, deDot, and which
\* of the options are set that matter to its constructor or its encoding.
Option == {"ca", "cert", "key", "version", "sasl", "schemaNotHex", "createTopic",
           "negativeSize"}

ReceiverConfig ==
    [sinks : SUBSET Kind, parts : SUBSET STRING, deDot : BOOLEAN,
     options : SUBSET Option]

ASSUME ConfigurationsAssumption ==
    \A c \in Configurations :
        /\ DOMAIN c = Receiver
        /\ \A r \in Receiver : c[r].sinks \subseteq Kind /\ c[r].sinks # {}
ASSUME NoneAssumption ==
    NoEvent \notin Event /\ {Default, Torn} \cap Receiver = {} /\ Default # Torn

VARIABLES
    conf,           \* the configuration of each receiver
    running,        \* FALSE once a goroutine has panicked
    shared,         \* http.DefaultClient.Transport: of a receiver, Default or Torn
    labels,         \* the keys in the maps of each event: "plain" or "dedotted"
    pc,             \* where the Send of each receiver is
    event,          \* the event it sends
    body,           \* the body it has prepared
    used,           \* the transport its request went out with
    reply,          \* what came of the request
    outcome,        \* what Send has returned, per receiver and event
    received,       \* the body the service behind a receiver has taken, per event
    misled          \* the sends, by receiver and event, that got a reply of Blind

sendVars == <<pc, event, body, used, reply>>
vars == <<conf, running, shared, labels, pc, event, body, used, reply, outcome,
          received, misled>>

-----------------------------------------------------------------------------
(* Configuration *)

\* GetSink: the first kind in its order that is configured.
GetSink(sinks) ==
    KindOrder[CHOOSE i \in DOMAIN KindOrder :
        /\ KindOrder[i] \in sinks
        /\ \A j \in 1 .. i - 1 : KindOrder[j] \notin sinks]

KindOf(r) == GetSink(conf[r].sinks)

\* The parts whose templates must not fail.  A header that fails is sent as it
\* is written, so "headers" is in none of these sets.
LayoutParts(parts) == parts \cap {"layout"}

KafkaParts(parts) ==
    IF "layout" \in parts THEN {"layout"} ELSE parts \cap {"avro"}

OpsgenieParts(parts) ==
    {"message", "description"} \cup (parts \cap {"alias", "tags", "details"})

\* Without fields there is no attachment, and nothing else is rendered.
SlackParts(parts) ==
    {"channel", "message"} \cup
    (IF "fields" \in parts
     THEN parts \cap {"fields", "author_name", "color", "title", "footer"}
     ELSE {})

OpsCenterParts(parts) ==
    {"title", "description", "source"} \cup
    (parts \cap {"category", "severity", "priority", "operationalData", "tags",
                 "relatedOpsItems", "notifications"})

EssentialParts(kind, parts) ==
    CASE kind \in {"inMemory", "syslog", "pubsub", "bigquery"} -> {}
      [] kind = "kafka" -> KafkaParts(parts)
      [] kind = "opsgenie" -> OpsgenieParts(parts)
      [] kind = "slack" -> SlackParts(parts)
      [] kind = "opscenter" -> OpsCenterParts(parts)
      [] OTHER -> LayoutParts(parts)

Dedotting == {"elasticsearch", "opensearch", "firehose", "file", "stdout", "pipe"}

Dedots(r) == KindOf(r) \in Dedotting /\ conf[r].deDot

-----------------------------------------------------------------------------
(* Replies *)

\* "lost": the request arrives, its reply does not.  "cut" and "refusedCut": the
\* reply ends before its body does.
Taken == {"ok", "otherSuccess", "cut", "lost"}

\* "inBody": a success although the event was not taken, "rateLimited": one with
\* Teams' word for it in its body.  "redirect": one without a location.
\* "followed": one that net/http follows with a GET, which has no body and
\* succeeds.  "unsent": a datagram, or bytes for a peer that is gone, that the
\* network loses.
NotTaken == {"inBody", "rateLimited", "redirect", "followed", "refused", "refusedCut",
             "unreachable", "unsent"}
Reply == Taken \cup NotTaken

Local == {"pipe", "file", "stdout"}

\* What a client library, or a client of net/http, may get to see.
LibraryReplies == Taken \cup {"redirect", "refused", "refusedCut", "unreachable"}
HTTPReplies == LibraryReplies \cup {"inBody", "followed"}

RepliesTo(kind) ==
    CASE kind \in {"inMemory", "bigquery"} -> {"ok"}
      [] kind \in Local -> {"ok", "unreachable"}
      [] kind = "syslog" -> {"ok", "unreachable", "unsent"}
      [] kind \in {"webhook", "loki"} -> HTTPReplies
      [] kind = "teams" -> HTTPReplies \cup {"rateLimited"}
      [] kind \in {"elasticsearch", "opensearch", "eventbridge"} ->
            LibraryReplies \cup {"inBody"}
      [] OTHER -> LibraryReplies

\* Fault: the status of the reply is not looked at.
WebhookNilAnyStatus ==
    {"ok", "otherSuccess", "inBody", "followed", "redirect", "refused"}

\* The replies for which Send returns nil.  Of a redirect that is followed the
\* sink sees the last reply only.
WebhookNil == {"ok", "otherSuccess", "inBody", "followed"}
LokiNil == {"ok", "otherSuccess", "inBody", "followed"}

\* An error of the request is answered with nil, any status but 200 is an error,
\* and of all bodies only the one that says 429.
TeamsNil == {"ok", "lost", "unreachable", "inBody", "followed"}

\* The writer is asked for an error only.
SyslogNil == {"ok", "unsent"}

\* The body is only read for a status of 400 and more, and then only logged.
ElasticsearchNil == {"ok", "otherSuccess", "cut", "inBody", "redirect", "refused"}
OpenSearchNil == ElasticsearchNil

\* A client library makes an error of all that is not a complete success; only
\* the entries PutEvents has refused are in its answer, which is not read.
ClientNil == {"ok", "otherSuccess"}
EventBridgeNil == ClientNil \cup {"inBody"}

NilReplies(kind) ==
    CASE kind = "webhook" -> WebhookNil
      [] kind = "loki" -> LokiNil
      [] kind = "teams" -> TeamsNil
      [] kind = "syslog" -> SyslogNil
      [] kind = "elasticsearch" -> ElasticsearchNil
      [] kind = "opensearch" -> OpenSearchNil
      [] kind = "eventbridge" -> EventBridgeNil
      [] OTHER -> ClientNil

\* The replies to an event that was not taken which, by all a sink looks at, are
\* those to one that was.
Blind(kind) ==
    CASE kind \in {"webhook", "loki"} -> {"inBody", "followed"}
      [] kind = "syslog" -> {"unsent"}
      [] OTHER -> {}

-----------------------------------------------------------------------------
TypeOK ==
    /\ conf \in Configurations
    /\ running \in BOOLEAN
    /\ shared \in Receiver \cup {Default, Torn}
    /\ labels \in [Event -> {"plain", "dedotted"}]
    /\ pc \in [Receiver -> {"idle", "prepare", "store", "storeData", "do", "reply"}]
    /\ event \in [Receiver -> Event \cup {NoEvent}]
    /\ \A r \in Receiver : event[r] = NoEvent <=> pc[r] = "idle"
    /\ body \in [Receiver -> {"none", "plain", "dedotted"}]
    /\ \A r \in Receiver : body[r] = "none" <=> pc[r] \in {"idle", "prepare"}
    /\ used \in [Receiver -> Receiver \cup {Default}]
    /\ reply \in [Receiver -> Reply \cup {"none"}]
    /\ outcome \in [Receiver -> [Event -> {"none", "sending", "nil", "error"}]]
    /\ received \in [Receiver -> [Event -> {"none", "plain", "dedotted"}]]
    /\ misled \subseteq Receiver \X Event

Init ==
    /\ conf \in Configurations
    /\ running = TRUE
    /\ shared = Default
    /\ labels = [e \in Event |-> "plain"]
    /\ pc = [r \in Receiver |-> "idle"]
    /\ event = [r \in Receiver |-> NoEvent]
    /\ body = [r \in Receiver |-> "none"]
    /\ used = [r \in Receiver |-> Default]
    /\ reply = [r \in Receiver |-> "none"]
    /\ outcome = [r \in Receiver |-> [e \in Event |-> "none"]]
    /\ received = [r \in Receiver |-> [e \in Event |-> "none"]]
    /\ misled = {}

-----------------------------------------------------------------------------
(* Send *)

\* The goroutine of the receiver takes the next event and calls Send.
Begin(r, e) ==
    /\ pc[r] = "idle"
    /\ outcome[r][e] = "none"
    /\ pc' = [pc EXCEPT ![r] = "prepare"]
    /\ event' = [event EXCEPT ![r] = e]
    /\ outcome' = [outcome EXCEPT ![r][e] = "sending"]
    /\ UNCHANGED <<conf, running, shared, labels, body, used, reply, received,
                   misled>>

\* Send returns: an error or nil, and the goroutine is back in its loop.
Return(r, result) ==
    /\ outcome' = [outcome EXCEPT ![r][event[r]] = result]
    /\ pc' = [pc EXCEPT ![r] = "idle"]
    /\ event' = [event EXCEPT ![r] = NoEvent]
    /\ body' = [body EXCEPT ![r] = "none"]
    /\ used' = [used EXCEPT ![r] = Default]
    /\ reply' = [reply EXCEPT ![r] = "none"]

\* Fault: the error of a template is logged and Send goes on.
PrepareFailsGoesOn(r, part) ==
    /\ pc[r] = "prepare"
    /\ part \in EssentialParts(KindOf(r), conf[r].parts)
    /\ pc' = [pc EXCEPT ![r] = "do"]
    /\ UNCHANGED <<conf, running, shared, labels, event, body, used, reply, outcome,
                   received, misled>>

\* encode of avro.go panics over a schema id of the right length that is not
\* hexadecimal; the constructor has looked at the length only.
EncodePanics(r) ==
    /\ KindOf(r) = "kafka"
    /\ KafkaParts(conf[r].parts) = {"avro"}
    /\ "schemaNotHex" \in conf[r].options

\* The first event ends the process.
PreparePanics(r) ==
    /\ pc[r] = "prepare"
    /\ EncodePanics(r)
    /\ running' = FALSE
    /\ UNCHANGED <<conf, shared, labels, sendVars, outcome, received, misled>>

\* A template that is needed fails, before anything is sent.
PrepareFails(r, part) ==
    /\ pc[r] = "prepare"
    /\ ~EncodePanics(r)
    /\ part \in EssentialParts(KindOf(r), conf[r].parts)
    /\ Return(r, "error")
    /\ UNCHANGED <<conf, running, shared, labels, received, misled>>

\* Fault: the keys are replaced in the maps of the event, not in copies.
DeDotInPlace(r) == [labels EXCEPT ![event[r]] = IF Dedots(r) THEN "dedotted" ELSE @]

\* DeDot makes new maps, and the event the others see stays as it is.
DeDot(r) == labels

\* Fault: a webhook sends with the transport the client happens to have.
PrepareNoStore(r) ==
    /\ pc[r] = "prepare"
    /\ body' = [body EXCEPT ![r] = IF Dedots(r) THEN "dedotted" ELSE labels[event[r]]]
    /\ labels' = DeDot(r)
    /\ pc' = [pc EXCEPT ![r] = "do"]
    /\ UNCHANGED <<conf, running, shared, event, used, reply, outcome, received,
                   misled>>

\* The body is made of the event, or of a copy with the dots replaced.
Prepare(r) ==
    /\ pc[r] = "prepare"
    /\ ~EncodePanics(r)
    /\ body' = [body EXCEPT ![r] = IF Dedots(r) THEN "dedotted" ELSE labels[event[r]]]
    /\ labels' = DeDot(r)
    /\ pc' = [pc EXCEPT ![r] = IF KindOf(r) = "webhook" THEN "store" ELSE "do"]
    /\ UNCHANGED <<conf, running, shared, event, used, reply, outcome, received,
                   misled>>

\* client.Transport = w.transport, for the client all webhooks share.  The store
\* takes two steps: until the second, a client that had no transport has the
\* type of one and no value.
StoreType(r) ==
    /\ pc[r] = "store"
    /\ shared' = IF shared = Default THEN Torn ELSE shared
    /\ pc' = [pc EXCEPT ![r] = "storeData"]
    /\ UNCHANGED <<conf, running, labels, event, body, used, reply, outcome, received,
                   misled>>

StoreData(r) ==
    /\ pc[r] = "storeData"
    /\ shared' = r
    /\ pc' = [pc EXCEPT ![r] = "do"]
    /\ UNCHANGED <<conf, running, labels, event, body, used, reply, outcome, received,
                   misled>>

\* The transport of the client a sink sends with; all but two have their own.
TransportFor(r) == IF KindOf(r) \in {"webhook", "teams"} THEN shared ELSE r

\* The request goes out, and the service takes the event or does not.
Do(r, answer) ==
    /\ pc[r] = "do"
    /\ TransportFor(r) # Torn
    /\ answer \in RepliesTo(KindOf(r))
    /\ used' = [used EXCEPT ![r] = TransportFor(r)]
    /\ reply' = [reply EXCEPT ![r] = answer]
    /\ received' = [received EXCEPT ![r][event[r]] =
                        IF answer \in Taken THEN body[r] ELSE @]
    /\ misled' = misled \cup
            (IF answer \in Blind(KindOf(r)) THEN {<<r, event[r]>>} ELSE {})
    /\ pc' = [pc EXCEPT ![r] = "reply"]
    /\ UNCHANGED <<conf, running, shared, labels, event, body, outcome>>

\* A request through a transport without a value: the process ends.
DoPanics(r) ==
    /\ pc[r] = "do"
    /\ TransportFor(r) = Torn
    /\ running' = FALSE
    /\ UNCHANGED <<conf, shared, labels, sendVars, outcome, received, misled>>

Answer(r) ==
    /\ pc[r] = "reply"
    /\ Return(r, IF reply[r] \in NilReplies(KindOf(r)) THEN "nil" ELSE "error")
    /\ UNCHANGED <<conf, running, shared, labels, received, misled>>

Part == UNION {conf[r].parts : r \in Receiver}
    \cup {"message", "description", "channel", "title", "source"}

Next ==
    /\ running
    /\ \E r \in Receiver :
        \/ \E e \in Event : Begin(r, e)
        \/ PreparePanics(r)
        \/ \E part \in Part : PrepareFails(r, part)
        \/ Prepare(r)
        \/ StoreType(r)
        \/ StoreData(r)
        \/ \E answer \in Reply : Do(r, answer)
        \/ DoPanics(r)
        \/ Answer(r)

Spec == Init /\ [][Next]_vars

-----------------------------------------------------------------------------
(* Safety *)

\* A sink is to "submit" events "depending on its configuration" (sink.go:14-15):
\* a webhook sends with the transport made of its own TLS settings
\* (webhook.go:27, 65), whatever the other receivers do meanwhile.
OwnTransport ==
    \A r \in Receiver :
        pc[r] = "reply" /\ KindOf(r) = "webhook" => used[r] = r

\* The sinks that answer nil to what they have not delivered: teams.go:61,
\* elasticsearch.go:153, opensearch.go:140, eventbridge.go:113.
Lenient == {"teams", "elasticsearch", "opensearch", "eventbridge"}

\* Whatever becomes of the templates and the request: a Send of any other sink
\* that returns nil, so that no error is counted (channel_registry.go:59), has
\* delivered its event, or was told so by a reply that nothing of what it looks
\* at tells from a delivery: it never overlooks an error it could see.
NilMeansDelivered ==
    \A r \in Receiver, e \in Event :
        outcome[r][e] = "nil" /\ KindOf(r) \notin Lenient =>
            received[r][e] # "none" \/ <<r, e>> \in misled

\* The receivers get copies of one event whose maps are the same: each service
\* gets the keys with or without dots as its own receiver is configured, and
\* never because another receiver dedots (event.go:23, channel_registry.go:32).
BodyAsConfigured ==
    \A r \in Receiver, e \in Event :
        received[r][e] # "none" =>
            received[r][e] = IF Dedots(r) THEN "dedotted" ELSE "plain"

=============================================================================
