---------------------------- MODULE SinksProofs ----------------------------
(****************************************************************************)
(* Theorems about SinkClients, and with it about Sinks: for any number of   *)
(* receivers and events, and every configuration of every kind of sink.     *)
(****************************************************************************)
EXTENDS SinkClients, FiniteSetTheorems, SequenceTheorems, TLAPS

USE ConfigurationsAssumption, NoneAssumption

-----------------------------------------------------------------------------
(* The inductive invariant of Send *)

\* The body a receiver's sink is configured to send.
OwnBody(r) == IF Dedots(r) THEN "dedotted" ELSE "plain"

\* The maps all events share are never written to.
LabelInv == \A e \in Event : labels[e] = "plain"

\* What is known of the Send under way.
SendInv ==
    \A r \in Receiver :
        /\ pc[r] # "idle" => outcome[r][event[r]] = "sending"
        /\ body[r] \in {"none", OwnBody(r)}
        /\ pc[r] = "reply" => reply[r] \in RepliesTo(KindOf(r))
        /\ pc[r] = "reply" /\ reply[r] \in Taken => received[r][event[r]] # "none"
        /\ pc[r] = "reply" /\ reply[r] \in Blind(KindOf(r)) =>
              <<r, event[r]>> \in misled

SingleWebhook ==
    \A q, r \in Receiver : KindOf(q) = "webhook" /\ KindOf(r) = "webhook" => q = r

\* With one webhook the client has its transport from the store on.
TransportInv ==
    /\ \A r \in Receiver : pc[r] \in {"store", "storeData"} => KindOf(r) = "webhook"
    /\ SingleWebhook => \A r \in Receiver :
         KindOf(r) = "webhook" =>
            (pc[r] = "do" => shared = r) /\ (pc[r] = "reply" => used[r] = r)

SendIInv ==
    /\ TypeOK
    /\ LabelInv
    /\ SendInv
    /\ TransportInv
    /\ NilMeansDelivered
    /\ BodyAsConfigured

LEMMA InitSendIInv == Init => SendIInv
  <1> SUFFICES ASSUME Init PROVE SendIInv
    OBVIOUS
  <1>1. TypeOK
    BY DEF Init, TypeOK, Reply, Taken, NotTaken
  <1>2. LabelInv /\ SendInv /\ TransportInv
    BY DEF Init, LabelInv, SendInv, TransportInv
  <1>3. NilMeansDelivered /\ BodyAsConfigured
    BY DEF Init, NilMeansDelivered, BodyAsConfigured
  <1> QED
    BY <1>1, <1>2, <1>3 DEF SendIInv

\* What a receiver's sink is, and what it is to send, follows from its
\* configuration alone.
LEMMA SameConfiguration ==
  ASSUME UNCHANGED conf
  PROVE  \A r \in Receiver :
            /\ KindOf(r)' = KindOf(r)
            /\ Dedots(r)' = Dedots(r)
            /\ OwnBody(r)' = OwnBody(r)
            /\ SingleWebhook' = SingleWebhook
  <1>1. \A r \in Receiver : KindOf(r)' = KindOf(r)
    BY DEF KindOf
  <1>2. \A r \in Receiver : Dedots(r)' = Dedots(r)
    BY <1>1 DEF Dedots
  <1>3. \A r \in Receiver : OwnBody(r)' = OwnBody(r)
    BY <1>2 DEF OwnBody
  <1>4. SingleWebhook' = SingleWebhook
    BY <1>1 DEF SingleWebhook
  <1> QED
    BY <1>1, <1>2, <1>3, <1>4

\* A sink that is not lenient answers nil only to a reply that says its event
\* was taken, truly or so that the sink cannot tell.
LEMMA NilOfTaken ==
  ASSUME NEW kind, kind \notin Lenient,
         NEW answer \in RepliesTo(kind), answer \in NilReplies(kind)
  PROVE  answer \in Taken \cup Blind(kind)
  <1>1. CASE kind \in {"webhook", "loki"}
    BY <1>1 DEF NilReplies, WebhookNil, LokiNil, Blind, Taken
  <1>2. CASE kind = "syslog"
    BY <1>2 DEF NilReplies, SyslogNil, Blind, Taken
  <1>3. CASE kind \notin {"webhook", "loki", "syslog"}
    <2>1. NilReplies(kind) = ClientNil
      BY <1>3 DEF NilReplies, Lenient
    <2> QED
      BY <2>1 DEF ClientNil, Taken
  <1> QED
    BY <1>1, <1>2, <1>3

LEMMA BeginStep ==
  ASSUME SendIInv, NEW r \in Receiver, NEW e \in Event, Begin(r, e)
  PROVE  SendIInv'
  <1>1. /\ pc[r] = "idle" /\ body[r] = "none" /\ outcome[r][e] = "none"
        /\ UNCHANGED <<conf, running, shared, labels, body, used, reply, received,
                       misled>>
    BY DEF SendIInv, TypeOK, Begin
  <1>2. TypeOK'
    BY <1>1 DEF SendIInv, TypeOK, Begin
  <1>3. LabelInv' /\ TransportInv'
    BY <1>1, SameConfiguration DEF SendIInv, TypeOK, LabelInv, TransportInv, Begin
  <1>4. SendInv'
    BY <1>1, SameConfiguration DEF SendIInv, TypeOK, SendInv, Begin
  <1>5. NilMeansDelivered'
    BY <1>1, SameConfiguration DEF SendIInv, TypeOK, NilMeansDelivered, Begin
  <1>6. BodyAsConfigured'
    BY <1>1, SameConfiguration DEF SendIInv, BodyAsConfigured
  <1> QED
    BY <1>2, <1>3, <1>4, <1>5, <1>6 DEF SendIInv

\* A Send returns nil only with its event delivered, unless its sink is lenient.
LEMMA ReturnStep ==
  ASSUME SendIInv, NEW r \in Receiver, NEW result \in {"nil", "error"},
         pc[r] # "idle", Return(r, result),
         UNCHANGED <<conf, running, shared, labels, received, misled>>,
         result = "nil" /\ KindOf(r) \notin Lenient =>
            received[r][event[r]] # "none" \/ <<r, event[r]>> \in misled
  PROVE  SendIInv'
  <1>1. event[r] \in Event
    BY DEF SendIInv, TypeOK
  <1>2. TypeOK'
    BY <1>1 DEF SendIInv, TypeOK, Return
  <1>3. LabelInv' /\ TransportInv'
    BY SameConfiguration DEF SendIInv, TypeOK, LabelInv, TransportInv, Return
  <1>4. SendInv'
    BY <1>1, SameConfiguration DEF SendIInv, TypeOK, SendInv, Return
  <1>5. NilMeansDelivered'
    <2> SUFFICES ASSUME NEW q \in Receiver, NEW e \in Event,
                        outcome'[q][e] = "nil", KindOf(q)' \notin Lenient
                 PROVE  received'[q][e] # "none" \/ <<q, e>> \in misled'
      BY DEF NilMeansDelivered
    <2>1. /\ KindOf(q) \notin Lenient /\ received' = received /\ misled' = misled
          /\ outcome[q][e] = "nil" \/ (q = r /\ e = event[r] /\ result = "nil")
      BY <1>1, SameConfiguration DEF SendIInv, TypeOK, Return
    <2> QED
      BY <2>1 DEF SendIInv, NilMeansDelivered
  <1>6. BodyAsConfigured'
    BY SameConfiguration DEF SendIInv, BodyAsConfigured
  <1> QED
    BY <1>2, <1>3, <1>4, <1>5, <1>6 DEF SendIInv

LEMMA PrepareStep ==
  ASSUME SendIInv, NEW r \in Receiver, Prepare(r)
  PROVE  SendIInv'
  <1>1. /\ event[r] \in Event
        /\ labels[event[r]] = "plain"
        /\ UNCHANGED <<conf, running, shared, labels, event, used, reply, outcome,
                       received, misled>>
    BY DEF SendIInv, TypeOK, LabelInv, Prepare, DeDot
  <1>2. body' = [body EXCEPT ![r] = OwnBody(r)]
    BY <1>1 DEF Prepare, OwnBody
  <1>3. /\ pc[r] = "prepare"
        /\ pc' = [pc EXCEPT ![r] = IF KindOf(r) = "webhook" THEN "store" ELSE "do"]
    BY DEF Prepare
  <1>4. OwnBody(r) \in {"plain", "dedotted"}
    BY DEF OwnBody
  <1>5. TypeOK'
    BY <1>1, <1>2, <1>3, <1>4 DEF SendIInv, TypeOK
  <1>6. LabelInv' /\ TransportInv'
    BY <1>1, <1>3, SameConfiguration DEF SendIInv, TypeOK, LabelInv, TransportInv
  <1>7. SendInv'
    BY <1>1, <1>2, <1>3, <1>4, SameConfiguration DEF SendIInv, TypeOK, SendInv
  <1>8. NilMeansDelivered' /\ BodyAsConfigured'
    BY <1>1, SameConfiguration DEF SendIInv, NilMeansDelivered, BodyAsConfigured
  <1> QED
    BY <1>5, <1>6, <1>7, <1>8 DEF SendIInv

\* Only a webhook stores: with one of them the transport of another that sends
\* cannot be overwritten.
LEMMA StoreStep ==
  ASSUME SendIInv, NEW r \in Receiver, StoreType(r) \/ StoreData(r)
  PROVE  SendIInv'
  <1>1. /\ pc[r] \in {"store", "storeData"} /\ KindOf(r) = "webhook"
        /\ pc' = [pc EXCEPT ![r] = "storeData"] \/ pc' = [pc EXCEPT ![r] = "do"]
        /\ UNCHANGED <<conf, running, labels, event, body, used, reply, outcome,
                       received, misled>>
    BY DEF SendIInv, TransportInv, StoreType, StoreData
  <1>2. TypeOK'
    <2>1. shared' \in Receiver \cup {Default, Torn}
      BY DEF SendIInv, TypeOK, StoreType, StoreData
    <2>2. pc' \in [Receiver -> {"idle", "prepare", "store", "storeData", "do",
                               "reply"}]
      BY <1>1 DEF SendIInv, TypeOK
    <2>3. ASSUME NEW q \in Receiver
          PROVE  /\ event'[q] = NoEvent <=> pc'[q] = "idle"
                 /\ body'[q] = "none" <=> pc'[q] \in {"idle", "prepare"}
      <3>1. /\ event'[q] = event[q] /\ body'[q] = body[q]
            /\ pc'[q] = pc[q] \/ (q = r /\ pc'[q] \in {"storeData", "do"})
        <4>1. DOMAIN pc = Receiver
          BY DEF SendIInv, TypeOK
        <4> QED
          BY <1>1, <4>1
      <3>2. /\ event[q] = NoEvent <=> pc[q] = "idle"
            /\ body[q] = "none" <=> pc[q] \in {"idle", "prepare"}
        BY DEF SendIInv, TypeOK
      <3> QED
        BY <1>1, <3>1, <3>2
    <2>4. running' \in BOOLEAN
      BY <1>1, Zenon DEF SendIInv, TypeOK
    <2>5. conf' = conf /\ labels' = labels /\ event' = event /\ body' = body
          /\ used' = used /\ reply' = reply /\ outcome' = outcome /\ received' = received
          /\ misled' = misled
          /\ misled' = misled
      BY <1>1
    <2> QED
      BY <2>1, <2>2, <2>3, <2>4, <2>5, Zenon DEF SendIInv, TypeOK
  <1>3. LabelInv' /\ NilMeansDelivered' /\ BodyAsConfigured'
    BY <1>1, SameConfiguration
       DEF SendIInv, LabelInv, NilMeansDelivered, BodyAsConfigured
  <1>4. SendInv'
    BY <1>1, SameConfiguration DEF SendIInv, TypeOK, SendInv
  <1>5. \A q \in Receiver : pc'[q] \in {"store", "storeData"} => KindOf(q) = "webhook"
    BY <1>1 DEF SendIInv, TypeOK, TransportInv
  <1>6. ASSUME SingleWebhook, NEW q \in Receiver, KindOf(q) = "webhook"
        PROVE  (pc'[q] = "do" => shared' = q) /\ (pc'[q] = "reply" => used'[q] = q)
    <2>1. q = r
      BY <1>1, <1>6 DEF SingleWebhook
    <2> QED
      BY <1>1, <2>1 DEF SendIInv, TypeOK, StoreType, StoreData
  <1>7. TransportInv'
    BY <1>1, <1>5, <1>6, SameConfiguration DEF TransportInv
  <1> QED
    BY <1>2, <1>3, <1>4, <1>7 DEF SendIInv

LEMMA DoStep ==
  ASSUME SendIInv, NEW r \in Receiver, NEW answer \in Reply, Do(r, answer)
  PROVE  SendIInv'
  <1>1. /\ event[r] \in Event
        /\ body[r] = OwnBody(r) /\ body[r] # "none"
        /\ pc[r] = "do"
        /\ UNCHANGED <<conf, running, shared, labels, event, body, outcome>>
    <2>1. /\ pc[r] = "do"
          /\ UNCHANGED <<conf, running, shared, labels, event, body, outcome>>
      BY DEF Do
    <2>2. event[r] \in Event /\ body[r] # "none"
      BY <2>1 DEF SendIInv, TypeOK
    <2>3. body[r] \in {"none", OwnBody(r)}
      BY DEF SendIInv, SendInv
    <2> QED
      BY <2>1, <2>2, <2>3
  <1>2. TransportFor(r) \in Receiver \cup {Default}
    BY DEF SendIInv, TypeOK, Do, TransportFor
  <1>3. received' = [received EXCEPT ![r][event[r]] =
                        IF answer \in Taken THEN body[r] ELSE @]
    BY DEF Do
  <1>4. received' \in [Receiver -> [Event -> {"none", "plain", "dedotted"}]]
    BY <1>1, <1>3 DEF SendIInv, TypeOK
  <1>5. TypeOK'
    <2>1. misled' \subseteq Receiver \X Event
      BY <1>1 DEF SendIInv, TypeOK, Do
    <2> QED
      BY <1>1, <1>2, <1>4, <2>1 DEF SendIInv, TypeOK, Do
  <1>6. ASSUME NEW q \in Receiver, NEW e \in Event
        PROVE  /\ received[q][e] # "none" => received'[q][e] # "none"
               /\ received'[q][e] \in {received[q][e], OwnBody(q)}
               /\ q = r /\ e = event[r] /\ answer \in Taken =>
                    received'[q][e] # "none"
    BY <1>1, <1>3 DEF SendIInv, TypeOK
  <1>7. LabelInv'
    BY <1>1 DEF SendIInv, LabelInv
  <1>8. /\ misled \subseteq misled'
        /\ answer \in Blind(KindOf(r)) => <<r, event[r]>> \in misled'
    BY DEF Do
  <1>9. TransportInv'
    BY <1>1, <1>2, SameConfiguration DEF SendIInv, TypeOK, TransportInv, Do, TransportFor
  <1>10. SendInv'
    <2> SUFFICES ASSUME NEW q \in Receiver
                 PROVE  /\ pc'[q] # "idle" => outcome'[q][event'[q]] = "sending"
                        /\ body'[q] \in {"none", OwnBody(q)}
                        /\ pc'[q] = "reply" => reply'[q] \in RepliesTo(KindOf(q))
                        /\ pc'[q] = "reply" /\ reply'[q] \in Taken =>
                              received'[q][event'[q]] # "none"
                        /\ pc'[q] = "reply" /\ reply'[q] \in Blind(KindOf(q)) =>
                              <<q, event'[q]>> \in misled'
      BY <1>1, SameConfiguration DEF SendInv
    <2>1. CASE q = r
      BY <1>1, <1>6, <1>8, <2>1 DEF SendIInv, TypeOK, SendInv, Do
    <2>2. CASE q # r
      BY <1>1, <1>6, <1>8, <2>2 DEF SendIInv, TypeOK, SendInv, Do
    <2> QED
      BY <2>1, <2>2
  <1>11. NilMeansDelivered'
    <2> SUFFICES ASSUME NEW q \in Receiver, NEW e \in Event,
                        outcome'[q][e] = "nil", KindOf(q)' \notin Lenient
                 PROVE  received'[q][e] # "none" \/ <<q, e>> \in misled'
      BY DEF NilMeansDelivered
    <2>1. outcome[q][e] = "nil" /\ KindOf(q) \notin Lenient
      BY <1>1, SameConfiguration
    <2>2. received[q][e] # "none" \/ <<q, e>> \in misled
      BY <2>1 DEF SendIInv, NilMeansDelivered
    <2> QED
      BY <1>6, <1>8, <2>2
  <1>12. BodyAsConfigured'
    BY <1>1, <1>6, SameConfiguration DEF SendIInv, BodyAsConfigured, OwnBody
  <1> QED
    BY <1>5, <1>7, <1>9, <1>10, <1>11, <1>12 DEF SendIInv

\* A step that leaves all but running alone: a panic, or a constructor at work.
LEMMA RunningStep ==
  ASSUME SendIInv, running' \in BOOLEAN,
         UNCHANGED <<conf, shared, labels, sendVars, outcome, received, misled>>
  PROVE  SendIInv'
  <1>1. TypeOK'
    BY DEF SendIInv, TypeOK, sendVars
  <1>2. LabelInv' /\ NilMeansDelivered' /\ BodyAsConfigured'
    BY SameConfiguration
       DEF SendIInv, LabelInv, NilMeansDelivered, BodyAsConfigured
  <1>3. SendInv'
    BY SameConfiguration DEF SendIInv, SendInv, sendVars
  <1>4. TransportInv'
    BY SameConfiguration DEF SendIInv, TransportInv, sendVars
  <1> QED
    BY <1>1, <1>2, <1>3, <1>4 DEF SendIInv

LEMMA StepSendIInv == SendIInv /\ [Next]_vars => SendIInv'
  <1> SUFFICES ASSUME SendIInv, [Next]_vars PROVE SendIInv'
    OBVIOUS
  <1>1. ASSUME NEW r \in Receiver, NEW e \in Event, Begin(r, e) PROVE SendIInv'
    BY <1>1, BeginStep
  <1>2. ASSUME NEW r \in Receiver, PreparePanics(r) \/ DoPanics(r) PROVE SendIInv'
    BY <1>2, RunningStep DEF PreparePanics, DoPanics
  <1>3. ASSUME NEW r \in Receiver, NEW part \in Part, PrepareFails(r, part)
        PROVE  SendIInv'
    BY <1>3, ReturnStep DEF PrepareFails
  <1>4. ASSUME NEW r \in Receiver, Prepare(r) PROVE SendIInv'
    BY <1>4, PrepareStep
  <1>5. ASSUME NEW r \in Receiver, StoreType(r) \/ StoreData(r) PROVE SendIInv'
    BY <1>5, StoreStep
  <1>6. ASSUME NEW r \in Receiver, NEW answer \in Reply, Do(r, answer) PROVE SendIInv'
    BY <1>6, DoStep
  <1>7. ASSUME NEW r \in Receiver, Answer(r) PROVE SendIInv'
    <2> DEFINE result == IF reply[r] \in NilReplies(KindOf(r)) THEN "nil" ELSE "error"
    <2>1. pc[r] = "reply" /\ Return(r, result)
      BY <1>7 DEF Answer
    <2>2. UNCHANGED <<conf, running, shared, labels, received, misled>>
      BY <1>7 DEF Answer
    <2>3. result = "nil" /\ KindOf(r) \notin Lenient =>
             received[r][event[r]] # "none" \/ <<r, event[r]>> \in misled
      BY <2>1, NilOfTaken DEF SendIInv, SendInv
    <2>4. result \in {"nil", "error"}
      OBVIOUS
    <2> HIDE DEF result
    <2> QED
      BY <2>1, <2>2, <2>3, <2>4, ReturnStep
  <1>8. CASE UNCHANGED vars
    <2>1. running' \in BOOLEAN
      BY <1>8, Zenon DEF SendIInv, TypeOK, vars
    <2> QED
      BY <1>8, <2>1, RunningStep DEF vars, sendVars
  <1> QED
    BY <1>1, <1>2, <1>3, <1>4, <1>5, <1>6, <1>7, <1>8 DEF Next

-----------------------------------------------------------------------------
(* What GetSink finds *)

\* The least of some numbers.  FiniteSetTheorems has the order by inclusion of
\* the finite sets well-founded; the number n is taken there as 0 .. n - 1.
LEMMA LeastNatural ==
  ASSUME NEW S \in SUBSET Nat, S # {}
  PROVE  \E n \in S : \A m \in S : n <= m
  <1> DEFINE R == StrictSubsetOrdering(Nat)
             T == {0 .. n - 1 : n \in S}
  <1>1. IsWellFoundedOn(R, FiniteSubsetsOf(Nat))
    BY FS_StrictSubsetOrderingWellFounded
  <1>2. T \subseteq FiniteSubsetsOf(Nat) /\ T # {}
    <2>1. ASSUME NEW n \in S PROVE 0 .. n - 1 \in FiniteSubsetsOf(Nat)
      <3>1. IsFiniteSet(0 .. n - 1) /\ 0 .. n - 1 \subseteq Nat
        BY FS_Interval
      <3> QED
        BY <3>1 DEF FiniteSubsetsOf
    <2> QED
      BY <2>1
  <1>3. PICK I \in T : \A J \in T : <<J, I>> \notin R
    <2> HIDE DEF R, T
    <2> QED
      BY <1>1, <1>2, WFMin
  <1>4. PICK n \in S : I = 0 .. n - 1
    OBVIOUS
  <1>5. ASSUME NEW m \in S PROVE n <= m
    <2> SUFFICES ASSUME m < n PROVE FALSE
      OBVIOUS
    <2>1. 0 .. m - 1 \in SUBSET Nat /\ I \in SUBSET Nat /\ 0 .. m - 1 \in T
      BY <1>4
    <2>2. 0 .. m - 1 \subseteq I /\ m \in I /\ m \notin 0 .. m - 1
      BY <1>4
    <2>3. <<0 .. m - 1, I>> \in R
      BY <2>1, <2>2 DEF StrictSubsetOrdering
    <2> QED
      BY <1>3, <2>1, <2>3
  <1> QED
    BY <1>5

\* A receiver that has a sink configured gets one of a known kind.
LEMMA KindKnown ==
  ASSUME TypeOK, NEW r \in Receiver
  PROVE  KindOf(r) \in Kind
  <1> DEFINE S == {i \in DOMAIN KindOrder : KindOrder[i] \in conf[r].sinks}
             First(i) == /\ KindOrder[i] \in conf[r].sinks
                         /\ \A j \in 1 .. i - 1 : KindOrder[j] \notin conf[r].sinks
  <1>1. DOMAIN KindOrder = 1 .. 21
    BY DEF KindOrder
  <1>2. conf[r].sinks \subseteq Kind /\ conf[r].sinks # {}
    BY DEF TypeOK
  <1>3. S \in SUBSET Nat /\ S # {}
    BY <1>1, <1>2 DEF Kind
  <1>4. PICK n \in S : \A m \in S : n <= m
    <2> HIDE DEF S
    <2> QED
      BY <1>3, LeastNatural
  <1>5. First(n)
    BY <1>1, <1>4
  <1>6. (CHOOSE i \in DOMAIN KindOrder : First(i)) \in DOMAIN KindOrder
    <2> HIDE DEF First
    <2> QED
      BY <1>4, <1>5
  <1>7. KindOf(r) = KindOrder[CHOOSE i \in DOMAIN KindOrder : First(i)]
    BY DEF KindOf, GetSink
  <1> HIDE DEF First
  <1> QED
    BY <1>6, <1>7 DEF Kind

LEMMA Kinds ==
  Kind = {"inMemory", "pipe", "webhook", "file", "syslog", "stdout",
          "elasticsearch", "kinesis", "firehose", "opensearch", "opsgenie", "sqs",
          "sns", "slack", "kafka", "pubsub", "opscenter", "teams", "bigquery",
          "eventbridge", "loki"}
  <1>1. DOMAIN KindOrder = 1 .. 21
    BY DEF KindOrder
  <1> QED
    BY <1>1 DEF Kind, KindOrder

-----------------------------------------------------------------------------
(* Constructors *)

StepName == {"tls", "transport", "client", "queueURL", "version", "sasl", "producer",
             "encoder", "topic", "publisher", "required", "dataset", "writer", "file",
             "connection"}

\* What the first n steps of the constructor have made.
Made(r, n) == {Steps(r)[i] : i \in 1 .. n} \cap Product

LEMMA KafkaStepsAre ==
  ASSUME NEW c
  PROVE  KafkaSteps(c) = IF "avro" \in c.parts
            THEN <<"version", "tls", "sasl", "producer", "encoder">>
            ELSE <<"version", "tls", "sasl", "producer">>
  <1>1. CASE "avro" \notin c.parts
    BY <1>1 DEF KafkaSteps
  <1>2. CASE "avro" \in c.parts
    <2> DEFINE s == <<"version", "tls", "sasl", "producer">> \o <<"encoder">>
               t == <<"version", "tls", "sasl", "producer", "encoder">>
    <2>1. s \in Seq(StepName) /\ t \in Seq(StepName)
      BY DEF StepName
    <2>2. Len(s) = 5 /\ Len(t) = 5 /\ \A i \in 1 .. 5 : s[i] = t[i]
      OBVIOUS
    <2>3. s = t
      <3> HIDE DEF s, t, StepName
      <3> QED
        BY <2>1, <2>2, SeqEqual
    <2> QED
      BY <1>2, <2>3 DEF KafkaSteps
  <1> QED
    BY <1>1, <1>2

LEMMA PubsubStepsAre ==
  ASSUME NEW c
  PROVE  PubsubSteps(c) = IF "createTopic" \in c.options
            THEN <<"client", "topic", "publisher">> ELSE <<"client", "publisher">>
  <1>1. <<"client">> \o <<>> \o <<"publisher">> = <<"client", "publisher">>
    <2> DEFINE s == <<"client">> \o <<>> \o <<"publisher">>
               t == <<"client", "publisher">>
    <2>1. s \in Seq(StepName) /\ t \in Seq(StepName)
      BY DEF StepName
    <2>2. Len(s) = 2 /\ Len(t) = 2 /\ \A i \in 1 .. 2 : s[i] = t[i]
      OBVIOUS
    <2>3. s = t
      <3> HIDE DEF s, t, StepName
      <3> QED
        BY <2>1, <2>2, SeqEqual
    <2> QED
      BY <2>3
  <1>2. <<"client">> \o <<"topic">> \o <<"publisher">> =
            <<"client", "topic", "publisher">>
    <2> DEFINE s == <<"client">> \o <<"topic">> \o <<"publisher">>
               t == <<"client", "topic", "publisher">>
    <2>1. s \in Seq(StepName) /\ t \in Seq(StepName)
      BY DEF StepName
    <2>2. Len(s) = 3 /\ Len(t) = 3 /\ \A i \in 1 .. 3 : s[i] = t[i]
      OBVIOUS
    <2>3. s = t
      <3> HIDE DEF s, t, StepName
      <3> QED
        BY <2>1, <2>2, SeqEqual
    <2> QED
      BY <2>3
  <1> QED
    BY <1>1, <1>2 DEF PubsubSteps

LEMMA StepsNamed ==
  ASSUME NEW r \in Receiver
  PROVE  /\ Steps(r) \in Seq(StepName)
         /\ Len(Steps(r)) \in Nat
         /\ \A i \in 1 .. Len(Steps(r)) : Steps(r)[i] \in StepName
  <1>1. KafkaSteps(conf[r]) \in Seq(StepName)
    <2>1. /\ <<"version", "tls", "sasl", "producer", "encoder">> \in Seq(StepName)
          /\ <<"version", "tls", "sasl", "producer">> \in Seq(StepName)
      BY DEF StepName
    <2> QED
      BY <2>1, KafkaStepsAre
  <1>2. PubsubSteps(conf[r]) \in Seq(StepName)
    <2>1. /\ <<"client", "topic", "publisher">> \in Seq(StepName)
          /\ <<"client", "publisher">> \in Seq(StepName)
      BY DEF StepName
    <2> QED
      BY <2>1, PubsubStepsAre
  <1>3. /\ {HTTPSteps, SearchSteps, AWSSteps, SQSSteps, BigQuerySteps} \subseteq
              Seq(StepName)
        /\ {<<"client">>, <<"file">>, <<"connection">>, <<>>} \subseteq Seq(StepName)
    BY DEF HTTPSteps, SearchSteps, AWSSteps, SQSSteps, BigQuerySteps, StepName
  <1>4. Steps(r) \in Seq(StepName)
    BY <1>1, <1>2, <1>3 DEF Steps
  <1> QED
    BY <1>4

\* All that the Send of a sink calls is there once its constructor is through.
LEMMA AllThatIsUsed ==
  ASSUME NEW r \in Receiver, KindOf(r) \in Kind
  PROVE  Uses(r) \subseteq Made(r, Len(Steps(r)))
  <1>1. CASE KindOf(r) = "kafka"
    <2>1. CASE "avro" \in conf[r].parts
      <3>1. Steps(r) = <<"version", "tls", "sasl", "producer", "encoder">>
        BY <1>1, <2>1, KafkaStepsAre DEF Steps
      <3>2. Uses(r) \subseteq {Steps(r)[4], Steps(r)[5]}
        BY <1>1, <3>1 DEF Uses
      <3> QED
        BY <3>1, <3>2 DEF Made, Product
    <2>2. CASE "avro" \notin conf[r].parts
      <3>1. Steps(r) = <<"version", "tls", "sasl", "producer">>
        BY <1>1, <2>2, KafkaStepsAre DEF Steps
      <3>2. KafkaParts(conf[r].parts) # {"avro"}
        BY <2>2 DEF KafkaParts
      <3>3. Uses(r) \subseteq {Steps(r)[4]}
        BY <1>1, <3>1, <3>2 DEF Uses
      <3> QED
        BY <3>1, <3>3 DEF Made, Product
    <2> QED
      BY <2>1, <2>2
  <1>2. CASE KindOf(r) = "pubsub"
    <2>1. CASE Steps(r) = <<"client", "topic", "publisher">>
      <3>1. Uses(r) = {Steps(r)[1], Steps(r)[3]}
        BY <1>2, <2>1 DEF Uses
      <3> QED
        BY <2>1, <3>1 DEF Made, Product
    <2>2. CASE Steps(r) = <<"client", "publisher">>
      <3>1. Uses(r) = {Steps(r)[1], Steps(r)[2]}
        BY <1>2, <2>2 DEF Uses
      <3> QED
        BY <2>2, <3>1 DEF Made, Product
    <2> QED
      BY <1>2, <2>1, <2>2, PubsubStepsAre DEF Steps
  <1>3. CASE KindOf(r) = "bigquery"
    <2>1. Steps(r) = BigQuerySteps /\ Uses(r) = {Steps(r)[3]}
      BY <1>3 DEF Steps, Uses, BigQuerySteps
    <2> QED
      BY <2>1 DEF Made, Product, BigQuerySteps
  <1>4. CASE KindOf(r) \in {"webhook", "loki", "elasticsearch", "opensearch", "sqs"}
    <2>1. Len(Steps(r)) = 2 /\ Uses(r) \subseteq {Steps(r)[1], Steps(r)[2]}
      BY <1>4 DEF Steps, Uses, HTTPSteps, SearchSteps, SQSSteps
    <2>2. Uses(r) \subseteq Product
      BY <1>4 DEF Uses, Product
    <2> QED
      BY <2>1, <2>2 DEF Made
  <1>5. CASE KindOf(r) \in {"sns", "kinesis", "firehose", "opscenter", "eventbridge",
                            "opsgenie", "pipe", "file", "syslog"}
    <2>1. Len(Steps(r)) = 1 /\ Uses(r) = {Steps(r)[1]} /\ Uses(r) \subseteq Product
      BY <1>5 DEF Steps, Uses, AWSSteps, Product
    <2> QED
      BY <2>1 DEF Made
  <1>6. CASE KindOf(r) \in {"teams", "slack", "stdout", "inMemory"}
    BY <1>6 DEF Uses
  <1> QED
    BY <1>1, <1>2, <1>3, <1>4, <1>5, <1>6, Kinds

\* A constructor makes what must be closed last: of the others only Kafka's goes
\* on to the encoder, and Pub/Sub's to the topic and a step that cannot fail.
LEMMA MadeLast ==
  ASSUME NEW r \in Receiver, KindOf(r) \in Kind,
         NEW i \in 1 .. Len(Steps(r)), Steps(r)[i] \in MustClose(r)
  PROVE  /\ Steps(r)[i] \in Closes(KindOf(r))
         /\ \A j \in i + 1 .. Len(Steps(r)) :
                \/ Steps(r)[j] = "encoder"
                \/ Steps(r)[j] = "topic" /\ Steps(r)[i] = "client"
                \/ Steps(r)[j] = "publisher"
  <1>1. CASE KindOf(r) = "kafka"
    <2>1. Steps(r) \in {<<"version", "tls", "sasl", "producer", "encoder">>,
                        <<"version", "tls", "sasl", "producer">>}
      BY <1>1, KafkaStepsAre DEF Steps
    <2>2. i = 4 /\ Steps(r)[4] = "producer"
      BY <1>1, <2>1 DEF MustClose
    <2>3. \A j \in 5 .. Len(Steps(r)) : Steps(r)[j] = "encoder"
      BY <2>1
    <2> QED
      BY <1>1, <2>2, <2>3 DEF Closes
  <1>2. CASE KindOf(r) = "pubsub"
    <2>1. CASE Steps(r) = <<"client", "topic", "publisher">>
      BY <1>2, <2>1 DEF MustClose, Closes
    <2>2. CASE Steps(r) = <<"client", "publisher">>
      BY <1>2, <2>2 DEF MustClose, Closes
    <2> QED
      BY <1>2, <2>1, <2>2, PubsubStepsAre DEF Steps
  <1>3. CASE KindOf(r) = "bigquery"
    BY <1>3 DEF Steps, MustClose, Closes, BigQuerySteps
  <1>4. CASE KindOf(r) \in {"webhook", "loki", "elasticsearch", "opensearch", "sqs"}
    <2>1. Steps(r) \in {HTTPSteps, SearchSteps, SQSSteps}
      BY <1>4 DEF Steps
    <2>2. Steps(r)[i] \in {"tls", "transport", "client", "queueURL"}
      BY <2>1 DEF HTTPSteps, SearchSteps, SQSSteps
    <2> QED
      BY <1>4, <2>2 DEF MustClose
  <1>5. CASE KindOf(r) \in {"sns", "kinesis", "firehose", "opscenter", "eventbridge",
                            "opsgenie", "pipe", "file", "syslog"}
    <2>1. Len(Steps(r)) = 1 /\ i = 1
      BY <1>5 DEF Steps, AWSSteps
    <2>2. Steps(r)[1] \in Closes(KindOf(r)) \/ Steps(r)[1] = "client"
      BY <1>5 DEF Steps, Closes, AWSSteps
    <2>3. "client" \notin MustClose(r)
      BY <1>5 DEF MustClose
    <2> QED
      BY <2>1, <2>2, <2>3
  <1>6. CASE KindOf(r) \in {"teams", "slack", "stdout", "inMemory"}
    <2>1. Steps(r) = <<>>
      BY <1>6 DEF Steps
    <2> QED
      BY <2>1
  <1> QED
    BY <1>1, <1>2, <1>3, <1>4, <1>5, <1>6, Kinds

\* What must be closed is closed by the Close of its sink,
LEMMA ClosedWithSink ==
  ASSUME NEW r \in Receiver, KindOf(r) \in Kind
  PROVE  (Made(r, Len(Steps(r))) \ Closes(KindOf(r))) \cap MustClose(r) = {}
  BY MadeLast DEF Made

\* and by a constructor that fails, if not at the encoder.
LEMMA ClosedOnFailure ==
  ASSUME NEW r \in Receiver, KindOf(r) \in Kind, NEW n \in 0 .. Len(Steps(r)) - 1,
         MustFail(r, Steps(r)[n + 1]) \/ MayFail(r, Steps(r)[n + 1]),
         Steps(r)[n + 1] # "encoder"
  PROVE  (Made(r, n) \ ClosedOnError(Steps(r)[n + 1])) \cap MustClose(r) = {}
  <1> SUFFICES ASSUME NEW i \in 1 .. n, Steps(r)[i] \in MustClose(r)
               PROVE  Steps(r)[i] \in ClosedOnError(Steps(r)[n + 1])
    BY DEF Made
  <1>1. i \in 1 .. Len(Steps(r)) /\ n + 1 \in i + 1 .. Len(Steps(r))
    BY StepsNamed
  <1>2. Steps(r)[n + 1] # "publisher"
    BY DEF MustFail, MayFail
  <1>3. Steps(r)[n + 1] = "topic" /\ Steps(r)[i] = "client"
    BY <1>1, <1>2, MadeLast
  <1> QED
    BY <1>3 DEF ClosedOnError

-----------------------------------------------------------------------------
(* The inductive invariant of the clients *)

\* A constructor that has done n of its steps.
MakingAt(r, n) ==
    /\ held[r] = Made(r, n)
    /\ Len(rest[r]) = Len(Steps(r)) - n
    /\ \A i \in 1 .. Len(rest[r]) : rest[r][i] = Steps(r)[n + i]

\* What a receiver holds follows from how far its life has come.
LifeInvOf(r) ==
    /\ pc[r] # "idle" => life[r] = "open"
    /\ life[r] = "new" => held[r] = {}
    /\ life[r] = "making" => \E n \in 0 .. Len(Steps(r)) : MakingAt(r, n)
    /\ life[r] = "open" => held[r] = Made(r, Len(Steps(r)))
    /\ life[r] = "closed" => held[r] \cap MustClose(r) = {}
    /\ life[r] = "failed" /\ Head(rest[r]) # "encoder" =>
            held[r] \cap MustClose(r) = {}

LifeInv == \A r \in Receiver : LifeInvOf(r)

LifeTypeOK ==
    /\ life \in [Receiver -> {"new", "making", "open", "closed", "failed"}]
    /\ rest \in [Receiver -> Seq(StepName)]
    /\ held \in [Receiver -> SUBSET Product]

IInv == SendIInv /\ LifeTypeOK /\ LifeInv

LEMMA InitIInv == ClientsInit => IInv
  <1> SUFFICES ASSUME ClientsInit PROVE IInv
    OBVIOUS
  <1>1. SendIInv
    BY InitSendIInv DEF ClientsInit
  <1>2. LifeTypeOK
    <2>1. <<>> \in Seq(StepName)
      OBVIOUS
    <2> QED
      BY <2>1 DEF ClientsInit, LifeTypeOK
  <1>3. LifeInv
    BY DEF ClientsInit, Init, LifeInv, LifeInvOf
  <1> QED
    BY <1>1, <1>2, <1>3 DEF IInv

\* What is made, used and to be closed follows from the configuration alone.
LEMMA SameSteps ==
  ASSUME UNCHANGED conf, NEW r \in Receiver
  PROVE  /\ KindOf(r)' = KindOf(r)
         /\ Steps(r)' = Steps(r)
         /\ MustClose(r)' = MustClose(r)
         /\ \A n : Made(r, n)' = Made(r, n)
  <1>1. KindOf(r)' = KindOf(r)
    BY SameConfiguration
  <1>2. Steps(r)' = Steps(r)
    BY <1>1 DEF Steps
  <1>3. MustClose(r)' = MustClose(r)
    BY <1>1 DEF MustClose
  <1> QED
    BY <1>1, <1>2, <1>3 DEF Made

\* Another receiver, or one of which a step changes nothing.
LEMMA SameLife ==
  ASSUME UNCHANGED conf, NEW r \in Receiver, LifeInvOf(r),
         life'[r] = life[r], rest'[r] = rest[r], held'[r] = held[r],
         pc'[r] # pc[r] => life[r] = "open"
  PROVE  LifeInvOf(r)'
  <1>1. /\ Steps(r)' = Steps(r)
        /\ MustClose(r)' = MustClose(r)
        /\ \A n : Made(r, n)' = Made(r, n)
    BY SameSteps
  <1>2. \A n : MakingAt(r, n)' <=> MakingAt(r, n)
    BY <1>1 DEF MakingAt
  <1> QED
    BY <1>1, <1>2 DEF LifeInvOf

\* A step of the life of one receiver: the others keep theirs, and so does its
\* own if it is in order after the step.
LEMMA OneLife ==
  ASSUME IInv, NEW r \in Receiver,
         UNCHANGED <<conf, pc>>, SendIInv', LifeTypeOK', LifeInvOf(r)',
         \A q \in Receiver \ {r} :
            life'[q] = life[q] /\ rest'[q] = rest[q] /\ held'[q] = held[q]
  PROVE  IInv'
  <1>1. ASSUME NEW q \in Receiver \ {r} PROVE LifeInvOf(q)'
    <2>1. LifeInvOf(q) /\ pc'[q] = pc[q]
      BY DEF IInv, LifeInv
    <2> QED
      BY <2>1, SameLife
  <1> QED
    BY <1>1 DEF IInv, LifeInv

LEMMA GetNextSinkStep ==
  ASSUME IInv, NEW r \in Receiver, GetNextSink(r)
  PROVE  IInv'
  <1>1. /\ UNCHANGED <<conf, pc>> /\ SendIInv'
        /\ life[r] = "new"
    BY RunningStep, StepSendIInv DEF IInv, GetNextSink, vars
  <1>2. /\ life' = [life EXCEPT ![r] = "making"]
        /\ rest' = [rest EXCEPT ![r] = Steps(r)]
        /\ held' = [held EXCEPT ![r] = held[r]]
    BY DEF IInv, LifeTypeOK, GetNextSink
  <1>3. Steps(r) \in Seq(StepName) /\ Len(Steps(r)) \in Nat
    BY StepsNamed
  <1>4. /\ life'[r] = "making" /\ rest'[r] = Steps(r) /\ held'[r] = {}
        /\ pc'[r] = "idle"
    BY <1>1, <1>2, <1>3 DEF IInv, LifeTypeOK, LifeInv, LifeInvOf
  <1>5. MakingAt(r, 0)'
    <2>1. Made(r, 0)' = {} /\ Steps(r)' = Steps(r)
      BY <1>1, SameSteps DEF Made
    <2> QED
      BY <1>3, <1>4, <2>1 DEF MakingAt
  <1>6. LifeInvOf(r)'
    <2>1. Steps(r)' = Steps(r) /\ 0 \in 0 .. Len(Steps(r))
      BY <1>1, <1>3, SameSteps
    <2> QED
      BY <1>4, <1>5, <2>1 DEF LifeInvOf
  <1>7. held[r] \in SUBSET Product
    BY DEF IInv, LifeTypeOK
  <1>8. LifeTypeOK'
    BY <1>2, <1>3, <1>7 DEF IInv, LifeTypeOK
  <1>9. \A q \in Receiver \ {r} :
            life'[q] = life[q] /\ rest'[q] = rest[q] /\ held'[q] = held[q]
    BY <1>2 DEF IInv, LifeTypeOK
  <1> QED
    BY <1>1, <1>6, <1>8, <1>9, OneLife

LEMMA MakeStepStep ==
  ASSUME IInv, NEW r \in Receiver, MakeStep(r)
  PROVE  IInv'
  <1>1. /\ UNCHANGED <<conf, pc>> /\ SendIInv'
        /\ life[r] = "making" /\ rest[r] # <<>>
    BY StepSendIInv DEF IInv, MakeStep, vars
  <1>2. /\ rest[r] \in Seq(StepName) /\ held[r] \in SUBSET Product
        /\ Tail(rest[r]) \in Seq(StepName)
        /\ Len(rest[r]) \in Nat \ {0}
        /\ Len(Tail(rest[r])) = Len(rest[r]) - 1
        /\ Head(rest[r]) = rest[r][1]
        /\ \A i \in 1 .. Len(rest[r]) - 1 : Tail(rest[r])[i] = rest[r][i + 1]
    BY <1>1 DEF IInv, LifeTypeOK
  <1>3. /\ life' = [life EXCEPT ![r] = "making"]
        /\ rest' = [rest EXCEPT ![r] = Tail(rest[r])]
        /\ held' = [held EXCEPT ![r] = held[r] \cup ({Head(rest[r])} \cap Product)]
    BY <1>1 DEF IInv, LifeTypeOK, MakeStep
  <1>4. /\ life'[r] = "making" /\ rest'[r] = Tail(rest[r])
        /\ held'[r] = held[r] \cup ({Head(rest[r])} \cap Product)
        /\ pc'[r] = "idle"
    BY <1>1, <1>3 DEF IInv, LifeTypeOK, LifeInv, LifeInvOf
  <1>5. PICK n \in 0 .. Len(Steps(r)) : MakingAt(r, n)
    BY <1>1 DEF IInv, LifeInv, LifeInvOf
  <1>6. Len(Steps(r)) \in Nat /\ n + 1 \in 0 .. Len(Steps(r))
    BY <1>2, <1>5, StepsNamed DEF MakingAt
  <1>7. MakingAt(r, n + 1)'
    <2>1. Steps(r)' = Steps(r) /\ Made(r, n + 1)' = Made(r, n + 1)
      BY <1>1, SameSteps
    <2>2. Head(rest[r]) = Steps(r)[n + 1]
      BY <1>2, <1>5 DEF MakingAt
    <2>3. Made(r, n + 1) = Made(r, n) \cup ({Steps(r)[n + 1]} \cap Product)
      <3>1. 1 .. n + 1 = (1 .. n) \cup {n + 1}
        BY <1>6
      <3> QED
        BY <3>1 DEF Made
    <2>4. held'[r] = Made(r, n + 1)
      BY <1>4, <1>5, <2>2, <2>3 DEF MakingAt
    <2>5. Len(rest'[r]) = Len(Steps(r)) - (n + 1)
      BY <1>2, <1>4, <1>5, <1>6 DEF MakingAt
    <2>6. ASSUME NEW i \in 1 .. Len(rest'[r])
          PROVE  rest'[r][i] = Steps(r)[n + 1 + i]
      <3>1. i \in 1 .. Len(rest[r]) - 1 /\ i + 1 \in 1 .. Len(rest[r])
        BY <1>2, <1>4
      <3>2. rest'[r][i] = rest[r][i + 1]
        BY <1>2, <1>4, <3>1
      <3>3. rest[r][i + 1] = Steps(r)[n + (i + 1)]
        BY <1>5, <3>1 DEF MakingAt
      <3>4. n + (i + 1) = n + 1 + i
        BY <1>6
      <3> QED
        BY <3>2, <3>3, <3>4
    <2> QED
      BY <2>1, <2>4, <2>5, <2>6 DEF MakingAt
  <1>8. LifeInvOf(r)'
    <2>1. Steps(r)' = Steps(r)
      BY <1>1, SameSteps
    <2> QED
      BY <1>4, <1>6, <1>7, <2>1 DEF LifeInvOf
  <1>9. held[r] \cup ({Head(rest[r])} \cap Product) \in SUBSET Product
    BY <1>2
  <1>10. LifeTypeOK'
    BY <1>2, <1>3, <1>9 DEF IInv, LifeTypeOK
  <1>11. \A q \in Receiver \ {r} :
            life'[q] = life[q] /\ rest'[q] = rest[q] /\ held'[q] = held[q]
    BY <1>3 DEF IInv, LifeTypeOK
  <1> QED
    BY <1>1, <1>8, <1>10, <1>11, OneLife

LEMMA MakeFailsStep ==
  ASSUME IInv, NEW r \in Receiver, MakeFails(r)
  PROVE  IInv'
  <1> DEFINE step == Head(rest[r])
  <1>1. /\ UNCHANGED <<conf, pc>>
        /\ life[r] = "making" /\ rest[r] # <<>>
        /\ MustFail(r, step) \/ MayFail(r, step)
    BY DEF MakeFails, sendVars
  <1>2. SendIInv'
    BY RunningStep DEF IInv, MakeFails
  <1>3. /\ life' = [life EXCEPT ![r] = "failed"]
        /\ rest' = rest
        /\ held' = [held EXCEPT ![r] = held[r] \ ClosedOnError(step)]
    BY DEF IInv, LifeTypeOK, MakeFails
  <1>4. /\ life'[r] = "failed" /\ rest'[r] = rest[r]
        /\ held'[r] = held[r] \ ClosedOnError(step)
        /\ pc'[r] = "idle"
    BY <1>1, <1>3 DEF IInv, LifeTypeOK, LifeInv, LifeInvOf
  <1>5. PICK n \in 0 .. Len(Steps(r)) : MakingAt(r, n)
    BY <1>1 DEF IInv, LifeInv, LifeInvOf
  <1>6. Len(rest[r]) \in Nat \ {0} /\ step = rest[r][1]
    BY <1>1 DEF IInv, LifeTypeOK
  <1>7. n \in 0 .. Len(Steps(r)) - 1 /\ step = Steps(r)[n + 1]
    BY <1>5, <1>6, StepsNamed DEF MakingAt
  <1>8. KindOf(r) \in Kind
    BY KindKnown DEF IInv, SendIInv
  <1>9. step # "encoder" => (held[r] \ ClosedOnError(step)) \cap MustClose(r) = {}
    <2> HIDE DEF step
    <2> QED
      BY <1>1, <1>5, <1>7, <1>8, ClosedOnFailure DEF MakingAt
  <1>10. LifeInvOf(r)'
    BY <1>1, <1>4, <1>9, SameSteps DEF LifeInvOf
  <1>11. LifeTypeOK'
    BY <1>3 DEF IInv, LifeTypeOK
  <1>12. \A q \in Receiver \ {r} :
            life'[q] = life[q] /\ rest'[q] = rest[q] /\ held'[q] = held[q]
    BY <1>3 DEF IInv, LifeTypeOK
  <1> QED
    BY <1>1, <1>2, <1>10, <1>11, <1>12, OneLife

LEMMA RegisterSinkStep ==
  ASSUME IInv, NEW r \in Receiver, RegisterSink(r)
  PROVE  IInv'
  <1>1. /\ UNCHANGED <<conf, pc, rest, held>> /\ SendIInv'
        /\ life[r] = "making" /\ rest[r] = <<>>
        /\ life' = [life EXCEPT ![r] = "open"]
    BY StepSendIInv DEF IInv, RegisterSink, vars
  <1>2. held[r] = Made(r, Len(Steps(r)))
    <2>1. PICK n \in 0 .. Len(Steps(r)) : MakingAt(r, n)
      BY <1>1 DEF IInv, LifeInv, LifeInvOf
    <2>2. n = Len(Steps(r))
      BY <1>1, <2>1, StepsNamed DEF MakingAt
    <2> QED
      BY <2>1, <2>2 DEF MakingAt
  <1>3. LifeInvOf(r)'
    <2>1. pc'[r] = "idle" /\ life'[r] = "open" /\ held'[r] = held[r]
      BY <1>1 DEF IInv, LifeTypeOK, LifeInv, LifeInvOf
    <2> QED
      BY <1>1, <1>2, <2>1, SameSteps DEF LifeInvOf
  <1>4. LifeTypeOK'
    BY <1>1 DEF IInv, LifeTypeOK
  <1>5. \A q \in Receiver \ {r} :
            life'[q] = life[q] /\ rest'[q] = rest[q] /\ held'[q] = held[q]
    BY <1>1 DEF IInv, LifeTypeOK
  <1> QED
    BY <1>1, <1>3, <1>4, <1>5, OneLife

LEMMA CloseSinkStep ==
  ASSUME IInv, NEW r \in Receiver, CloseSink(r)
  PROVE  IInv'
  <1>1. /\ UNCHANGED <<conf, pc, rest>> /\ SendIInv'
        /\ life[r] = "open" /\ pc[r] = "idle"
    BY StepSendIInv DEF IInv, CloseSink, vars
  <1>2. /\ life' = [life EXCEPT ![r] = "closed"]
        /\ held' = [held EXCEPT ![r] = held[r] \ Closes(KindOf(r))]
    BY DEF IInv, LifeTypeOK, CloseSink
  <1>3. /\ pc'[r] = "idle" /\ life'[r] = "closed"
        /\ held'[r] = Made(r, Len(Steps(r))) \ Closes(KindOf(r))
    BY <1>1, <1>2 DEF IInv, LifeTypeOK, LifeInv, LifeInvOf
  <1>4. KindOf(r) \in Kind
    BY KindKnown DEF IInv, SendIInv
  <1>5. held'[r] \cap MustClose(r) = {}
    BY <1>3, <1>4, ClosedWithSink
  <1>6. LifeInvOf(r)'
    BY <1>1, <1>3, <1>5, SameSteps DEF LifeInvOf
  <1>7. LifeTypeOK'
    BY <1>1, <1>2 DEF IInv, LifeTypeOK
  <1>8. \A q \in Receiver \ {r} :
            life'[q] = life[q] /\ rest'[q] = rest[q] /\ held'[q] = held[q]
    BY <1>1, <1>2 DEF IInv, LifeTypeOK
  <1> QED
    BY <1>1, <1>6, <1>7, <1>8, OneLife

LEMMA SendStepStep ==
  ASSUME IInv, SendStep
  PROVE  IInv'
  <1>1. SendIInv' /\ UNCHANGED <<conf, life, rest, held>>
    <2>1. UNCHANGED conf
      BY DEF SendStep, Next, Begin, PreparePanics, PrepareFails, Prepare, StoreType,
             StoreData, Do, DoPanics, Answer
    <2> QED
      BY <2>1, StepSendIInv DEF IInv, SendStep, lifeVars
  <1>2. ASSUME NEW r \in Receiver PROVE LifeInvOf(r)'
    <2>1. LifeInvOf(r) /\ (pc'[r] # pc[r] => life[r] = "open")
      BY DEF IInv, LifeInv, SendStep
    <2> QED
      BY <1>1, <2>1, SameLife
  <1>3. LifeTypeOK'
    BY <1>1 DEF IInv, LifeTypeOK
  <1> QED
    BY <1>1, <1>2, <1>3 DEF IInv, LifeInv

LEMMA StepIInv == IInv /\ [ClientsNext]_clientVars => IInv'
  <1> SUFFICES ASSUME IInv, [ClientsNext]_clientVars PROVE IInv'
    OBVIOUS
  <1>1. ASSUME NEW r \in Receiver, GetNextSink(r) PROVE IInv'
    BY <1>1, GetNextSinkStep
  <1>2. ASSUME NEW r \in Receiver, MakeStep(r) PROVE IInv'
    BY <1>2, MakeStepStep
  <1>3. ASSUME NEW r \in Receiver, MakeFails(r) PROVE IInv'
    BY <1>3, MakeFailsStep
  <1>4. ASSUME NEW r \in Receiver, RegisterSink(r) PROVE IInv'
    BY <1>4, RegisterSinkStep
  <1>5. ASSUME NEW r \in Receiver, CloseSink(r) PROVE IInv'
    BY <1>5, CloseSinkStep
  <1>6. CASE SendStep
    BY <1>6, SendStepStep
  <1>7. CASE UNCHANGED clientVars
    <2>1. /\ UNCHANGED <<conf, pc, life, rest, held>> /\ UNCHANGED vars
      BY <1>7 DEF clientVars, vars, lifeVars
    <2>2. SendIInv'
      BY <2>1, StepSendIInv DEF IInv
    <2>3. LifeTypeOK'
      BY <2>1 DEF IInv, LifeTypeOK
    <2>4. ASSUME NEW r \in Receiver PROVE LifeInvOf(r)'
      BY <2>1, SameLife DEF IInv, LifeInv
    <2> QED
      BY <2>2, <2>3, <2>4 DEF IInv, LifeInv
  <1> QED
    BY <1>1, <1>2, <1>3, <1>4, <1>5, <1>6, <1>7 DEF ClientsNext, Lifecycle

-----------------------------------------------------------------------------
(* The theorems *)

\* Everything below follows from this: the clients of the sinks, from NewEngine
\* to the Close of each, and their Sends keep the invariant.
THEOREM Invariance == ClientsSpec => []IInv
  <1>1. ClientsInit => IInv
    BY InitIInv
  <1>2. IInv /\ [ClientsNext]_clientVars => IInv'
    BY StepIInv
  <1> QED
    BY <1>1, <1>2, PTL DEF ClientsSpec

\* Every variable of the Sends keeps its type: a receiver has an event and a body
\* exactly while its Send is at work on them (channel_registry.go:57).
THEOREM TypeCorrect == ClientsSpec => []TypeOK
  <1>1. IInv => TypeOK
    BY DEF IInv, SendIInv
  <1> QED
    BY <1>1, Invariance, PTL

\* A Send that returns nil, of any sink but the four that answer nil to what they
\* have not delivered, has delivered its event, whatever its templates and the
\* service do, unless the reply it got cannot be told from that to a delivery
\* (channel_registry.go:59).
THEOREM NilDelivers == ClientsSpec => []NilMeansDelivered
  <1>1. IInv => NilMeansDelivered
    BY DEF IInv, SendIInv
  <1> QED
    BY <1>1, Invariance, PTL

\* The maps of an event are shared by all receivers, and every service gets the
\* keys with or without dots as its own receiver is configured (event.go:23).
THEOREM BodiesAsConfigured == ClientsSpec => []BodyAsConfigured
  <1>1. IInv => BodyAsConfigured
    BY DEF IInv, SendIInv
  <1> QED
    BY <1>1, Invariance, PTL

\* If no two receivers are webhooks, the one that is sends with the transport of
\* its own TLS settings (webhook.go:65), whatever else uses the shared client.
\* With two of them it need not: the run of MCSinksShared shows it.
THEOREM OwnTransportIfAlone == ClientsSpec => [](SingleWebhook => OwnTransport)
  <1>1. IInv => (SingleWebhook => OwnTransport)
    BY DEF IInv, SendIInv, TransportInv, OwnTransport
  <1> QED
    BY <1>1, Invariance, PTL

\* No request goes through a transport of which only one word has been stored.
NoTornRequest == \A r \in Receiver : pc[r] = "do" => TransportFor(r) # Torn

\* The panic of a request through half a transport (webhook.go:65) needs a webhook
\* and another receiver that uses the shared client, a webhook or Teams.
THEOREM NeverTornIfAlone ==
  ClientsSpec =>
    [](SingleWebhook /\ (\A r \in Receiver : KindOf(r) # "teams") => NoTornRequest)
  <1>1. IInv => (SingleWebhook /\ (\A r \in Receiver : KindOf(r) # "teams") =>
                    NoTornRequest)
    BY DEF IInv, SendIInv, TransportInv, TransportFor, NoTornRequest
  <1> QED
    BY <1>1, Invariance, PTL

\* A Send finds every client that it calls, and what must be closed is closed with
\* its sink or by the constructor that fails, but for the producer that Kafka's
\* leaves when the encoder cannot be made (kafka.go:76).
THEOREM LifetimeKept == ClientsSpec => []ClientLifetime
  <1>1. IInv => ClientLifetime
    <2> SUFFICES ASSUME IInv, NEW r \in Receiver
                 PROVE  /\ pc[r] # "idle" => Uses(r) \subseteq held[r]
                        /\ life[r] = "closed" => held[r] \cap MustClose(r) = {}
                        /\ life[r] = "failed" /\ Head(rest[r]) # "encoder" =>
                                held[r] \cap MustClose(r) = {}
      BY DEF ClientLifetime
    <2>1. LifeInvOf(r) /\ KindOf(r) \in Kind
      BY KindKnown DEF IInv, SendIInv, LifeInv
    <2> QED
      BY <2>1, AllThatIsUsed DEF LifeInvOf
  <1> QED
    BY <1>1, Invariance, PTL

=============================================================================
