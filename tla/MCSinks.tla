------------------------------- MODULE MCSinks -------------------------------
(****************************************************************************)
(* TLC instances of SinkClients: pairs of receivers in which every kind     *)
(* occurs, with those together that share a client or differ in deDot, and  *)
(* every option a constructor looks at.                                     *)
(****************************************************************************)
EXTENDS SinkClients

CONSTANTS r1, r2

Of(kinds, parts) ==
    [sinks |-> kinds, parts |-> parts, deDot |-> FALSE, options |-> {}]
With(c, options) == [c EXCEPT !.options = options]
DeDotted(kinds, parts) == [Of(kinds, parts) EXCEPT !.deDot = TRUE]

Pair(c, d) == [r \in {r1, r2} |-> IF r = r1 THEN c ELSE d]

OneWebhook == {
    Pair(Of({"webhook"}, {"layout", "headers"}), Of({"teams"}, {})),
    Pair(With(Of({"webhook", "loki"}, {}), {"cert", "key"}),
         With(Of({"loki"}, {"layout", "headers"}), {"ca"})),
    Pair(DeDotted({"elasticsearch"}, {"layout"}),
         With(Of({"opensearch"}, {}), {"ca", "cert", "key"})),
    Pair(DeDotted({"firehose"}, {"layout"}), Of({"stdout"}, {})),
    Pair(DeDotted({"file"}, {}), DeDotted({"syslog"}, {})),
    Pair(DeDotted({"pipe"}, {}), Of({"inMemory", "teams"}, {})),
    Pair(Of({"slack"}, {"fields", "color"}), Of({"opscenter"}, {"priority", "tags"})),
    Pair(Of({"opsgenie"}, {"alias"}), Of({"eventbridge"}, {"layout"})),
    Pair(Of({"kafka"}, {"avro"}), Of({"pubsub"}, {})),
    Pair(Of({"sqs"}, {}), Of({"sns", "pubsub"}, {"layout"})),
    Pair(Of({"kinesis"}, {"layout"}),
         With(Of({"kafka"}, {"avro", "layout"}), {"schemaNotHex", "version", "cert"})),
    Pair(With(Of({"pubsub"}, {}), {"createTopic"}), Of({"bigquery"}, {})),
    Pair(With(Of({"bigquery"}, {}), {"negativeSize"}),
         With(Of({"webhook"}, {}), {"cert"})),
    Pair(With(Of({"kafka"}, {"avro"}), {"schemaNotHex", "sasl", "ca"}),
         Of({"stdout"}, {"layout"}))}

TwoWebhooks == {Pair(Of({"webhook"}, {}), Of({"webhook"}, {}))}

=============================================================================
