------------------------------- MODULE BigQuery -------------------------------
(****************************************************************************)
(* The BigQuery sink of pkg/sinks/bigquery.go: batch.Writer with a handler  *)
(* that writes the batch to a file of its own and loads the file into a     *)
(* table.                                                                   *)
(*                                                                          *)
(* The writer is BatchWriter, all of it; what this module adds is what the  *)
(* handler does between being called and its answer.  The disk and BigQuery *)
(* are external: a file is written whole or up to some item, a load puts    *)
(* what the file holds into the table or fails, and a load reported as      *)
(* failed may have gone through (job.Wait).  File names carry the second    *)
(* and a random number, and are taken to differ.                            *)
(****************************************************************************)
EXTENDS BatchWriter

VARIABLES
    stage,      \* what the handler does next: "write", "load" or "answer"
    file,       \* the items in the file of this batch
    kept,       \* the items in files of earlier batches, left on disk
    table,      \* the items in the table
    unwritten   \* history: the items whose file was not written whole

sinkVars == <<stage, file, kept, table, unwritten>>
allVars == <<vars, sinkVars>>

SinkTypeOK ==
    /\ TypeOK
    /\ stage \in {"write", "load", "answer"}
    /\ pc # "handler" => stage = "write"
    /\ stage = "write" => file = {}
    /\ {file, kept, table, unwritten} \subseteq SUBSET Item

SinkInit ==
    /\ Init
    /\ stage = "write"
    /\ file = {}
    /\ kept = {}
    /\ table = {}
    /\ unwritten = {}

-----------------------------------------------------------------------------
Batch == ItemsBelow(len)

\* bigQueryWriteBatchToJsonFile; its error is logged, and the handler goes on.
WriteFile ==
    /\ pc = "handler"
    /\ stage = "write"
    /\ stage' = "load"
    /\ \/ file' = Batch /\ unwritten' = unwritten
       \/ /\ \E n \in 0 .. len - 1 : file' = ItemsBelow(n)
          /\ unwritten' = unwritten \cup Batch
    /\ UNCHANGED <<vars, kept, table>>

\* bigQueryImportJsonFromFile succeeds; the file is removed, if that works.
LoadSucceeds ==
    /\ stage = "load"
    /\ stage' = "answer"
    /\ table' = table \cup file
    /\ kept' \in {kept, kept \cup file}
    /\ file' = {}
    /\ UNCHANGED <<vars, unwritten>>

\* Fault: the file of a failed load is removed, too.
LoadFailsRemoves ==
    /\ stage = "load"
    /\ stage' = "answer"
    /\ table' \in {table, table \cup file}
    /\ file' = {}
    /\ UNCHANGED <<vars, kept, unwritten>>

\* It fails: the file stays for somebody to load it by hand.
LoadFails ==
    /\ stage = "load"
    /\ stage' = "answer"
    /\ table' \in {table, table \cup file}
    /\ kept' = kept \cup file
    /\ file' = {}
    /\ UNCHANGED <<vars, unwritten>>

\* Fault: the answers are left at their zero value.
AnswerFalse == {}

\* handleBatch answers true for every item, whatever happened.
Answer == 0 .. len - 1

HandleBatch ==
    /\ stage = "answer"
    /\ HandlerReturns(Answer)
    /\ stage' = "write"
    /\ UNCHANGED <<file, kept, table, unwritten>>

\* The steps of the writer outside the handler.
WriterStep ==
    \/ CallSubmit \/ CallStop
    \/ TakeItem \/ TakeItemFull \/ TakeDone \/ Tick \/ SignalStop
    \/ CompactStep \/ CompactDone
    \/ Stopped

SinkNext ==
    \/ WriteFile
    \/ LoadSucceeds
    \/ LoadFails
    \/ HandleBatch
    \/ WriterStep /\ UNCHANGED sinkVars

SinkSpec == SinkInit /\ [][SinkNext]_allVars

\* The fairness of the writer, where the handler's return takes its steps.
SinkFairness ==
    /\ SF_vars(TakeItem) /\ SF_vars(TakeItemFull) /\ SF_vars(TakeDone) /\ SF_vars(Tick)
    /\ WF_vars(CompactStep) /\ WF_vars(CompactDone) /\ WF_vars(SignalStop)
    /\ WF_allVars(WriteFile) /\ WF_allVars(LoadSucceeds \/ LoadFails)
    /\ WF_allVars(HandleBatch)

FairSinkSpec == SinkSpec /\ SinkFairness

-----------------------------------------------------------------------------
(* Properties.                                                              *)

\* Everything the handler has answered for is in the table or in a file left
\* on disk (bigquery.go:197), unless the disk failed: nothing stands between
\* a failed write and the loss of the batch but the log (191-193).
LoadedOrKept ==
    \A v \in acked : v \in table \cup kept \cup unwritten

\* max_retries of the configuration has no effect: since the handler never
\* answers false, every item is in one batch only, and reaches the table at
\* most once from here (185-203).
HandedOnce ==
    /\ \A v \in Item : calls[v] <= 1
    /\ \A v \in Item : calls[v] = 1 => v \in acked

\* When Stop has returned, nothing that was given to Send is still waiting:
\* the last flush settles every item of the buffer (bigquery.go:232-234,
\* writer.go:63-67, 113-117).
StoppedIsFlushed ==
    client = "stopped" => \A v \in 1 .. accepted : v \in table \cup kept \cup unwritten

\* With the ticker running, an item given to Send is loaded, kept or lost to
\* the disk in the end (writer.go:68-72, bigquery.go:185-203).
ItemsLeave == \A v \in Item : accepted >= v ~> v \in table \cup kept \cup unwritten

=============================================================================
