----------------------------- MODULE BatchWriter -----------------------------
(****************************************************************************)
(* batch.Writer of pkg/batch/writer.go: a goroutine that collects items     *)
(* from an unbuffered channel in a fixed array and hands them to a handler  *)
(* in batches.                                                              *)
(*                                                                          *)
(* Two processes run.  The client is the goroutine that owns the sink: it   *)
(* calls Submit for one item after another and then Stop once               *)
(* (sinks/bigquery.go:227-234).  The writer is the goroutine of Start: a    *)
(* select over items, done and the ticker.  Sends on the two unbuffered     *)
(* channels are rendezvous, so a receive step of the writer is also the     *)
(* step that unblocks the client.  The compaction loop of processBuffer     *)
(* takes one step per slot, because it overwrites the array it reads.       *)
(*                                                                          *)
(* An item is its number in submission order, 1 .. MaxItems; 0 is the zero  *)
(* value (nil) of a slot that was never written.                            *)
(****************************************************************************)
EXTENDS Integers

CONSTANTS
    BatchSize,      \* WriterConfig.BatchSize, the length of the array
    MaxRetries,     \* WriterConfig.MaxRetries
    MaxItems        \* bound: how many items the client submits at most

ASSUME BatchSizeAssumption == BatchSize \in Nat \ {0}
ASSUME MaxRetriesAssumption == MaxRetries \in Nat
ASSUME MaxItemsAssumption == MaxItems \in Nat

VARIABLES
    client,         \* where the client is: in a call of Submit, of Stop, ...
    pc,             \* where the writer goroutine is
    trigger,        \* the select case that called processBuffer
    buffer,         \* w.buffer
    len,            \* w.len
    held,           \* the item received at a full buffer, not stored yet
    responses,      \* the slots of the batch the handler answered true for
    idx,            \* the slot the compaction loop is at
    newItemsCount,  \* the slots the compaction loop has kept
    accepted,       \* history: how many items the writer has received
    acked,          \* history: the items the handler has taken
    calls           \* history: how many handler calls each item was in

clientVars == <<client, accepted>>
loopVars == <<responses, idx, newItemsCount>>
historyVars == <<acked, calls>>
vars == <<client, pc, trigger, buffer, len, held, responses, idx,
          newItemsCount, accepted, acked, calls>>

Item == 1 .. MaxItems
NoItem == 0
Slot == 0 .. BatchSize - 1

\* bufferItem
BufferItem == [v : Item \cup {NoItem}, attempt : 0 .. MaxRetries]

TypeOK ==
    /\ client \in {"idle", "submit", "stop", "stopWait", "stopped"}
    /\ pc \in {"select", "handler", "compact", "signal", "exited"}
    /\ trigger \in {"none", "item", "done", "tick"}
    /\ buffer \in [Slot -> BufferItem]
    /\ len \in 0 .. BatchSize
    /\ held \in Item \cup {NoItem}
    /\ responses \in SUBSET Slot
    /\ idx \in 0 .. BatchSize
    /\ newItemsCount \in 0 .. BatchSize
    /\ accepted \in 0 .. MaxItems
    /\ acked \in SUBSET Item
    /\ calls \in [Item -> 0 .. MaxRetries + 1]

\* NewWriter and Start: an empty array, the goroutine waiting in its select.
Init ==
    /\ client = "idle"
    /\ pc = "select"
    /\ trigger = "none"
    /\ buffer = [s \in Slot |-> [v |-> NoItem, attempt |-> 0]]
    /\ len = 0
    /\ held = NoItem
    /\ responses = {}
    /\ idx = 0
    /\ newItemsCount = 0
    /\ accepted = 0
    /\ acked = {}
    /\ calls = [v \in Item |-> 0]

-----------------------------------------------------------------------------
(* The client *)

\* Submit: blocked on w.items until the writer receives.
CallSubmit ==
    /\ client = "idle"
    /\ accepted < MaxItems
    /\ client' = "submit"
    /\ UNCHANGED <<pc, trigger, buffer, len, held, loopVars, accepted, historyVars>>

\* Stop: blocked on w.done until the writer receives.
CallStop ==
    /\ client = "idle"
    /\ client' = "stop"
    /\ UNCHANGED <<pc, trigger, buffer, len, held, loopVars, accepted, historyVars>>

-----------------------------------------------------------------------------
(* The writer: the select loop of Start *)

\* w.buffer[w.len] = bufferItem{v: item, attempt: 0}
Stored(v, at) == [buffer EXCEPT ![at] = [v |-> v, attempt |-> 0]]

\* Fault: the bound of the array is off by one.
TakeItemPastEnd ==
    /\ pc = "select"
    /\ client = "submit"
    /\ len <= BatchSize
    /\ client' = "idle"
    /\ accepted' = accepted + 1
    /\ buffer' = Stored(accepted + 1, len)
    /\ len' = len + 1
    /\ UNCHANGED <<pc, trigger, held, loopVars, historyVars>>

\* case item := <-w.items, with room in the buffer.
TakeItem ==
    /\ pc = "select"
    /\ client = "submit"
    /\ len < BatchSize
    /\ client' = "idle"
    /\ accepted' = accepted + 1
    /\ buffer' = Stored(accepted + 1, len)
    /\ len' = len + 1
    /\ UNCHANGED <<pc, trigger, held, loopVars, historyVars>>

\* Fault: a full buffer is reset without a call of processBuffer.
TakeItemUnflushed ==
    /\ pc = "select"
    /\ client = "submit"
    /\ len >= BatchSize
    /\ client' = "idle"
    /\ accepted' = accepted + 1
    /\ buffer' = Stored(accepted + 1, 0)
    /\ len' = 1
    /\ UNCHANGED <<pc, trigger, held, loopVars, historyVars>>

\* case item := <-w.items at a full buffer: the batch goes to the handler
\* first, and the client is already on its way.
TakeItemFull ==
    /\ pc = "select"
    /\ client = "submit"
    /\ len >= BatchSize
    /\ client' = "idle"
    /\ accepted' = accepted + 1
    /\ held' = accepted + 1
    /\ trigger' = "item"
    /\ pc' = "handler"
    /\ UNCHANGED <<buffer, len, loopVars, historyVars>>

\* Fault: Stop does not flush the buffer.
TakeDoneUnflushed ==
    /\ pc = "select"
    /\ client = "stop"
    /\ client' = "stopWait"
    /\ trigger' = "done"
    /\ pc' = "signal"
    /\ UNCHANGED <<buffer, len, held, loopVars, accepted, historyVars>>

\* case <-w.done: processBuffer returns at once when the buffer is empty.
TakeDone ==
    /\ pc = "select"
    /\ client = "stop"
    /\ client' = "stopWait"
    /\ trigger' = "done"
    /\ pc' = IF len = 0 THEN "signal" ELSE "handler"
    /\ UNCHANGED <<buffer, len, held, loopVars, accepted, historyVars>>

\* Fault: the ticker flushes only a full buffer.
TickWhenFull ==
    /\ pc = "select"
    /\ len = BatchSize
    /\ trigger' = "tick"
    /\ pc' = "handler"
    /\ UNCHANGED <<client, buffer, len, held, loopVars, accepted, historyVars>>

\* case <-ticker.C: a tick that finds the buffer empty changes nothing.
Tick ==
    /\ pc = "select"
    /\ len > 0
    /\ trigger' = "tick"
    /\ pc' = "handler"
    /\ UNCHANGED <<client, buffer, len, held, loopVars, accepted, historyVars>>

\* w.stopDone <- true releases the client and the goroutine ends.
SignalStop ==
    /\ pc = "signal"
    /\ client = "stopWait"
    /\ pc' = "exited"
    /\ client' = "stopped"
    /\ UNCHANGED <<trigger, buffer, len, held, loopVars, accepted, historyVars>>

-----------------------------------------------------------------------------
(* The writer: processBuffer *)

\* The items of the first n slots.
ItemsBelow(n) == {buffer[s].v : s \in 0 .. n - 1}

\* The handler is called with the items of slots 0 .. len - 1 and answers
\* true for the slots of Ok.
HandlerReturns(Ok) ==
    /\ pc = "handler"
    /\ responses' = Ok
    /\ acked' = acked \cup {buffer[s].v : s \in Ok}
    /\ calls' = [v \in Item |-> calls[v] + IF v \in ItemsBelow(len) THEN 1 ELSE 0]
    /\ idx' = 0
    /\ newItemsCount' = 0
    /\ pc' = "compact"
    /\ UNCHANGED <<client, trigger, buffer, len, held, accepted>>

\* Fault: one attempt too many.
RetriedOnceMore(s) == s \notin responses /\ buffer[s].attempt <= MaxRetries

\* The item at idx stays for another attempt.
Retried(s) == s \notin responses /\ buffer[s].attempt < MaxRetries

\* Fault: the slot is counted before it is written.
CompactStepAhead ==
    /\ pc = "compact"
    /\ idx < len
    /\ idx' = idx + 1
    /\ IF Retried(idx)
       THEN /\ buffer' = [buffer EXCEPT ![newItemsCount + 1] =
                            [v |-> buffer[idx].v, attempt |-> buffer[idx].attempt + 1]]
            /\ newItemsCount' = newItemsCount + 1
       ELSE UNCHANGED <<buffer, newItemsCount>>
    /\ UNCHANGED <<client, pc, trigger, len, held, responses, accepted, historyVars>>

\* One turn of the loop over responses.  The slot written is never ahead of
\* the slot read.
CompactStep ==
    /\ pc = "compact"
    /\ idx < len
    /\ idx' = idx + 1
    /\ IF Retried(idx)
       THEN /\ buffer' = [buffer EXCEPT ![newItemsCount] =
                            [v |-> buffer[idx].v, attempt |-> buffer[idx].attempt + 1]]
            /\ newItemsCount' = newItemsCount + 1
       ELSE UNCHANGED <<buffer, newItemsCount>>
    /\ UNCHANGED <<client, pc, trigger, len, held, responses, accepted, historyVars>>

\* Fault: after the last flush the goroutine selects again.
CompactDoneForgetsStop ==
    /\ pc = "compact"
    /\ idx = len
    /\ responses' = {}
    /\ idx' = 0
    /\ newItemsCount' = 0
    /\ trigger' = "none"
    /\ IF trigger = "item"
       THEN /\ buffer' = Stored(held, 0)
            /\ len' = 1
            /\ held' = NoItem
       ELSE /\ len' = newItemsCount
            /\ UNCHANGED <<buffer, held>>
    /\ pc' = "select"
    /\ UNCHANGED <<client, accepted, historyVars>>

\* processBuffer returns to the select case that called it.  Only the case
\* of a full buffer goes on: it forgets the items kept for a retry
\* (w.len = 0) and stores the item it holds in slot 0.
CompactDone ==
    /\ pc = "compact"
    /\ idx = len
    /\ responses' = {}
    /\ idx' = 0
    /\ newItemsCount' = 0
    /\ trigger' = "none"
    /\ IF trigger = "item"
       THEN /\ buffer' = Stored(held, 0)
            /\ len' = 1
            /\ held' = NoItem
       ELSE /\ len' = newItemsCount
            /\ UNCHANGED <<buffer, held>>
    /\ pc' = IF trigger = "done" THEN "signal" ELSE "select"
    /\ UNCHANGED <<client, accepted, historyVars>>

-----------------------------------------------------------------------------
\* After Stop nothing runs any more.
Stopped == client = "stopped" /\ UNCHANGED vars

Next ==
    \/ CallSubmit
    \/ CallStop
    \/ TakeItem
    \/ TakeItemFull
    \/ TakeDone
    \/ Tick
    \/ SignalStop
    \/ \E Ok \in SUBSET (0 .. len - 1) : HandlerReturns(Ok)
    \/ CompactStep
    \/ CompactDone
    \/ Stopped

Spec == Init /\ [][Next]_vars

\* The client owes nothing.  The writer goroutine runs whenever it can, the
\* handler returns, and a select that keeps finding a case ready takes it in
\* the end (Go picks uniformly among the ready cases), hence SF on the cases.
Fairness ==
    /\ SF_vars(TakeItem)
    /\ SF_vars(TakeItemFull)
    /\ SF_vars(TakeDone)
    /\ SF_vars(Tick)
    /\ WF_vars(\E Ok \in SUBSET (0 .. len - 1) : HandlerReturns(Ok))
    /\ WF_vars(CompactStep)
    /\ WF_vars(CompactDone)
    /\ WF_vars(SignalStop)

FairSpec == Spec /\ Fairness

-----------------------------------------------------------------------------
(* Where the accepted items are *)

\* The slots that hold an item the goroutine will still look at.  During
\* compaction these are the slots kept and the slots not read yet.
LiveSlots ==
    CASE pc = "exited" -> {}
      [] pc = "compact" -> (0 .. newItemsCount - 1) \cup (idx .. len - 1)
      [] OTHER -> 0 .. len - 1

InWriter ==
    {buffer[s].v : s \in LiveSlots} \cup (IF held = NoItem THEN {} ELSE {held})

-----------------------------------------------------------------------------
(* Safety *)

\* No accepted item leaves the writer before the handler has seen it, not
\* when the buffer is full, not when Stop flushes it (writer.go:56-58, 64).
NoneLeavesUntried ==
    \A v \in 1 .. accepted : v \in InWriter \/ calls[v] > 0

\* The attempt counter of a buffered item is the number of handler calls
\* that have refused it; a slot the loop has not read yet is one behind
\* (writer.go:95-103).
RetriesCounted ==
    \A s \in LiveSlots :
        calls[buffer[s].v] =
            buffer[s].attempt + IF pc = "compact" /\ s >= idx THEN 1 ELSE 0

\* The handler gets each batch in the order the items were submitted, retries
\* first, no item twice, and never an item it has already taken: compaction
\* and the item held at a full buffer keep the order (writer.go:59-62, 80-84).
BatchInOrder ==
    pc = "handler" =>
        /\ \A r, s \in 0 .. len - 1 : r < s => buffer[r].v < buffer[s].v
        /\ \A s \in 0 .. len - 1 : buffer[s].v \notin acked
        /\ held # NoItem => \A s \in 0 .. len - 1 : buffer[s].v < held

\* "It's safe to overwrite the existing items whilst traversing the items"
\* (writer.go:89-90): the answer for a slot not read yet is still the answer
\* for the item in that slot.
AnswersMatchSlots ==
    pc = "compact" =>
        \A s \in idx .. len - 1 : (s \in responses) <=> (buffer[s].v \in acked)

\* Apart from the two flushes that end a buffer's life (a full buffer, Stop),
\* a step makes an item leave only when the handler took it or has refused it
\* MaxRetries + 1 times (writer.go:95-97).
OnlySettledLeave ==
    [][trigger = "tick" =>
         \A v \in InWriter \ InWriter' : v \in acked \/ calls[v] = MaxRetries + 1]_vars

-----------------------------------------------------------------------------
(* Liveness *)

\* A call of Submit or Stop returns: the goroutine always comes back to its
\* select, and Stop is answered after the last flush (writer.go:114-124).
CallsReturn ==
    /\ client = "submit" ~> client = "idle"
    /\ client = "stop" ~> client = "stopped"

-----------------------------------------------------------------------------
(* The contract the writer implements *)

StatusOf(v) ==
    IF v > accepted THEN "new"
    ELSE IF v \in acked THEN "acked"
    ELSE IF v \in InWriter THEN "pending"
    ELSE "gone"

Status == [v \in Item |-> StatusOf(v)]

Contract == INSTANCE BatchContract WITH status <- Status, tries <- calls

\* Every step of the writer is a step of the contract or leaves it alone.
ImplementsContract == Contract!ContractSpec

\* The contract's liveness: with the ticker running, no accepted item stays
\* in the buffer for ever, not even one that always fails.
EveryItemSettled == Contract!EveryItemSettled

=============================================================================
