-------------------------- MODULE BatchWriterProofs --------------------------
(****************************************************************************)
(* Theorems about BatchWriter and about BigQuery, which extends it with     *)
(* what its handler does, for every batch size, retry limit and number of   *)
(* items.                                                                   *)
(*                                                                          *)
(* Those about the writer rest on one inductive invariant, IInv.  The steps *)
(* of the sink are steps of the writer or leave it alone, so IInv holds     *)
(* there, too; SinkInv adds what the handler has done with the batch.       *)
(****************************************************************************)
EXTENDS BigQuery, TLAPS

USE BatchSizeAssumption, MaxRetriesAssumption, MaxItemsAssumption

\* Which variables mean something at which point of the goroutine.
ControlInv ==
    /\ pc # "compact" => idx = 0 /\ newItemsCount = 0
    /\ pc = "compact" => newItemsCount <= idx /\ idx <= len /\ responses \subseteq 0 .. len - 1
    /\ pc = "handler" => len > 0
    /\ held # NoItem <=> (pc \in {"handler", "compact"} /\ trigger = "item")
    /\ pc \in {"signal", "exited"} => trigger \in {"none", "done"}
    /\ pc = "select" => trigger = "none"
    /\ client = "submit" => accepted < MaxItems

\* What the live slots hold: accepted items in submission order, older than
\* the item held, and none the handler has taken except the slots that the
\* loop has still to read; slots that went through a flush count an attempt.
LiveInv ==
    /\ \A s \in LiveSlots : buffer[s].v \in 1 .. accepted
    /\ \A r, s \in LiveSlots : r < s => buffer[r].v < buffer[s].v
    /\ \A s \in LiveSlots :
         (pc = "compact" => s < newItemsCount) => buffer[s].v \notin acked
    /\ \A s \in LiveSlots :
         (pc = "signal" \/ (pc = "compact" /\ s < newItemsCount)) => buffer[s].attempt > 0

\* The item held is the youngest, and the handler has not seen it.
HeldInv ==
    held # NoItem =>
        /\ held = accepted
        /\ \A s \in LiveSlots : buffer[s].v < held

\* The handler has seen accepted items only.
HistoryInv ==
    /\ \A v \in Item : v > accepted \/ v = held => calls[v] = 0
    /\ \A v \in acked : v <= accepted /\ calls[v] > 0

IInv ==
    /\ TypeOK
    /\ ControlInv
    /\ LiveInv
    /\ HeldInv
    /\ HistoryInv
    /\ NoneLeavesUntried
    /\ RetriesCounted
    /\ AnswersMatchSlots

\* The writer NewWriter and Start build satisfies the invariant.
LEMMA InitIInv == Init => IInv
  BY DEF Init, IInv, TypeOK, ControlInv, LiveInv, HeldInv, HistoryInv, LiveSlots,
         NoneLeavesUntried, RetriesCounted, AnswersMatchSlots, BufferItem, Slot,
         Item, NoItem, InWriter

\* Every step of the client and of the goroutine keeps the invariant.  The
\* steps with work to do are the two that receive an item, the answer of the
\* handler, and the compaction, which moves items between slots.
LEMMA StepIInv == IInv /\ [Next]_vars => IInv'
  <1> SUFFICES ASSUME IInv, [Next]_vars PROVE IInv'
    OBVIOUS
  <1> USE DEF IInv
  <1>1. CASE CallSubmit
    BY <1>1 DEF CallSubmit, loopVars, historyVars, TypeOK, ControlInv, LiveInv, HeldInv,
           HistoryInv, LiveSlots, InWriter, NoneLeavesUntried, RetriesCounted, AnswersMatchSlots
  <1>2. CASE CallStop
    BY <1>2 DEF CallStop, loopVars, historyVars, TypeOK, ControlInv, LiveInv, HeldInv,
           HistoryInv, LiveSlots, InWriter, NoneLeavesUntried, RetriesCounted, AnswersMatchSlots
  <1>3. CASE TakeItem
    <2> USE <1>3 DEF TakeItem, Stored, loopVars, historyVars
    <2>1. /\ len \in Slot
          /\ LiveSlots = 0 .. len - 1
          /\ LiveSlots' = 0 .. len' - 1
      BY DEF TypeOK, LiveSlots, Slot
    <2>2. /\ buffer'[len] = [v |-> accepted + 1, attempt |-> 0]
          /\ \A s \in 0 .. len - 1 : buffer'[s] = buffer[s]
      BY <2>1 DEF TypeOK, Slot
    <2>3. accepted + 1 \in Item
      BY DEF TypeOK, Item, ControlInv
    <2>4. TypeOK'
      <3>1. buffer' \in [Slot -> BufferItem]
        <4>1. [v |-> accepted + 1, attempt |-> 0] \in BufferItem
          BY <2>3 DEF BufferItem
        <4> QED BY <2>1, <4>1 DEF TypeOK
      <3>2. len' \in 0 .. BatchSize /\ accepted' \in 0 .. MaxItems
        BY <2>3 DEF TypeOK, Item
      <3> QED BY <3>1, <3>2 DEF TypeOK
    <2>5. ControlInv'
      BY DEF ControlInv
    <2>6. LiveInv'
      BY <2>1, <2>2, <2>3 DEF LiveInv, TypeOK, HistoryInv
    <2>7. HeldInv'
      BY DEF HeldInv, ControlInv
    <2>8. HistoryInv'
      BY <2>3 DEF HistoryInv, TypeOK, Item
    <2>9. InWriter' = InWriter \cup {accepted + 1}
      BY <2>1, <2>2 DEF InWriter, TypeOK
    <2>10. NoneLeavesUntried'
      BY <2>9 DEF NoneLeavesUntried, TypeOK
    <2>11. RetriesCounted'
      BY <2>1, <2>2, <2>3 DEF RetriesCounted, TypeOK, HistoryInv, LiveInv, Item
    <2>12. AnswersMatchSlots'
      BY DEF AnswersMatchSlots
    <2> QED
      BY <2>4, <2>5, <2>6, <2>7, <2>8, <2>10, <2>11, <2>12
  <1>4. CASE TakeItemFull
    <2> USE <1>4 DEF TakeItemFull, loopVars, historyVars
    <2>1. /\ LiveSlots = 0 .. len - 1
          /\ LiveSlots' = LiveSlots
          /\ held = NoItem
      BY DEF LiveSlots, ControlInv
    <2>2. accepted + 1 \in Item /\ accepted + 1 # NoItem
      BY DEF TypeOK, Item, NoItem, ControlInv
    <2>3. TypeOK' /\ ControlInv'
      BY <2>2 DEF TypeOK, ControlInv, Item
    <2>4. LiveInv' /\ HeldInv'
      BY <2>1, <2>2 DEF LiveInv, HeldInv, TypeOK
    <2>5. HistoryInv'
      BY <2>1, <2>2 DEF HistoryInv, TypeOK, NoItem, Item
    <2>6. InWriter' = InWriter \cup {accepted + 1}
      BY <2>1, <2>2 DEF InWriter
    <2>7. NoneLeavesUntried'
      BY <2>6 DEF NoneLeavesUntried, TypeOK
    <2>8. RetriesCounted' /\ AnswersMatchSlots'
      BY <2>1 DEF RetriesCounted, AnswersMatchSlots
    <2> QED
      BY <2>3, <2>4, <2>5, <2>7, <2>8
  <1>5. CASE TakeDone
    BY <1>5 DEF TakeDone, loopVars, historyVars, TypeOK, ControlInv, LiveInv, HeldInv,
           HistoryInv, LiveSlots, InWriter, NoneLeavesUntried, RetriesCounted, AnswersMatchSlots
  <1>6. CASE Tick
    BY <1>6 DEF Tick, loopVars, historyVars, TypeOK, ControlInv, LiveInv, HeldInv,
           HistoryInv, LiveSlots, InWriter, NoneLeavesUntried, RetriesCounted, AnswersMatchSlots
  <1>7. CASE SignalStop
    BY <1>7 DEF SignalStop, loopVars, historyVars, TypeOK, ControlInv, LiveInv, HeldInv,
           HistoryInv, LiveSlots, InWriter, NoneLeavesUntried, RetriesCounted,
           AnswersMatchSlots, Item, Slot, BufferItem
  <1>8. ASSUME NEW Ok \in SUBSET (0 .. len - 1), HandlerReturns(Ok) PROVE IInv'
    <2> USE <1>8 DEF HandlerReturns
    <2>1. /\ LiveSlots = 0 .. len - 1
          /\ LiveSlots' = 0 .. len - 1
          /\ 0 .. len - 1 \subseteq Slot
      BY DEF LiveSlots, TypeOK, Slot
    <2>2. \A s \in 0 .. len - 1 :
            /\ buffer[s].v \in Item
            /\ buffer[s].v # held
            /\ buffer[s].v \notin acked
            /\ calls[buffer[s].v] = buffer[s].attempt
            /\ buffer[s].attempt \in 0 .. MaxRetries
      <3>1. \A s \in 0 .. len - 1 : buffer[s].attempt \in 0 .. MaxRetries
        BY <2>1 DEF TypeOK, BufferItem
      <3>2. \A s \in 0 .. len - 1 : buffer[s].v \in Item /\ buffer[s].v # held
        BY <2>1 DEF LiveInv, HeldInv, ControlInv, TypeOK, Item, NoItem
      <3>3. \A s \in 0 .. len - 1 : buffer[s].v \notin acked
        BY <2>1 DEF LiveInv
      <3>4. \A s \in 0 .. len - 1 : calls[buffer[s].v] = buffer[s].attempt
        BY <2>1, <3>1 DEF RetriesCounted
      <3> QED BY <3>1, <3>2, <3>3, <3>4
    <2>3. /\ ItemsBelow(len) \subseteq 1 .. accepted
          /\ \A v \in ItemsBelow(len) : calls[v] <= MaxRetries
      BY <2>1, <2>2 DEF ItemsBelow, LiveInv
    <2>4. \A v \in Item : calls'[v] = IF v \in ItemsBelow(len) THEN calls[v] + 1 ELSE calls[v]
      BY DEF TypeOK
    <2>5. \A s \in 0 .. len - 1 : calls'[buffer[s].v] = buffer[s].attempt + 1
      BY <2>2, <2>4 DEF ItemsBelow
    <2>6. TypeOK'
      BY <2>1, <2>2, <2>3 DEF TypeOK
    <2>7. ControlInv' /\ HeldInv'
      BY <2>1 DEF ControlInv, HeldInv, TypeOK
    <2>8. LiveInv'
      BY <2>1 DEF LiveInv
    <2>9. HistoryInv'
      <3>1. \A v \in Item : v > accepted \/ v = held => calls'[v] = 0
        <4>1. \A v \in ItemsBelow(len) : v <= accepted /\ v # held
          BY <2>2, <2>3 DEF ItemsBelow, TypeOK
        <4> QED BY <2>4, <4>1 DEF HistoryInv, TypeOK, Item
      <3>2. \A v \in acked' : v <= accepted /\ calls'[v] > 0
        BY <2>1, <2>2, <2>3, <2>4, <2>5 DEF HistoryInv, TypeOK, ItemsBelow
      <3> QED BY <3>1, <3>2 DEF HistoryInv
    <2>10. NoneLeavesUntried'
      BY <2>1, <2>3, <2>4 DEF NoneLeavesUntried, InWriter, TypeOK, Item
    <2>11. RetriesCounted'
      BY <2>1, <2>5 DEF RetriesCounted
    <2>12. AnswersMatchSlots'
      <3>1. ASSUME NEW r \in 0 .. len - 1, NEW s \in 0 .. len - 1, buffer[r].v = buffer[s].v
            PROVE r = s
        BY <3>1, <2>1, <2>2 DEF LiveInv, Item
      <3> QED BY <3>1, <2>2 DEF AnswersMatchSlots
    <2> QED
      BY <2>6, <2>7, <2>8, <2>9, <2>10, <2>11, <2>12
  <1>9. CASE CompactStep
    <2> USE <1>9 DEF CompactStep, historyVars
    <2>1. /\ idx \in Int /\ len \in Int /\ newItemsCount \in Int
          /\ 0 <= newItemsCount /\ newItemsCount <= idx /\ idx < len /\ len <= BatchSize
          /\ idx \in Slot /\ newItemsCount \in Slot
      BY DEF TypeOK, ControlInv, Slot
    <2>a. /\ LiveSlots = (0 .. newItemsCount - 1) \cup (idx .. len - 1)
          /\ LiveSlots' = (0 .. newItemsCount' - 1) \cup (idx + 1 .. len - 1)
          /\ LiveSlots \subseteq Slot
          /\ idx \in LiveSlots /\ idx \in idx .. len - 1
      BY <2>1 DEF LiveSlots, Slot
    <2>b. UNCHANGED <<client, pc, trigger, len, held, responses, accepted, acked, calls>>
      OBVIOUS
    <2>2. CASE Retried(idx)
      <3> USE <2>2
      <3>1. /\ newItemsCount' = newItemsCount + 1
            /\ buffer' = [buffer EXCEPT ![newItemsCount] =
                            [v |-> buffer[idx].v, attempt |-> buffer[idx].attempt + 1]]
        OBVIOUS
      <3>2. buffer[idx].attempt \in Int /\ buffer[idx].attempt + 1 \in 1 .. MaxRetries
        BY <2>1 DEF Retried, TypeOK, BufferItem
      <3>3. /\ newItemsCount \in LiveSlots'
            /\ buffer'[newItemsCount] =
                  [v |-> buffer[idx].v, attempt |-> buffer[idx].attempt + 1]
            /\ \A s \in LiveSlots' \ {newItemsCount} :
                 s \in LiveSlots \ {idx} /\ buffer'[s] = buffer[s]
        BY <2>1, <2>a, <3>1 DEF TypeOK
      <3>4. TypeOK'
        BY <2>1, <2>b, <3>1, <3>2 DEF TypeOK, BufferItem
      <3>5. ControlInv'
        BY <2>1, <3>1 DEF ControlInv
      <3>6. LiveInv'
        <4>1. \A s \in LiveSlots' : buffer'[s].v \in 1 .. accepted'
          BY <2>a, <3>3 DEF LiveInv
        <4>2. \A r, s \in LiveSlots' : r < s => buffer'[r].v < buffer'[s].v
          BY <2>1, <2>a, <3>1, <3>3 DEF LiveInv
        <4>3. \A s \in LiveSlots' :
                (pc' = "compact" => s < newItemsCount') => buffer'[s].v \notin acked'
          BY <2>1, <2>a, <3>1, <3>3 DEF LiveInv, Retried, AnswersMatchSlots
        <4>4. \A s \in LiveSlots' :
                (pc' = "signal" \/ (pc' = "compact" /\ s < newItemsCount'))
                  => buffer'[s].attempt > 0
          BY <2>1, <2>a, <3>1, <3>2, <3>3 DEF LiveInv
        <4> QED BY <4>1, <4>2, <4>3, <4>4 DEF LiveInv
      <3>7. HeldInv' /\ HistoryInv'
        BY <2>a, <2>b, <3>3 DEF HeldInv, HistoryInv
      <3>8. InWriter \subseteq InWriter'
        <4>1. \A s \in LiveSlots : \E r \in LiveSlots' : buffer'[r].v = buffer[s].v
          <5> SUFFICES ASSUME NEW s \in LiveSlots
                       PROVE  \E r \in LiveSlots' : buffer'[r].v = buffer[s].v
            OBVIOUS
          <5>1. CASE s = idx
            BY <5>1, <3>3
          <5>2. CASE s # idx
            BY <5>2, <2>1, <2>a, <3>1, <3>3
          <5> QED BY <5>1, <5>2
        <4> QED BY <2>b, <4>1 DEF InWriter
      <3>9. NoneLeavesUntried'
        BY <2>b, <3>8 DEF NoneLeavesUntried
      <3>10. RetriesCounted'
        <4>1. calls[buffer[idx].v] = buffer[idx].attempt + 1
          BY <2>1, <2>a DEF RetriesCounted
        <4>2. ~(newItemsCount >= idx')
          BY <2>1
        <4>3. \A s \in LiveSlots \ {idx} : s >= idx' <=> s >= idx
          BY <2>1, <2>a
        <4> QED BY <2>b, <3>2, <3>3, <4>1, <4>2, <4>3 DEF RetriesCounted
      <3>11. AnswersMatchSlots'
        BY <2>1, <2>a, <2>b, <3>1, <3>3 DEF AnswersMatchSlots
      <3> QED
        BY <3>4, <3>5, <3>6, <3>7, <3>9, <3>10, <3>11
    <2>3. CASE ~Retried(idx)
      <3> USE <2>3
      <3>1. UNCHANGED <<buffer, newItemsCount>> /\ LiveSlots' = LiveSlots \ {idx}
        BY <2>1, <2>a
      <3>2. TypeOK'
        BY <2>1, <2>b, <3>1 DEF TypeOK
      <3>6. ControlInv'
        BY <2>1, <2>b, <3>1 DEF ControlInv
      <3>3. LiveInv' /\ HeldInv' /\ HistoryInv'
        BY <2>1, <2>a, <2>b, <3>1 DEF LiveInv, HeldInv, HistoryInv
      <3>4. NoneLeavesUntried'
        <4>1. calls[buffer[idx].v] > 0
          BY <2>1, <2>a DEF RetriesCounted, TypeOK, BufferItem
        <4> QED BY <2>b, <3>1, <4>1 DEF NoneLeavesUntried, InWriter
      <3>5. RetriesCounted' /\ AnswersMatchSlots'
        BY <2>1, <2>a, <2>b, <3>1 DEF RetriesCounted, AnswersMatchSlots
      <3> QED
        BY <3>2, <3>3, <3>4, <3>5, <3>6
    <2> QED
      BY <2>2, <2>3
  <1>10. CASE CompactDone
    <2> USE <1>10 DEF CompactDone, Stored, historyVars
    <2>1. /\ idx = len /\ len \in Int /\ newItemsCount \in Int
          /\ 0 <= newItemsCount /\ newItemsCount <= len /\ len <= BatchSize
      BY DEF TypeOK, ControlInv
    <2>a. /\ LiveSlots = 0 .. newItemsCount - 1
          /\ LiveSlots \subseteq Slot
      BY <2>1 DEF LiveSlots, Slot
    <2>b. \A s \in LiveSlots : /\ buffer[s].attempt > 0
                               /\ calls[buffer[s].v] = buffer[s].attempt
                               /\ buffer[s].v \notin acked
      BY <2>1, <2>a DEF LiveInv, RetriesCounted, TypeOK, BufferItem
    <2>2. CASE trigger = "item"
      <3> USE <2>2
      <3>1. /\ LiveSlots' = {0} /\ 0 \in Slot
            /\ buffer'[0] = [v |-> held, attempt |-> 0]
            /\ held = accepted /\ held \in Item /\ held # NoItem
        BY DEF LiveSlots, HeldInv, ControlInv, TypeOK, Slot, NoItem
      <3>2. calls[held] = 0 /\ held \notin acked
        BY <3>1 DEF HistoryInv
      <3>a. TypeOK'
        <4>1. buffer' \in [Slot -> BufferItem]
          BY <3>1 DEF TypeOK, BufferItem
        <4> QED BY <4>1 DEF TypeOK
      <3>b. ControlInv'
        BY <2>1 DEF ControlInv
      <3>3. HeldInv' /\ HistoryInv' /\ AnswersMatchSlots'
        BY <3>1, <3>2 DEF HeldInv, HistoryInv, AnswersMatchSlots, Item, NoItem
      <3>4. LiveInv' /\ RetriesCounted'
        BY <3>1, <3>2 DEF LiveInv, RetriesCounted, TypeOK, Item
      <3>5. NoneLeavesUntried'
        BY <2>b, <3>1 DEF NoneLeavesUntried, InWriter
      <3> QED
        BY <3>a, <3>b, <3>3, <3>4, <3>5
    <2>3. CASE trigger # "item"
      <3> USE <2>3
      <3>1. LiveSlots' = LiveSlots /\ UNCHANGED buffer
        BY <2>1, <2>a DEF LiveSlots
      <3>2. TypeOK' /\ ControlInv' /\ HeldInv' /\ HistoryInv' /\ AnswersMatchSlots'
        BY <2>1, <3>1 DEF TypeOK, ControlInv, HeldInv, HistoryInv, AnswersMatchSlots, NoItem
      <3>3. LiveInv' /\ RetriesCounted'
        BY <2>1, <2>a, <2>b, <3>1 DEF LiveInv, RetriesCounted
      <3>4. NoneLeavesUntried'
        BY <3>1 DEF NoneLeavesUntried, InWriter
      <3> QED
        BY <3>2, <3>3, <3>4
    <2> QED
      BY <2>2, <2>3
  <1>11. CASE UNCHANGED vars
    BY <1>11 DEF vars, TypeOK, ControlInv, LiveInv, HeldInv, HistoryInv, LiveSlots,
           InWriter, NoneLeavesUntried, RetriesCounted, AnswersMatchSlots
  <1> QED
    BY <1>1, <1>2, <1>3, <1>4, <1>5, <1>6, <1>7, <1>8, <1>9, <1>10, <1>11
       DEF Next, Stopped

-----------------------------------------------------------------------------
\* The invariant holds in every reachable state, for all constants.
THEOREM Invariance == Spec => []IInv
  BY InitIInv, StepIInv, PTL DEF Spec

\* TypeOK of BatchWriter: the indices stay inside the array, attempts and
\* calls inside their bounds (writer.go:61, 95).
THEOREM TypeCorrect == Spec => []TypeOK
  <1>1. IInv => TypeOK
    BY DEF IInv
  <1> QED
    BY <1>1, Invariance, PTL

\* No accepted item leaves the writer before the handler has seen it.
THEOREM EveryItemTried == Spec => []NoneLeavesUntried
  <1>1. IInv => NoneLeavesUntried
    BY DEF IInv
  <1> QED
    BY <1>1, Invariance, PTL

\* The attempt counters count the calls that refused the item, so nothing is
\* tried more than MaxRetries + 1 times; and the answers the loop has not read
\* yet still belong to the items in their slots (writer.go:89-107).
THEOREM CompactionSound == Spec => [](RetriesCounted /\ AnswersMatchSlots)
  <1>1. IInv => RetriesCounted /\ AnswersMatchSlots
    BY DEF IInv
  <1> QED
    BY <1>1, Invariance, PTL

\* Batches are in submission order, without repetition and without an item
\* the handler has taken before.
THEOREM BatchesOrdered == Spec => []BatchInOrder
  <1>1. IInv => BatchInOrder
    BY DEF IInv, BatchInOrder, LiveInv, HeldInv, LiveSlots
  <1> QED
    BY <1>1, Invariance, PTL

-----------------------------------------------------------------------------
\* What leaves in a turn of the compaction loop: the item read, if the
\* handler took it or has refused it MaxRetries + 1 times.
LEMMA CompactStepLeaves ==
  ASSUME IInv, CompactStep
  PROVE  /\ InWriter' \subseteq InWriter
         /\ \A v \in InWriter \ InWriter' : v \in acked \/ calls[v] = MaxRetries + 1
         /\ UNCHANGED <<accepted, acked, calls>>
  <1>1. /\ idx \in Int /\ len \in Int /\ newItemsCount \in Int
        /\ 0 <= newItemsCount /\ newItemsCount <= idx /\ idx < len /\ len <= BatchSize
        /\ idx \in Slot /\ newItemsCount \in Slot
        /\ UNCHANGED <<pc, held, len, accepted, acked, calls>>
        /\ idx' = idx + 1
    BY DEF CompactStep, historyVars, IInv, TypeOK, ControlInv, Slot
  <1>2. /\ LiveSlots = (0 .. newItemsCount - 1) \cup (idx .. len - 1)
        /\ LiveSlots' = (0 .. newItemsCount' - 1) \cup (idx + 1 .. len - 1)
        /\ LiveSlots \subseteq Slot
        /\ idx \in LiveSlots /\ idx \in idx .. len - 1
    BY <1>1 DEF CompactStep, LiveSlots, Slot
  <1>3. CASE Retried(idx)
    <2>1. /\ newItemsCount' = newItemsCount + 1
          /\ buffer' = [buffer EXCEPT ![newItemsCount] =
                          [v |-> buffer[idx].v, attempt |-> buffer[idx].attempt + 1]]
      BY <1>3 DEF CompactStep
    <2>2. /\ newItemsCount \in LiveSlots'
          /\ buffer'[newItemsCount].v = buffer[idx].v
          /\ \A s \in LiveSlots' \ {newItemsCount} :
               s \in LiveSlots \ {idx} /\ buffer'[s] = buffer[s]
      BY <1>1, <1>2, <2>1 DEF IInv, TypeOK
    <2>3. \A s \in LiveSlots : \E r \in LiveSlots' : buffer'[r].v = buffer[s].v
      <3>1. \A s \in LiveSlots \ {idx} : s \in LiveSlots' \ {newItemsCount}
        BY <1>1, <1>2, <2>1
      <3> QED BY <2>2, <3>1
    <2> QED
      BY <1>1, <1>2, <2>2, <2>3 DEF InWriter
  <1>4. CASE ~Retried(idx)
    <2>1. UNCHANGED <<buffer, newItemsCount>>
      BY <1>4 DEF CompactStep
    <2>2. LiveSlots' = LiveSlots \ {idx}
      BY <1>1, <1>2, <2>1
    <2>3. buffer[idx].v \in acked \/ calls[buffer[idx].v] = MaxRetries + 1
      <3>1. CASE idx \in responses
        BY <1>2, <3>1 DEF CompactStep, IInv, AnswersMatchSlots
      <3>2. CASE idx \notin responses
        BY <1>1, <1>2, <1>4, <3>2
           DEF CompactStep, IInv, RetriesCounted, Retried, TypeOK, BufferItem
      <3> QED BY <3>1, <3>2
    <2> QED
      BY <1>1, <2>1, <2>2, <2>3 DEF InWriter
  <1> QED
    BY <1>3, <1>4

\* What leaves when processBuffer returns: nothing after a tick, and after a
\* full buffer only items the handler has refused.
LEMMA CompactDoneLeaves ==
  ASSUME IInv, CompactDone
  PROVE  /\ InWriter' \subseteq InWriter
         /\ trigger # "item" => InWriter' = InWriter
         /\ \A v \in InWriter \ InWriter' : calls[v] > 0
         /\ UNCHANGED <<accepted, acked, calls>>
  <1>1. /\ idx = len /\ len \in Int /\ newItemsCount \in Int
        /\ 0 <= newItemsCount /\ newItemsCount <= len /\ len <= BatchSize
        /\ UNCHANGED <<accepted, acked, calls>>
    BY DEF CompactDone, historyVars, IInv, TypeOK, ControlInv
  <1>2. LiveSlots = 0 .. newItemsCount - 1 /\ LiveSlots \subseteq Slot
    BY <1>1 DEF CompactDone, LiveSlots, Slot
  <1>3. \A s \in LiveSlots : calls[buffer[s].v] > 0
    BY <1>1, <1>2 DEF CompactDone, IInv, LiveInv, RetriesCounted, TypeOK, BufferItem
  <1>4. CASE trigger = "item"
    <2>1. LiveSlots' = {0} /\ buffer'[0].v = held /\ held' = NoItem /\ held # NoItem
      BY <1>4 DEF CompactDone, Stored, LiveSlots, IInv, ControlInv, TypeOK, Slot
    <2> QED
      BY <1>1, <1>3, <1>4, <2>1 DEF InWriter
  <1>5. CASE trigger # "item"
    <2>1. LiveSlots' = LiveSlots /\ UNCHANGED <<buffer, held>>
      BY <1>1, <1>2, <1>5 DEF CompactDone, LiveSlots
    <2> QED
      BY <1>1, <2>1 DEF InWriter
  <1> QED
    BY <1>4, <1>5

\* The steps that receive an item add it to those in the writer.
LEMMA TakeItemAdds ==
  ASSUME IInv, TakeItem \/ TakeItemFull
  PROVE  /\ InWriter' = InWriter \cup {accepted + 1}
         /\ accepted' = accepted + 1 /\ accepted < MaxItems
         /\ UNCHANGED <<acked, calls>>
  <1>1. CASE TakeItem
    <2>1. /\ len \in Slot
          /\ LiveSlots = 0 .. len - 1
          /\ LiveSlots' = 0 .. len' - 1 /\ len' = len + 1
          /\ buffer'[len].v = accepted + 1
          /\ \A s \in 0 .. len - 1 : buffer'[s] = buffer[s]
      BY <1>1 DEF TakeItem, Stored, loopVars, IInv, TypeOK, LiveSlots, Slot
    <2> QED
      BY <1>1, <2>1 DEF TakeItem, historyVars, InWriter, IInv, TypeOK, ControlInv
  <1>2. CASE TakeItemFull
    <2>1. LiveSlots' = LiveSlots /\ held = NoItem /\ accepted + 1 # NoItem
      BY <1>2 DEF TakeItemFull, loopVars, IInv, ControlInv, LiveSlots, TypeOK, NoItem
    <2> QED
      BY <1>2, <2>1 DEF TakeItemFull, historyVars, InWriter, IInv, ControlInv
  <1> QED
    BY <1>1, <1>2

\* The steps that move control only.
LEMMA ControlSteps ==
  ASSUME IInv, CallSubmit \/ CallStop \/ TakeDone \/ Tick \/ UNCHANGED vars
  PROVE  InWriter' = InWriter /\ UNCHANGED <<accepted, acked, calls>>
  BY DEF CallSubmit, CallStop, TakeDone, Tick, vars, historyVars, loopVars,
         InWriter, LiveSlots

\* Outside the two flushes that end a buffer's life, an item leaves only when
\* the handler took it or has refused it MaxRetries + 1 times.
THEOREM NoEarlyDrop == Spec => OnlySettledLeave
  <1>1. ASSUME IInv, [Next]_vars
        PROVE  [trigger = "tick" => \A v \in InWriter \ InWriter' :
                  v \in acked \/ calls[v] = MaxRetries + 1]_vars
    <2>1. CASE CallSubmit \/ CallStop \/ TakeDone \/ Tick \/ UNCHANGED vars
      BY <1>1, <2>1, ControlSteps
    <2>2. CASE TakeItem \/ TakeItemFull
      BY <1>1, <2>2, TakeItemAdds
    <2>3. CASE SignalStop
      BY <1>1, <2>3 DEF SignalStop, IInv, ControlInv
    <2>4. CASE \E Ok \in SUBSET (0 .. len - 1) : HandlerReturns(Ok)
      BY <1>1, <2>4 DEF HandlerReturns, InWriter, LiveSlots, IInv, TypeOK
    <2>5. CASE CompactStep
      BY <1>1, <2>5, CompactStepLeaves
    <2>6. CASE CompactDone
      BY <1>1, <2>6, CompactDoneLeaves
    <2> QED
      BY <1>1, <2>1, <2>2, <2>3, <2>4, <2>5, <2>6 DEF Next, Stopped
  <1> QED
    BY <1>1, Invariance, PTL DEF Spec, OnlySettledLeave

-----------------------------------------------------------------------------
\* A step that leaves the histories alone and only lets go items that the
\* handler has seen is a step of the contract.
LEMMA LettingGo ==
  ASSUME IInv, UNCHANGED <<accepted, acked, calls>>, InWriter' \subseteq InWriter,
         \A v \in InWriter \ InWriter' : v \in acked \/ calls[v] > 0
  PROVE  Contract!LetGo({v \in Item : Status[v] = "pending" /\ Status'[v] = "gone"})
  <1> DEFINE D == {v \in Item : Status[v] = "pending" /\ Status'[v] = "gone"}
  <1>1. \A v \in D : Status[v] = "pending" /\ calls[v] > 0
    BY DEF Status, StatusOf
  <1>2. \A v \in Item : Status'[v] = IF v \in D THEN "gone" ELSE Status[v]
    BY DEF Status, StatusOf
  <1>3. Status' = [v \in Item |-> IF v \in D THEN "gone" ELSE Status[v]]
    BY <1>2 DEF Status
  <1> QED
    BY <1>1, <1>3 DEF Contract!LetGo

\* A step after which the writer holds one accepted item more is Accept.
LEMMA Accepting ==
  ASSUME IInv, accepted < MaxItems, accepted' = accepted + 1,
         UNCHANGED <<acked, calls>>, InWriter' = InWriter \cup {accepted + 1}
  PROVE  Contract!Accept(accepted + 1) /\ accepted + 1 \in Item
  <1>1. accepted \in Nat /\ accepted + 1 \in Item /\ accepted + 1 \notin acked
    BY DEF IInv, TypeOK, HistoryInv, Item
  <1>2. Status[accepted + 1] = "new"
    BY <1>1 DEF Status, StatusOf
  <1>3. \A v \in Item : Status'[v] = IF v = accepted + 1 THEN "pending" ELSE Status[v]
    BY <1>1 DEF Status, StatusOf, Item
  <1>4. Status' = [Status EXCEPT ![accepted + 1] = "pending"]
    BY <1>3 DEF Status
  <1> QED
    BY <1>1, <1>2, <1>4 DEF Contract!Accept

\* Every step of the writer is a step of the contract, or changes nothing the
\* contract sees.
LEMMA StepContract ==
  ASSUME IInv, [Next]_vars
  PROVE  [Contract!ContractNext]_<<Status, calls>>
  <1>1. CASE CallSubmit \/ CallStop \/ TakeDone \/ Tick \/ UNCHANGED vars
    BY <1>1, ControlSteps DEF Status, StatusOf
  <1>2. CASE TakeItem \/ TakeItemFull
    BY <1>2, TakeItemAdds, Accepting DEF Contract!ContractNext
  <1>3. ASSUME InWriter' \subseteq InWriter, UNCHANGED <<accepted, acked, calls>>,
               \A v \in InWriter \ InWriter' : v \in acked \/ calls[v] > 0
        PROVE  Contract!ContractNext
    <2> DEFINE D == {v \in Item : Status[v] = "pending" /\ Status'[v] = "gone"}
    <2>1. D \in SUBSET Item
      OBVIOUS
    <2>2. Contract!LetGo(D)
      BY <1>3, LettingGo
    <2> QED
      BY <2>1, <2>2 DEF Contract!ContractNext
  <1>4. CASE SignalStop
    <2>1. /\ LiveSlots = 0 .. len - 1 /\ held = NoItem /\ held' = NoItem
          /\ LiveSlots' = {}
          /\ UNCHANGED <<accepted, acked, calls>>
      BY <1>4 DEF SignalStop, LiveSlots, IInv, ControlInv, historyVars
    <2>2. \A s \in LiveSlots : buffer[s].attempt \in Nat
      BY <2>1 DEF IInv, TypeOK, BufferItem, Slot
    <2>3. \A s \in LiveSlots : calls[buffer[s].v] > 0
      BY <1>4, <2>2 DEF SignalStop, IInv, RetriesCounted, LiveInv
    <2> QED
      BY <1>3, <2>1, <2>3 DEF InWriter
  <1>5. ASSUME NEW Ok \in SUBSET (0 .. len - 1), HandlerReturns(Ok)
        PROVE  Contract!ContractNext
    <2> DEFINE Handed == ItemsBelow(len)
               Taken == {buffer[s].v : s \in Ok}
    <2>1. LiveSlots = 0 .. len - 1 /\ len > 0 /\ len \in Int /\ 0 .. len - 1 \subseteq Slot
      BY <1>5 DEF HandlerReturns, LiveSlots, IInv, ControlInv, TypeOK, Slot
    <2>2. InWriter' = InWriter /\ accepted' = accepted
      BY <1>5, <2>1 DEF HandlerReturns, InWriter, LiveSlots
    <2>3. \A s \in 0 .. len - 1 :
            /\ buffer[s].v \in 1 .. accepted /\ buffer[s].v \in Item
            /\ buffer[s].v \notin acked
            /\ calls[buffer[s].v] <= MaxRetries
            /\ buffer[s].v \in InWriter
      <3> SUFFICES ASSUME NEW s \in 0 .. len - 1
                   PROVE  /\ buffer[s].v \in 1 .. accepted /\ buffer[s].v \in Item
                          /\ buffer[s].v \notin acked
                          /\ calls[buffer[s].v] <= MaxRetries
                          /\ buffer[s].v \in InWriter
        OBVIOUS
      <3>1. s \in LiveSlots /\ buffer[s].attempt \in 0 .. MaxRetries
        BY <2>1 DEF IInv, TypeOK, BufferItem
      <3>2. buffer[s].v \in 1 .. accepted /\ buffer[s].v \notin acked
        BY <1>5, <3>1 DEF HandlerReturns, IInv, LiveInv
      <3>3. calls[buffer[s].v] = buffer[s].attempt
        BY <1>5, <3>1 DEF HandlerReturns, IInv, RetriesCounted
      <3> QED
        BY <3>1, <3>2, <3>3 DEF IInv, TypeOK, Item, InWriter
    <2>4. /\ Handed \in SUBSET Item /\ Taken \in SUBSET Handed /\ Handed # {}
          /\ \A v \in Handed : /\ v <= accepted /\ v \notin acked /\ v \in InWriter
                              /\ calls[v] <= MaxRetries
      <3>1. 0 \in 0 .. len - 1
        BY <2>1
      <3> QED
        BY <2>3, <3>1 DEF ItemsBelow, IInv, TypeOK
    <2>5. \A v \in Handed : Status[v] = "pending"
      BY <2>4 DEF Status, StatusOf, IInv, TypeOK, Item
    <2>6. Status' = [v \in Item |-> IF v \in Taken THEN "acked" ELSE Status[v]]
      <3>1. acked' = acked \cup Taken
        BY <1>5 DEF HandlerReturns
      <3> HIDE DEF Handed, Taken
      <3>2. \A v \in Item : Status'[v] = IF v \in Taken THEN "acked" ELSE Status[v]
        BY <2>2, <2>4, <3>1 DEF Status, StatusOf, IInv, TypeOK, Item
      <3> QED BY <3>2 DEF Status
    <2>7. calls' = [v \in Item |-> calls[v] + IF v \in Handed THEN 1 ELSE 0]
      BY <1>5 DEF HandlerReturns
    <2>8. Contract!Deliver(Handed, Taken)
      BY <2>4, <2>5, <2>6, <2>7 DEF Contract!Deliver
    <2> QED
      BY <2>4, <2>8 DEF Contract!ContractNext
  <1>6. CASE CompactStep
    BY <1>3, <1>6, CompactStepLeaves
  <1>7. CASE CompactDone
    BY <1>3, <1>7, CompactDoneLeaves
  <1> QED
    BY <1>1, <1>2, <1>4, <1>5, <1>6, <1>7 DEF Next, Stopped

\* BatchWriter implements BatchContract: for all constants, every behaviour of
\* the writer is one the contract allows.
THEOREM Refinement == Spec => ImplementsContract
  <1>1. Init => Contract!ContractInit
    BY DEF Init, Contract!ContractInit, Status, StatusOf, Item
  <1>2. IInv /\ [Next]_vars => [Contract!ContractNext]_<<Status, calls>>
    BY StepContract
  <1> QED
    BY <1>1, <1>2, Invariance, PTL
       DEF Spec, ImplementsContract, Contract!ContractSpec, Contract!contractVars

-----------------------------------------------------------------------------
(* The BigQuery sink *)

\* Where the items of the batch are between the steps of the handler.
StageInv ==
    /\ stage = "load" => Batch \subseteq file \cup unwritten
    /\ stage = "answer" => file = {} /\ Batch \subseteq table \cup kept \cup unwritten

\* Stop comes back when the goroutine ends, and not before.
ClientInv == client = "stopped" <=> pc = "exited"

SinkInv ==
    /\ IInv
    /\ SinkTypeOK
    /\ StageInv
    /\ ClientInv
    /\ LoadedOrKept
    /\ HandedOnce

\* The new sink satisfies the invariant.
LEMMA SinkInitInv == SinkInit => SinkInv
  <1> SUFFICES ASSUME SinkInit PROVE SinkInv
    OBVIOUS
  <1>1. IInv
    BY InitIInv DEF SinkInit
  <1> QED
    BY <1>1 DEF SinkInit, SinkInv, Init, IInv, SinkTypeOK, StageInv, ClientInv,
           LoadedOrKept, HandedOnce

\* The batch writer does not notice what its handler does before it answers.
LEMMA SinkStepIsStep ==
  ASSUME IInv, [SinkNext]_allVars
  PROVE  [Next]_vars
  <1>1. CASE HandleBatch
    <2>1. len \in Nat
      BY DEF IInv, TypeOK
    <2> QED
      BY <1>1, <2>1 DEF HandleBatch, Answer, Next
  <1>2. CASE WriterStep
    BY <1>2 DEF WriterStep, Next
  <1> QED
    BY <1>1, <1>2 DEF SinkNext, allVars, WriteFile, LoadSucceeds, LoadFails

\* What the handler is given: accepted items that it has not answered for.
LEMMA BatchIsNew ==
  ASSUME IInv, pc = "handler"
  PROVE  /\ len \in 0 .. BatchSize
         /\ Batch \subseteq Item
         /\ \A v \in Batch : v \notin acked
         /\ \A n \in 0 .. len - 1 : ItemsBelow(n) \subseteq Batch
  <1>1. len \in 0 .. BatchSize /\ LiveSlots = 0 .. len - 1
    BY DEF IInv, TypeOK, LiveSlots
  <1>2. accepted \in 0 .. MaxItems
    BY DEF IInv, TypeOK
  <1>3. \A s \in 0 .. len - 1 : buffer[s].v \in 1 .. accepted /\ buffer[s].v \notin acked
    BY <1>1 DEF IInv, LiveInv
  <1>4. Batch \subseteq Item
    <2>1. 1 .. accepted \subseteq Item
      BY <1>2 DEF Item
    <2> QED
      BY <1>3, <2>1 DEF Batch, ItemsBelow
  <1>5. \A v \in Batch : v \notin acked
    BY <1>3 DEF Batch, ItemsBelow
  <1>6. \A n \in 0 .. len - 1 : ItemsBelow(n) \subseteq Batch
    BY <1>1 DEF Batch, ItemsBelow
  <1> QED
    BY <1>1, <1>4, <1>5, <1>6

\* The steps of the handler before its answer.
LEMMA HandlerSteps ==
  ASSUME SinkInv, WriteFile \/ LoadSucceeds \/ LoadFails
  PROVE  SinkTypeOK' /\ StageInv' /\ ClientInv' /\ LoadedOrKept' /\ HandedOnce'
  <1>1. pc = "handler"
    BY DEF SinkInv, SinkTypeOK, WriteFile, LoadSucceeds, LoadFails
  <1>2. UNCHANGED vars
    BY DEF WriteFile, LoadSucceeds, LoadFails
  <1>3. Batch' = Batch
    BY <1>2 DEF vars, Batch, ItemsBelow
  <1>4. TypeOK' /\ ClientInv' /\ HandedOnce' /\ pc' = "handler" /\ acked' = acked
    BY <1>1, <1>2 DEF SinkInv, SinkTypeOK, ClientInv, HandedOnce, vars, TypeOK
  <1>5. CASE WriteFile
    <2>1. file' \subseteq Batch /\ unwritten' \subseteq unwritten \cup Batch
          /\ Batch \subseteq file' \cup unwritten' /\ unwritten \subseteq unwritten'
      BY <1>1, <1>5, BatchIsNew DEF WriteFile, SinkInv
    <2>2. stage' = "load" /\ UNCHANGED <<kept, table>>
      BY <1>5 DEF WriteFile
    <2>3. SinkTypeOK'
      BY <1>1, <1>4, <2>1, <2>2, BatchIsNew DEF SinkInv, SinkTypeOK
    <2> QED
      BY <1>3, <1>4, <2>1, <2>2, <2>3 DEF SinkInv, StageInv, LoadedOrKept
  <1>6. CASE LoadSucceeds \/ LoadFails
    <2>1. /\ stage = "load" /\ stage' = "answer" /\ file' = {} /\ unwritten' = unwritten
          /\ table' \subseteq table \cup file /\ table \subseteq table'
          /\ kept' \subseteq kept \cup file /\ kept \subseteq kept'
          /\ file \subseteq table' \cup kept'
      BY <1>6 DEF LoadSucceeds, LoadFails
    <2>2. SinkTypeOK'
      BY <1>4, <2>1 DEF SinkInv, SinkTypeOK
    <2> QED
      BY <1>3, <1>4, <2>1, <2>2 DEF SinkInv, StageInv, LoadedOrKept
  <1> QED
    BY <1>5, <1>6

\* The answer: it is true for every item of the batch, and the batch is where
\* it has to be.
LEMMA HandleBatchStep ==
  ASSUME SinkInv, TypeOK', HandleBatch
  PROVE  SinkTypeOK' /\ StageInv' /\ ClientInv' /\ LoadedOrKept' /\ HandedOnce'
  <1>1. /\ pc = "handler" /\ pc' = "compact" /\ stage = "answer" /\ stage' = "write"
        /\ UNCHANGED <<file, kept, table, unwritten, client>>
    BY DEF HandleBatch, HandlerReturns
  <1>2. acked' = acked \cup Batch
    BY DEF HandleBatch, HandlerReturns, Answer, Batch, ItemsBelow
  <1>3. calls' = [v \in Item |-> calls[v] + IF v \in Batch THEN 1 ELSE 0]
    BY DEF HandleBatch, HandlerReturns, Batch
  <1>4. file = {}
    BY <1>1 DEF SinkInv, StageInv
  <1>5. SinkTypeOK' /\ StageInv' /\ ClientInv'
    BY <1>1, <1>4 DEF SinkInv, SinkTypeOK, StageInv, ClientInv
  <1>6. LoadedOrKept'
    BY <1>1, <1>2 DEF SinkInv, StageInv, LoadedOrKept
  <1>7. HandedOnce'
    <2> SUFFICES ASSUME NEW v \in Item
                 PROVE  calls'[v] <= 1 /\ (calls'[v] = 1 => v \in acked')
      BY DEF HandedOnce
    <2>1. calls[v] \in Nat /\ calls[v] <= 1 /\ (calls[v] = 1 => v \in acked)
      BY DEF SinkInv, HandedOnce, IInv, TypeOK
    <2>2. CASE v \in Batch
      <3>1. v \notin acked
        BY <1>1, <2>2, BatchIsNew DEF SinkInv
      <3> QED
        BY <1>2, <1>3, <2>1, <2>2, <3>1
    <2>3. CASE v \notin Batch
      BY <1>2, <1>3, <2>1, <2>3
    <2> QED
      BY <2>2, <2>3
  <1> QED
    BY <1>5, <1>6, <1>7

\* The writer's own steps touch neither the files nor the table, nor the batch
\* the handler is at work on.
LEMMA WriterSteps ==
  ASSUME SinkInv, TypeOK', WriterStep, UNCHANGED sinkVars
  PROVE  SinkTypeOK' /\ StageInv' /\ ClientInv' /\ LoadedOrKept' /\ HandedOnce'
  <1>1. UNCHANGED <<acked, calls, stage, file, kept, table, unwritten>>
    BY DEF WriterStep, CallSubmit, CallStop, TakeItem, TakeItemFull, TakeDone, Tick,
           SignalStop, CompactStep, CompactDone, Stopped, vars, historyVars, sinkVars
  <1>2. pc = "handler" => pc' = "handler" /\ UNCHANGED <<buffer, len>>
    BY DEF WriterStep, CallSubmit, CallStop, TakeItem, TakeItemFull, TakeDone, Tick,
           SignalStop, CompactStep, CompactDone, Stopped, vars
  <1>3. ClientInv'
    BY DEF SinkInv, ClientInv, WriterStep, CallSubmit, CallStop, TakeItem, TakeItemFull,
           TakeDone, Tick, SignalStop, CompactStep, CompactDone, Stopped, vars
  <1>4. SinkTypeOK'
    BY <1>1, <1>2 DEF SinkInv, SinkTypeOK
  <1>5. StageInv'
    <2>1. CASE pc = "handler"
      BY <1>1, <1>2, <2>1 DEF SinkInv, StageInv, Batch, ItemsBelow
    <2>2. CASE pc # "handler"
      BY <1>1, <2>2 DEF SinkInv, SinkTypeOK, StageInv
    <2> QED
      BY <2>1, <2>2
  <1> QED
    BY <1>1, <1>3, <1>4, <1>5 DEF SinkInv, LoadedOrKept, HandedOnce

\* Every step keeps the invariant.
LEMMA SinkStepInv == SinkInv /\ [SinkNext]_allVars => SinkInv'
  <1> SUFFICES ASSUME SinkInv, [SinkNext]_allVars PROVE SinkInv'
    OBVIOUS
  <1>1. IInv'
    BY SinkStepIsStep, StepIInv DEF SinkInv
  <1>2. TypeOK'
    BY <1>1 DEF IInv
  <1>3. CASE UNCHANGED allVars
    BY <1>1, <1>3 DEF SinkInv, allVars, vars, sinkVars, SinkTypeOK, TypeOK, StageInv,
           ClientInv, LoadedOrKept, HandedOnce, Batch, ItemsBelow
  <1>4. CASE SinkNext
    BY <1>1, <1>2, <1>4, HandlerSteps, HandleBatchStep, WriterSteps DEF SinkNext, SinkInv
  <1> QED
    BY <1>3, <1>4

\* The invariant holds in every reachable state, for all constants.
THEOREM SinkInvariance == SinkSpec => []SinkInv
  BY SinkInitInv, SinkStepInv, PTL DEF SinkSpec

-----------------------------------------------------------------------------
\* SinkTypeOK of BigQuery: the handler has a file only while it is at work.
THEOREM SinkTypeCorrect == SinkSpec => []SinkTypeOK
  <1>1. SinkInv => SinkTypeOK
    BY DEF SinkInv
  <1> QED
    BY <1>1, SinkInvariance, PTL

\* Whatever the disk and BigQuery do, an item the handler has answered for is
\* loaded, or in a file on disk, or its file could not be written
\* (bigquery.go:185-203).
THEOREM NothingVanishes == SinkSpec => []LoadedOrKept
  <1>1. SinkInv => LoadedOrKept
    BY DEF SinkInv
  <1> QED
    BY <1>1, SinkInvariance, PTL

\* The handler sees each item once, for every retry limit.
THEOREM NeverRetried == SinkSpec => []HandedOnce
  <1>1. SinkInv => HandedOnce
    BY DEF SinkInv
  <1> QED
    BY <1>1, SinkInvariance, PTL

\* When Stop has returned, every item given to Send is settled: the goroutine
\* has ended, so the buffer is empty; what left it has been tried, and what
\* was tried has been answered for (bigquery.go:232-234).
THEOREM StopFlushes == SinkSpec => []StoppedIsFlushed
  <1>1. SinkInv => StoppedIsFlushed
    <2> SUFFICES ASSUME SinkInv, client = "stopped", NEW v \in 1 .. accepted
                 PROVE  v \in table \cup kept \cup unwritten
      BY DEF StoppedIsFlushed
    <2>1. pc = "exited"
      BY DEF SinkInv, ClientInv
    <2>2. InWriter = {}
      <3>1. LiveSlots = {}
        BY <2>1 DEF LiveSlots
      <3>2. held = NoItem
        BY <2>1 DEF SinkInv, IInv, ControlInv
      <3> QED
        BY <3>1, <3>2 DEF InWriter
    <2>3. v \in Item
      BY DEF SinkInv, IInv, TypeOK, Item
    <2>4. calls[v] > 0
      BY <2>2 DEF SinkInv, IInv, NoneLeavesUntried
    <2>5. calls[v] \in Nat
      BY <2>3 DEF SinkInv, IInv, TypeOK
    <2>6. v \in acked
      BY <2>3, <2>4, <2>5 DEF SinkInv, HandedOnce
    <2> QED
      BY <2>6 DEF SinkInv, LoadedOrKept
  <1> QED
    BY <1>1, SinkInvariance, PTL

\* The sink is a writer: whatever its handler does, it does so within the steps
\* of the writer.
THEOREM SinkIsWriter == SinkSpec => Spec
  <1>1. SinkInit => Init
    BY DEF SinkInit
  <1>2. SinkInv /\ [SinkNext]_allVars => [Next]_vars
    BY SinkStepIsStep DEF SinkInv
  <1> QED
    BY <1>1, <1>2, SinkInvariance, PTL DEF SinkSpec, Spec

\* So it keeps the contract of batch.Writer towards those who call its Send
\* (bigquery.go:227-234, writer.go:46-124).
THEOREM SinkRefinement == SinkSpec => ImplementsContract
  BY SinkIsWriter, Refinement

=============================================================================
