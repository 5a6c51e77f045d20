---------------------------- MODULE BatchContract ----------------------------
(****************************************************************************)
(* What a batching writer promises about every item it accepts, whatever    *)
(* its buffer looks like: the item is handed to the handler at least once,  *)
(* at most MaxRetries + 1 times, never again once the handler took it, and  *)
(* it is let go only when the handler took it or has refused it.            *)
(* BatchWriter (pkg/batch/writer.go) is shown to implement this contract.   *)
(****************************************************************************)
EXTENDS Integers

CONSTANTS
    Item,           \* the items clients submit, numbered in submission order
    MaxRetries      \* WriterConfig.MaxRetries

VARIABLES
    status,         \* "new", "pending", "acked" or "gone", for each item
    tries           \* how many times the handler was given each item

contractVars == <<status, tries>>

ContractInit ==
    /\ status = [v \in Item |-> "new"]
    /\ tries = [v \in Item |-> 0]

\* The writer accepts an item: from here on it answers for it.
Accept(v) ==
    /\ status[v] = "new"
    /\ status' = [status EXCEPT ![v] = "pending"]
    /\ UNCHANGED tries

\* The handler is called with the items of Batch and takes those of Taken.
Deliver(Batch, Taken) ==
    /\ Batch # {} /\ Taken \subseteq Batch
    /\ \A v \in Batch : status[v] = "pending" /\ tries[v] <= MaxRetries
    /\ status' = [v \in Item |-> IF v \in Taken THEN "acked" ELSE status[v]]
    /\ tries' = [v \in Item |-> tries[v] + IF v \in Batch THEN 1 ELSE 0]

\* The writer forgets items the handler has refused at least once.
LetGo(Dropped) ==
    /\ \A v \in Dropped : status[v] = "pending" /\ tries[v] > 0
    /\ status' = [v \in Item |-> IF v \in Dropped THEN "gone" ELSE status[v]]
    /\ UNCHANGED tries

ContractNext ==
    \/ \E v \in Item : Accept(v)
    \/ \E Batch \in SUBSET Item : \E Taken \in SUBSET Batch : Deliver(Batch, Taken)
    \/ \E Dropped \in SUBSET Item : LetGo(Dropped)

ContractSpec == ContractInit /\ [][ContractNext]_contractVars

\* Every item the writer has accepted is at last taken or let go: a failing
\* item does not stay in the buffer for ever (writer.go:95-97).
EveryItemSettled ==
    \A v \in Item : status[v] = "pending" ~> status[v] \in {"acked", "gone"}

=============================================================================
