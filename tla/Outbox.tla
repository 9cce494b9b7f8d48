-------------------------------- MODULE Outbox --------------------------------
(***************************************************************************)
(* Reports that are accepted one at a time and sent in batches, abstractly:*)
(* an item is held until its batch is told or has failed, and that is the  *)
(* end of it.  MissedCalls implements it.                                  *)
(***************************************************************************)
CONSTANT Item

VARIABLE status      \* of each item: "none", "held", "told", "failed"

OutboxInit == status = [i \in Item |-> "none"]

Accept(i) == status[i] = "none" /\ status' = [status EXCEPT ![i] = "held"]

\* A batch of held items is settled together.
Settle(batch, outcome) ==
  /\ \A i \in batch : status[i] = "held"
  /\ status' = [i \in Item |-> IF i \in batch THEN outcome ELSE status[i]]

OutboxNext ==
  \/ \E i \in Item : Accept(i)
  \/ \E batch \in SUBSET Item : Settle(batch, "told") \/ Settle(batch, "failed")

OutboxSpec == OutboxInit /\ [][OutboxNext]_status
=============================================================================
