--------------------------- MODULE MCConflictMesh ---------------------------
(* Model-checking instance of ConflictMesh: node_seq_ids are assigned in  *)
(* join order, so a node that joined earlier has the lower id.            *)
EXTENDS ConflictMesh

CONSTANTS A, B, C

MCSeqId == [n \in Nodes |-> CASE n = A -> 1 [] n = B -> 2 [] n = C -> 3]

(* No conflict handler registered on the table.                           *)
MCNoHandlers == <<>>

(* Handlers that let last-update-wins decide: an update_update handler    *)
(* limited to conflicts within one tick, and insert_insert handlers that  *)
(* return IGNORE, one of them registered for no conflict type in use.     *)
MCIgnoreHandlers ==
    << [type |-> "update_update", timeframe |-> 1, action |-> "ignore"],
       [type |-> "insert_insert", timeframe |-> 0, action |-> "ignore"],
       [type |-> "update_delete", timeframe |-> 0, action |-> "skip"] >>

=============================================================================
