--------------------------- MODULE ConfirmedFlush ---------------------------
(***************************************************************************)
(* What an apply session promises the upstream's logical slot, stated     *)
(* without queues, LSN maps, feedback or crashes.  The downstream makes   *)
(* upstream transactions durable in commit order (a transaction without   *)
(* row changes leaves nothing to make durable), and the slot's            *)
(* confirmed_flush moves forward only over transactions that are durable  *)
(* downstream or wrote nothing.  The slot may then discard them: the      *)
(* upstream never sends them again.                                       *)
(*                                                                         *)
(* ApplySession implements this specification under the mapping          *)
(*   durable <- the remote LSNs of the flushed local commit records,      *)
(*   confirmed <- the slot's confirmed_flush.                             *)
(***************************************************************************)
EXTENDS Naturals, Sequences, FiniteSets

CONSTANTS
    Rows           \* Rows[i]: number of row changes in upstream transaction i

N == Len(Rows)
Txns == 1..N
Writing == {i \in Txns : Rows[i] > 0}

VARIABLES
    durable,       \* upstream transactions whose effects are durable downstream
    confirmed      \* the slot's confirmed_flush (0: nothing confirmed)

LastDurable == IF durable = {} THEN 0
               ELSE CHOOSE i \in durable : \A j \in durable : j <= i

(* A WAL flush (or a crash that keeps the flushed prefix) makes a batch   *)
(* of later writing transactions durable.                                 *)
Persist ==
    /\ \E S \in SUBSET {i \in Writing : i > LastDurable} :
          /\ S # {}
          /\ durable' = durable \cup S
    /\ UNCHANGED confirmed

(* Feedback moves confirmed_flush forward over transactions that are      *)
(* durable or wrote nothing.                                              *)
Confirm ==
    /\ \E c \in confirmed+1..N :
          /\ \A i \in 1..c : i \in Writing => i \in durable
          /\ confirmed' = c
    /\ UNCHANGED durable

Init == durable = {} /\ confirmed = 0

Next == Persist \/ Confirm

Spec == Init /\ [][Next]_<<durable, confirmed>>

=============================================================================
