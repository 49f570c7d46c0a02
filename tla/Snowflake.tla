------------------------------ MODULE Snowflake ------------------------------
(***************************************************************************)
(* Global sequence ids of pgactive_snowflake_id_nextval_oid               *)
(* (src/pgactive_seq.c): a 64-bit signed id made of a millisecond         *)
(* timestamp since the 2016 epoch (40 bits), the node's node_seq_id       *)
(* (10 bits) and the value of a local sequence modulo MAX_SEQ_ID          *)
(* (14 bits).  The widths are constants so that TLC can check a scaled    *)
(* layout; the code's layout is TsBits = 40, NodeBits = 10, SeqBits = 14. *)
(*                                                                         *)
(* Every node calls nextval on its own sequence; the clock advances in    *)
(* milliseconds.  An id is a signed integer of Width bits: the shift      *)
(* works on the two's-complement bit pattern (the build wraps signed      *)
(* overflow), and the result is read back as int64.                       *)
(***************************************************************************)
EXTENDS Integers, FiniteSets, Bitwise

CONSTANTS
    TsBits,        \* TIMESTAMP_BITS
    NodeBits,      \* NODEID_BITS
    SeqBits,       \* SEQUENCE_BITS
    Nodes,         \* node_seq_ids of the nodes calling nextval
    MaxTime,       \* bound on the clock, in ms since seq_ts_epoch
    MaxCallsPerMs, \* bound on nextval calls per node per millisecond
    MaxCalls       \* bound on nextval calls in all

Width == TsBits + NodeBits + SeqBits
MAX_SEQ_ID == 2^SeqBits - 1
MAX_TIMESTAMP == 2^TsBits - 1
MAX_NODE_ID == 2^NodeBits - 1

ASSUME Nodes \subseteq 0..MAX_NODE_ID
ASSUME MaxTime \in Nat /\ MaxCallsPerMs \in Nat \ {0} /\ MaxCalls \in Nat

VARIABLES
    now,       \* current time in ms since the epoch
    seqval,    \* seqval[n]: last value returned by nextval on n's sequence
    perMs,     \* perMs[n]: nextval calls of n in the current millisecond
    issued,    \* ids returned so far: [node, ts, parts, id]
    errors,    \* calls that raised the out-of-range ERROR
    calls

vars == <<now, seqval, perMs, issued, errors, calls>>

-----------------------------------------------------------------------------
(* x << k on a Width-bit two's-complement pattern (bits shifted out are   *)
(* dropped), and the pattern read back as a signed integer.               *)
ShiftLeft(x, k) == (x * 2^k) % 2^Width
AsSigned(u) == IF u >= 2^(Width - 1) THEN u - 2^Width ELSE u

\* Mutant: the cached node id is never filled in (stays at its default).
GlobalSeqGetNodeidStale(n) == 0

(* global_seq_get_nodeid / global_seq_read_nodeid: this node's            *)
(* node_seq_id, cached per database; ERROR outside 0 .. MAX_NODE_ID.      *)
GlobalSeqGetNodeid(n) == n

(* The id computed at lines 114-116 for an in-range timestamp.            *)
SnowflakeId(timestamp, nodeid, sequence) ==
    AsSigned(ShiftLeft(timestamp, Width - TsBits)
             | ShiftLeft(nodeid, Width - TsBits - NodeBits)
             | sequence)

-----------------------------------------------------------------------------
(* pgactive_snowflake_id_nextval_oid: nextval is taken (and stays taken,  *)
(* sequences being non-transactional) before the range checks; an out of  *)
(* range timestamp raises ERROR, otherwise the id is returned.            *)
NextVal(n) ==
    /\ calls < MaxCalls
    /\ perMs[n] < MaxCallsPerMs
    /\ LET sequenced == seqval[n] + 1
           sequence  == sequenced % MAX_SEQ_ID
           timestamp == now
           nodeid    == GlobalSeqGetNodeid(n)
       IN /\ seqval' = [seqval EXCEPT ![n] = sequenced]
          /\ IF timestamp < 0 \/ timestamp > MAX_TIMESTAMP
                THEN /\ errors' = errors + 1
                     /\ UNCHANGED issued
                ELSE /\ issued' = issued \cup
                          {[node |-> n, ts |-> now, parts |-> <<timestamp, nodeid, sequence>>,
                            id |-> SnowflakeId(timestamp, nodeid, sequence)]}
                     /\ UNCHANGED errors
    /\ perMs' = [perMs EXCEPT ![n] = @ + 1]
    /\ calls' = calls + 1
    /\ UNCHANGED now

Tick ==
    /\ now < MaxTime
    /\ now' = now + 1
    /\ perMs' = [n \in Nodes |-> 0]
    /\ UNCHANGED <<seqval, issued, errors, calls>>

Init ==
    /\ now = 0
    /\ seqval = [n \in Nodes |-> 0]
    /\ perMs = [n \in Nodes |-> 0]
    /\ issued = {}
    /\ errors = 0
    /\ calls = 0

Next == Tick \/ \E n \in Nodes : NextVal(n)

Spec == Init /\ [][Next]_vars

-----------------------------------------------------------------------------
(* Global uniqueness: two nextval calls, on the same or different nodes,  *)
(* never return the same id while no node exceeds MAX_SEQ_ID calls in one *)
(* millisecond, over the whole timestamp range (negative ids included).   *)
IdsUnique ==
    \A a, b \in issued : a.id = b.id => a = b

(* Time order: an id issued in a later millisecond is larger than every   *)
(* id issued in an earlier one, for every timestamp nextval accepts (the  *)
(* comment at seq.c:46-48 says the scheme handles milliseconds up to      *)
(* 2042).  The shift at line 114 puts timestamp bit 39 into the int64     *)
(* sign bit, so ids turn negative from 2^39 ms after the epoch (2034).    *)
IdsTimeOrdered ==
    \A a, b \in issued : a.ts < b.ts => a.id < b.id

=============================================================================
