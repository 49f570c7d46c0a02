---------------------------- MODULE ConflictMesh ----------------------------
(***************************************************************************)
(* Multi-master replay of one logical row (one replica-identity key) in a *)
(* full mesh of pgactive nodes.  Each node writes the row locally; every  *)
(* local commit is sent to every peer over a FIFO per-pair stream, and    *)
(* each peer's apply worker replays it with process_remote_insert /       *)
(* update / delete, detecting and resolving conflicts with                *)
(* check_apply_update and last-update-wins (src/pgactive_apply.c).        *)
(*                                                                         *)
(* A row version is identified by its commit timestamp and origin node    *)
(* (TransactionIdGetCommitTsData of the tuple's xmin): an applied remote  *)
(* change is committed with the remote commit timestamp and the session's *)
(* replication origin, so a version keeps both as it travels.  Clocks are *)
(* a shared tick counter: concurrent commits on different nodes may carry *)
(* equal timestamps, a node never commits twice in one tick, and a local  *)
(* write is later than the version it overwrites.  The table's conflict   *)
(* handlers are a constant list; a handler's user function is abstracted  *)
(* to the action it returns.  A row a handler returns is written by the   *)
(* apply transaction, so it carries the remote commit timestamp and the   *)
(* session's origin: as a version it is the remote one.                   *)
(***************************************************************************)
EXTENDS Naturals, Sequences, FiniteSets

CONSTANTS
    Nodes,       \* the nodes of the mesh (model values)
    SeqId,       \* SeqId[n]: node_seq_id of n, unique and positive
    Ops,         \* local operations users run: subset of {"insert","update","delete"}
    MaxTs,       \* bound on the clock
    MaxWrites,   \* bound on local write transactions
    Handlers     \* pgactive.pgactive_conflict_handlers rows of the table, in
                 \*   query order: [type, timeframe (0 for NULL), action]

ASSUME SeqId \in [Nodes -> Nat \ {0}]
ASSUME \A a, b \in Nodes : a # b => SeqId[a] # SeqId[b]
ASSUME Ops \subseteq {"insert", "update", "delete"}
ASSUME Handlers \in Seq([type : {"insert_insert", "update_update", "update_delete", "delete_delete"},
                         timeframe : Nat, action : {"row", "skip", "ignore"}])

Absent == [absent |-> TRUE]
Versions == [ts : 1..MaxTs, origin : Nodes]
Pairs == {p \in Nodes \X Nodes : p[1] # p[2]}
Msgs == [op : {"insert", "update", "delete"}, ver : Versions]

VARIABLES
    now,         \* the clock
    row,         \* row[n]: the version stored on node n, or Absent
    lastWrite,   \* lastWrite[n]: tick of n's last local commit
    chan,        \* chan[<<m, n>>]: changes committed on m not yet replayed on n
    conflictLog, \* conflictLog[n]: conflicts logged on n
    resolved,    \* history: every conflict resolved on insert/update replay
    writes

vars == <<now, row, lastWrite, chan, conflictLog, resolved, writes>>

-----------------------------------------------------------------------------
(* get_local_tuple_origin: commit timestamp and origin of the local row.  *)
LocalTs(v) == v.ts
LocalOrigin(v) == v.origin

(* pgactive_get_conflict_handlers: the handler list cached on the        *)
(* relation the first time a conflict on it is resolved.                  *)
ConflictHandlers == Handlers

(* pgactive_conflict_handlers_resolve: the first handler of the conflict  *)
(* type whose timeframe is unset or covers the commit time difference and *)
(* whose function does not return IGNORE decides: "row" or "skip".  With  *)
(* none, "decline" (NULL and skip = false).                               *)
HandlersResolve(kind, timeframe) ==
    LET h == ConflictHandlers
        usable == {i \in 1..Len(h) :
                     /\ h[i].type = kind
                     /\ ~(h[i].timeframe # 0 /\ h[i].timeframe < timeframe)
                     /\ h[i].action # "ignore"}
    IN IF usable = {} THEN "decline"
       ELSE h[CHOOSE i \in usable : \A j \in usable : i <= j].action

AbsDiff(a, b) == IF a > b THEN a - b ELSE b - a

(* pgactive_conflict_last_update_wins, replayed on node `self` from the   *)
(* upstream `upstream`: the later commit timestamp wins; on a tie the     *)
(* node_seq_ids of the local node and of the remote node are compared and *)
(* the lower one wins.  Returns [apply, log, resolution].                 *)
LastUpdateWins(self, upstream, localTs, remoteTs) ==
    CASE remoteTs > localTs ->
            [apply |-> TRUE, log |-> FALSE, res |-> "keep_remote"]
      [] remoteTs < localTs ->
            [apply |-> FALSE, log |-> TRUE, res |-> "keep_local"]
      [] SeqId[self] < SeqId[upstream] ->
            [apply |-> FALSE, log |-> TRUE, res |-> "keep_local"]
      [] OTHER ->
            [apply |-> TRUE, log |-> FALSE, res |-> "keep_remote"]

\* Mutant: the fast path tests for a locally written row instead of the
\* session's origin.
CheckApplyUpdateLocalFastPath(kind, self, upstream, local, remoteTs) ==
    IF LocalOrigin(local) = self
       THEN [apply |-> TRUE, log |-> FALSE, res |-> "none"]
       ELSE LastUpdateWins(self, upstream, LocalTs(local), remoteTs)

(* check_apply_update: a row last written by the replaying session's own  *)
(* origin is applied without conflict; otherwise the conflict handlers    *)
(* are asked (timeframe: the commit time difference), a SKIP or a         *)
(* returned row is logged, and a decline falls through to                 *)
(* last-update-wins.                                                      *)
CheckApplyUpdate(kind, self, upstream, local, remoteTs) ==
    LET h == HandlersResolve(kind, AbsDiff(remoteTs, LocalTs(local))) IN
    CASE LocalOrigin(local) = upstream ->
            [apply |-> TRUE, log |-> FALSE, res |-> "none"]
      [] h = "skip" ->
            [apply |-> FALSE, log |-> TRUE, res |-> "trigger_skip"]
      [] h = "row" ->
            [apply |-> TRUE, log |-> TRUE, res |-> "trigger_row"]
      [] OTHER ->
            LastUpdateWins(self, upstream, LocalTs(local), remoteTs)

-----------------------------------------------------------------------------
(* A local user transaction on node n writes the row at the current tick  *)
(* and its commit is queued for every peer.                               *)
LocalWrite(n, op) ==
    /\ writes < MaxWrites
    /\ lastWrite[n] < now
    /\ CASE op = "insert" -> row[n] = Absent
         [] OTHER         -> row[n] # Absent /\ row[n].ts < now
    /\ LET v == [ts |-> now, origin |-> n] IN
       /\ row' = [row EXCEPT ![n] = IF op = "delete" THEN Absent ELSE v]
       /\ chan' = [p \in Pairs |-> IF p[1] = n
                                      THEN Append(chan[p], [op |-> op, ver |-> v])
                                      ELSE chan[p]]
    /\ lastWrite' = [lastWrite EXCEPT ![n] = now]
    /\ writes' = writes + 1
    /\ UNCHANGED <<now, conflictLog, resolved>>

Tick ==
    /\ now < MaxTs
    /\ now' = now + 1
    /\ UNCHANGED <<row, lastWrite, chan, conflictLog, resolved, writes>>

(* pgactive_make_apply_conflict: the record of one conflict; the tuples, *)
(* xids, LSNs and node sysids it also copies are abstracted to the        *)
(* remote version.                                                        *)
MakeApplyConflict(kind, res, v) == [kind |-> kind, res |-> res, ver |-> v]

(* pgactive_conflict_log_table: the conflict becomes a row of             *)
(* pgactive_conflict_history on n, in the replay transaction              *)
(* (pgactive.log_conflicts_to_table is on by default).                    *)
LogConflict(n, conflict) ==
    conflictLog' = [conflictLog EXCEPT ![n] = @ \cup {conflict}]

(* Replay of one insert or update whose target row was found: resolve,    *)
(* log if asked to, apply if asked to.                                    *)
ResolveAndApply(n, m, kind, v) ==
    LET d == CheckApplyUpdate(kind, n, m, row[n], v.ts) IN
    /\ row' = [row EXCEPT ![n] = IF d.apply THEN v ELSE @]
    /\ IF d.log THEN LogConflict(n, MakeApplyConflict(kind, d.res, v))
       ELSE UNCHANGED conflictLog
    /\ resolved' = IF d.res = "none" THEN resolved
                   ELSE resolved \cup {[node |-> n, kind |-> kind, res |-> d.res, ver |-> v]}

(* process_remote_insert: a unique-key match is an insert_insert conflict *)
(* resolved like an update; otherwise a plain insert.                     *)
ProcessRemoteInsert(n, m, v) ==
    IF row[n] # Absent
       THEN ResolveAndApply(n, m, "insert_insert", v)
       ELSE /\ row' = [row EXCEPT ![n] = v]
            /\ UNCHANGED <<conflictLog, resolved>>

(* process_remote_update: a found target goes through check_apply_update *)
(* as update_update; a missing target is an update_delete conflict: the   *)
(* handlers are asked with timeframe 0, a returned row is inserted, and   *)
(* the conflict is logged whatever the resolution.                        *)
ProcessRemoteUpdate(n, m, v) ==
    IF row[n] # Absent
       THEN ResolveAndApply(n, m, "update_update", v)
       ELSE LET h == HandlersResolve("update_delete", 0)
                res == CASE h = "skip" -> "trigger_skip"
                         [] h = "row"  -> "trigger_row"
                         [] OTHER      -> "default_skip"
            IN /\ row' = [row EXCEPT ![n] = IF h = "row" THEN v ELSE @]
               /\ LogConflict(n, MakeApplyConflict("update_delete", res, v))
               /\ UNCHANGED resolved

(* process_remote_delete: a found target is deleted whatever its version; *)
(* a missing one is a delete_delete conflict: the handlers are asked with *)
(* timeframe 0 and the change is skipped and logged.  A handler returning *)
(* a row raises ERROR: the transaction aborts and is received again after *)
(* the worker restarts, so replay from m never gets past it.              *)
ProcessRemoteDelete(n, m, v) ==
    IF row[n] # Absent
       THEN /\ row' = [row EXCEPT ![n] = Absent]
            /\ UNCHANGED <<conflictLog, resolved>>
       ELSE LET h == HandlersResolve("delete_delete", 0) IN
            /\ h # "row"
            /\ LogConflict(n, MakeApplyConflict("delete_delete",
                              IF h = "skip" THEN "trigger_skip" ELSE "default_skip", v))
            /\ UNCHANGED <<row, resolved>>

(* The apply worker on n for upstream m replays the next change.          *)
Apply(n, m) ==
    /\ chan[<<m, n>>] # <<>>
    /\ LET msg == Head(chan[<<m, n>>]) IN
       /\ chan' = [chan EXCEPT ![<<m, n>>] = Tail(@)]
       /\ CASE msg.op = "insert" -> ProcessRemoteInsert(n, m, msg.ver)
            [] msg.op = "update" -> ProcessRemoteUpdate(n, m, msg.ver)
            [] msg.op = "delete" -> ProcessRemoteDelete(n, m, msg.ver)
    /\ UNCHANGED <<now, lastWrite, writes>>

-----------------------------------------------------------------------------
Init ==
    /\ now = 1
    /\ row = [n \in Nodes |-> Absent]
    /\ lastWrite = [n \in Nodes |-> 0]
    /\ chan = [p \in Pairs |-> <<>>]
    /\ conflictLog = [n \in Nodes |-> {}]
    /\ resolved = {}
    /\ writes = 0

Next ==
    \/ Tick
    \/ \E n \in Nodes, op \in Ops : LocalWrite(n, op)
    \/ \E p \in Pairs : Apply(p[2], p[1])

Spec == Init /\ [][Next]_vars /\ \A p \in Pairs : WF_vars(Apply(p[2], p[1]))

-----------------------------------------------------------------------------
TypeOK ==
    /\ now \in 1..MaxTs
    /\ row \in [Nodes -> Versions \cup {Absent}]
    /\ lastWrite \in [Nodes -> 0..MaxTs]
    /\ chan \in [Pairs -> Seq(Msgs)]
    /\ writes \in 0..MaxWrites

Quiescent == \A p \in Pairs : chan[p] = <<>>

(* Convergence: once every committed change has been replayed everywhere, *)
(* all nodes hold the same version of the row.  Needs conflict resolution *)
(* to pick the same winner on every node whatever the replay order.       *)
Converged == Quiescent => \A a, b \in Nodes : row[a] = row[b]

(* Every insert/update conflict that was resolved between versions of     *)
(* different origins leaves a conflict record (spec section 8: a remote   *)
(* update that wins is logged as update_update /                          *)
(* last_update_wins_keep_remote).  The keep-remote branches at           *)
(* apply.c:1403 return without logging, so TLC finds this violated; no    *)
(* run keeps it (see the hazard at apply.c:1403).                         *)
ConflictsLogged ==
    \A r \in resolved :
        \E l \in conflictLog[r.node] : l.kind = r.kind /\ l.ver = r.ver

=============================================================================
