# TLA+ models of the pgactive apply engine

This directory has TLA+ models of pgactive's replay (apply) engine, in
`src/pgactive_apply.c`, and of the parts it talks to: DDL and TRUNCATE
replication, the per-database supervisor, the global sequence and the
monitoring wait function. TLC checks them.
The modules are written from the C source. Where a model stops and an
environment assumption takes over, this document says so.

## The system

pgactive is a multi-master logical replication extension for PostgreSQL.
Every node runs one apply worker per peer. The worker reads the peer's
logical stream, which carries BEGIN, row changes and COMMIT, plus
walsender keepalives. It replays each transaction locally and resolves
conflicts with local writes. It also reports back to the peer's
walsender how far the stream is durably applied, so the peer's
replication slot can discard what is no longer needed.

| Part | Source | State | Operations |
|---|---|---|---|
| Apply dispatcher | `pgactive_apply.c` `pgactive_apply_work`, `pgactive_process_remote_action`, `process_remote_begin/commit` | `started_transaction`, `replorigin_session_origin_lsn`, `last_received`, `replay_stop_lsn` | receive data / keepalive, BEGIN, row, COMMIT, catchup stop |
| Flush tracker / feedback | `pgactive_get_flush_position`, `pgactive_send_feedback` | `pgactive_lsn_association` queue, static `last_recvpos/writepos/flushpos` | push at local commit, dequeue flushed entries, send reply |
| Worker lifecycle | `pgactive_apply_main` | replication origin in shared memory | connect and START_REPLICATION from the origin's progress; ERROR exit and restart |
| Conflict detector and resolver | `process_remote_insert/update/delete`, `check_apply_update`, `pgactive_conflict_last_update_wins`, `get_local_tuple_origin` | the row version and its commit timestamp and origin | insert_insert, update_update, update_delete, delete_delete, last-update-wins |
| Conflict logging | `pgactive_conflict_logging.c` | conflict history | log a resolved conflict when `log_update` is set |
| Conflict handlers | `pgactive_conflict_handlers.c` | per-relation handler cache | resolve via user functions |
| Global sequence | `pgactive_seq.c` | none (pure) | snowflake id |
| DDL / TRUNCATE replication, command filter | `pgactive_ddlrep*.c`, `pgactive_commandfilter.c`, `process_queued_ddl_command` | `pgactive_queued_commands`, the truncated-tables list, truncate triggers | capture and queue DDL, queue TRUNCATE, replay queued commands, reject unsupported commands |
| Per-database supervisor | `pgactive_perdb.c` | worker registry | start and restart workers, drop a detached peer's slot and origin |
| Monitoring | `pgactive_monitoring.c` | none (polls slots) | wait until every slot has confirmed an LSN |

The environment is PostgreSQL core, which is not in this repository. It
covers the walsender and slot, WAL flushing, server crashes, and the
users' local transactions. Each module models this environment as
separate actions, and the map in PROJECT.json does not list them.

## Modules

### ApplySession (`ApplySession.tla`, instantiated by `MCApplySession.tla`)

This module models one apply session: one upstream and one worker.

- **LSNs.** These are abstracted. Upstream transaction *i* has
  commit-end LSN *i*. A local LSN is an index into the local WAL, and 0
  stands for `InvalidXLogRecPtr`.
- **Constant `Rows`.** It gives the number of row changes in each
  upstream transaction. `MCRows = <<2, 1, 0>>`, so the last transaction
  writes nothing, which is the case where only the received position
  confirms it.
- **Upstream state.** `confirmed` (the slot's confirmed_flush), `wsTxn`
  and `wsOff` (the decoding position), and `stream` (the in-flight COPY
  data, FIFO and bounded by `MaxInFlight`).
- **Local state.** `wal` (commit records tagged with their remote LSN),
  `flushed` (the durable prefix) and `origin` (replication origin
  progress in shared memory).
- **Worker state.** `sessionLsn`, `startedTxn`, `lsnQueue`,
  `lastReceived`, and the three feedback statics.

| Action | Code |
|---|---|
| `Receive` | one iteration of the inner read loop of `pgactive_apply_work`. A `'k'` message calls `SendFeedback(endpos, reply_requested)`. A `'w'` message advances `last_received` and dispatches through `ProcessRemoteBegin`, `ProcessRemoteRow` (`pgactive_performing_work`) and `ProcessRemoteCommit` |
| `ProcessRemoteCommit` | the whole of `process_remote_commit`: a local commit only if a row started a transaction; the origin advanced by the commit record; the queue push; and the catchup stop (`CatchupExit`), which does `XLogFlush(GetXLogWriteRecPtr())` and then `proc_exit(0)`. The flush reaches only the WAL write pointer, so the model lets it end anywhere between the flushed position and the end of the commit just inserted |
| `LoopFeedback` | the "confirm all writes at once" call after the inner loop |
| `SendFeedback` / `FlushedPrefix` | `pgactive_send_feedback` and `pgactive_get_flush_position`, including the empty-queue case that reports `recvpos` |
| `StartWorker` | `pgactive_apply_main`: process-local state starts empty; the walsender decodes from max(origin progress, confirmed_flush) |
| `WorkerError` | any ERROR exit of the worker |
| `ServerCrash` | truncates the WAL to its flushed prefix and recovers the origin from it |
| `WalSndSend`, `WalSndKeepalive`, `WalFlush` | the environment: walsender and walwriter |
| `WaitForSlotsCall` / `WaitForSlotsReturn` | `pgactive_wait_for_slots_confirmed_flush_lsn` in `pgactive_monitoring.c`: a backend takes a target LSN and polls, sleeping up to 1 s, until the oldest valid slot's confirmed_flush reaches it (one slot, the session's) |

**Refinement.** `ConfirmedFlush.tla` is the abstract promise the session
makes the upstream slot: transactions become durable downstream in
commit order, and `confirmed` moves only over transactions that are
durable or wrote nothing. `ApplySession` instantiates it as
`Abstract == INSTANCE ConfirmedFlush WITH durable <- DurablyApplied,
confirmed <- confirmed`, where `DurablyApplied` is the set of remote
LSNs of the flushed local commit records, and checks
`ImplementsConfirmedFlush == Abstract!Spec` as a property. The
refinement holds in runs with server crashes but no worker ERROR. With
a single worker ERROR it already fails without any crash: the restarted
worker confirms a commit that is not yet flushed, which the abstract
spec forbids. A crash then turns this into the lost transaction of the
apply_restart_crash finding.

### ConflictMesh (`ConflictMesh.tla`, instantiated by `MCConflictMesh.tla`)

This module models one replica-identity key in a full mesh of 2 or 3
nodes. There is one FIFO stream per ordered pair of nodes.

- **Row versions.** A version is `[ts, origin]`. Replay commits with
  the remote commit timestamp under the session's replication origin, so
  a version keeps both as it travels. `get_local_tuple_origin` reads
  them back.
- **`LocalWrite(n, op)`.** A user transaction on node `n`, sent to
  every peer. It is the environment.
- **`Apply(n, m)`.** The worker on `n` for upstream `m` replays the next
  change. It dispatches through the whole `ProcessRemoteInsert`,
  `ProcessRemoteUpdate` or `ProcessRemoteDelete`:
  - found rows go through `CheckApplyUpdate`, which has the same-origin
    fast path and then `LastUpdateWins`;
  - a missing update target is update_delete: logged, default skip;
  - a missing delete target is delete_delete: logged, skip.
- **Clock.** It is a shared tick, so concurrent writes on different
  nodes can carry equal timestamps. A node writes at most once per tick,
  and only after the version it overwrites.
- **Seq ids.** `SeqId` gives each node's node_seq_id, in join order.
- **Conflict handlers.** The constant `Handlers` is the relation's
  cached handler list (`ConflictHandlers`, from
  `pgactive_get_conflict_handlers`). Each entry is `[type, timeframe,
  action]`, where the user function is abstracted to the action it
  returns: `"row"` (a tuple), `"skip"`, or `"ignore"` (fall through).
  `HandlersResolve` is `pgactive_conflict_handlers_resolve`: the first
  handler of the conflict's type whose timeframe is 0 or at least the
  timestamp difference, and whose action is not ignore, decides;
  otherwise it declines. It is called:
  - from `CheckApplyUpdate` for insert_insert and update_update, with the
    absolute commit-timestamp difference;
  - for update_delete with timeframe 0, where a returned row is
    inserted;
  - for delete_delete with timeframe 0, where a returned row is an
    ERROR. A worker that hits it can never get past the change, so the
    model takes no step.

  The cfgs use three lists: none, a list whose ignore entries fall
  through to a skipping update_delete handler, and a delete_delete skip
  handler.
- **`conflictLog` and `resolved`.** `conflictLog` holds the records that
  `log_update` sends to the log. `resolved` is a history of every
  conflict resolved by last-update-wins.

### DdlReplication (`DdlReplication.tla`, instantiated by `MCDdlReplication.tla`)

This module models DDL and TRUNCATE replication among the nodes of one
database. Every schema exists on every node. Tables are `[schema, name]`
records. A statement is CREATE [UNLOGGED] TABLE, qualified or resolved
through the session's search_path, ALTER TABLE ... ADD COLUMN without
a DEFAULT (columns themselves are abstracted away), or TRUNCATE of
existing tables.

- **State.** `tables[n]`, `unlogged[n]` (those created UNLOGGED),
  `trig[n]` (tables carrying pgactive's
  `truncate_trigger`), `queue[<<o, p>>]` (rows inserted into
  `pgactive_queued_commands` on `o` that `p` has not yet replayed, one
  FIFO stream per origin), `executed[n][k]` (how often statement `k`
  took effect on `n`), and `nstmts`. `localOnly` records the statements
  that touch only UNLOGGED tables of their node. pgactive leaves those
  on their node by design, so the properties skip them.
- **Origin side.** `Statement` is one utility statement through
  `pgactive_commandfilter` in its own transaction. Capture rows are
  queued and the statement executed, or an ERROR rolls both back, so a
  failing statement is no step at all.
  - `FilterSkips` and `FilterCaptures`: replayed statements and TRUNCATE
    go to `done` without capture. Capture is suppressed inside
    `pgactive_replicate_ddl_command`. It is also suppressed for a
    statement that `statement_affects_only_nonpermanent` exempts
    (`AffectsOnlyNonpermanent`), which the code does only for CREATE
    with a non-permanent relpersistence. ALTER TABLE is always captured.
  - `CaptureDdl` and `CaptureSearchPath` model `pgactive_capture_ddl`.
    The stored search_path is a sequence of identifiers and `","`
    tokens, built by the code's loop, in which `first` is never cleared.
  - `QueueTruncate` is the statement trigger and `FinishTruncate` is
    `pgactive_start/finish_truncate`. `TruncateTriggerAdd` is the event
    trigger that gives every new permanent table, replayed or not, the
    trigger. It skips UNLOGGED tables.
  - `UserCreate`, `UserAlter`, `UserTruncate` and `ReplicateDdlCommand`
    are the ways a user issues a statement. Typed statements come from
    the nodes in `UserNodes`, and `pgactive_replicate_ddl_command` calls
    from `ReplicateNodes`. The relpersistence a CREATE may ask for is
    the constant `Persistences`. ALTER resolves its table through
    `LookupSchema` (`AlterTableLookupRelation`). `UserTruncate` fires the AFTER
    TRUNCATE statement triggers of its tables, relation by relation in
    the order the user listed them (`TriggersFiring`,
    `FireTruncateTriggers`). Besides pgactive's own `truncate_trigger`, a
    table may carry a user trigger (constant `UserTriggers`) whose body
    runs TRUNCATE of another table. Triggers fire in name order, so the
    user trigger fires before or after pgactive's (`late`). Its TRUNCATE
    re-enters the command filter as a statement of its own:
    `pgactive_start_truncate` empties the global list, the target's
    trigger appends it, and `pgactive_finish_truncate` queues it and
    empties the list. The outer statement's `finish_truncate` then
    queues what is left. A nested TRUNCATE of a missing table or of a
    table the outer statement truncates raises ERROR. Whether user
    triggers fire during replay is set by `session_replication_role`
    outside this source tree. Replay captures nothing and rows are not
    modelled, so it makes no difference to the model. `pgactive_replicate_ddl_command`
    queues its argument with a NULL (empty) search_path and executes it
    under `search_path = ''`.
  - `DdlLockGranted`: CREATE and ALTER ... ADD COLUMN take the global
    DDL lock unless the statement affects only nonpermanent relations.
    TRUNCATE does not take it. The lock's implementation (`pgactive_acquire_ddl_lock`) is not
    in this source tree. The model assumes its effect: the lock is
    granted once every peer has replayed everything queued before it.
- **Peer side.** `ApplyQueuedDdl(o, p)` is the queued-command branch of
  `process_remote_insert`, followed by `process_queued_ddl_command` and
  `pgactive_execute_ddl_command` for the head of `o`'s stream on `p`.
  - `ActiveSearchPath` is `SET search_path`: split at commas, keeping
    the elements that name a schema.
  - Replay runs with the replication origin set, so nothing is captured
    again.
  - An attempt that raises ERROR rolls back and changes nothing, so only
    a successful replay is a step. The worker exits and retries the same
    row, which succeeds once another stream has delivered what it needs.

### Snowflake (`Snowflake.tla`)

This module models `pgactive_snowflake_id_nextval_oid` and
`global_seq_get_nodeid` in `pgactive_seq.c`.

- **Bit widths.** They are constants. TLC checks a scaled layout of
  4 + 1 + 2 bits. The code's layout is 40 + 10 + 14 bits.
- **Arithmetic.** `ShiftLeft` and `AsSigned` model the shift on a
  two's-complement pattern of `Width` bits, read back as a signed
  integer, so the sign bit and dropped high bits are kept.
- **`NextVal(n)`.** The sequence value is consumed before the range
  check, which raises ERROR for an out-of-range timestamp. In range, the
  id is built from the timestamp, the node id and `nextval % MAX_SEQ_ID`.
- **`Tick`.** The millisecond clock advances.
- **Issued ids.** Each issued id records its millisecond, so
  `IdsUnique` compares ids across nodes and `IdsTimeOrdered` compares
  them across milliseconds.

### PerdbWorkers (`PerdbWorkers.tla`, instantiated by `MCPerdbWorkers.tla`)

This module models `pgactive_maintain_db_workers` in `pgactive_perdb.c`
for one node, together with the processes it supervises for each peer:
the local apply worker and the walsender that serves the peer.

- **Rounds.** A round is split into phases (`idle`, `detach`, `drop`,
  `connect`), so that peers, the postmaster and other backends can act
  between its steps.
- **Actions.**

  | Action | Code |
  |---|---|
  | `StartMaintain` | the main loop of `pgactive_perdb_worker_main` wakes only on a set latch (`WakeOnLatch`; the 180 s timeout runs nothing); the round reads this node's status and the detached nodes |
  | `TerminateOrScan(n)` | SIGTERMs the live processes linked to a detached node and sets `at_least_one_worker_terminated`, or scans its slots |
  | `DropDetachedSlot(q)` | `ReplicationSlotDrop(nowait)`: ERROR if a walsender holds the slot; otherwise appends the origin name through the `roname` buffer |
  | `RemoveOrigins` | the second transaction: it drops the queued origins, then goes to the connection loop or (this node detached) out |
  | `RegisterApplyWorker(p)` | the connection loop: skip, register, or ERROR on a registration failure |
  | `PerdbError` | any ERROR exit; the bgworker is restarted, and its first round at start-up is modelled by setting the latch (`PerdbRestart`) |

- **Environment.** `NodeDetached` sets a status to `'k'` and the latch,
  as `pgactive_perdb_xact_callback` does. `ApplyStart` is the start of
  `pgactive_apply_main`, which unregisters when the peer is detached.
  A SIGTERMed worker (`ApplyExit`) goes to `restarting`. Because of
  `bgw_restart_time = 5`, it starts again only once the per-db worker
  is idle with no latch set (`RestartDelayElapsed`). A round that a
  SIGTERM retries follows its latch at once.
- **Kill set.** While a detached node is processed, `Linked` kills
  every worker of the database when this node's own status was read
  as `'k'` (`our_status == KILLED`). Otherwise it kills only the
  processes linked to that node. Slot collection sweeps all slots
  only for this node's own entry (`we_were_dropped`).
  `WalSndConnect` and `WalSndExit` are the walsender.
- **The `roname` buffer.** Reading it after its block has ended is
  undefined. The constant `BufferReads` gives the outcomes the build can
  produce: the last name written, or bytes that name no origin.

## Runs

| Run | cfg | Expect | Checks | Shows |
|---|---|---|---|---|
| apply_crash | `ApplySession.cfg` | pass | TypeOK, AppliedOnce, ImplementsConfirmedFlush, WaitForSlotsReturns | With server crashes but no worker error, the session implements `ConfirmedFlush`, applies nothing twice, and a backend in `pgactive_wait_for_slots_confirmed_flush_lsn` eventually returns |
| apply_restart_crash | `ApplySessionRestartCrash.cfg` | violation | NoLostTransaction | **Finding.** A worker error after an unflushed local commit makes the restarted worker confirm that commit upstream (empty queue, so flush = recvpos); a crash then loses it |
| apply_catchup | `ApplySessionCatchup.cfg` | pass | AppliedOnce, CatchupEventuallyStops | A catchup worker with ERROR restarts from the replication origin applies nothing twice, and eventually reaches `replay_stop_lsn` and exits |
| mesh_two_nodes | `ConflictMeshTwoNodes.cfg` | pass | Converged | Two writers converge under inserts and updates, equal timestamps included |
| mesh_tie_break | `ConflictMeshTieBreak.cfg` | violation | Converged | **Finding.** With three nodes the tie-break compares the replaying node's seq id, so the nodes diverge |
| snowflake | `Snowflake.cfg` | pass | IdsUnique | Over the whole timestamp range (past the sign bit, and one millisecond past MAX_TIMESTAMP, where nextval raises ERROR), and with at most MAX_SEQ_ID calls per node per millisecond, ids of all nodes are unique, negative ones included |
| snowflake_sign_bit | `SnowflakeSignBit.cfg` | violation | IdsTimeOrdered | **Finding.** From the sign bit of the timestamp on, ids of later milliseconds are smaller than earlier ones |
| perdb_detach | `PerdbDetach.cfg` | pass | SlotDroppedAfterTermination, DetachedPeerReleased, SelfDetachReleasesSlots | A detached peer's slot is dropped only after its apply worker and walsender are gone, and every detached peer is eventually released, with reconnects and per-db ERRORs possible. Once this node itself is detached, every slot it keeps is eventually dropped, even though its apply workers pass the start-up check and restart after each SIGTERM |
| perdb_origins | `PerdbOrigins.cfg` | violation | NoLeakedOrigin | **Finding.** Two peers detached in one round leave the first one's replication origin behind |
| ddl_replication | `DdlReplication.cfg` | pass | TypeOK, ExecutedAtMostOnce, ConvergedWhenQuiet, StatementsEventuallyReplicated | With one-schema search_paths and permanent tables, no CREATE, ALTER or TRUNCATE takes effect twice on a node (no echo of replayed commands, no double queueing in `pgactive_replicate_ddl_command`), a drained mesh has the same tables and every statement applied everywhere, and every statement eventually replays on every peer, also when a TRUNCATE from one peer reaches a third node before the CREATE it needs, and when a user trigger that fires before pgactive's runs a nested TRUNCATE |
| ddl_search_path | `DdlReplicationSearchPath.cfg` | violation | StatementsEventuallyReplicated | **Finding.** An unqualified CREATE TABLE under `search_path = s1, s2` is queued with the search_path `s1s2`, and the peer's replay fails for ever |
| ddl_unlogged_alter | `DdlReplicationUnlogged.cfg` | violation | StatementsEventuallyReplicated | **Finding.** `CREATE UNLOGGED TABLE` stays on its node, but a later `ALTER TABLE` of it is captured, and the peer's replay fails on it for ever |

Findings, in detail:

1. **Lost transaction after restart and crash.** This assumes
   asynchronous local commit (`pgactive.synchronous_commit` off), which
   is the case the comment at `pgactive_apply.c:2380-2385` guards
   against.
   - Trace: txn 1 is committed locally but not flushed. The worker hits
     an ERROR. The restarted worker starts after txn 1 because the
     origin already includes it. A keepalive with endpos 1 is answered
     with flush = 1 because the queue is empty. The slot confirms 1, and
     a crash erases the commit.
2. **Tie-break.** Nodes A, B and C have seq ids 1, 2 and 3. A and B
   insert the key at the same timestamp.
   - On C, A's version arrives first. B's then wins because
     seq(C) > seq(B).
   - A and B both keep A's version.
3. **Snowflake sign bit.** The range check allows timestamps up to
   2^40 - 1 (`pgactive_seq.c:93`), and line 114 shifts the timestamp
   left by 24 into a signed int64. From 2^39 ms after the Oct 2016
   epoch (early 2034) the id is negative, and every later id is smaller
   than every earlier one. The comment at lines 46-48 says the scheme
   handles milliseconds up to 2042.
   - Trace (4 timestamp bits, so the sign bit is at 8): node 0 gets id
     57 at 7 ms, and a negative id at 8 ms.
4. **Leaked origin.** `rep_origin_to_remove` collects pointers to the
   block-scoped `char roname[]` (`pgactive_perdb.c:609-616`). When two
   peers are dropped in one round, both entries read the last name
   written, and the first peer's replication origin is never dropped.
   The comment at lines 677-678 says it is. A garbage read (the other
   outcome of the undefined read) leaks both origins.
5. **search_path without separators.** `pgactive_capture_ddl`
   (`pgactive_ddlrep.c:243-253`) appends `","` only when `first` is
   false and never clears `first`. A session with `search_path = s1,
   s2` runs `CREATE TABLE t (...)`, which is created as `s1.t` and
   queued with search_path `s1s2`. The peer sets that search_path,
   which names no schema, and the CREATE fails with "no schema has been
   selected to create in" on every retry. Its apply worker for that
   origin never gets past the row. Single-schema paths, and DDL issued
   through `pgactive_replicate_ddl_command` (empty search_path, names
   qualified), are unaffected, which is why `ddl_replication` passes.
6. **ALTER of an UNLOGGED table.** `statement_affects_only_nonpermanent`
   (`pgactive_commandfilter.c:528-662`) looks at relpersistence only
   for CREATE TABLE, CREATE TABLE AS, DROP and CREATE INDEX. Everything
   else reaches the `FIXME` default and counts as touching a permanent
   relation.
   - On A, `CREATE UNLOGGED TABLE s2.t` is neither captured nor locked,
     so B never gets the table.
   - `ALTER TABLE s2.t ADD COLUMN c int` on A is captured (line 1560)
     and queued for B.
   - B's replay raises "relation does not exist" on every retry, and
     the apply worker for A's stream never gets past the row. Nothing A
     queues later reaches B.
   - `filter_AlterTableStmt` itself treats ALTERs of such tables as
     safe: `error_on_persistent_rv` rejects unsafe subcommands only
     for permanent tables ("may only affect UNLOGGED or TEMPORARY
     tables"). TEMPORARY tables behave the same way.
   - The run has users on A only and no `pgactive_replicate_ddl_command`,
     so the counterexample cannot be a name clash between nodes.

The nested TRUNCATE is not kept as a run. `pgactive_truncated_tables` is
one global list (`pgactive_ddlrep_truncate.c:239-244`).
- Table `s1.t` has a user AFTER TRUNCATE trigger whose body runs
  `TRUNCATE s2.t`. Its name sorts after `truncate_trigger_<oid>`.
- A user runs `TRUNCATE s1.t`. pgactive's trigger appends `s1.t`.
  The user trigger's TRUNCATE re-enters `pgactive_commandfilter`,
  whose `pgactive_start_truncate` empties the list. The nested
  `finish_truncate` queues `s2.t` and empties the list again.
- The outer `finish_truncate` finds the list empty, so
  `TRUNCATE s1.t` is never queued. `s1.t` is emptied on the origin
  only. The comment at `pgactive_commandfilter.c:1667` relies on the
  next `start_truncate` to clean up, and that reset is exactly what
  drops the entry.
- A user trigger that fires first is harmless for the table it is
  on. It still drops every relation listed earlier in the same
  statement.
- With `UserTriggers <- MCLateTruncateTrigger`, nodes `{A, B}` and
  four statements, TLC finds `StatementsEventuallyReplicated`
  violated. The case is kept as a hazard in PROJECT.json.

Two disagreements are not kept as runs, and each is kept as a hazard
in PROJECT.json:

- **Unlogged keep-remote resolutions.** The keep-remote branches of
  `pgactive_conflict_last_update_wins` (`pgactive_apply.c:1403`) return
  without setting `log_update`. Spec section 8 says such a conflict is
  logged as `last_update_wins_keep_remote`. With the cfg of
  `mesh_two_nodes` and `INVARIANT ConflictsLogged`, TLC finds it
  violated at once.
- **Catchup exit flush.** The catchup stop calls
  `XLogFlush(GetXLogWriteRecPtr())` before `proc_exit(0)`
  (`pgactive_apply.c:580`), under a comment that says it flushes all
  writes. The write pointer need not include the commit just
  inserted: with asynchronous commit a crash after the exit loses the
  last replayed transactions and their origin progress. With
  `INVARIANT CatchupDurable` in `ApplySessionCatchup.cfg`, TLC finds it
  violated. What node initialisation, which starts the catchup and is
  outside this source tree, relies on after the exit is not known.

The delete race that an earlier version of this project ran (a DELETE
removes whatever version it finds, and a DELETE of a missing row is
skipped) still violates `Converged` when `Ops` includes `"delete"` in
`ConflictMeshTwoNodes.cfg`. The spec gives no rule for it, and it is
kept as a hazard in PROJECT.json rather than as a run.

## Bounds

- **ApplySession.** Three upstream transactions, with 2, 1 and 0 rows,
  are enough to cover:
  - a commit with several rows;
  - two queue entries in flight, so one is flushed and one is not;
  - a transaction that writes nothing.

  Other bounds:
  - `MaxInFlight = 3` lets a keepalive overtake the data the worker has
    not yet read.
  - Up to two crashes or two errors allow a restart after a restart.
- **ConflictMesh.**
  - Two nodes with `MaxTs = 4` and `MaxWrites = 4` cover concurrent
    inserts at one tick, updates on both sides, and an overwrite after a
    tie.
  - The violation runs use the smallest bounds that show the
    divergence: 3 nodes and 2 ticks for the tie-break.
- **DdlReplication.**
  - Three nodes, so that one peer's TRUNCATE can overtake the origin's
    CREATE on the third node.
  - Two schemas and one table name, so an unqualified CREATE lands in a
    schema chosen by the search_path and a qualified CREATE in the other
    schema can coexist.
  - Four statements: enough for a CREATE, its replay, and a TRUNCATE on
    another node, and for `pgactive_replicate_ddl_command` of each kind.
  - The pass run offers the search paths `''`, `s1` and `s2`. The
    search-path violation run adds `s1, s2`, with two statements.
  - The pass run has a user trigger on `s1.t` that truncates `s2.t`
    and fires before pgactive's. The pass run has permanent tables
    only, because an ALTER of an UNLOGGED table breaks replication.
  - The UNLOGGED run has two nodes and three statements: the UNLOGGED
    CREATE, the ALTER, and one more to spare.
- **Snowflake.** The bounds are 4 + 1 + 2 bits, two nodes, times 0..16
  (the whole range, the sign bit at 8, and the ERROR at 16) and five
  calls. Two nodes calling in the same and in later
  milliseconds reach every collision the layout could have.
- **PerdbWorkers.** The model has two peers plus this node, all
  detachable, so two peers can be dropped in one round and this node can
  detach itself. The other bounds are up to 3 walsender reconnections
  (a peer reconnecting between termination and the slot drop) and one
  per-db ERROR.

## Fairness

- **ApplySession.**
  - `WaitForSlotsReturn` is weakly fair. The waiting backend wakes at
    least once a second and rereads the slots.
  - `Receive`, `LoopFeedback` and `WalFlush` are weakly fair. The worker
    loop and the walwriter run continuously.
  - `StartWorker` is weakly fair because the supervisor restarts a dead
    worker.
  - `WalSndSend` is strongly fair. The walsender sends pending changes
    whenever its buffer has room, even though keepalives may fill the
    buffer time and again.
  - Keepalives, errors and crashes get no fairness: nothing guarantees
    them.
- **ConflictMesh.** Its only property is a safety property, so it
  assumes no fairness.
- **PerdbWorkers.**
  - `PerdbStep` is weakly fair. The worker runs whenever its latch is
    set, and the model sets the latch where the code does (SIGTERM
    retry, detach commit, restart after ERROR).
  - `ApplyStart`, `ApplyExit` and `WalSndExit` are weakly fair per peer.
    The postmaster starts registered bgworkers, and a signalled process
    exits. A restart after SIGTERM waits for the 5 s restart delay,
    which is modelled as the per-db worker being idle.
  - Peers reconnecting and nodes being detached get no fairness.
- **Snowflake.** It has safety properties only.
- **DdlReplication.** `ApplyQueuedDdl` is weakly fair per stream. An
  apply worker runs continuously, and after an ERROR it is restarted
  and retries the head row. Users issuing statements get no fairness.
- **Deadlock checking.** The mesh, catchup, snowflake and perdb
  runs set `CHECK_DEADLOCK FALSE`. Each can legitimately stop:
  - a mesh where users have stopped writing;
  - a catchup worker that has exited for good;
  - callers that have stopped calling nextval;
  - a per-db worker idle on an unset latch;
  - DDL replication once users have stopped issuing statements.

## Not modelled yet, and why

- **Handler registration.** `pgactive_create_conflict_handler` and
  `pgactive_drop_conflict_handler` raise ERROR "feature is not
  implemented yet" on entry, so they are no actions. The handler list
  is a constant: what a worker has cached between relcache
  invalidations. What a handler computes (the returned tuple, NULL or
  mistyped results, which raise ERROR) is abstracted.
- **Wire decoder and schema skew.** `read_rel` and `read_tuple_parts`
  decode one row message against the local table. The column counts of
  the two nodes differ only when DDL replication was bypassed
  (`pgactive.skip_ddl_replication`). DdlReplication keeps every node's
  tables equal, so that case does not arise there. One defect is listed
  as a hazard in PROJECT.json:
  - with `pgactive.discard_mismatched_row_attributes` set, the loop
    over a too-wide remote tuple (`pgactive_apply.c:2258-2291`) reads
    only the kind byte of a non-null extra column, never its length and
    data;
  - the message cursor is left inside that data;
  - for an UPDATE with an old key tuple (`'K'`), the following `'N'`
    test reads a data byte and fails with ERROR, or misreads the new
    tuple.
- **Other `ApplySession` paths.** Not yet included are apply delay,
  catchup forwarding of third-node origins, and pause. Queued DDL is
  modelled separately in DdlReplication, without the row stream around
  it.
- **Other DDL.** DdlReplication has only CREATE [UNLOGGED] TABLE,
  ALTER TABLE ... ADD COLUMN and TRUNCATE. TEMPORARY tables behave
  like UNLOGGED ones for replication but also depend on the session's
  `pg_temp` schema, which is not modelled. DROP takes the write-mode
  DDL lock, whose semantics live outside this source tree. Other DDL,
  CONCURRENTLY commands, queued drops
  (`process_queued_drop`), and the perpetrator role are not modelled.
  The per-statement permission checks of the command filter (`filter_*`,
  read-only nodes, extensions, the node-identifier getter) are
  predicates over parse trees and are not modelled either.
- **Duplicate truncate triggers.** In `pgactive_create_truncate_trigger`
  the duplicate check advances `trigger` only past truncate triggers, so
  a table whose first trigger is not a truncate trigger can get a second
  `truncate_trigger`. The model keeps triggers as a set: a duplicate
  only lists the table twice in one queued TRUNCATE.
- **Per-db worker paths.** Multiple connections per peer are not
  modelled. The restart delay is reduced to an ordering: a restart
  never beats the per-db worker's immediate retry round.
- **Monitoring with several slots.** `WaitForSlots*` has the one slot of
  the modelled session. A call naming a slot that does not exist, or
  that is dropped, spins until `statement_timeout` (a hazard in
  PROJECT.json).
