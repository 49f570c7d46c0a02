---------------------------- MODULE PerdbWorkers ----------------------------
(***************************************************************************)
(* The per-database worker of one node (src/pgactive_perdb.c) and the     *)
(* processes it supervises for each peer: the local apply worker that     *)
(* replays the peer's changes, and the walsender through which the peer's *)
(* apply worker streams from this node's replication slot for it.         *)
(*                                                                         *)
(* pgactive_maintain_db_workers runs once at start-up and then whenever   *)
(* the worker's latch is set.  A round                                    *)
(*   1. reads this node's status and the detached ('k') nodes;            *)
(*   2. for each detached node, SIGTERMs its live processes (and retries  *)
(*      next round), or else scans and drops its replication slots and    *)
(*      queues its replication origin in rep_origin_to_remove;            *)
(*   3. commits, then drops the queued origins in a second transaction;   *)
(*   4. unless this node is detached, registers an apply worker for each  *)
(*      connection of a non-detached peer that has none.                  *)
(* Every step is modelled as the phase of the round it belongs to, so     *)
(* that the peers, the postmaster and other backends can act in between.  *)
(*                                                                         *)
(* rep_origin_to_remove holds pointers to one block-scoped stack array    *)
(* `roname`: every entry reads the same buffer, after the block that      *)
(* wrote it has ended.  That read is undefined; the build either still    *)
(* finds the last name written there or finds other bytes, which name no  *)
(* origin (replorigin_drop_by_name is called with missing_ok).            *)
(***************************************************************************)
EXTENDS Naturals, FiniteSets

CONSTANTS
    Peers,          \* the other nodes of the group (model values)
    Self,           \* this node
    Detachable,     \* the nodes that may be detached in a behaviour
    NoNode,         \* nothing written in the roname buffer yet
    MaxReconnects,  \* bound on walsender connections made by peers
    MaxErrors,      \* bound on ERROR exits of the per-db worker
    BufferReads     \* what reading the ended roname block may give: TRUE for
                    \*   the last name written, FALSE for bytes naming no origin

Nodes == Peers \cup {Self}

ASSUME Self \notin Peers /\ NoNode \notin Nodes
ASSUME Detachable \subseteq Nodes
ASSUME BufferReads \subseteq BOOLEAN /\ BufferReads # {}

VARIABLES
    status,       \* status[n]: node_status of n in pgactive.pgactive_nodes
    apply,        \* apply[p]: the apply worker slot for p ("none",
                  \*   "registered" without a process, "running", "terminating",
                  \*   "restarting": exited, waiting out bgw_restart_time)
    walsnd,       \* walsnd[p]: the walsender serving p ("none", "active", "terminating")
    slot,         \* slot[p]: this node's replication slot for p exists
    origin,       \* origin[p]: this node's replication origin for p exists
    latch,        \* the per-db worker's process latch
    phase,        \* where the per-db worker is in pgactive_maintain_db_workers
    ourStatus,    \* our_status as read at the start of the round
    pending,      \* detached_nodes not yet processed in this round
    cur,          \* the detached node whose slots are being dropped
    dropping,     \* the slots of cur still to drop (the `drop` list)
    nRemove,      \* length of rep_origin_to_remove
    roname,       \* the node whose origin name the roname buffer last received
    terminated,   \* at_least_one_worker_terminated
    connPending,  \* connection rows not yet processed in this round
    reconnects,
    errors

vars == <<status, apply, walsnd, slot, origin, latch, phase, ourStatus, pending,
          cur, dropping, nRemove, roname, terminated, connPending, reconnects, errors>>

perdbVars == <<phase, ourStatus, pending, cur, dropping, nRemove, roname,
               terminated, connPending>>

-----------------------------------------------------------------------------
(* kill_proc: the processes of peer q that are killed while detached     *)
(* node n is processed: the apply worker and walsender linked to n, and,  *)
(* when this node's own status was read as detached, every worker of the  *)
(* database.                                                              *)
Linked(n, q) == ourStatus = "k" \/ q = n

(* A process attached to its shmem slot (worker_proc != NULL).            *)
ApplyAlive(q) == apply[q] \in {"running", "terminating"}
WalSndAlive(q) == walsnd[q] \in {"active", "terminating"}

(* The ERROR exit of the per-db worker: process-local state is lost and   *)
(* the restarted worker runs a round at start-up (the first               *)
(* pgactive_maintain_db_workers call before the main loop).               *)
PerdbRestart ==
    /\ phase' = "idle"
    /\ latch' = TRUE
    /\ pending' = {}
    /\ dropping' = {}
    /\ cur' = NoNode
    /\ nRemove' = 0
    /\ roname' = NoNode
    /\ terminated' = FALSE
    /\ connPending' = {}
    /\ UNCHANGED ourStatus

-----------------------------------------------------------------------------
(* The main loop of pgactive_perdb_worker_main: it waits on its latch,    *)
(* resets it, and runs a round only when the latch was set (the 180 s     *)
(* timeout alone runs nothing).                                           *)
WakeOnLatch ==
    /\ latch
    /\ latch' = FALSE

(* pgactive_maintain_db_workers, woken by the latch: our status and the   *)
(* list of 'k' nodes are read in the round's first transaction.           *)
StartMaintain ==
    /\ phase = "idle"
    /\ WakeOnLatch
    /\ phase' = "detach"
    /\ ourStatus' = status[Self]
    /\ pending' = {n \in Nodes : status[n] = "k"}
    /\ terminated' = FALSE
    /\ UNCHANGED <<status, apply, walsnd, slot, origin, cur, dropping, nRemove,
                   roname, connPending, reconnects, errors>>

\* Mutant: the found_alive test is lost; the slots are always scanned.
FoundAliveNever(n) == FALSE

(* found_alive: under the worker control lock, an apply worker or         *)
(* walsender linked to n still has a process.                             *)
FoundAlive(n) == \E q \in Peers : Linked(n, q) /\ (ApplyAlive(q) \/ WalSndAlive(q))

\* Mutant: a round that terminated a process does not remember it.
TerminateLinkedNoRetry(n) ==
    /\ apply' = [q \in Peers |-> IF Linked(n, q) /\ ApplyAlive(q) THEN "terminating" ELSE apply[q]]
    /\ walsnd' = [q \in Peers |-> IF Linked(n, q) /\ WalSndAlive(q) THEN "terminating" ELSE walsnd[q]]
    /\ pending' = pending \ {n}
    /\ UNCHANGED <<phase, cur, dropping, terminated>>

(* Every linked process is sent SIGTERM; the node is left for the next    *)
(* round, and at_least_one_worker_terminated is set.                      *)
TerminateLinked(n) ==
    /\ apply' = [q \in Peers |-> IF Linked(n, q) /\ ApplyAlive(q) THEN "terminating" ELSE apply[q]]
    /\ walsnd' = [q \in Peers |-> IF Linked(n, q) /\ WalSndAlive(q) THEN "terminating" ELSE walsnd[q]]
    /\ pending' = pending \ {n}
    /\ terminated' = TRUE
    /\ UNCHANGED <<phase, cur, dropping>>

\* Mutant: the we_were_dropped branch is lost; only a slot named for n is dropped.
CollectSlotsNoSweep(n) ==
    /\ dropping' = {q \in Peers : slot[q] /\ q = n}
    /\ cur' = n
    /\ phase' = "drop"
    /\ UNCHANGED <<apply, walsnd, pending, terminated>>

(* Under ReplicationSlotControlLock the pgactive slots to drop are        *)
(* collected: the node's own slot, or every slot of the database when     *)
(* this node is the one detached (we_were_dropped).                       *)
CollectSlots(n) ==
    /\ dropping' = {q \in Peers : slot[q] /\ (n = Self \/ q = n)}
    /\ cur' = n
    /\ phase' = "drop"
    /\ UNCHANGED <<apply, walsnd, pending, terminated>>

(* One detached node of the round (the foreach over detached_nodes).      *)
TerminateOrScan(n) ==
    /\ phase = "detach"
    /\ n \in pending
    /\ IF FoundAlive(n) THEN TerminateLinked(n) ELSE CollectSlots(n)
    /\ UNCHANGED <<status, slot, origin, latch, ourStatus, nRemove, roname,
                   connPending, reconnects, errors>>

(* ReplicationSlotDrop(slot_name, nowait = true) of one collected slot:   *)
(* it raises ERROR if a walsender has acquired the slot since the scan.   *)
(* After a drop for a detached peer, the peer's origin name is written    *)
(* into the block's roname array and a pointer to it appended to          *)
(* rep_origin_to_remove.                                                  *)
DropDetachedSlot(q) ==
    /\ phase = "drop"
    /\ q \in dropping
    /\ IF walsnd[q] # "none"
          THEN /\ PerdbRestart
               /\ UNCHANGED slot
          ELSE /\ slot' = [slot EXCEPT ![q] = FALSE]
               /\ dropping' = dropping \ {q}
               /\ IF cur # Self
                     THEN /\ nRemove' = nRemove + 1
                          /\ roname' = cur
                     ELSE UNCHANGED <<nRemove, roname>>
               /\ UNCHANGED <<phase, latch, ourStatus, pending, cur, terminated, connPending>>
    /\ UNCHANGED <<status, apply, walsnd, origin, reconnects, errors>>

(* The node's slots are dropped: it goes to nodes_to_forget.              *)
ForgetDetachedNode ==
    /\ phase = "drop"
    /\ dropping = {}
    /\ phase' = "detach"
    /\ pending' = pending \ {cur}
    /\ cur' = NoNode
    /\ UNCHANGED <<status, apply, walsnd, slot, origin, latch, ourStatus, dropping,
                   nRemove, roname, terminated, connPending, reconnects, errors>>


(* After the detached nodes: the latch is set if a process was signalled, *)
(* the first transaction commits, pgactive_locks_node_detached runs for   *)
(* the forgotten nodes, and a second transaction drops every origin of    *)
(* rep_origin_to_remove.  Each entry points at the same roname array: it  *)
(* reads the last name written, or (the block having ended) bytes naming  *)
(* no origin.  A detached node starts no connections (goto out).          *)
(* Otherwise the connections of the peers that are not 'k' are read in a  *)
(* new transaction.                                                       *)
RemoveOrigins ==
    /\ phase = "detach"
    /\ pending = {}
    /\ latch' = (latch \/ terminated)
    /\ \E bufferIntact \in BufferReads :
          origin' = IF nRemove > 0 /\ bufferIntact
                       THEN [origin EXCEPT ![roname] = FALSE]
                       ELSE origin
    /\ nRemove' = 0
    /\ roname' = NoNode
    /\ IF ourStatus = "k"
          THEN /\ phase' = "idle"
               /\ UNCHANGED connPending
          ELSE /\ phase' = "connect"
               /\ connPending' = {p \in Peers : status[p] # "k"}
    /\ UNCHANGED <<status, apply, walsnd, slot, ourStatus, pending, cur, dropping,
                   terminated, reconnects, errors>>

(* A connection row needs a new apply worker unless find_apply_worker_slot *)
(* finds one, or the slot for the peer is missing while this node and the *)
(* ('r'eady, as read) peer are both ready.                                *)
NeedsWorker(p) ==
    /\ apply[p] = "none"
    /\ ~(~slot[p] /\ ourStatus = "r")

(* One row of the connections loop: an existing worker only has its      *)
(* latch set; otherwise a shmem slot is allocated and the worker          *)
(* registered with the postmaster.  A failed registration frees the slot *)
(* and raises ERROR, ending the round.                                    *)
RegisterApplyWorker(p) ==
    /\ phase = "connect"
    /\ p \in connPending
    /\ \/ /\ ~NeedsWorker(p)
          /\ connPending' = connPending \ {p}
          /\ UNCHANGED <<apply, latch, phase, pending, cur, dropping, nRemove, roname,
                         terminated, errors>>
       \/ /\ NeedsWorker(p)
          /\ apply' = [apply EXCEPT ![p] = "registered"]
          /\ connPending' = connPending \ {p}
          /\ UNCHANGED <<latch, phase, pending, cur, dropping, nRemove, roname,
                         terminated, errors>>
       \/ /\ NeedsWorker(p)
          /\ errors < MaxErrors
          /\ errors' = errors + 1
          /\ PerdbRestart
          /\ UNCHANGED apply
    /\ UNCHANGED <<status, walsnd, slot, origin, ourStatus, reconnects>>

(* End of the round: the node count is handed to the DDL lock manager.    *)
FinishMaintain ==
    /\ phase = "connect"
    /\ connPending = {}
    /\ phase' = "idle"
    /\ UNCHANGED <<status, apply, walsnd, slot, origin, latch, ourStatus, pending, cur,
                   dropping, nRemove, roname, terminated, connPending, reconnects, errors>>

-----------------------------------------------------------------------------
(* Any other ERROR of the per-db worker in the middle of a round (an SPI  *)
(* failure, a failed lock): the process exits and is restarted.           *)
PerdbError ==
    /\ phase # "idle"
    /\ errors < MaxErrors
    /\ errors' = errors + 1
    /\ PerdbRestart
    /\ UNCHANGED <<status, apply, walsnd, slot, origin, reconnects>>

(* The apply worker replaying a peer's update of pgactive_nodes marks n   *)
(* detached; check_pgactive_wakeups calls pgactive_connections_changed,   *)
(* and at commit pgactive_perdb_xact_callback sets the per-db latch.      *)
NodeDetached(n) ==
    /\ n \in Detachable
    /\ status[n] = "r"
    /\ status' = [status EXCEPT ![n] = "k"]
    /\ latch' = TRUE
    /\ UNCHANGED <<apply, walsnd, slot, origin, perdbVars, reconnects, errors>>

(* The postmaster restarts an exited worker bgw_restart_time (5 s) after *)
(* its exit; the per-db worker's retry round follows its latch at once,   *)
(* so a restart happens only once the per-db worker is idle again.        *)
RestartDelayElapsed(p) ==
    \/ apply[p] = "registered"
    \/ apply[p] = "restarting" /\ phase = "idle" /\ ~latch

\* Mutant: the apply worker does not look at the peer's status.
ApplyStartNoStatusCheck(p) ==
    /\ RestartDelayElapsed(p)
    /\ apply' = [apply EXCEPT ![p] = "running"]
    /\ UNCHANGED <<status, walsnd, slot, origin, latch, perdbVars, reconnects, errors>>

(* pgactive_apply_main: the postmaster starts a registered worker, which  *)
(* attaches to its shmem slot and unregisters itself if its remote node   *)
(* is 'k'.                                                                *)
ApplyStart(p) ==
    /\ RestartDelayElapsed(p)
    /\ apply' = [apply EXCEPT ![p] = IF status[p] = "k" THEN "none" ELSE "running"]
    /\ UNCHANGED <<status, walsnd, slot, origin, latch, perdbVars, reconnects, errors>>

(* A worker that got SIGTERM exits with code 1 and keeps its registration *)
(* (bgw_restart_time = 5): the postmaster will start it again.            *)
ApplyExit(p) ==
    /\ apply[p] = "terminating"
    /\ apply' = [apply EXCEPT ![p] = "restarting"]
    /\ UNCHANGED <<status, walsnd, slot, origin, latch, perdbVars, reconnects, errors>>

(* The peer's apply worker (re)connects and a walsender acquires the slot. *)
WalSndConnect(p) ==
    /\ walsnd[p] = "none"
    /\ slot[p]
    /\ reconnects < MaxReconnects
    /\ walsnd' = [walsnd EXCEPT ![p] = "active"]
    /\ reconnects' = reconnects + 1
    /\ UNCHANGED <<status, apply, slot, origin, latch, perdbVars, errors>>

WalSndExit(p) ==
    /\ walsnd[p] = "terminating"
    /\ walsnd' = [walsnd EXCEPT ![p] = "none"]
    /\ UNCHANGED <<status, apply, slot, origin, latch, perdbVars, reconnects, errors>>

-----------------------------------------------------------------------------
Init ==
    /\ status = [n \in Nodes |-> "r"]
    /\ apply = [p \in Peers |-> "running"]
    /\ walsnd = [p \in Peers |-> "none"]
    /\ slot = [p \in Peers |-> TRUE]
    /\ origin = [p \in Peers |-> TRUE]
    /\ latch = TRUE
    /\ phase = "idle"
    /\ ourStatus = "r"
    /\ pending = {}
    /\ cur = NoNode
    /\ dropping = {}
    /\ nRemove = 0
    /\ roname = NoNode
    /\ terminated = FALSE
    /\ connPending = {}
    /\ reconnects = 0
    /\ errors = 0

PerdbStep ==
    \/ StartMaintain
    \/ \E n \in Nodes : TerminateOrScan(n)
    \/ \E q \in Peers : DropDetachedSlot(q)
    \/ ForgetDetachedNode
    \/ RemoveOrigins
    \/ \E p \in Peers : RegisterApplyWorker(p)
    \/ FinishMaintain

Next ==
    \/ PerdbStep
    \/ PerdbError
    \/ \E n \in Nodes : NodeDetached(n)
    \/ \E p \in Peers : ApplyStart(p) \/ ApplyExit(p) \/ WalSndConnect(p) \/ WalSndExit(p)

(* The per-db worker runs whenever its latch is set; the postmaster       *)
(* starts registered workers; a signalled process exits.  Peers'          *)
(* reconnections and detaches are not forced.                             *)
Fairness ==
    /\ WF_vars(PerdbStep)
    /\ \A p \in Peers : WF_vars(ApplyStart(p)) /\ WF_vars(ApplyExit(p)) /\ WF_vars(WalSndExit(p))

Spec == Init /\ [][Next]_vars /\ Fairness

-----------------------------------------------------------------------------
TypeOK ==
    /\ status \in [Nodes -> {"r", "k"}]
    /\ apply \in [Peers -> {"none", "registered", "running", "terminating", "restarting"}]
    /\ walsnd \in [Peers -> {"none", "active", "terminating"}]
    /\ slot \in [Peers -> BOOLEAN] /\ origin \in [Peers -> BOOLEAN]
    /\ phase \in {"idle", "detach", "drop", "connect"}
    /\ pending \subseteq Nodes /\ dropping \subseteq Peers /\ connPending \subseteq Peers
    /\ roname \in Peers \cup {NoNode}

(* A detached peer's slot is dropped only while no apply worker or        *)
(* walsender for that peer has a process: found_alive holds the drop back *)
(* a round, and a restarted apply worker unregisters itself.  (The sweep  *)
(* of every slot when this node itself is detached is excluded.)          *)
SlotDroppedAfterTermination ==
    [][\A q \in Peers :
          (slot[q] /\ ~slot'[q] /\ cur = q) => ~ApplyAlive(q) /\ ~WalSndAlive(q)]_vars

(* A peer detached while this node is ready eventually has no worker, no  *)
(* walsender and no slot left on this node: a round that signalled a      *)
(* process sets the latch and retries.                                    *)
DetachedPeerReleased ==
    \A p \in Peers :
        (status[p] = "k" /\ status[Self] = "r")
            ~> ((~slot[p] /\ apply[p] = "none" /\ walsnd[p] = "none") \/ status[Self] = "k")

(* Once this node itself is detached, every replication slot it keeps    *)
(* for a peer is eventually dropped: its apply workers for ready peers    *)
(* pass the start-up check (pgactive_apply.c:2884 reads only the remote  *)
(* node's status) and come back after each SIGTERM, and the sweep of the  *)
(* database's slots needs a round that finds none of them attached.       *)
SelfDetachReleasesSlots ==
    status[Self] = "k" ~> \A p \in Peers : ~slot[p]

(* Whenever the per-db worker is idle, every detached peer whose slot     *)
(* this node dropped has had its replication origin dropped as well (the  *)
(* code's "Now we can remove replication origins linked to detached       *)
(* node(s)").                                                             *)
NoLeakedOrigin ==
    (phase = "idle" /\ status[Self] = "r") =>
        \A p \in Peers : (status[p] = "k" /\ ~slot[p]) => ~origin[p]

=============================================================================
