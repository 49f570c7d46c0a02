--------------------------- MODULE DdlReplication ---------------------------
(***************************************************************************)
(* DDL and TRUNCATE replication between pgactive nodes.                   *)
(*                                                                         *)
(* On the origin, the ProcessUtility hook pgactive_commandfilter decides  *)
(* whether a utility statement is captured: pgactive_capture_ddl queues   *)
(* the raw SQL with a search_path string rebuilt from the active path     *)
(* into pgactive.pgactive_queued_commands, in the same transaction that   *)
(* executes it.  TRUNCATE is not captured as text: the statement trigger  *)
(* pgactive_queue_truncate collects the truncated relations and           *)
(* pgactive_finish_truncate queues one qualified TRUNCATE for them.       *)
(* pgactive_replicate_ddl_command queues its argument with an empty       *)
(* search_path and executes it locally with capture suppressed.           *)
(*                                                                         *)
(* The queued row reaches each peer in commit order on the origin's       *)
(* stream; the peer's apply worker sees the insert into the queue table   *)
(* and runs process_queued_ddl_command, which sets the queued search_path *)
(* and executes the command while replaying (replication origin set).     *)
(* An ERROR aborts the apply transaction; the worker restarts and tries   *)
(* the same row again, which succeeds only once another stream has made  *)
(* the command valid (e.g. delivered the CREATE a TRUNCATE needs).        *)
(*                                                                         *)
(* Data: every schema exists on every node; a statement is CREATE TABLE   *)
(* (permanent or UNLOGGED, qualified or not), ALTER TABLE ... ADD COLUMN  *)
(* (columns abstracted away) or TRUNCATE of existing tables; row changes  *)
(* other than the queue row are left out.                                 *)
(***************************************************************************)
EXTENDS Naturals, Sequences, FiniteSets, SequencesExt

CONSTANTS
    Nodes,        \* pgactive nodes of one database
    Schemas,      \* schemas, present on every node
    Names,        \* table names
    NoSchema,     \* an unqualified name / no creation schema selected
    Paths,        \* session search paths (existing non-system schemas)
    MaxStmts,     \* bound on statements issued by users
    UserTriggers, \* user AFTER TRUNCATE triggers that run TRUNCATE themselves
    Persistences, \* relpersistence a user's CREATE TABLE may ask for
    UserNodes,    \* nodes where users type statements
    ReplicateNodes \* nodes where pgactive_replicate_ddl_command is called

ASSUME NoSchema \notin Schemas
ASSUME Paths \subseteq Seq(Schemas)
ASSUME Persistences \subseteq {"permanent", "unlogged"}
ASSUME UserNodes \cup ReplicateNodes \subseteq Nodes

Tables == [schema : Schemas, name : Names]

(* A user trigger on table `on' whose body runs TRUNCATE `target'; `late' *)
(* when its name sorts after pgactive's truncate_trigger_<oid>, so that   *)
(* it fires after it.  At most one per table; a target has none itself.  *)
ASSUME UserTriggers \subseteq [on : Tables, target : Tables, late : BOOLEAN]
ASSUME \A tg, tg2 \in UserTriggers :
          /\ tg.on = tg2.on => tg = tg2
          /\ tg.target # tg2.on
Pairs == {p \in Nodes \X Nodes : p[1] # p[2]}   \* <<origin, peer>>
Stmts == 1..MaxStmts

Creates == [kind : {"create"}, schema : Schemas \cup {NoSchema}, name : Names,
            persistence : Persistences]
Alters == [kind : {"alter"}, schema : Schemas \cup {NoSchema}, name : Names]
Truncates == [kind : {"truncate"}, rels : SUBSET Tables \ {{}}]

(* A search_path as stored in the queue: identifiers and "," tokens.      *)
PathString == Seq(Schemas \cup {","})
Row == [stmt : Stmts, cmd : Creates \cup Alters \cup Truncates, path : PathString]

VARIABLES
    tables,       \* tables[n]: tables existing on node n
    unlogged,     \* unlogged[n]: those of them created UNLOGGED
    trig,         \* trig[n]: tables carrying pgactive's truncate_trigger
    queue,        \* queue[<<o, p>>]: queued rows on o's stream not yet applied by p
    executed,     \* executed[n][k]: times statement k took effect on node n
    nstmts,       \* statements issued so far (the next id is nstmts + 1)
    localOnly     \* statements that touch only UNLOGGED tables of their node

vars == <<tables, unlogged, trig, queue, executed, nstmts, localOnly>>

-----------------------------------------------------------------------------
(* Origin side                                                             *)

(* Mutant: CREATE TABLE listed among the statements the filter skips.    *)
FilterSkipsCreate(kind, replaying) ==
    replaying \/ kind \in {"truncate", "create"}

(* pgactive_commandfilter, up to the statement-type switch: replayed      *)
(* statements and TRUNCATE go straight to `done' without capture.         *)
FilterSkips(kind, replaying) ==
    replaying \/ kind = "truncate"

(* statement_affects_only_nonpermanent: only CREATE TABLE (and CREATE    *)
(* TABLE AS, DROP, CREATE INDEX) look at relpersistence; an ALTER TABLE   *)
(* is never taken as affecting only nonpermanent relations.               *)
AffectsOnlyNonpermanent(cmd) ==
    cmd.kind = "create" /\ cmd.persistence # "permanent"

(* Capture happens for a permanent object outside                          *)
(* pgactive_replicate_ddl_command (nest level 0, top level).              *)
FilterCaptures(cmd, replaying, inReplicate) ==
    /\ ~FilterSkips(cmd.kind, replaying)
    /\ ~AffectsOnlyNonpermanent(cmd)
    /\ ~inReplicate

(* pgactive_capture_ddl's own early returns.                              *)
CaptureDdl(replaying, inReplicate) ==
    ~inReplicate /\ ~replaying

(* Mutant: the search_path is not recorded (queued as NULL).             *)
CaptureSearchPathDropped(path) == <<>>

(* The search_path string pgactive_capture_ddl rebuilds: a "," is put     *)
(* before a name only when `first' is false, and `first' is never        *)
(* cleared after the first name.                                          *)
CaptureSearchPath(path) ==
    LET step(acc, s) ==
          [str   |-> acc.str \o (IF acc.first THEN <<>> ELSE <<",">>) \o <<s>>,
           first |-> acc.first]
    IN FoldLeft(step, [str |-> <<>>, first |-> TRUE], path).str

(* pgactive_queue_ddl_command: the row inserted; a NULL search_path is    *)
(* stored as the empty string.                                            *)
QueueDdlCommand(k, cmd, path) == [stmt |-> k, cmd |-> cmd, path |-> path]

(* Mutant: the trigger without the in_pgactive_replicate_ddl_command test. *)
QueueTruncateNoReplicateCheck(n, rels, replaying, inReplicate) ==
    IF replaying THEN {} ELSE rels \cap trig[n]

(* pgactive_queue_truncate, fired once per truncated relation that has    *)
(* the trigger: appends it unless inside pgactive_replicate_ddl_command   *)
(* or replaying.                                                          *)
QueueTruncate(n, rels, replaying, inReplicate) ==
    IF inReplicate \/ replaying THEN {} ELSE rels \cap trig[n]

(* Mutant: finish_truncate without the empty-list check.                 *)
FinishTruncateAlways(k, list) ==
    <<QueueDdlCommand(k, [kind |-> "truncate", rels |-> list], <<>>)>>

(* pgactive_start_truncate / pgactive_finish_truncate: one qualified      *)
(* TRUNCATE for the collected relations, nothing when none.               *)
FinishTruncate(k, list) ==
    IF list = {} THEN <<>>
    ELSE <<QueueDdlCommand(k, [kind |-> "truncate", rels |-> list], <<>>)>>

(* The rows one execution of cmd on node n queues (the `done' section     *)
(* for TRUNCATE, capture for everything else).                            *)
CapturedRows(n, k, cmd, path, replaying, inReplicate) ==
    IF cmd.kind = "truncate"
    THEN FinishTruncate(k, QueueTruncate(n, cmd.rels, replaying, inReplicate))
    ELSE IF FilterCaptures(cmd, replaying, inReplicate)
            /\ CaptureDdl(replaying, inReplicate)
         THEN <<QueueDdlCommand(k, cmd, CaptureSearchPath(path))>>
         ELSE <<>>

-----------------------------------------------------------------------------
(* Executing a statement (origin or replay)                                *)

(* The creation namespace: the qualifier, else the first schema of the    *)
(* active search path.                                                    *)
CreationSchema(cmd, active) ==
    IF cmd.schema # NoSchema THEN cmd.schema
    ELSE IF active = <<>> THEN NoSchema ELSE Head(active)

Target(cmd, active) == [schema |-> CreationSchema(cmd, active), name |-> cmd.name]

(* RangeVarGetRelid for ALTER TABLE: a qualified name in its schema, an   *)
(* unqualified one in the first schema of the active path that has it.   *)
LookupSchema(n, cmd, active) ==
    LET cands == IF cmd.schema # NoSchema THEN <<cmd.schema>> ELSE active
        hits == SelectSeq(cands, LAMBDA s : [schema |-> s, name |-> cmd.name] \in tables[n])
    IN IF hits = <<>> THEN NoSchema ELSE Head(hits)

(* Whether standard_ProcessUtility succeeds: CREATE needs a creation      *)
(* schema and a free name, ALTER an existing table, TRUNCATE existing     *)
(* relations.                                                             *)
Succeeds(n, cmd, active) ==
    CASE cmd.kind = "create" -> /\ CreationSchema(cmd, active) # NoSchema
                                /\ Target(cmd, active) \notin tables[n]
      [] cmd.kind = "alter"  -> LookupSchema(n, cmd, active) # NoSchema
      [] OTHER               -> cmd.rels \subseteq tables[n]

(* pgactive_create_truncate_trigger: the table gets the trigger (kept as  *)
(* a set: a duplicate trigger appends the table twice to one TRUNCATE).  *)
CreateTruncateTrigger(n, t) == trig' = [trig EXCEPT ![n] = @ \cup {t}]

(* pgactive_truncate_trigger_add: the ddl_command_end event trigger adds  *)
(* the truncate trigger to every new table, replayed or not, skipping     *)
(* temporary and unlogged ones.                                           *)
TruncateTriggerAdd(n, cmd, active) ==
    IF cmd.kind = "create" /\ cmd.persistence = "permanent"
    THEN CreateTruncateTrigger(n, Target(cmd, active))
    ELSE UNCHANGED trig

(* The effect on node n of statement k succeeding.                        *)
Execute(n, k, cmd, active) ==
    /\ tables' = IF cmd.kind = "create"
                 THEN [tables EXCEPT ![n] = @ \cup {Target(cmd, active)}]
                 ELSE tables
    /\ unlogged' = IF cmd.kind = "create" /\ cmd.persistence = "unlogged"
                   THEN [unlogged EXCEPT ![n] = @ \cup {Target(cmd, active)}]
                   ELSE unlogged
    /\ TruncateTriggerAdd(n, cmd, active)
    /\ executed' = [executed EXCEPT ![n][k] = @ + 1]

(* Appending rows to node n's outgoing streams.                           *)
Send(n, rows) ==
    queue' = [p \in Pairs |-> IF p[1] = n THEN queue[p] \o rows ELSE queue[p]]

(* The global DDL lock (pgactive_acquire_ddl_lock, outside this source    *)
(* tree) is taken for CREATE and ALTER ... ADD COLUMN unless the          *)
(* statement affects only nonpermanent relations, and granted once every  *)
(* peer has replayed everything queued before it.  TRUNCATE goes to       *)
(* `done' before the lock.                                                *)
DdlLockGranted(cmd) ==
    cmd.kind # "truncate" /\ ~AffectsOnlyNonpermanent(cmd) =>
        \A p \in Pairs : queue[p] = <<>>

-----------------------------------------------------------------------------
(* Actions                                                                 *)

(* One utility statement through pgactive_commandfilter in its own        *)
(* transaction on node n: captured rows are queued and the statement      *)
(* executed, or an ERROR rolls both back and nothing changes.             *)
Statement(n, cmd, path, inReplicate, ownRows) ==
    LET k == nstmts + 1
        active == IF inReplicate THEN <<>> ELSE path
    IN /\ nstmts < MaxStmts
       /\ DdlLockGranted(cmd)
       /\ Succeeds(n, cmd, active)
       /\ nstmts' = k
       /\ Execute(n, k, cmd, active)
       /\ Send(n, ownRows \o CapturedRows(n, k, cmd, path, FALSE, inReplicate))
       /\ localOnly' = IF ownRows = <<>> /\ AffectsOnlyNonpermanent(cmd)
                       THEN localOnly \cup {k} ELSE localOnly

(* A top-level CREATE [UNLOGGED] TABLE typed by a user with some          *)
(* search_path.                                                           *)
UserCreate(n) ==
    \E sch \in Schemas \cup {NoSchema}, nm \in Names, pers \in Persistences,
       path \in Paths :
        Statement(n, [kind |-> "create", schema |-> sch, name |-> nm,
                      persistence |-> pers], path, FALSE, <<>>)

(* A top-level ALTER TABLE ... ADD COLUMN (no DEFAULT) typed by a user:   *)
(* filter_AlterTableStmt takes the DDL lock type and the statement is     *)
(* captured whatever the table's persistence.                             *)
UserAlter(n) ==
    \E sch \in Schemas \cup {NoSchema}, nm \in Names, path \in Paths :
        Statement(n, [kind |-> "alter", schema |-> sch, name |-> nm], path,
                  FALSE, <<>>)

(* The AFTER TRUNCATE statement triggers of relation t on node n, in     *)
(* name order: a user trigger sorting before pgactive's, pgactive's own   *)
(* (pgactive_queue_truncate) when t has it, a user trigger sorting after. *)
TriggersFiring(n, t) ==
    LET user(late) == SetToSeq({[kind |-> "user", rel |-> tg.target] :
                                tg \in {u \in UserTriggers : u.on = t /\ u.late = late}})
    IN user(FALSE)
       \o (IF t \in trig[n] THEN <<[kind |-> "queue", rel |-> t]>> ELSE <<>>)
       \o user(TRUE)

(* The triggers of one TRUNCATE statement firing relation by relation.    *)
(* pgactive's trigger appends to pgactive_truncated_tables; a user        *)
(* trigger's TRUNCATE re-enters pgactive_commandfilter as statement       *)
(* `next': pgactive_start_truncate empties the global list, the target's  *)
(* own trigger appends it and pgactive_finish_truncate queues it and      *)
(* empties the list again.                                                *)
FireTruncateTriggers(n, k, order) ==
    LET events == FoldLeft(LAMBDA acc, t : acc \o TriggersFiring(n, t), <<>>, order)
        step(acc, e) ==
          IF e.kind = "queue"
          THEN [acc EXCEPT !.list = @ \cup QueueTruncate(n, {e.rel}, FALSE, FALSE)]
          ELSE [list   |-> {},
                rows   |-> acc.rows \o FinishTruncate(acc.next,
                                         QueueTruncate(n, {e.rel}, FALSE, FALSE)),
                next   |-> acc.next + 1,
                nested |-> acc.nested \cup {e.rel},
                local  |-> IF e.rel \in unlogged[n] THEN acc.local \cup {acc.next}
                           ELSE acc.local]
    IN FoldLeft(step, [list |-> {}, rows |-> <<>>, next |-> k + 1, nested |-> {},
                       local |-> {}],
                events)

(* A user TRUNCATE of existing tables, listed in some order, as statement *)
(* k; each nested TRUNCATE run by a user trigger is a statement of its    *)
(* own.  The outer TRUNCATE is queued schema-qualified by                 *)
(* pgactive_finish_truncate from what is left in the list.  A nested      *)
(* TRUNCATE of a missing table or of one the outer statement is           *)
(* truncating raises ERROR and rolls everything back.                     *)
UserTruncate(n) ==
    \E order \in UNION {SetToSeqs(rels) : rels \in SUBSET tables[n] \ {{}}} :
        LET k == nstmts + 1
            fired == FireTruncateTriggers(n, k, order)
        IN /\ fired.next - 1 <= MaxStmts
           /\ fired.nested \subseteq tables[n] \ Range(order)
           /\ nstmts' = fired.next - 1
           /\ executed' = [executed EXCEPT ![n] =
                             [j \in Stmts |-> IF j \in k..fired.next - 1
                                              THEN executed[n][j] + 1
                                              ELSE executed[n][j]]]
           /\ Send(n, fired.rows \o FinishTruncate(k, fired.list))
           /\ localOnly' = localOnly \cup fired.local
                           \cup (IF Range(order) \subseteq unlogged[n] THEN {k} ELSE {})
           /\ UNCHANGED <<tables, unlogged, trig>>

(* pgactive_replicate_ddl_command(cmd): queue cmd with a NULL search_path *)
(* and execute it under search_path '' with in_pgactive_replicate_ddl_-   *)
(* command set, in the caller's transaction.                              *)
ReplicateDdlCommand(n) ==
    \E cmd \in Creates \cup Alters \cup Truncates :
        Statement(n, cmd, <<>>, TRUE,
                  <<QueueDdlCommand(nstmts + 1, cmd, <<>>)>>)

(* SET search_path as pgactive_execute_ddl_command does it: the string is *)
(* split at commas and each element naming an existing schema is kept.    *)
ActiveSearchPath(str) ==
    LET split(segs, tok) ==
          IF tok = "," THEN Append(segs, <<>>)
          ELSE [segs EXCEPT ![Len(segs)] = Append(@, tok)]
        segs == FoldLeft(split, <<<<>>>>, str)
        named == SelectSeq(segs, LAMBDA seg : Len(seg) = 1)
    IN [i \in 1..Len(named) |-> named[i][1]]

(* process_queued_ddl_command -> pgactive_execute_ddl_command on peer p   *)
(* for the head of o's stream, replaying (origin set): nothing is         *)
(* captured again.  An attempt that raises ERROR rolls back and leaves    *)
(* the state as it was, so only a successful replay is a step.            *)
ApplyQueuedDdl(o, p) ==
    LET r == Head(queue[<<o, p>>])
        active == ActiveSearchPath(r.path)
    IN /\ queue[<<o, p>>] # <<>>
       /\ Succeeds(p, r.cmd, active)
       /\ Execute(p, r.stmt, r.cmd, active)
       /\ queue' = [q \in Pairs |->
                      IF q = <<o, p>> THEN Tail(queue[q])
                      ELSE IF q[1] = p
                           THEN queue[q] \o CapturedRows(p, r.stmt, r.cmd,
                                                         r.path, TRUE, FALSE)
                           ELSE queue[q]]
       /\ UNCHANGED <<nstmts, localOnly>>

Init ==
    /\ tables = [n \in Nodes |-> {}]
    /\ unlogged = [n \in Nodes |-> {}]
    /\ trig = [n \in Nodes |-> {}]
    /\ queue = [p \in Pairs |-> <<>>]
    /\ executed = [n \in Nodes |-> [k \in Stmts |-> 0]]
    /\ nstmts = 0
    /\ localOnly = {}

Next ==
    \/ \E n \in UserNodes : UserCreate(n) \/ UserAlter(n) \/ UserTruncate(n)
    \/ \E n \in ReplicateNodes : ReplicateDdlCommand(n)
    \/ \E p \in Pairs : ApplyQueuedDdl(p[1], p[2])

(* Apply workers keep running: the perdb supervisor restarts one that     *)
(* exits on ERROR, and it retries the head row.                           *)
Spec == Init /\ [][Next]_vars /\ \A p \in Pairs : WF_vars(ApplyQueuedDdl(p[1], p[2]))

-----------------------------------------------------------------------------
(* Properties                                                              *)

TypeOK ==
    /\ tables \in [Nodes -> SUBSET Tables]
    /\ unlogged \in [Nodes -> SUBSET Tables]
    /\ trig \in [Nodes -> SUBSET Tables]
    /\ queue \in [Pairs -> Seq(Row)]
    /\ executed \in [Nodes -> [Stmts -> Nat]]
    /\ nstmts \in 0..MaxStmts
    /\ localOnly \subseteq Stmts

(* No statement takes effect twice on a node: a replayed command is not   *)
(* captured again (origin check in the filter, capture and truncate       *)
(* trigger), and pgactive_replicate_ddl_command's own execution and its   *)
(* truncate trigger queue nothing beside the one row it inserts.          *)
ExecutedAtMostOnce ==
    \A n \in Nodes, k \in Stmts : executed[n][k] <= 1

(* Every statement that took effect on its origin, other than one that   *)
(* touches only UNLOGGED tables of its node, eventually takes effect on   *)
(* every node: no queued command keeps failing on a peer, which needs the *)
(* search_path pgactive_capture_ddl stores to select on the peer the      *)
(* schema the origin created in, the TRUNCATE trigger on every permanent  *)
(* table, and nothing queued that names a table only the origin has.      *)
StatementsEventuallyReplicated ==
    \A k \in Stmts, n \in Nodes :
        executed[n][k] = 0 /\ k <= nstmts /\ k \notin localOnly ~> executed[n][k] >= 1

(* Once every stream is drained, all nodes have the same permanent       *)
(* tables and every statement issued anywhere (CREATE, ALTER or TRUNCATE, *)
(* typed or through pgactive_replicate_ddl_command), other than one left  *)
(* on its node by design, took effect on every node.                      *)
ConvergedWhenQuiet ==
    (\A p \in Pairs : queue[p] = <<>>) =>
        \A n, m \in Nodes :
            /\ tables[n] \ unlogged[n] = tables[m] \ unlogged[m]
            /\ \A k \in 1..nstmts \ localOnly : executed[n][k] = 1

=============================================================================
