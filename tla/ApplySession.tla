---------------------------- MODULE ApplySession ----------------------------
(***************************************************************************)
(* One pgactive apply session (src/pgactive_apply.c): the apply worker    *)
(* that replays one upstream node's logical stream, the local WAL its     *)
(* commits go to, the flush-position queue that maps local commit LSNs to *)
(* remote commit LSNs, the feedback it sends upstream, and the upstream   *)
(* walsender and slot it talks to.  Worker errors (restart from the       *)
(* replication origin) and server crashes (loss of unflushed WAL) are     *)
(* modelled.  Row contents and conflicts are abstracted away here: a row  *)
(* only opens the local transaction (ConflictMesh models what rows do).   *)
(*                                                                         *)
(* LSNs are abstracted: the remote "commit end + 1" LSN of upstream       *)
(* transaction i is i; a local LSN is an index into the local WAL; 0 is   *)
(* InvalidXLogRecPtr.                                                      *)
(***************************************************************************)
EXTENDS Naturals, Sequences, SequencesExt, FiniteSetsExt, Functions

CONSTANTS
    Rows,          \* Rows[i]: number of row changes in upstream transaction i
    StopLsn,       \* pgactive_apply_worker->replay_stop_lsn (0: not catchup)
    MaxErrors,     \* bound on worker ERROR exits (restarted by supervisor)
    MaxCrashes,    \* bound on server crashes
    MaxInFlight    \* bound on messages buffered in the replication stream

N == Len(Rows)
Txns == 1..N
Invalid == 0

ASSUME Rows \in Seq(Nat) /\ N > 0
ASSUME StopLsn \in 0..N
ASSUME {MaxErrors, MaxCrashes, MaxInFlight} \subseteq Nat

VARIABLES
    \* upstream (walsender + logical slot)
    confirmed,     \* slot confirmed_flush
    wsTxn,         \* next transaction the walsender decodes
    wsOff,         \* messages of wsTxn already sent
    stream,        \* COPY stream in flight to the worker (FIFO)
    \* local node, survives a worker exit
    wal,           \* commit records: [remote |-> origin LSN of the commit]
    flushed,       \* GetFlushRecPtr(): local WAL durable up to this index
    origin,        \* replication origin progress (shared memory)
    \* apply worker process
    up,            \* worker running and streaming
    done,          \* worker exited with proc_exit(0) after catchup
    sessionLsn,    \* replorigin_session_origin_lsn
    startedTxn,    \* started_transaction
    lsnQueue,      \* pgactive_lsn_association: <<[local, remote]>>
    lastReceived,  \* last_received in pgactive_apply_work
    fbRecv, fbWrite, fbFlush, \* statics last_* of pgactive_send_feedback
    errors, crashes,
    \* a backend on the upstream in pgactive_wait_for_slots_confirmed_flush_lsn
    waitTarget     \* its target_lsn (0: no call in progress)

upstreamVars == <<confirmed, wsTxn, wsOff, stream>>
localVars == <<wal, flushed, origin>>
workerVars == <<up, done, sessionLsn, startedTxn, lsnQueue, lastReceived,
                fbRecv, fbWrite, fbFlush>>
vars == <<upstreamVars, localVars, workerVars, errors, crashes, waitTarget>>

Max2(a, b) == IF a >= b THEN a ELSE b

-----------------------------------------------------------------------------
(* Messages of the logical stream ('w' data and 'k' keepalive).           *)
BeginMsg(i)  == [type |-> "B", txn |-> i]
RowMsg(i)    == [type |-> "R", txn |-> i]
CommitMsg(i) == [type |-> "C", txn |-> i]
Keepalive(e, r) == [type |-> "k", endpos |-> e, reply |-> r]

TxnMessages(i) ==
    <<BeginMsg(i)>> \o [k \in 1..Rows[i] |-> RowMsg(i)] \o <<CommitMsg(i)>>

Messages ==
    {BeginMsg(i) : i \in Txns} \cup {RowMsg(i) : i \in Txns}
    \cup {CommitMsg(i) : i \in Txns}
    \cup {Keepalive(e, r) : e \in 0..N, r \in BOOLEAN}

\* Transactions whose effects are in the durable part of the local WAL.
DurablyApplied == {wal[k].remote : k \in 1..flushed}

-----------------------------------------------------------------------------
(* Upstream walsender: decodes transactions in commit order from the      *)
(* start point and sends them message by message; keepalives carry the    *)
(* position up to which everything was sent.                              *)
WalSndSend ==
    /\ up
    /\ wsTxn <= N
    /\ Len(stream) < MaxInFlight
    /\ stream' = Append(stream, TxnMessages(wsTxn)[wsOff + 1])
    /\ IF wsOff + 1 = Len(TxnMessages(wsTxn))
          THEN wsTxn' = wsTxn + 1 /\ wsOff' = 0
          ELSE wsOff' = wsOff + 1 /\ UNCHANGED wsTxn
    /\ UNCHANGED <<confirmed, localVars, workerVars, errors, crashes, waitTarget>>

WalSndKeepalive ==
    /\ up
    /\ Len(stream) < MaxInFlight
    /\ \E reply \in BOOLEAN : stream' = Append(stream, Keepalive(wsTxn - 1, reply))
    /\ UNCHANGED <<confirmed, wsTxn, wsOff, localVars, workerVars, errors, crashes, waitTarget>>

\* The walwriter makes a prefix of the local WAL durable.
WalFlush ==
    /\ flushed < Len(wal)
    /\ \E f \in flushed+1..Len(wal) : flushed' = f
    /\ UNCHANGED <<upstreamVars, wal, origin, workerVars, errors, crashes, waitTarget>>

-----------------------------------------------------------------------------
\* Mutant: every queued commit counts as flushed.
FlushedPrefixIgnoreFlush(q, f) == Len(q)

(* pgactive_get_flush_position: the number of leading queue entries whose *)
(* local commit is already flushed; they are dequeued and reported.       *)
FlushedPrefix(q, f) ==
    CHOOSE k \in 0..Len(q) :
        /\ \A j \in 1..k : q[j].local <= f
        /\ k < Len(q) => q[k+1].local > f

\* Mutant: an empty queue reports no flush position at all.
SendFeedbackNoRecvFlush(recvpos0, force) ==
    LET recvpos  == Max2(recvpos0, fbRecv)
        k        == FlushedPrefix(lsnQueue, flushed)
        empty    == k = Len(lsnQueue)
        write0   == IF empty THEN recvpos ELSE lsnQueue[Len(lsnQueue)].remote
        flush0   == IF k > 0 THEN lsnQueue[k].remote ELSE Invalid
        writepos == Max2(write0, fbWrite)
        flushpos == Max2(flush0, fbFlush)
    IN /\ lsnQueue' = SubSeq(lsnQueue, k + 1, Len(lsnQueue))
       /\ IF ~force /\ writepos = fbWrite /\ flushpos = fbFlush
             THEN UNCHANGED <<fbRecv, fbWrite, fbFlush, confirmed>>
             ELSE /\ fbRecv' = recvpos
                  /\ fbWrite' = writepos
                  /\ fbFlush' = flushpos
                  /\ confirmed' = IF flushpos # Invalid THEN flushpos ELSE confirmed

(* pgactive_send_feedback(recvpos, force): compute write/flush positions, *)
(* clamp them to what was reported before, and send a reply unless there  *)
(* is nothing new and no reply was requested.  The walsender moves the    *)
(* slot's confirmed_flush to a valid reported flush position.             *)
SendFeedback(recvpos0, force) ==
    LET recvpos  == Max2(recvpos0, fbRecv)
        k        == FlushedPrefix(lsnQueue, flushed)
        empty    == k = Len(lsnQueue)
        write0   == IF empty THEN recvpos ELSE lsnQueue[Len(lsnQueue)].remote
        flush0   == IF empty THEN recvpos
                    ELSE IF k > 0 THEN lsnQueue[k].remote ELSE Invalid
        writepos == Max2(write0, fbWrite)
        flushpos == Max2(flush0, fbFlush)
    IN /\ lsnQueue' = SubSeq(lsnQueue, k + 1, Len(lsnQueue))
       /\ IF ~force /\ writepos = fbWrite /\ flushpos = fbFlush
             THEN UNCHANGED <<fbRecv, fbWrite, fbFlush, confirmed>>
             ELSE /\ fbRecv' = recvpos
                  /\ fbWrite' = writepos
                  /\ fbFlush' = flushpos
                  /\ confirmed' = IF flushpos # Invalid THEN flushpos ELSE confirmed

-----------------------------------------------------------------------------
\* Mutant: BEGIN does not set replorigin_session_origin_lsn.
ProcessRemoteBeginNoLsn(i) ==
    /\ sessionLsn' = sessionLsn
    /\ startedTxn' = FALSE
    /\ UNCHANGED <<done, lsnQueue, localVars>>

(* process_remote_begin: remember the commit LSN the transaction will     *)
(* advance the replication origin to; no local transaction yet.           *)
ProcessRemoteBegin(i) ==
    /\ sessionLsn' = i
    /\ startedTxn' = FALSE
    /\ UNCHANGED <<done, lsnQueue, localVars>>

(* A row change (process_remote_insert/update/delete) first calls         *)
(* pgactive_performing_work, which starts the local transaction lazily.   *)
ProcessRemoteRow(i) ==
    /\ startedTxn' = TRUE
    /\ UNCHANGED <<done, sessionLsn, lsnQueue, localVars>>

(* The catchup stop: XLogFlush(GetXLogWriteRecPtr()), then proc_exit(0). *)
(* The flush reaches only the WAL write pointer, which may lie anywhere   *)
(* between the flushed position and the end of the commit just inserted   *)
(* (an asynchronous commit is not yet written).                            *)
CatchupExit(wal1) ==
    /\ \E w \in flushed..Len(wal1) : flushed' = w
    /\ done' = TRUE

\* Mutant: the local commit does not advance the replication origin.
ProcessRemoteCommitNoOrigin(i) ==
    LET wal1 == IF startedTxn THEN Append(wal, [remote |-> sessionLsn]) ELSE wal
    IN /\ wal' = wal1
       /\ lsnQueue' = IF startedTxn
                         THEN Append(lsnQueue, [local |-> Len(wal1), remote |-> sessionLsn])
                         ELSE lsnQueue
       /\ origin' = origin
       /\ sessionLsn' = Invalid
       /\ UNCHANGED startedTxn
       /\ IF StopLsn # Invalid /\ StopLsn <= i
             THEN CatchupExit(wal1)
             ELSE UNCHANGED <<flushed, done>>

\* Mutant: the catchup stop test is strict (replay_stop_lsn < commit end).
ProcessRemoteCommitStopAfter(i) ==
    LET wal1 == IF startedTxn THEN Append(wal, [remote |-> sessionLsn]) ELSE wal
    IN /\ wal' = wal1
       /\ lsnQueue' = IF startedTxn
                         THEN Append(lsnQueue, [local |-> Len(wal1), remote |-> sessionLsn])
                         ELSE lsnQueue
       /\ origin' = IF startedTxn THEN Max2(origin, sessionLsn) ELSE origin
       /\ sessionLsn' = Invalid
       /\ UNCHANGED startedTxn
       /\ IF StopLsn # Invalid /\ StopLsn < i
             THEN CatchupExit(wal1)
             ELSE UNCHANGED <<flushed, done>>

(* process_remote_commit: if a local transaction was started, commit it   *)
(* (the commit record advances the session's replication origin to the    *)
(* LSN set at BEGIN) and queue the local/remote LSN pair; then stop       *)
(* gracefully, after flushing WAL up to the write pointer, once a        *)
(* catchup stop LSN is reached.                                          *)
ProcessRemoteCommit(i) ==
    LET wal1 == IF startedTxn THEN Append(wal, [remote |-> sessionLsn]) ELSE wal
    IN /\ wal' = wal1
       /\ lsnQueue' = IF startedTxn
                         THEN Append(lsnQueue, [local |-> Len(wal1), remote |-> sessionLsn])
                         ELSE lsnQueue
       /\ origin' = IF startedTxn THEN Max2(origin, sessionLsn) ELSE origin
       /\ sessionLsn' = Invalid
       /\ UNCHANGED startedTxn
       /\ IF StopLsn # Invalid /\ StopLsn <= i
             THEN CatchupExit(wal1)
             ELSE UNCHANGED <<flushed, done>>

(* pgactive_apply_work: take the next message of the stream.  'w' data    *)
(* advances last_received and is dispatched by                            *)
(* pgactive_process_remote_action; 'k' keepalives send feedback for their *)
(* end position, forced if the sender asked for a reply.                  *)
Receive ==
    /\ up
    /\ stream # <<>>
    /\ LET m == Head(stream) IN
       /\ stream' = Tail(stream)
       /\ IF m.type = "k"
             THEN /\ SendFeedback(m.endpos, m.reply)
                  /\ UNCHANGED <<localVars, up, done, sessionLsn, startedTxn, lastReceived>>
             ELSE /\ lastReceived' = Max2(lastReceived,
                                         IF m.type = "C" THEN m.txn ELSE m.txn - 1)
                  /\ CASE m.type = "B" -> ProcessRemoteBegin(m.txn)
                       [] m.type = "R" -> ProcessRemoteRow(m.txn)
                       [] m.type = "C" -> ProcessRemoteCommit(m.txn)
                  /\ up' = ~done'
                  /\ UNCHANGED <<fbRecv, fbWrite, fbFlush, confirmed>>
    /\ UNCHANGED <<wsTxn, wsOff, errors, crashes, waitTarget>>

(* End of the inner read loop (no more data buffered): confirm all writes *)
(* at once with last_received.                                            *)
LoopFeedback ==
    /\ up
    /\ SendFeedback(lastReceived, FALSE)
    /\ UNCHANGED <<wsTxn, wsOff, stream, localVars, up, done, sessionLsn,
                   startedTxn, lastReceived, errors, crashes, waitTarget>>

\* Mutant: START_REPLICATION from 0 instead of the origin's progress.
StartWorkerFromSlot ==
    /\ ~up /\ ~done
    /\ up' = TRUE
    /\ wsTxn' = confirmed + 1
    /\ wsOff' = 0
    /\ stream' = <<>>
    /\ sessionLsn' = Invalid
    /\ startedTxn' = FALSE
    /\ lsnQueue' = <<>>
    /\ lastReceived' = Invalid
    /\ fbRecv' = Invalid /\ fbWrite' = Invalid /\ fbFlush' = Invalid
    /\ UNCHANGED <<confirmed, localVars, done, errors, crashes, waitTarget>>

(* pgactive_apply_main: connect and START_REPLICATION from the origin's   *)
(* progress; the walsender starts decoding at the later of that and the   *)
(* slot's confirmed_flush.  Process-local state starts empty.             *)
StartWorker ==
    /\ ~up /\ ~done
    /\ up' = TRUE
    /\ wsTxn' = Max2(origin, confirmed) + 1
    /\ wsOff' = 0
    /\ stream' = <<>>
    /\ sessionLsn' = Invalid
    /\ startedTxn' = FALSE
    /\ lsnQueue' = <<>>
    /\ lastReceived' = Invalid
    /\ fbRecv' = Invalid /\ fbWrite' = Invalid /\ fbFlush' = Invalid
    /\ UNCHANGED <<confirmed, localVars, done, errors, crashes, waitTarget>>

(* Any ERROR in the worker (lost connection, apply error): the open local *)
(* transaction aborts, the process exits and is restarted later.          *)
WorkerError ==
    /\ up
    /\ errors < MaxErrors
    /\ errors' = errors + 1
    /\ up' = FALSE
    /\ stream' = <<>>
    /\ UNCHANGED <<confirmed, wsTxn, wsOff, localVars, done, sessionLsn,
                   startedTxn, lsnQueue, lastReceived, fbRecv, fbWrite,
                   fbFlush, crashes, waitTarget>>

(* Server crash: unflushed WAL is lost and the replication origin is      *)
(* recovered from the durable commit records.                             *)
ServerCrash ==
    /\ crashes < MaxCrashes
    /\ crashes' = crashes + 1
    /\ wal' = SubSeq(wal, 1, flushed)
    /\ origin' = IF flushed = 0 THEN Invalid
                 ELSE Max({wal[k].remote : k \in 1..flushed})
    /\ up' = FALSE
    /\ stream' = <<>>
    /\ UNCHANGED <<confirmed, wsTxn, wsOff, flushed, done, sessionLsn,
                   startedTxn, lsnQueue, lastReceived, fbRecv, fbWrite,
                   fbFlush, errors, waitTarget>>

-----------------------------------------------------------------------------
(* A user on the upstream calls pgactive_wait_for_slots_confirmed_flush_lsn *)
(* with slot_name NULL (all slots: here the session's slot) and either an *)
(* explicit LSN or NULL, which waits for the current WAL write position,  *)
(* past every upstream transaction.                                       *)
WaitForSlotsCall ==
    /\ waitTarget = Invalid
    /\ \E t \in Txns : waitTarget' = t
    /\ UNCHANGED <<upstreamVars, localVars, workerVars, errors, crashes>>

(* One pass of the polling loop that ends it: the oldest confirmed_flush  *)
(* of the matching in-use slots has reached the target.  A pass that      *)
(* finds it behind sleeps on the latch for up to a second and changes     *)
(* nothing.                                                               *)
WaitForSlotsReturn ==
    /\ waitTarget # Invalid
    /\ confirmed >= waitTarget
    /\ waitTarget' = Invalid
    /\ UNCHANGED <<upstreamVars, localVars, workerVars, errors, crashes>>

-----------------------------------------------------------------------------
Init ==
    /\ confirmed = Invalid /\ wsTxn = 1 /\ wsOff = 0 /\ stream = <<>>
    /\ wal = <<>> /\ flushed = 0 /\ origin = Invalid
    /\ up = FALSE /\ done = FALSE
    /\ sessionLsn = Invalid /\ startedTxn = FALSE /\ lsnQueue = <<>>
    /\ lastReceived = Invalid
    /\ fbRecv = Invalid /\ fbWrite = Invalid /\ fbFlush = Invalid
    /\ errors = 0 /\ crashes = 0
    /\ waitTarget = Invalid

Next ==
    \/ WalSndSend \/ WalSndKeepalive \/ WalFlush
    \/ Receive \/ LoopFeedback
    \/ StartWorker \/ WorkerError \/ ServerCrash
    \/ WaitForSlotsCall \/ WaitForSlotsReturn

(* The worker loop, the supervisor restarting the worker and the         *)
(* walwriter keep running; errors and crashes may or may not happen.      *)
(* The walsender sends pending changes whenever its output buffer has     *)
(* room, however many keepalives it interleaves (strong fairness: the     *)
(* buffer may fill with keepalives and drain again).  A waiting backend  *)
(* wakes at least once a second and rereads the slots.                    *)
Fairness ==
    /\ WF_vars(Receive) /\ WF_vars(LoopFeedback) /\ WF_vars(StartWorker)
    /\ SF_vars(WalSndSend) /\ WF_vars(WalFlush)
    /\ WF_vars(WaitForSlotsReturn)

Spec == Init /\ [][Next]_vars /\ Fairness

-----------------------------------------------------------------------------
TypeOK ==
    /\ confirmed \in 0..N /\ wsTxn \in 1..N+1 /\ wsOff \in Nat
    /\ stream \in Seq(Messages)
    /\ wal \in Seq([remote : Txns]) /\ flushed \in 0..Len(wal)
    /\ origin \in 0..N
    /\ up \in BOOLEAN /\ done \in BOOLEAN
    /\ sessionLsn \in 0..N /\ startedTxn \in BOOLEAN
    /\ lsnQueue \in Seq([local : Nat, remote : Txns])
    /\ {lastReceived, fbRecv, fbWrite, fbFlush, waitTarget} \subseteq 0..N

(* No lost transaction: every upstream transaction with changes that the  *)
(* slot will no longer resend (its commit is at or before confirmed_flush) *)
(* is committed locally.  A server crash truncates the local WAL to its   *)
(* flushed prefix, so this breaks if feedback ever confirms a commit whose *)
(* local commit record was not yet flushed.                               *)
NoLostTransaction ==
    \A i \in 1..confirmed : Rows[i] > 0 => i \in Range([k \in DOMAIN wal |-> wal[k].remote])

(* Refinement: the session implements ConfirmedFlush.  Every feedback     *)
(* that moves the slot's confirmed_flush covers only transactions whose   *)
(* local commit is already flushed (or that wrote nothing), and flushed   *)
(* commits reach the WAL in upstream commit order.  Stronger than         *)
(* NoLostTransaction: it fails at the feedback step itself, before any    *)
(* crash makes the loss visible.                                          *)
Abstract == INSTANCE ConfirmedFlush WITH durable <- DurablyApplied, confirmed <- confirmed

ImplementsConfirmedFlush == Abstract!Spec

(* Exactly once: no upstream transaction is committed twice locally,      *)
(* across worker restarts and crashes (restart resumes from the origin).  *)
AppliedOnce ==
    IsInjective([k \in DOMAIN wal |-> wal[k].remote])

(* Liveness: a pgactive_wait_for_slots_confirmed_flush_lsn call returns:  *)
(* without a catchup stop the apply session's feedback eventually moves  *)
(* the slot to every upstream transaction, the last one writing nothing  *)
(* and so confirmed only through the received position.                  *)
WaitForSlotsReturns == waitTarget # Invalid ~> waitTarget = Invalid

(* Catchup liveness: a catchup worker eventually reaches replay_stop_lsn  *)
(* and exits, across ERROR exits and restarts from the replication        *)
(* origin: the stop is only tested at a replayed COMMIT, so a restart     *)
(* must never resume past the stop commit without having stopped.         *)
CatchupEventuallyStops == <>done

(* Catchup: when the worker stops at replay_stop_lsn, every transaction   *)
(* up to the stop LSN is durable locally, which the comment before the    *)
(* XLogFlush at apply.c:576-580 ("flush all writes") intends.  The flush  *)
(* reaches only the write pointer, so TLC finds this violated; no run     *)
(* keeps it (see the hazard at apply.c:580).                              *)
CatchupDurable ==
    done => \A i \in 1..StopLsn : Rows[i] > 0 => i \in DurablyApplied

=============================================================================
