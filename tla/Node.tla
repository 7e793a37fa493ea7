------------------------------- MODULE Node -------------------------------
(***************************************************************************)
(* A node of tensorium-node: the handlers that change the chain or the     *)
(* mempool file.  Every handler opens the database, which is locked by one *)
(* handle at a time, and keeps it open while it works on the mempool file, *)
(* so handlers do not interleave; a handler that finds the database locked *)
(* gives up without having changed anything.                               *)
(*                                                                         *)
(* The handler of a block (P2P NewBlock and POST /submitblock) submits the *)
(* block, then reads the mempool file, cleans it, requeues the             *)
(* transactions of disconnected blocks one by one, and writes the file:    *)
(* these are separate steps, between which the process may die.            *)
(***************************************************************************)
EXTENDS ChainState, Mempool

VARIABLES
    pending,   \* the mempool file
    busy,      \* a block handler is past submit_block
    working,   \* the pool that handler has in memory
    queue      \* the transactions it has left to requeue

pool_vars == <<pending, busy, working, queue>>
node_vars == <<vars, pool_vars>>

NodeTypeOK ==
    /\ IsPool(pending) /\ IsPool(working)
    /\ busy \in BOOLEAN
    /\ queue \in Seq(TxId)

NodeInit ==
    /\ Init
    /\ pending = EmptyPool /\ busy = FALSE
    /\ working = EmptyPool /\ queue = << >>

-----------------------------------------------------------------------------
TipHeight == IF tip_cache = Zero THEN 0 ELSE height(tip_cache)

\* seed_utxos_for_tx: the entries the transaction spends, read from CF_UTXO.
seed_utxos_for_tx(u, t) == Restrict(u, DOMAIN u \cap InputsOf(t))

\* Those elements of s that are in K, in their order.
Kept(s, K) ==
    LET kept[i \in 0 .. Len(s)] ==
          IF i = 0 THEN << >>
          ELSE IF s[i] \in K THEN Append(kept[i - 1], s[i]) ELSE kept[i - 1]
    IN  kept[Len(s)]

\* The transactions of a block that are not coinbases.
Payments(s) == Kept(s, {t \in Range(s) : ~ is_coinbase(t)})

\* Mutant: only the transactions of the last disconnected block.
TipCandidates(d) == IF d = << >> THEN << >> ELSE Payments(Txs(d[Len(d)]))

\* take_reorg_requeue_candidates, oldest block first.
RequeueCandidates(d) ==
    LET upto[i \in 0 .. Len(d)] ==
          IF i = 0 THEN << >> ELSE upto[i - 1] \o Payments(Txs(d[i]))
    IN  upto[Len(d)]

\* submit_block returned the block: it is stored, canonical or not.
SubmitOk(b) == SubmitSide(b) \/ SubmitExtend(b) \/ SubmitReorg(b)
SubmitErr(b) ==
    \/ SubmitAlreadyKnown(b) \/ SubmitUnknownParent(b) \/ SubmitInvalid(b)
    \/ SubmitExtendInvalid(b) \/ SubmitReorgInvalid(b)

\* accept_peer_block and /submitblock, up to the cleaned mempool in memory.
AcceptBlock(b) ==
    /\ ~ busy
    /\ SubmitOk(b)
    /\ busy' = TRUE
    /\ working' = remove_confirmed(pending, b)
    /\ queue' = RequeueCandidates(last_disconnected')
    /\ UNCHANGED pending

RejectBlock(b) == ~ busy /\ SubmitErr(b) /\ UNCHANGED pool_vars

\* One pass of the loop of requeue_reorged_transactions.
Requeue ==
    /\ busy /\ queue # << >>
    /\ LET t == Head(queue)
       IN  working' \in add(working, seed_utxos_for_tx(utxo, t), t, TipHeight)
    /\ queue' = Tail(queue)
    /\ UNCHANGED <<vars, pending, busy>>

Idle == busy' = FALSE /\ working' = EmptyPool /\ queue' = << >>

\* save_mempool; the handler returns and drops the database.
SaveMempool ==
    /\ busy /\ queue = << >>
    /\ pending' = working
    /\ Idle /\ Reopen

\* The process dies before the mempool file is written, or while it is: an
\* unreadable file counts as an empty pool (load_mempool).
CrashInHandler ==
    /\ busy
    /\ pending' \in {pending, EmptyPool}
    /\ Idle /\ Reopen

\* The process dies half way through submit_block, see ChainState.
CrashInSubmit(b) == ~ busy /\ SubmitCrash(b) /\ UNCHANGED pool_vars

\* ensure_utxo_synced as the first step of a handler that submits no block.
SyncFirst == EnsureUtxoSynced \/ (~ UtxoStale /\ UNCHANGED vars)

\* accept_peer_tx and /sendrawtransaction.
AcceptTx(t) ==
    /\ ~ busy
    /\ SyncFirst
    /\ pending' \in add(pending, seed_utxos_for_tx(SyncedUtxo, t), t, TipHeight)
    /\ UNCHANGED <<busy, working, queue>>

\* The process dies while it rewrites the file for an accepted transaction.
CrashInSave(t) ==
    /\ ~ busy
    /\ SyncFirst
    /\ add(pending, seed_utxos_for_tx(SyncedUtxo, t), t, TipHeight) # {pending}
    /\ pending' = EmptyPool
    /\ UNCHANGED <<busy, working, queue>>

\* init, mine-once, the migration in load_state, and the handlers that only
\* read (/getblocktemplate, /getutxos, /buildAssetTx: they bring CF_UTXO up to
\* date).  None of them touches the mempool file.
ChainOnly ==
    /\ ~ busy
    /\ \/ \E b \in Block : InitGenesis(b) \/ MineNextBlock(b) \/ MigrateJson(b)
       \/ EnsureUtxoSynced
       \/ Reopen
    /\ UNCHANGED pool_vars

NodeNext ==
    \/ \E b \in Block : AcceptBlock(b) \/ RejectBlock(b) \/ CrashInSubmit(b)
    \/ \E t \in TxId : AcceptTx(t) \/ CrashInSave(t)
    \/ Requeue
    \/ SaveMempool
    \/ CrashInHandler
    \/ ChainOnly

NodeSpec == NodeInit /\ [][NodeNext]_node_vars

-----------------------------------------------------------------------------
\* /getblocktemplate

\* The transactions that survive the second validation of the handler, and
\* their fees, computed anew.
Revalidated(s) ==
    Kept(s, {t \in Range(s) : validate_transaction(seed_utxos_for_tx(SyncedUtxo, t),
                                                   t, TipHeight)})
\* Mutant: the fees of everything that was selected.
SelectedFees(s) == SatSum([i \in DOMAIN s |-> pending[s[i]]])
TemplateFees(s) ==
    LET kept == Revalidated(s)
    IN  SatSum([i \in DOMAIN kept |-> fee(SyncedUtxo, kept[i])])

\* b is what a miner makes of a template: candidate_block_with_mempool.
FromTemplate(b) ==
    /\ tip_cache # Zero /\ previous_hash(b) = tip_cache
    /\ Txs(b) # << >> /\ is_coinbase(Txs(b)[1])
    /\ \E s \in select_for_block(pending) :
         /\ Tail(Txs(b)) = Revalidated(s)
         /\ total_output_atoms(Txs(b)[1])
              = Saturate(reward_at_height(height(b)) + TemplateFees(s))

-----------------------------------------------------------------------------
\* Correctness

\* No two pending transactions spend the same output, in the file and in the
\* hands of a handler, although requeued transactions come from another branch.
NoPendingConflict ==
    \A m \in {pending, working} : \A p, q \in DOMAIN m :
        p # q => InputsOf(p) \cap InputsOf(q) = {}

\* The pool never outgrows MAX_MEMPOOL_TXS and holds nothing below the relay fee.
PoolWithinLimits ==
    \A m \in {pending, working} :
        /\ Cardinality(DOMAIN m) <= MaxMempool
        /\ \A p \in DOMAIN m : m[p] >= MinRelayFee

\* Whatever reorganisations, restarts and losses the mempool file has lived
\* through, a block made from a template is one submit_block accepts.
TemplateAccepted ==
    \A b \in Block : FromTemplate(b) => validate_block_utxo(SyncedUtxo, b)

\* When a block handler that reorganised the chain is done, every transaction of
\* the disconnected blocks that is valid on the new chain and pays its way is
\* pending again, unless it conflicts with a pending one or the pool is full.
OrphansRequeued ==
    [][SaveMempool =>
         \A i \in DOMAIN last_disconnected : \A t \in Range(Txs(last_disconnected[i])) :
            /\ ~ is_coinbase(t)
            /\ validate_transaction(utxo, t, TipHeight)
            /\ fee(utxo, t) >= MinRelayFee
            => \/ t \in DOMAIN pending'
               \/ conflicts_with_pending(pending', t)
               \/ Full(pending')]_node_vars

\* A block handler removes a transaction from the mempool only if a stored block
\* confirms it or spends one of its inputs, or if the pool is full: a reorganisation
\* and its requeue lose nothing else, what depends on a requeued transaction included.
RemovedOnlyIfMined ==
    [][SaveMempool =>
         \A p \in DOMAIN pending \ DOMAIN pending' :
            \/ Full(pending')
            \/ \E b \in blocks : \/ p \in Range(Txs(b))
                                 \/ InputsOf(p) \cap Spends(b) # {}]_node_vars

\* A block handler removes a transaction from the mempool only if the canonical
\* chain now confirms it or spends one of its inputs, or if the pool is full.
RemovedOnlyIfConfirmed ==
    [][SaveMempool =>
         \A p \in DOMAIN pending \ DOMAIN pending' :
            \/ Full(pending')
            \/ \E h \in DOMAIN canonical :
                 \/ p \in Range(Txs(canonical[h]))
                 \/ InputsOf(p) \cap Spends(canonical[h]) # {}]_node_vars

-----------------------------------------------------------------------------
\* The inductive invariant

PoolOk(m) ==
    /\ IsPool(m) /\ IsFiniteSet(DOMAIN m)
    /\ Cardinality(DOMAIN m) <= MaxMempool
    /\ \A p \in DOMAIN m : m[p] >= MinRelayFee
    /\ \A p, q \in DOMAIN m : p # q => InputsOf(p) \cap InputsOf(q) = {}

\* What a block handler has taken out of the pool is mined, or the pool is full.
Mined(p) ==
    \E b \in blocks : p \in Range(Txs(b)) \/ InputsOf(p) \cap Spends(b) # {}
RemovedSoFar ==
    busy => \A p \in DOMAIN pending \ DOMAIN working : Full(working) \/ Mined(p)

\* A disconnected transaction that is worth it is requeued or still to come.
Wanted(t) ==
    /\ ~ is_coinbase(t)
    /\ validate_transaction(utxo, t, TipHeight)
    /\ fee(utxo, t) >= MinRelayFee
RequeuedSoFar ==
    busy =>
      \A i \in DOMAIN last_disconnected : \A t \in Range(Txs(last_disconnected[i])) :
        Wanted(t) => \/ t \in Range(queue) \/ t \in DOMAIN working
                     \/ conflicts_with_pending(working, t) \/ Full(working)

NodeInv ==
    /\ IInv
    /\ NodeTypeOK /\ PoolOk(pending) /\ PoolOk(working)
    /\ RemovedSoFar /\ RequeuedSoFar
=============================================================================
