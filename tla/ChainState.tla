----------------------------- MODULE ChainState -----------------------------
(***************************************************************************)
(* ChainState of tensorium-core/src/state.rs: the block store, the index   *)
(* of the canonical chain, the persistent set of unspent outputs and the   *)
(* fork choice of submit_block.                                            *)
(*                                                                         *)
(* The four RocksDB column families are variables, META_TIP and            *)
(* META_UTXO_TIP one variable each (META_HEIGHT and META_CHAIN_ID are      *)
(* written and never read).  RocksDB is opened by one process at a time,   *)
(* so a call on ChainState is not interleaved with another one; the only   *)
(* thing that can come between two writes of one call is a crash.          *)
(*                                                                         *)
(* submit_block is one action per way it can return: the writes it has     *)
(* made by then are the action's.  It writes twice, the block by itself    *)
(* and then everything else in one atomic batch; SubmitCrash is the crash  *)
(* between the two.                                                        *)
(***************************************************************************)
EXTENDS Ledger

VARIABLES
    blocks,             \* CF_BLOCKS: every block ever stored
    canonical,          \* CF_CANONICAL: height -> block
    utxo,               \* CF_UTXO: outpoint -> entry
    meta_tip,           \* META_TIP, Zero when absent
    meta_utxo_tip,      \* META_UTXO_TIP, Zero when absent
    tip_cache,          \* the cached tip block, Zero when there is none
    last_disconnected,  \* blocks the last submit_block took off the chain
    interrupted         \* history: blocks whose submit_block died half way

db == <<blocks, canonical, utxo, meta_tip, meta_utxo_tip>>
vars == <<db, tip_cache, last_disconnected, interrupted>>

TypeOK ==
    /\ blocks \subseteq Block
    /\ canonical \in [DOMAIN canonical -> Block] /\ DOMAIN canonical \subseteq Nat
    /\ IsUtxoSet(utxo)
    /\ meta_tip \in Block \cup {Zero}
    /\ meta_utxo_tip \in Block \cup {Zero}
    /\ tip_cache \in Block \cup {Zero}
    /\ last_disconnected \in Seq(Block)
    /\ interrupted \subseteq Block

Init ==
    /\ blocks = {} /\ canonical = EmptyUtxo /\ utxo = EmptyUtxo
    /\ meta_tip = Zero /\ meta_utxo_tip = Zero
    /\ tip_cache = Zero /\ last_disconnected = << >> /\ interrupted = {}

-----------------------------------------------------------------------------
\* Reading the database

epoch_seed_for_height(h) ==
    IF h >= EpochLength /\ SeedHeight(h) \in DOMAIN canonical
    THEN canonical[SeedHeight(h)] ELSE Zero

\* validate_block as submit_block and the miners call it.
Validates(b) ==
    validate_block(b, expected_leading_zero_bits_for(previous_hash(b)),
                   epoch_seed_for_height(height(b)))

-----------------------------------------------------------------------------
\* ensure_utxo_synced: rebuild CF_UTXO when its stamp is not the tip's.  It
\* fails when the canonical chain does not replay.

\* Mutant: only a set that was never stamped is rebuilt.
NeverStamped == tip_cache # Zero /\ meta_utxo_tip = Zero
UtxoStale == tip_cache # Zero /\ meta_utxo_tip # tip_cache
CanSync == UtxoStale => replay_utxo(canonical).ok
SyncedUtxo == IF UtxoStale THEN replay_utxo(canonical).utxo ELSE utxo
SyncedStamp == IF UtxoStale THEN tip_cache ELSE meta_utxo_tip

EnsureUtxoSynced ==
    /\ UtxoStale /\ CanSync
    /\ utxo' = SyncedUtxo /\ meta_utxo_tip' = SyncedStamp
    /\ UNCHANGED <<blocks, canonical, meta_tip, tip_cache, last_disconnected,
                   interrupted>>

-----------------------------------------------------------------------------
\* Creating the chain

\* Mutant: the batch does not move META_TIP.
PutBlockNoTip(b) ==
    /\ blocks' = blocks \cup {b}
    /\ canonical' = [h \in DOMAIN canonical \cup {height(b)} |->
                        IF h = height(b) THEN b ELSE canonical[h]]
    /\ tip_cache' = b
    /\ UNCHANGED <<meta_tip, utxo, meta_utxo_tip, last_disconnected, interrupted>>

\* put_block_batch and the caches; neither CF_UTXO nor META_UTXO_TIP.
PutBlock(b) ==
    /\ blocks' = blocks \cup {b}
    /\ canonical' = [h \in DOMAIN canonical \cup {height(b)} |->
                        IF h = height(b) THEN b ELSE canonical[h]]
    /\ meta_tip' = b /\ tip_cache' = b
    /\ UNCHANGED <<utxo, meta_utxo_tip, last_disconnected, interrupted>>

\* init_genesis and init_genesis_nonce.
InitGenesis(b) ==
    /\ tip_cache = Zero
    /\ previous_hash(b) = Zero /\ IsBareCandidate(b) /\ Validates(b)
    /\ PutBlock(b)

\* mine_next_block, on the current tip.
MineNextBlock(b) ==
    /\ tip_cache # Zero
    /\ previous_hash(b) = tip_cache /\ IsBareCandidate(b) /\ Validates(b)
    /\ PutBlock(b)

\* migrate_json_to_rocksdb into a new database.  The legacy file is the state of an
\* older node: a chain of blocks that node had accepted.  That it replays is taken for
\* granted, here as in the code, which writes its blocks without a check.
LegacyChain(b) ==
    /\ \A h \in 0 .. height(b) : SubSeq(b, 1, h + 1) \in Block
    /\ ReplayBranch(b).ok
MigrateJson(b) ==
    /\ blocks = {} /\ tip_cache = Zero
    /\ LegacyChain(b)
    /\ canonical' = build_canonical_chain(b)
    /\ blocks' = Range(canonical')
    /\ meta_tip' = b /\ tip_cache' = b
    /\ UNCHANGED <<utxo, meta_utxo_tip, last_disconnected, interrupted>>

-----------------------------------------------------------------------------
\* submit_block

\* What it has written when it returns without adopting the block.
Submitted(b, stored) ==
    /\ b \notin blocks
    /\ CanSync
    /\ utxo' = SyncedUtxo /\ meta_utxo_tip' = SyncedStamp
    /\ blocks' = blocks \cup stored
    /\ UNCHANGED <<canonical, meta_tip, tip_cache, interrupted>>

\* The block passes the checks that come before it is stored.
Storable(b) ==
    /\ b \notin blocks
    /\ previous_hash(b) \in blocks
    /\ Validates(b)
    /\ CanSync

\* Mutant: fork choice by the last block's difficulty.
HarderBlock(b) == header(b).bits >= header(tip_cache).bits

MoreWork(b) == chain_work(b) > chain_work(tip_cache)
ExtendsTip(b) == previous_hash(b) = tip_cache
NewChain(b) == build_canonical_chain(b)

SubmitAlreadyKnown(b) == b \in blocks /\ UNCHANGED vars

SubmitUnknownParent(b) ==
    /\ previous_hash(b) \notin blocks
    /\ Submitted(b, {})
    /\ UNCHANGED last_disconnected

SubmitInvalid(b) ==
    /\ previous_hash(b) \in blocks
    /\ ~ Validates(b) \/ header(b).early
    /\ Submitted(b, {})
    /\ UNCHANGED last_disconnected

\* Stored; the canonical chain has at least as much work.
SubmitSide(b) ==
    /\ Storable(b) /\ ~ MoreWork(b)
    /\ Submitted(b, {b})
    /\ last_disconnected' = << >>

\* Fast path: the block extends the tip.
SubmitExtend(b) ==
    /\ Storable(b) /\ MoreWork(b) /\ ExtendsTip(b)
    /\ validate_block_utxo(SyncedUtxo, b)
    /\ blocks' = blocks \cup {b}
    /\ canonical' = [h \in DOMAIN canonical \cup {height(b)} |->
                        IF h = height(b) THEN b ELSE canonical[h]]
    /\ utxo' = apply_utxo_delta(SyncedUtxo, b)
    /\ meta_tip' = b /\ meta_utxo_tip' = b /\ tip_cache' = b
    /\ last_disconnected' = << >>
    /\ UNCHANGED interrupted

\* Fast path with a block whose transactions fail: stored all the same.
SubmitExtendInvalid(b) ==
    /\ Storable(b) /\ MoreWork(b) /\ ExtendsTip(b)
    /\ ~ validate_block_utxo(SyncedUtxo, b)
    /\ Submitted(b, {b})
    /\ last_disconnected' = << >>

\* Mutant: starts one block too late.
ForkIndexPlusOne(old, new) ==
    1 + Cardinality({h \in DOMAIN old \cap DOMAIN new :
                        \A g \in 0 .. h : old[g] = new[g]})
\* The length of the common prefix of the old and the new chain.
ForkIndex(old, new) ==
    Cardinality({h \in DOMAIN old \cap DOMAIN new :
                    \A g \in 0 .. h : old[g] = new[g]})

\* Mutant: leaves the tail of a longer old chain in CF_CANONICAL.
WithoutPruning(b) ==
    [h \in DOMAIN canonical \cup DOMAIN NewChain(b) |->
        IF h \in DOMAIN NewChain(b) THEN NewChain(b)[h] ELSE canonical[h]]

\* What the batch of a reorganisation leaves in CF_CANONICAL: the new branch,
\* and nothing above it where the old chain was longer.
ReorgCanonical(b) ==
    LET pruned == (height(b) + 1) .. height(tip_cache)
    IN  [h \in (DOMAIN canonical \cup DOMAIN NewChain(b)) \ pruned |->
            IF h \in DOMAIN NewChain(b) THEN NewChain(b)[h] ELSE canonical[h]]

\* old_canonical[fork_index..]
Disconnected(b) ==
    LET old == build_canonical_chain(tip_cache)
        fork == ForkIndex(old, NewChain(b))
    IN  [i \in 1 .. (Len(tip_cache) - fork) |-> old[fork + i - 1]]

\* Reorganisation onto the branch of b.
SubmitReorg(b) ==
    /\ Storable(b) /\ MoreWork(b) /\ ~ ExtendsTip(b)
    /\ ReplayBranch(b).ok
    /\ last_disconnected' = Disconnected(b)
    /\ canonical' = ReorgCanonical(b)
    /\ blocks' = blocks \cup {b}
    /\ utxo' = ReplayBranch(b).utxo
    /\ meta_tip' = b /\ meta_utxo_tip' = b /\ tip_cache' = b
    /\ UNCHANGED interrupted

\* The branch does not replay: the old chain stays, the block is stored.
SubmitReorgInvalid(b) ==
    /\ Storable(b) /\ MoreWork(b) /\ ~ ExtendsTip(b)
    /\ ~ ReplayBranch(b).ok
    /\ Submitted(b, {b})
    /\ last_disconnected' = << >>

\* reload_caches, as every start of the node does.
ReloadedTip == IF meta_tip \in blocks THEN meta_tip ELSE Zero

\* The process dies after the block is stored and before the batch.
SubmitCrash(b) ==
    /\ Storable(b) /\ MoreWork(b)
    /\ blocks' = blocks \cup {b}
    /\ utxo' = SyncedUtxo /\ meta_utxo_tip' = SyncedStamp
    /\ interrupted' = interrupted \cup {b}
    /\ tip_cache' = ReloadedTip /\ last_disconnected' = << >>
    /\ UNCHANGED <<canonical, meta_tip>>

SubmitBlock(b) ==
    \/ SubmitAlreadyKnown(b)
    \/ SubmitUnknownParent(b)
    \/ SubmitInvalid(b)
    \/ SubmitSide(b)
    \/ SubmitExtend(b)
    \/ SubmitExtendInvalid(b)
    \/ SubmitReorg(b)
    \/ SubmitReorgInvalid(b)

\* The caller drops its handle, or the process dies between two calls.
Reopen ==
    /\ tip_cache' = ReloadedTip
    /\ last_disconnected' = << >>
    /\ UNCHANGED <<db, interrupted>>

Next ==
    \/ \E b \in Block : \/ InitGenesis(b)
                        \/ MineNextBlock(b)
                        \/ MigrateJson(b)
                        \/ SubmitBlock(b)
                        \/ SubmitCrash(b)
    \/ EnsureUtxoSynced
    \/ Reopen

Spec == Init /\ [][Next]_vars
-----------------------------------------------------------------------------
\* Correctness

\* Every stored block has its whole branch in the store, so the walks along
\* previous_hash of chain_work, build_canonical_chain and the retargeting never
\* stop early at a missing block.
StoreClosed ==
    \A b \in blocks : \A n \in 1 .. Len(b) : SubSeq(b, 1, n) \in blocks

\* The canonical index is exactly the branch of the tip: submit_block's batches
\* leave no hole in it and no stale entry above the tip, also when the winning
\* branch is the shorter one.
CanonicalIsAncestry ==
    canonical = (IF tip_cache = Zero THEN EmptyUtxo
                 ELSE build_canonical_chain(tip_cache))

\* When META_UTXO_TIP names the tip, CF_UTXO is what a replay of the tip's branch
\* from genesis produces, although submit_block only ever applies one block's
\* delta, or rebuilds it after blocks it did not apply.
UtxoMatchesChain ==
    tip_cache # Zero /\ meta_utxo_tip = tip_cache =>
        utxo = ReplayBranch(tip_cache).utxo

\* The branch of the tip always replays, so the rebuild in ensure_utxo_synced
\* cannot fail and lock the node out of its own database.
TipReplays ==
    tip_cache # Zero => ReplayBranch(tip_cache).ok

\* Fork choice: no stored block whose branch is valid has more work than the
\* tip, except one whose submit_block died between its two writes.
TipHasMostWork ==
    \A b \in blocks \ interrupted :
        ReplayBranch(b).ok =>
            chain_work(b) <= chain_work(tip_cache)

\* What the caches hold is what a restart would read back, a node without a tip
\* has an empty store, and META_UTXO_TIP never names a block with more work than
\* the tip: a block that is mined or adopted later cannot find the stamp already
\* set to it, so ensure_utxo_synced never trusts a set built for another chain.
CachesCoherent ==
    /\ tip_cache = meta_tip
    /\ IF tip_cache = Zero THEN blocks = {} ELSE tip_cache \in blocks
    /\ chain_work(meta_utxo_tip) <= chain_work(tip_cache)

\* The inductive invariant.
IInv ==
    /\ TypeOK
    /\ StoreClosed
    /\ CanonicalIsAncestry
    /\ CachesCoherent
    /\ UtxoMatchesChain
    /\ TipReplays
    /\ TipHasMostWork

\* A spend on the canonical chain, judged by the chain's history and not by the
\* UTXO set: its output was created by an earlier block, nobody spent it in
\* between or in the same block, and a coinbase output had matured.
SoundHistory ==
    \A h \in DOMAIN canonical : \A s \in InputSlots(canonical[h]) :
        LET op == SpendAt(canonical[h], s) IN
        /\ \A r \in InputSlots(canonical[h]) :
              r # s => SpendAt(canonical[h], r) # op
        /\ \E g \in 0 .. h - 1 :
              /\ op \in Creates(canonical[g])
              /\ \A k \in g + 1 .. h - 1 : op \notin Spends(canonical[k])
              /\ is_coinbase(op[1]) => h >= g + Maturity

\* The unspent outputs never hold more than the emission schedule has released
\* up to the tip, whatever mixture of forks and rebuilds led there.
SupplyBounded ==
    tip_cache # Zero /\ ~ UtxoStale => AtomsIn(utxo) <= Supply(height(tip_cache))

\* No step, a restart after a crash included, moves the node to a chain with
\* less work than the one it was on.
WorkNeverDecreases == [][chain_work(tip_cache') >= chain_work(tip_cache)]_vars

\* Every block that leaves the canonical index in a step is handed to the caller
\* in last_disconnected, oldest first, and no other block is.
DisconnectedReported ==
    [][LET gone == Range(canonical) \ Range(canonical') IN
       gone # {} =>
         /\ Range(last_disconnected') = gone
         /\ \A i, j \in DOMAIN last_disconnected' :
              i < j => height(last_disconnected'[i])
                         < height(last_disconnected'[j])]_vars

\* A block with correct difficulty and with a nonce mined for its own branch
\* passes validate_block whenever its parent is stored, so that a branch found
\* by sync_blocks can always be applied block by block.  Said of a node no
\* submit_block of which ever died half way: its parent is stored because the node
\* took it, canonical or as a side block.
ForkBlocksApply ==
    interrupted = {} => \A b \in Block :
        /\ previous_hash(b) \in blocks /\ header(b).sane /\ header(b).pow
        /\ header(b).bits = expected_leading_zero_bits_for(previous_hash(b))
        /\ Txs(b) # << >> /\ is_coinbase(Txs(b)[1])
        => Validates(b)

-----------------------------------------------------------------------------
\* The abstract specification

\* Nothing is written to CF_UTXO before there is a tip.
FreshIsEmpty == tip_cache = Zero => utxo = EmptyUtxo

CoinsOf(b) == IF b = Zero THEN EmptyUtxo ELSE ReplayBranch(b).utxo
Replays(b) == ReplayBranch(b).ok

\* The coins are those a handler works with after its ensure_utxo_synced, whatever
\* CF_UTXO holds.
BC == INSTANCE BestChain WITH
        Chain <- Block, NoChain <- Zero, Work <- chain_work, Valid <- Replays,
        Coins <- CoinsOf, tip <- tip_cache, coins <- SyncedUtxo

\* Through forks, deltas, stale stamps, local mining, migration, crashes between the
\* two writes of submit_block and restarts, users of the chain state see a chain that
\* is replaced only by a valid one with more work, together with exactly its coins.
ImplementsBestChain == BC!Spec
=============================================================================
