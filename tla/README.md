# A TLA+ model of Tensorium Core

Tensorium Core is a proof-of-work blockchain in Rust: consensus rules and a
block store on RocksDB, a node with P2P and RPC handlers, an asset overlay with
an indexer, a mining pool, an exchange adapter, a wallet and a miner. This
directory models the parts that carry its logic, checks them with TLC on small
instances, and proves the safety of chain state, node, sync, ban list, indexer,
stratum server and exchange adapter with TLAPS for every value of the parameters. All paths below are relative to the repository;
`core/` stands for `crates/tensorium-core/src/`, `node/` for
`crates/tensorium-node/src/`, `pool/` for `crates/tensorium-pool/src/`,
`indexer/` for `crates/tensorium-indexer/src/`, `wallet/` for
`crates/txmwallet/src/` and `adapter/` for `crates/txm-rpc-adapter/src/`.

`PROJECT.json` lists components, runs, hazards, findings and theorems, and says
for every definition which lines of which file it models.

## 1. Inventory

| Component | State | Operations | What makes it correct |
|---|---|---|---|
| Ledger rules: `core/utxo.rs`, `validation.rs`, `emission.rs`, `difficulty.rs`, `block.rs`, `pow.rs`, `chain.rs` | none (functions of blocks and UTXO sets) | `apply_block`, `validate_transaction`, `validate_block`, retargeting, `reward_at_height`, `chain_work` | no double spend, no spend of an immature or time-locked output, no atom beyond the emission schedule, saturating sums |
| Chain state: `core/state.rs`, `storage/` | RocksDB: all blocks, height index, UTXO set, two tips; caches; last disconnected blocks | `init_genesis`, `mine_next_block`, `submit_block`, `ensure_utxo_synced`, migration, open | UTXO set = replay of the tip's branch; most work wins; index = branch of the tip; all of it across crashes |
| Mempool: `core/mempool.rs` | pending transactions and their fees, as a file | `add`, `remove_confirmed`, `select_for_block` | no conflicts, bounded, templates valid |
| Node handlers: `node/main.rs` | the two above; database lock | P2P `NewBlock`/`NewTx`, `/submitblock`, `/sendrawtransaction`, `/getblocktemplate` | orphaned transactions come back; templates are accepted |
| Sync: `node/main.rs` `sync_from_peer`, `sync_blocks` | fetch height, backtrack count, batch | hello, `GetBlocks`, walk back to the fork | ends on the heavier chain |
| Peers and bans: `node/main.rs` `serve_p2p`, `BanList` | ban list file, connection count | accept, handshake, charge, prune, ban, `/unban` | connection limit, offences add up, bans hold, honest peers are not banned |
| Assets: `core/assets/` | issued assets, balances, owners | `AssetState::apply`, `extract_asset_op` | conservation |
| Indexer: `indexer/` | index, checkpoint, snapshot file | `tick`, `scan`, `try_rollback`, `save` | index = scan of the canonical chain; catches up |
| Pool books: `pool/accounting.rs`, `payout.rs`, `main.rs` | share window, entries, ledger file, scheduler | shares, crediting, PPLNS split, payout cycle, `mark-paid` | credits = reward; paid = sent |
| Stratum server: `pool/stratum.rs`, and the miner's client `tools/tensorium-miner/stratum_client.cpp` | current job, template cache, sessions, difficulty per miner, job channels | job poll, `mining.authorize`, `mining.submit`, vardiff | miners work on the current job at the agreed difficulty; a share weighs what it shows |
| Exchange adapter: `adapter/` | deposit ledger and keystore, in memory and as files | forward scan, `getnewaddress`, `listsinceblock`, `sendtoaddress`, restart | every deposit is credited, once; an exchange that polls misses none, as long as the cursor it was given is a scanned block (section 4) |
| Scripts: `core/script/` | stack and open conditionals of one execution | `execute`, the opcodes, builders of locks and unlocking scripts | a lock opens for whom it promises, and for nobody else |
| Settlement: `core/settlement.rs`, `core/assets/mod.rs` | none | building and checking the transaction of a two-sided trade | every party gets its part of the price, the buyer the asset |
| Wallets: `wallet/main.rs`, `adapter/wallet.rs`, `/getutxos` and `/buildAssetTx` of `node/main.rs` | encrypted key files, transaction files, signature files, orders | create, rekey, send, broadcast, the asset commands, sale and purchase, multisig, HTLC and vesting spends, the keyless builders | what is built is accepted unless it was overtaken; exact fees; no key is lost |
| TensorHash, mining kernels, contracts, web pages | kernels, ERC-20 | | outside the models, see section 8 |

How they interact. Every handler of the node opens the RocksDB database, which
admits one handle per process and one process, and keeps it to its end: handlers
exclude each other, and one that meets the lock fails with an error text. The
mempool and the ban list are JSON files that are read and rewritten as a whole;
the first is protected by the database lock, the second by nothing. Indexer,
adapter, pool and wallets are clients of the node's HTTP interface and see its chain
one call at a time. Wallets hand each other files: orders, half-signed settlements,
unsigned multisig spends and their signatures. The pool also runs `txmwallet` as a subprocess and shares its
ledger file with its own command line.

What is hard. Two writes in `submit_block` with a crash between them; a UTXO set
that is maintained by deltas and trusted by a stamp; forks whose difficulty
differs, so that length and work disagree; mempool repair after a
reorganisation; a sync loop that must get below the fork and up again; file
updates without a lock; scans of a chain that changes under them; payments whose
outcome is lost; transactions built from one view of the chain and broadcast under
another. The `hazards` of `PROJECT.json` give each of these with its line.

## 2. Modules

| Module | Models | Extends |
|---|---|---|
| `Ledger` | the consensus rules as operators | |
| `BestChain` | what the chain state promises: one valid chain and its coins | |
| `ChainState` | `core/state.rs`: store, index, UTXO set, fork choice, crashes | `Ledger` |
| `Script` | `core/script/`: one execution, the standard locks and their builders | |
| `Mempool` | `core/mempool.rs` as operators | `Ledger` |
| `Node` | the handlers that change the chain or the mempool file | `ChainState`, `Mempool` |
| `Sync` | `sync_from_peer` and `sync_blocks` against a moving peer | `Node` |
| `Peers` | accept loop, connections, ban list file | |
| `Assets` | asset operations and what the indexer makes of a block | |
| `Indexer` | the scanner, its checkpoint and snapshot, a moving node | `Assets` |
| `Pool` | share window, ledger, scheduler, command line | |
| `Stratum` | job pollers, connection threads, vardiff, miners | |
| `Settlement` | `core/settlement.rs` and the outputs of asset transactions as operators | |
| `Wallet` | the wallets, against a node with one chain, its mempool and its assets | `Settlement`; instantiates `Assets` |
| `Adapter` | the adapter's scanner, requests and files, a moving node and an exchange | |
| `MCChainState`, `MCNode`, `MCSync`, `MCPeers`, `MCIndexer`, `MCPool`, `MCStratum`, `MCScript`, `MCWallet`, `MCAdapter` | instances for TLC | the module they are named after |
| `RecursionProofs` | lemmas about recursive functions and sums | |
| `ChainStateProofs`, `NodeProofs`, `ScriptProofs`, `IndexerProofs`, `PoolProofs`, `WalletProofs`, `AdapterProofs` | lemmas and theorems; the inductive invariants stand at the end of the modules they are about | `ChainState` with `Ledger`; `Sync` with `Node`, and `Peers`; `Script`; `Indexer` with `Assets`; `Pool`, and `Stratum`; `Wallet` with `Settlement`; `Adapter` |

Definitions carry the names of the source where TLA+ allows it. A definition
marked "Mutant" is a plausible slip in the definition that follows it; it is used
nowhere, except to see that the property it belongs to notices.

### Ledger and ChainState

A block hash commits to the previous hash, so with a collision-free hash a block
is the path of block bodies from genesis up to it, and that is its value in the
model: `previous_hash(b)` is the path without its last body, `Zero` the empty
one. A transaction id stands for its transaction. (The code computes ids in its
constructors and does not recompute them when it validates; the model takes ids to
be what the constructors make.) The script interpreter's verdict is one bit and a
lock height per transaction, the header checks that read nothing but the header
are one bit, the time limit another, the proof of work a bit that holds under
one epoch seed only. Amounts saturate at `U64Max`, work is the sum of `2^bits`.

`ChainState` has a variable per column family and per meta key that is read, the
tip cache, `last_disconnected`, and the history variable `interrupted`.
`submit_block` is one action per way it returns, with exactly the writes it has
made by then: `SubmitAlreadyKnown`, `SubmitUnknownParent`, `SubmitInvalid`,
`SubmitSide`, `SubmitExtend` (the fast path, which validates against a set seeded
with the inputs and writes a delta), `SubmitExtendInvalid`, `SubmitReorg`,
`SubmitReorgInvalid`. The leading `ensure_utxo_synced` is part of each, and
`SubmitCrash` is the crash between the write of the block and the batch that
moves the tip. `InitGenesis`, `MineNextBlock` and `MigrateJson` move the tip
without touching the UTXO set, `EnsureUtxoSynced` rebuilds it, `Reopen` is any
restart. The chain in a legacy file is one that an older node had accepted, so it
replays: an assumption about the input of the migration, which writes the blocks it
finds without checking them (`core/storage/migration.rs:26`).

`ReplayBranch` is the reference: what replaying a branch from genesis into an
empty set gives. The persistent set is compared with it.

`BestChain` is the abstract specification: a tip and its coins, replaced together by
a valid chain with more work. `ChainState` implements it (`ImplementsBestChain`) under
the mapping of `tip` to the cached tip and of `coins` to `SyncedUtxo`, the set a
handler works with after its `ensure_utxo_synced`. Everything else in `ChainState`,
that is store, index, stamps, deltas, crashes and restarts, is invisible through it.

### Script

A behaviour is one call of `execute`: the unlocking script, then the locking script,
one action per opcode. The unlocking script is either the one the builders make or
chosen token by token from what the spender can write: every opcode, public keys,
the digests that locking scripts publish, old signatures, signatures by the keys it
holds, the preimage if it knows it.
`Opens` is the reference, what each lock promises. Elements are tagged values, so
that hashes do not collide and a signature verifies under its own key for this
transaction only; a push whose data is cut off is a token of its own. The limit on
the size of scripts is left out (the builders' scripts stay far below it), and
`CHECKMULTISIG` takes its counts from the locks, which push them as numbers. A multisig
lock is opened by any of its keys that reach the threshold: the builders sign with every
such choice (`Signers`). Nothing keeps a lock from naming a key twice, and the holder
of that key then counts twice. Behind a script hash a builder's script has at most seven
keys, since longer ones do not fit a push (`p2sh_multisig_script_sig` panics).

### Node, Mempool, Sync

A block handler is several steps: `AcceptBlock` (submit and clean the pool),
`Requeue` (one orphaned transaction each), `SaveMempool`; the process may die
between them (`CrashInHandler`, `CrashInSubmit`, `CrashInSave`). `HashMap` order
and ties between fees are sets of possible results. `NodeSpec` leaves the chain
variables to `ChainState`'s actions, so every step of the node is a step of
`ChainState` or leaves its variables alone.

`Sync` adds the loop: fetch, apply, backtrack, next batch, and the ways it ends.
The peer may move to a heavier chain between two answers, or answer with nothing
because its own database is locked; the connection may fail and the process may
be killed at every step, also inside `submit_block`. After the loop the requeue
runs with Node's steps. One liberty: `CrashInHandler` may also empty the mempool
file during a sync's requeue in states where the code has not begun to write.

### Peers

Every thread that updates the ban list loads, changes and writes a copy; the
write truncates the file first (`BeginSave`, `EndSave`). A truncated or garbled
file reads as empty. The history variables `served` (end of the last saved ban),
`owed` (charges since the last ban ended) and `raced` (two updates overlapped) let
the properties speak about the past. The accept loop is a thread of its own: it
compares `peer_count` (`CheckLimit`), looks the ban list up (`LookUp`), counts up
(`CountUp`) and spawns (`Spawn`), while connections end and count down (`Leave`). A
database call that fails is an `expect`, whose panic ends the thread without counting
down (`Panic`). Scores and durations are scaled down: the
threshold of 100 with charges of 20, 10, 2 and 100 becomes 3 with 2, 1, 1 and 3.

### Assets and Indexer

`Assets` gives `AssetState::apply` and the indexer's treatment of a transaction:
which output carries the operation, who the source is, who the destination is.
`Indexer` has one action per RPC call of a scan, because the node may reorganise
between any two; its checkpoint lives in memory only. `IndexOf` is the reference:
a scan from genesis. A reorganisation that leaves the height unchanged is noticed
only when the chain grows, in the model as in the code.

### Pool

The ledger in memory changes under a mutex, so crediting (`RecordHttp`,
`RecordStratum`) and marking (`MarkPaid`) are single steps; the submission to the
node before them and the payment before marking are made without it and are steps
of their own. The wallet picks confirmed outputs in a fixed order, so a payment
built while another is unconfirmed conflicts with it (`AlreadyInMempool`). The
file may be cut short by a crash while it is written and then loads as empty;
errors of saving are only logged, so `Commit` may leave the file as it was or cut short
as well.
Wallet funds are fixed; payments that fall out of the node's mempool are left out.

### Stratum

The pollers, every connection's thread and the miners interleave. `run_stratum_server`
starts a poller for each listener, of which the pool has two; they share the job and the
template cache, while `fetched` and `last_height` are each poller's own. An action is what
a thread does between two points where it holds no mutex: `PollFetch` and
`PollPublish`, and for a share `Judge` (the stale check and `validate_share`, under
the job and difficulty read together), `LookUp` (the template, under the mutex
again), `SubmitFound` and `Count` (vardiff and the share window). Jobs reach a
thread over its channel (`job_rx`), which `Drain` empties before every line and
after every read timeout. A nonce found for one job shows no zeros under another,
and its value is left out. The vardiff clock is a choice between its three
outcomes. A miner follows the client of this repository: a notify replaces job and
difficulty, unsent shares and the job survive a lost connection, and a line torn by
the read timeout is lost. Job ids, a height and the milliseconds of the clock, are
taken to be unique (`pool/stratum.rs:300`). A miner authorises with at most `MaxUnread` messages unread, a
bound that stands for the size of the socket's buffer.

### Settlement and Wallet

`Settlement` has the parts of a price, the outputs of the trade's transaction and the
check that buyer and seller make. `Wallet` has one action per command of `txmwallet`
that writes a file or sends a transaction, the node's `/buildAssetTx` and the adapter's
`sendtoaddress`. A command that builds reads the node's confirmed coins
(`getutxos`), or, in `SendFromState`, a local state directory of some earlier height;
the node lists coins by transaction hash, so which of them a wallet takes is a choice
(`Selections`). What it writes waits in `file`, `sigs`, `orders` or `offers` until
somebody uses it. The commands do not check everything, and neither do the actions:
`HtlcClaim` and `HtlcRefund` take any script, anybody's key and any preimage,
`MultisigCombine` any redeem script, and `AssetAccept` any settlement file. Those that
`asset-buy` did not make are written by `OtherSettlement` (external), signed by the buyer:
the price and the royalty in the terms are not the order's, any coin of the chain is the
first input, and a part of any output goes to the buyer or the transfer is of another
amount. `Accepts` is the verdict of the node's `/sendrawtransaction` with room
in its pool, and `AssetsAfter` what the indexer makes of a confirmed transaction, with
the operators of `Assets`. A signature is the pair of key and signed contents; the
locks are judged by what `Script` establishes of them. `fee` and `terms` of a
transaction record what its builder meant and are seen by the properties only. In the
commands of keys the write of a file is two steps with a possible crash between them;
whether a file can be read stands for cipher and passphrase. The chain of this module
does not reorganise, which `ChainState` and `Node` are about, and its blocks hold one
transaction.

### Adapter

The scanner and the requests exclude each other by a mutex, but not
`listsinceblock`'s two calls to the node, which are made before it: `ListCount`,
`ListHash`, `ListAnswer`. `ScanBlock` is one turn of the scan's loop, between any two of
which the node may move. Errors of writing either file are ignored by the code, so
`Save` and `GetNewAddress` may leave it as it was or cut short, which loads as empty.
`Restart` is a kill at any point. The exchange is external: it polls and passes on the
`lastblock` of the previous answer. The history variable `past` says whether the chain
was reorganised, a handed-out key was lost, or an answer named a block that was not
scanned.

## 3. Runs

`tlc -config <cfg> <module>` in this directory repeats a run.

| Run | Configuration | Result | Shows |
|---|---|---|---|
| `chain_ledger` | `ChainState_tx` | holds | the UTXO set stays the replay of the tip's branch (`UtxoMatchesChain`), the tip replays (`TipReplays`), every spend is justified by the history of the chain (`SoundHistory`), and unspent atoms stay within the emission (`SupplyBounded`) |
| `chain_work` | `ChainState_work` | holds | where a shorter branch can win: coherent caches, canonical index, most work wins, disconnected blocks are reported, and `ImplementsBestChain` |
| `chain_epoch` | `ChainState_epoch` | violated | see section 4 |
| `script_locks` | `Script_locks` | holds | `OpensOnlyForOwner`, `OwnerOpens` for every unlocking script within the bound |
| `node_pool` | `Node_pool` | holds | `NoPendingConflict`, `PoolWithinLimits`, `TemplateAccepted`, `OrphansRequeued`, `RemovedOnlyIfMined` through reorganisations and crashes |
| `sync_heal` | `Sync_heal` | holds | `SyncHeals` (liveness): a sync with a valid, longer chain that outweighs ours within one batch, and before an epoch whose seed the two chains do not share, ends with its work |
| `peer_bans` | `Peers_list` | holds | `InboundBounded`, `ScoresAddUp`, `BanHoldsUnlessRaced` |
| `indexer_scan` | `Indexer_scan` | holds | `IndexIsReplay`, `AssetsConserved`, `CatchesUp` (liveness) |
| `pool_books` | `Pool_books` | holds | `CreditsAreReward`, with the window at its limit, and `BooksMatchPayments` |
| `stratum_jobs` | `Stratum_jobs` | holds | `SubmittedAsMined`, `WeightEarned`, `EndsOnCurrent`, `DifficultyAgreed`, `WorkFollowsHeight` (liveness) |
| `wallet_market` | `Wallet_market` | holds | `RefusedOnlyForRace`, `FeesExact`, `PaidAsAgreed`, `DeliveredIfHeld`, `KeyRecoverable` |
| `adapter_scan` | `Adapter_scan` | holds | `CreditedOnce`, `LedgerIsScan`, `CursorMissesNothing`, `DepositsCredited` (liveness) |

### Bounds

* `ChainState_tx`: all paths of up to three blocks above genesis over bodies that
  are empty, pay, or spend a reward, and on the lower of them a body for each way
  to be wrong (double spend across and within transactions, spend inside the block,
  immature, time-locked and forged spends, inflation beyond `U64Max`, greedy or wide
  coinbase, no coinbase, no transaction); at most `MaxStored` = 5 stored
  blocks. Enough for a reorganisation that replaces two blocks, with the
  loser stored, and for a crash and a rebuild in between. Maturity is 2.
* `ChainState_work`: branches of fast and slow blocks over three heights, window 3,
  bits 1 to 3, six stored blocks: a branch of two can outweigh a branch of three.
* `ChainState_epoch`: epochs of two blocks, so that the seed of an epoch lies on
  either of two branches.
* `Script_locks`: two keys, a lock of every kind, heights below and at the lock height,
  every spender; four tokens are what the longest unlocking script of the builders
  has; a stack of six, which a multisig lock fills.
* `Node_pool`: a pool of two, two outputs of genesis, rivals, a child, a
  transaction below the relay fee, six stored blocks: evictions, conflicts with
  requeued transactions and reorganisations that replace two blocks happen.
* `Sync_heal`: a light and a heavy branch of five blocks with a common genesis, a peer
  of another genesis and one with an invalid block, batches of one,
  a fork depth of two, epochs of three blocks: the heavy branch outweighs the light one
  before its first new epoch or only in it, according to how long ours is.
  `MaxStored` = 3 bounds what the node gathers by
  itself, not what the sync stores.
* `Peers_list`: three connections, two addresses, two inbound at a time, two panics, a clock of
  five ticks with bans of two: a ban is imposed, ends and is imposed again.
* `Indexer_scan`: four branches that fork below, at and above the checkpoint, one of
  which wins with fewer blocks; one restart.
* `Pool_books`: two miners, two blocks with rewards 10 and 7 that compete for one
  height, a window of two, a fee of 20 %, up to four entries, funds that do not
  cover all debts and relay fees. `Handler` is symmetric: no
  property or constant names one.
* `Stratum_jobs`: one connection (threads meet only in what the poller publishes),
  two pollers, and a node that moves to a heavier chain with one block less, so that one
  poller may publish a stale template over the newer one of the other and the cache
  evicts; difficulties 1 and 2 with a network that needs 1 or 3; two shares, which show 1
  or 3 zeros, reconnecting any number of times; `MaxUnread` = 0.
* `Wallet_market`: seven initial ledgers, each with two or three commands (those of
  keys have bounds of their own): payments and withdrawals with a mature and an
  immature coin; issue, mint and transfer; sales of an NFT with a royalty of one half
  to somebody else and of a token, with payments and transfers that overtake them and
  settlement files that another program wrote, with a price or a diverted part of 1 or 2;
  spends of a 2-of-3 multisig and of a 2-of-2 behind a script hash, whose coins need
  a change; an HTLC and a vesting of two uneven tranches; and key files with up to
  three commands. Three blocks, coins that mature after one, a platform fee of one
  quarter. Enough for a file to become stale in every way it can: its coin spent, or
  claimed in the mempool, its lock not due, its signatures of an earlier version, its
  asset moved. `MaxSigFiles` = 2 signature files are combined at once, which is what
  both multisig locks ask for.
* `Adapter_scan`: two addresses, two branches of three blocks that confirm one deposit
  at different heights, of which the second wins with fewer blocks; two restarts.
  Nobody pays an address before it was handed out.

`MC` modules restate the next-state relation with `Room` where the number of
stored blocks must be bounded. The constraint `Orderly` of `MCPeers` cuts
behaviours at the first overlap of two updates, after which the run's two ban
properties say nothing (`InboundBounded` does not depend on the file, and its proof
covers what follows). That of
`MCPool` cuts at a block submitted twice, after which `CreditsAreReward` says
nothing, and at overlapping payments, after which `BooksMatchPayments` says
nothing; after a crash, a lost payment answer or an intervention it follows the
crediting of blocks and no longer the payouts. Only
`stratum_jobs` and `adapter_scan` look for deadlock: the other programs may sit idle
when their bounded input is used up.

### Fairness

`Sync`: weak fairness of the sync loop alone, i.e. a started sync goes on; the
code is a plain loop whose reads time out. Nothing else is assumed to happen, and
what the loop cannot cope with (a peer that changes its chain, a lost connection,
a kill) is in the conclusion of `SyncHeals`. `Indexer`: weak fairness of the
scanner, which is a loop with a sleep and calls that time out, and strong fairness
of the calls that the node could answer: a node that is down for ever proves
nothing. `Stratum`: weak fairness of each poller, whose
loop sleeps and polls, of every thread, whose reads time out, and of the delivery of
what was sent. A node that never answers is left out of this. `Adapter`: weak
fairness of the scanner, a loop with a sleep and calls that time out, and for every
height strong fairness of the scan of its block: a node that could answer does not
fail for ever. `ChainState`, `Node`, `Peers`, `Pool` and `Wallet` have safety properties
only.

## 4. Findings

`chain_epoch`: `epoch_seed_for_height` looks the seed block up on the canonical
chain (`core/state.rs:319`), so a branch that parted before the seed block has its
correctly mined blocks of the next epoch refused, against the documentation of
`sync_blocks` (`node/main.rs:1358`). `PROJECT.json` has the quotations. The trace has
no crash in it: two branches part at height 1, the loser is stored as a side block, and
its child at height 2, where the second epoch begins, is refused.

### Stronger statements that do not hold

The passing properties have premises. Each of the following leaves one out and is
refuted when it takes the place of the property in the configuration named. They
are kept as definitions because they say why the premise is there.

| Definition | Configuration | Why it fails |
|---|---|---|
| `Node!RemovedOnlyIfConfirmed` | `Node_pool`, as PROPERTY | the handler calls `remove_confirmed` also for a side block that does not become canonical (`node/main.rs:1162`) |
| `Sync!SyncHealsAnyFork` | `Sync_heal`, as PROPERTY | a branch that outweighs ours only more than one batch above our tip: after each batch `fetch_from` returns to the block above the tip, and the loop repeats known blocks (`node/main.rs:1407`). The same without `OneBatchOutweighs`' condition `SeedsShared`: a branch that parted before the seed of an epoch it needs before it outweighs ours is refused with InvalidProofOfWork and the sync ends, which is the finding above met by a sync |
| `Sync!SyncRequeues` | `Sync_heal`, as PROPERTY | the requeue after a sync, there "so they aren't silently lost" (`node/main.rs:1471`), sees only what the last `submit_block` disconnected; when the peer's chain goes on after the block that won, the orphaned transactions are lost |
| `Sync!UpToDateMeansNoMoreWork` | `Sync_heal`, as INVARIANT | the hello compares heights, fork choice goes by work (`node/main.rs:1445`) |
| `Peers!HonestNotBanned` | `Peers_list` with `Honest = {"b"}`, without the constraint, as INVARIANT | a valid block that arrives while the database is locked fails with an error text that counts as an invalid block (`node/main.rs:644`, `core/state.rs:75`) |
| `Peers!PlacesComeBack` | `Peers_list`, as INVARIANT | a connection thread that panics in a failing database call never reaches `fetch_sub` (`node/main.rs:944`); after MAX_INBOUND_PEERS of them the node accepts nobody until it is started again |
| `Peers!BanHolds` | `Peers_list` without the constraint, as PROPERTY | overlapping updates of the ban list file (`node/main.rs:619`) |
| `Indexer!CaughtUpMeansReplay` | `Indexer_scan`, as INVARIANT | a reorganisation in the middle of a scan leaves an index of two branches under the hash of the new tip, which no later check can notice; the index is meant to be "deterministically reconstructable from the chain" (`indexer/index.rs:31`) |
| `Pool!OneEntryPerMiner` | `Pool_books` without the constraint, as INVARIANT | a block the node already has is answered as accepted and credited again (`pool/main.rs:480`) |
| `Pool!FinderCredited` | `Pool_books` without the constraint, as INVARIANT | one miner is remembered per height, the last that asked (`pool/main.rs:494`) |
| `Pool!PaidMeansSent` | `Pool_books` without constraint and symmetry, with `ShareBits = {0}`, `Handler = {h1}` and `MaxShares = 0`, as INVARIANT | the text of a conflict contains the text that is taken for a repeated payment (`pool/payout.rs:231`), so the second miner of a cycle is marked as paid and nothing was sent to it |
| `Pool!SentMeansPaid` | `Pool_books` without the constraint, as INVARIANT | entries are marked after the broadcast, and only if its answer arrives (`pool/payout.rs:209`) |
| `Pool!MarkedStaysMarked` | `Pool_books` without the constraint, as PROPERTY | the running server writes its copy of the ledger over the file (`pool/main.rs:633`) |
| `Stratum!BlockBeatsShare` | `Stratum_jobs`, as INVARIANT | the comment "a valid block always beats a share" (`pool/stratum.rs:7`) holds for a network of 42 bits; the floor of the retargeting is 34 (`core/chain.rs:98`), below the 40 that vardiff may ask for |
| `Stratum!StaleTolerated` | `Stratum_jobs`, as INVARIANT | "1 stale tolerated" (`pool/stratum.rs:573`): the share passes the stale check and is then hashed with the current job's header |
| `Stratum!BlockHasTemplate` | `Stratum_jobs`, as INVARIANT | two publications between the check of a nonce and the lookup of its template |
| `Stratum!JobNeverOlder` | `Stratum_jobs`, as PROPERTY | every listener has a poller (`pool/stratum.rs:809`, `pool/main.rs:218`), each remembers the last height itself and asks the node without the mutex: a template fetched before the node moved on is published over the newer job of the other poller (`pool/stratum.rs:781`). The next poll of the one that published it repairs that (`WorkFollowsHeight`) |
| `Stratum!WorkFollowsTip` | `Stratum_jobs` with `TipHeight <- EvenHeight`, as PROPERTY | a poller compares heights: a heavier tip of the same height is not published (`pool/stratum.rs:781`) |
| `Wallet!CoinComesBack` | `Wallet_market`, as PROPERTY | `asset-accept` judges the buyer's file by `verify_settlement`, which is independent of what the inputs are worth (`core/settlement.rs:90`): a file that pays the seller the net price and keeps the coin the sale started from passes, although the settlement is called trustless (`core/settlement.rs:1`) |
| `Wallet!PriceAsOrdered` | `Wallet_market`, as PROPERTY | `asset-accept` takes transaction and terms from the buyer's file and does not compare them with the order (`wallet/main.rs:598`-`616`): a file at another price, or with another royalty, passes too. Comparing them is left to the seller |
| `Adapter!FirstRunSkipsHistory` | `Adapter_scan`, as PROPERTY | the comment "first run: don't rescan all history unless explicitly checkpointed" (`adapter/scan.rs:68`) stands over `last_height.max(0)`, which is 0 there: a first run, and one after the file was lost, scans from height 0. `LedgerIsScan` says so in its first conjunct, and that a lost ledger is credited anew depends on it |
| `Adapter!CursorNeverMisses` | `Adapter_scan`, as INVARIANT | `listsinceblock` names the node's tip as `lastblock` also when the scanner has not reached it; what is found there later is below the next cursor (`adapter/main.rs:119`) |
| `Adapter!ConfirmedOnChain` | `Adapter_scan`, as INVARIANT | the scan goes forward only: a deposit of an abandoned branch stays in the ledger and gathers confirmations (`adapter/scan.rs:65`, `:117`) |
| `Adapter!HandedKept` | `Adapter_scan`, as INVARIANT | the keystore's write is neither atomic nor checked, so an address may be handed out whose key a restart does not find (`adapter/wallet.rs:64`) |

The premises of `Wallet`'s properties stand for these, which the code leaves to its users:

* A settlement is atomic as a transaction (`core/settlement.rs:1`), but coins and
  assets are judged by different programs: if the seller has moved the asset before
  the settlement is confirmed, the price is paid and nothing is delivered. Hence the
  premise of `DeliveredIfHeld`. It also asks that the first coin is one of the seller's
  address: the indexer does not know the owner of a time-locked coin. Order files are
  taken as the seller made them: `asset-buy` believes seller, coin and value in the file
  and asks the indexer for the royalty only, so a buyer relies on who gave him the order. Two listings may have the same coin as anchor, and an
  order stays acceptable after its seller has listed the asset anew.
* A seller that buys from itself may spend its anchor twice in one transaction, which
  the node refuses: `IsInjective` in `RefusedOnlyForRace`.
* `multisig-combine` puts signatures in the order its user names them, and only the
  order of the keys is accepted: `InKeyOrder`. It takes the redeem script from its
  argument and does not compare it with the coins (`wallet/main.rs:847`); `htlc-claim` and
  `htlc-refund` compare neither the kind of the script nor the party nor the preimage
  (`wallet/main.rs:912`-`975`). All of them write the file, and the node refuses it:
  `AskedRightly`.
* What a settlement file of another origin does to buyer, platform and creator is not in
  `PaidAsAgreed`, only what it does to the seller; the equalities need `AsBuilt`.
* `send` accepts any fee, also one below the relay fee: `t.fee >= MinFee`.
* A tranche of a vesting that does not exceed the fee can be locked but not claimed.

One more that no property is about: the adapter's change address is the first address
that `getnewaddress` hands out (`adapter/wallet.rs:75`), so the change of a withdrawal is
recorded as a deposit of the customer who got it.

## 5. Proofs

`tlapm <module>.tla` checks the proofs of a module; the eight modules with proofs are
`RecursionProofs`, `ChainStateProofs`, `NodeProofs`, `ScriptProofs`, `IndexerProofs`,
`PoolProofs` (with `Stratum`), `WalletProofs` and `AdapterProofs`. Every inductive invariant below
was first checked with TLC on the instance of its component.

### Assumptions

The theorems hold for all sets of transactions, blocks, addresses and connections and all
values of the parameters that satisfy the `ASSUME`s of the modules. Besides types these are:

* `Ledger`: positive window, interval and epoch length, at most 64 halving eras,
  difficulty within a byte. All that can ever be mined is less than `U64Max`
  (`SupplyAssumption`; with the parameters of `core/chain.rs` it is below 2^55). Only
  `SupplyBounded` needs it: it says that the sums of a valid block do not saturate.
* `Mempool`: room for one transaction at least. `Peers`: the threshold does not exceed
  the largest score (100 and 2^32 - 1 in the code).
* `Indexer`, `Adapter`: with a block its ancestors are blocks. `Indexer`: all blocks have
  the same first one, since genesis is built in. `Assets`: finitely many addresses.
* `Pool`: finitely many miners, none with the name `"unknown"` that the pool books for a
  block whose finder it does not know; shares of less than 64 bits; a fee of at most the
  whole. `Wallet`: finitely many addresses, and initial ledgers of the right shape
  (`IsLedger`: coins with locks of the known kinds, balances of known assets).
* `Script`: locks as the constructors make them (`IsLock`: one key, two for a contract, a
  threshold between one and the number of keys, at most 16 keys), and a stack with room
  for four elements and for the keys, signatures and counts of every multisig lock: at most
  34, and `MAX_STACK_DEPTH` is 100.
* `Stratum`: a network difficulty of at least one bit (the lowest floor in `core/chain.rs` is 4).

### Recursion and sums

The provers cannot instantiate an induction theorem with a predicate. `RecursionProofs`
goes around this. Induction over numbers takes the least counterexample from the
well-foundedness of `<` (`LeastElement`). That a recursive function over `0 .. N` satisfies
its equation is shown by constructing one that does, with the step given as a function
value. A sum over a finite set is a table of the sums of all its subsets
(`SumUnion`, `SumSubset`, `SumImage`; `SumPartition` and `SumOfQuotients` split a sum by
class and bound what rounding down loses). What a recursive definition of a model computes is
then known one step at a time, and what is true along a whole branch follows by a least
counterexample.

### Chain state

The inductive invariant is `IInv` of `ChainState`, the conjunction of `TypeOK`,
`StoreClosed`, `CanonicalIsAncestry`, `CachesCoherent`, `UtxoMatchesChain`,
`TipReplays` and `TipHasMostWork`. None is inductive by itself. `UtxoMatchesChain`
after a rebuild needs that the index is the tip's branch, after the fast path that
the set was the parent's replay, and after local mining, which moves the tip
without the set, that the stamp does not already name the new tip: that is the
last conjunct of `CachesCoherent`, by work. `TipReplays` needs `UtxoMatchesChain`,
because the fast path validates against the stored set. `TipHasMostWork` needs
that a stored descendant of a block that does not replay does not replay either.

* The lemmas about `Ledger` show what the recursive functions compute one step at a time
  (`WorkStep`, `ReplayStep`), that work grows along a branch (`WorkOfPrefix`), and
  that the fast path agrees with the full replay (`FastPath`): validating against
  the seeded set gives the verdict of the whole set, and the delta is phase 3 of
  `apply_block`. A bare mined block always applies (`BareCandidateApplies`).
* The proofs about `ChainState` have two lemmas that most actions come down to: `KeepTip` (the
  store grows, the tip stays) and `Adopt` (the tip becomes a block with more work
  whose branch replays), then one lemma per action, `NextIInv`, and the theorems.
* The refinement needs one more invariant, `FreshIsEmpty`: without a tip the stored
  set is empty. With `IInv` it gives `CoinsSeen`: what a handler sees after
  `ensure_utxo_synced` are the coins of the tip, because a stamped set is the replay
  and an unstamped one is rebuilt. A step that keeps the tip is then invisible, and one
  that moves it (`TipStep`) moves it to a block with more work, whose branch replays by
  `TipReplays` (`RefineStep`).
* `SoundHistory` speaks of the blocks alone. It follows from `TipReplays` by what a replay
  says of every entry of the set it gives: which block of the branch created it, and that
  none since has spent it (`Justified`). A spend in the next block is of such an entry.
* `SupplyBounded`: the payments of a block conserve atoms (`PaymentsConserve`), so applying
  a block adds at most its subsidy (`ApplyConserves`), and along a branch that replays
  the sum stays within the schedule (`ReplayBounded`). The argument needs that no sum on
  the way saturates, and that is where `SupplyAssumption` enters.
* `DisconnectedReported` compares the two branches of a reorganisation: what
  `submit_block` collects above the fork is what leaves the index.

### Node and Sync

Every step of `NodeSpec` and of `SyncSpec` is a step of `ChainState` or leaves its variables
alone (`NodeImplementsChainState`, `SyncImplementsChainState`), so the theorems on the chain
state hold of a node and of a syncing node.

`NodeInv` adds to `IInv` that the file's pool and the handler's copy are both in order
(`PoolOk`: finite, within the limit, above the relay fee, without conflicts), and for a
handler that is half way: what it has taken out is mined or the pool is full
(`RemovedSoFar`), and a disconnected transaction that is wanted is in the queue, pending,
in conflict, or the pool is full (`RequeuedSoFar`). The last two become the action
properties when the handler saves. Evictions are why fullness has to be in them: once the
copy is full it stays full until the handler is done.

`TemplateAccepted` follows from `NodeInv` and needs no history. The selection takes no two
transactions with a common input; what survives the second validation is valid at the tip,
hence at the height above, since maturity and locks only open; the inputs are disjoint,
so the block's transactions do not disturb each other; and the fees the template pays out
are the sum that block validation computes, in another order but saturating alike.

`SyncInv` adds what is known of a running sync: real blocks in the batch and no handler
at work. `SyncKeepsPool` states the three pool invariants under `SyncSpec`.

### Peers

`PeersInv` says, as long as no two updates overlapped: at most one thread is updating;
the file is torn exactly while it saves; the file, unless torn, agrees with the history for
every address (`Agrees`); and the thread's copy agrees with it but for the address the
thread is about, whose entry has the charge that is owed once the copy is saved
(`CopyAgrees`). Without the clause on the copy nothing could be said after the save.
`InboundBounded` does not need the file; its invariant is `CountInv` (at the end of
`NodeProofs`): the counter is exact but for panics, never above the limit, and below it
from the comparison to the increment, because only the accepting thread counts up.

### Indexer and Assets

`IndexerInv` has the two properties, that the index being applied to stands for a part of
the node's chain unless a reorganisation fell into the scan (`OnNodesChain`), that the
snapshot carries no checkpoint, and that only known assets have balances (`NoStray`).
The last is needed for conservation: an issue starts from a balance of nothing only
if no balance of the asset's id was there before. Conservation is proved per operation by
splitting the sum over all addresses at source and destination.

### Pool

`PoolInv` speaks of sums over the positions of the ledger's entries. `BooksMatchPayments`
says nothing while a payment is sent and not yet marked, so `BooksBalance` counts the
amount under way on the side of the books. When it is marked, `mark_paid_up_to` must mark
entries of exactly that amount: `PaymentIsWhole` says that the amount is the sum of the
oldest unpaid entries up to some position, and this stays so although blocks are credited
in the meantime, because entries are only added at the end (`ExtendedUnpaid`, `MarkingIsExact`).
`Solvent` says that the wallet covers what it has sent and is not confirmed.

`CreditsAreReward` needs that a block is credited once, and `CreditedOnce` says how: two
handlers never hold the same accepted block, and a block that is held is in neither the
ledger nor the file, since the node accepts a block once. That is why it fails after a
block was submitted twice (`again`). The split itself loses less than one atom per miner
by the lemma on sums of quotients; it never credits too much, because the weights of the
miners partition the window's.

### Script

The spender writes the unlocking script, so nothing is known of the stack except that
signatures and preimage on it are the spender's (`AllOwned`): opcodes do not make any.
From there `ScriptInv` goes through a locking script position by position. `SafeAt` says
what a lock knows of an arbitrary stack when the tokens before the position are done and
none of them failed: after `HASH160`, that the top is the hash of the element below; after
`EQUALVERIFY`, that the element left is the lock's key; in the contract also which branch
is open, since the last token of the first one leaves its result under the tokens that are
skipped. Hashes are free constructors, which is where their freedom of collisions enters.
One lemma per kind of lock leads from each position to the next (`P2pkhSafe`, `CltvSafe`,
`HtlcSafe`, `MultisigSafe`), and `OpensOnlyForOwner` is what is known at the last one.

For several signatures the keys used, `UsedKeys`, increase strictly by an induction over
the signatures (`UsedInOrder`); so as many positions of the lock are held as there are
signatures, although one signature may have been repeated (`MatchedByHolders`). Conversely,
signatures in the order of the keys are all found, also when a key occurs twice: each key
is used no later than the position it was signed for (`MatchedInOrder`).

`OwnerOpens` needs the stack exactly: `BuiltAt` lists the stacks that the builders' scripts
lead to. No step on this way fails, in particular none at the limit of the stack.

### Stratum

`StratumInv` has one conjunct per connection (`Follows`): a channel that is not empty ends
with the current job; one that is empty means that the last notice under way, or else the
miner's own work, is the current job at the session's difficulty; and the share in hand has
the weight it showed and the template it was checked against, or none. The order of the
channel is what makes an older job harmless that follows a newer one sent directly.

### Wallet

`WalletInv` says that whatever was built is `Sound`, wherever it lies: in a file, with the
other party, in the mempool. A sound transaction spends coins, balances with its announced
fee, has mature inputs and no signature that is not of this very transaction; a plain
signature is by the key its lock names, while whose signatures a script gets, and for which
script, is up to the user (`Fits`); and if it has terms, the buyer they name pays with his
own coins. What makes a settlement the seller's is not that it was built honestly but that
he checked it: every pending one was verified and has a coin of his first (`AcceptedInv`).
Soundness outlives everything that happens to it: coins are never altered, only marked as
spent, and maturity, once reached, is not lost (`SoundStays`). So it is shown once, for
each command that builds (`BuiltInv`); what that takes is that the change makes up for
whatever selection of coins was made, and that tranches, price, royalty and platform fee
add up to what is divided.

* `FeesExact` is a part of `Sound`. `RefusedOnlyForRace` goes through the conditions of the
  node's acceptance one by one. The case of interest is a multisig lock: signatures in the
  order of the keys, taken from files of different ages, must all find their key.
  `multisig-combine` takes a signature only if its file names the transaction's id, and
  `SigsInv` says that such a signature is of that transaction.
* The action properties on settlements need `PendingInv`: no two pending transactions are
  after the same coin and none is after a spent one. Hence a transaction that leaves the
  mempool while its first coin becomes spent is the one that was mined, and not one that
  a rival removed. `SettlementsPay` then sums the coins of an address before and after. For
  a file of any origin one output that `verify_settlement` saw bounds the seller's gain,
  and what he loses is the first coin at most. For a file as the builder makes it
  (`AsBuilt`) the sum is exact; seller, buyer, creator and platform may be the same person in every combination, which
  is why parts are added and not compared.
* `DeliveredIfHeld` follows from what the indexer reads from a settlement: its first
  operation is the transfer, which the seller verified, and its source is the owner of the
  first input, which the seller signed for.
* `KeysInv` is about a single wallet file: when rekey begins to truncate it, a backup
  exists. That is all `KeyRecoverable` needs.

### Adapter

`AdapterInv` says the same of the ledger in memory and of the file, since a restart makes
the one the other (`LedgerOk`: the outpoints seen are those of the entries and none is
repeated; the entries come from the recorded blocks and hold all that these pay to a known
address). The scan goes on where the ledger ends (`GoesOn`). Without a reorganisation all
of it lies on the node's chain (`OnChain`); and the exchange was told not only of the entries
below its cursor (`Told`) but also of those that a scan from the beginning would find again
(`ToldOfChain`), because a restart may come up with an empty ledger.

### Theorems

| Theorem | Property | Also checked by |
|---|---|---|
| `ChainStateProofs` | | |
| `ChainStateImplementsBestChain` | `ImplementsBestChain` | `chain_work` |
| `UtxoIsReplay` | `UtxoMatchesChain` | `chain_ledger` |
| `TipAlwaysReplays` | `TipReplays` | `chain_ledger` |
| `SpendsAreSound` | `SoundHistory` | `chain_ledger` |
| `SupplyNeverExceeded` | `SupplyBounded` | `chain_ledger` |
| `ForkChoice` | `TipHasMostWork` | `chain_work` |
| `CanonicalIndexIsBranch` | `CanonicalIsAncestry` | `chain_work` |
| `RestartIsHarmless` | `CachesCoherent` | `chain_work` |
| `ReorgsReported` | `DisconnectedReported` | `chain_work` |
| `TypeCorrect` | `TypeOK` | `chain_ledger` |
| `WorkIsMonotone` | `WorkNeverDecreases` | |
| `StoreIsClosed` | `StoreClosed` | |
| `NodeProofs` | | |
| `NodeImplementsChainState`, `SyncImplementsChainState` | `Spec` of `ChainState` | |
| `PendingNeverConflict` | `NoPendingConflict` | `node_pool` |
| `PoolStaysWithinLimits` | `PoolWithinLimits` | `node_pool` |
| `TemplatesAreAccepted` | `TemplateAccepted` | `node_pool` |
| `NothingElseRemoved` | `RemovedOnlyIfMined` | `node_pool` |
| `OrphansComeBack` | `OrphansRequeued` | `node_pool` |
| `SyncKeepsPool` | the first three of these under `SyncSpec` | |
| `ConnectionLimit` | `InboundBounded` | `peer_bans` |
| `OffencesAddUp` | `ScoresAddUp` | `peer_bans` |
| `BansHold` | `BanHoldsUnlessRaced` | `peer_bans` |
| `ScriptProofs` | | |
| `ScriptInvariant` | `ScriptInv` | |
| `OnlyOwnersOpen` | `OpensOnlyForOwner` | `script_locks` |
| `OwnersOpen` | `OwnerOpens` | `script_locks` |
| `IndexerProofs` | | |
| `IndexReplays` | `IndexIsReplay` | `indexer_scan` |
| `UnitsConserved` | `AssetsConserved` | `indexer_scan` |
| `PoolProofs` | | |
| `PoolInvariant` | `PoolInv` | |
| `RewardsAreCredited` | `CreditsAreReward` | `pool_books` |
| `BooksAreExact` | `BooksMatchPayments` | `pool_books` |
| `BlocksSubmittedAsMined` | `SubmittedAsMined` | `stratum_jobs` |
| `SharesEarnWeight` | `WeightEarned` | `stratum_jobs` |
| `MinersEndOnCurrent` | `EndsOnCurrent` | `stratum_jobs` |
| `DifficultiesAgree` | `DifficultyAgreed` | `stratum_jobs` |
| `WalletProofs` | | |
| `WalletInvariant` | `WalletInv` | |
| `FeesAreExact` | `FeesExact` | `wallet_market` |
| `RefusalsAreRaces` | `RefusedOnlyForRace` | `wallet_market` |
| `SettlementsPay` | `PaidAsAgreed` | `wallet_market` |
| `UnitsAreDelivered` | `DeliveredIfHeld` | `wallet_market` |
| `KeysAreRecoverable` | `KeyRecoverable` | `wallet_market` |
| `AdapterProofs` | | |
| `DepositsCreditedOnce` | `CreditedOnce` | `adapter_scan` |
| `LedgerHoldsScan` | `LedgerIsScan` | `adapter_scan` |
| `CursorComplete` | `CursorMissesNothing` | `adapter_scan` |

The type invariants of `Node`, `Peers`, `Stratum` and `Adapter` are theorems too
(`NodeTypeCorrect`, `PeersTypeCorrect`, `StratumTypeCorrect`, `AdapterTypeCorrect`).

## 6. Only model-checked

* Liveness (`SyncHeals`, `CatchesUp`, `WorkFollowsHeight`, `DepositsCredited`): fairness
  is beyond the prover.

## 7. Plan

Done so far, in the order of importance: `Ledger` and `ChainState` with their
proofs, `Mempool` and `Node`, `Sync`, `Peers`, `Assets` and `Indexer`, `Pool`,
`Stratum`, `Script`, `BestChain` with its refinement, `Settlement` and `Wallet`, `Adapter`;
and the proofs about `Node`, `Sync`, `Peers`, `Indexer`, `Stratum`, `Adapter`, `Pool`,
`Wallet` and `Script`.

Next, models:

1. The crash between creating the database directory and filling it in the
   migration (`core/storage/migration.rs:26`).
2. Wallets on a chain that reorganises: `Wallet` over `Node`.

Next, theorems:

1. `UtxoMatchesChain` for the migration, once it is modelled with its crash.
2. `FeesExact` and `RefusedOnlyForRace` once `Wallet` runs over `Node`.

## 8. Not modelled

* The commands of the wallet that only print, key derivation and cipher, amounts as
  decimal text, and prices near 2^64, where the sums of the settlement would overflow.
  The recognisers of scripts and the addresses, which change no state.
* TensorHash and hashing: numeric kernels; taken as collision free, and a nonce
  found for one seed as worthless for another.
* RPC endpoints that only read (but for those the wallets build on), HTTP and P2P
  framing, broadcasting: they change no
  state of the node except through the handlers that are modelled.
* The values of nonces: a miner that starts again at its first nonce when a job is
  repeated, and so repeats a share (`pool/stratum.rs:700`), is not told apart.
* Contracts, bridge page, mining kernels and the solo client, web pages: other platforms, without
  state that the models speak of.
