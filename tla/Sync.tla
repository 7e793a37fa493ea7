------------------------------- MODULE Sync -------------------------------
(***************************************************************************)
(* sync_from_peer and sync_blocks of tensorium-node: download the chain of *)
(* a peer, walking back to the fork point when the peer's next block does  *)
(* not connect.  The process keeps the database open, and so locked, from  *)
(* the handshake to its end: the handlers of Node wait meanwhile.          *)
(*                                                                         *)
(* The peer answers GetBlocks from its canonical chain as it is at that    *)
(* moment, so two answers may come from different branches.                *)
(***************************************************************************)
EXTENDS Node

CONSTANTS
    SyncBatchSize,   \* SYNC_BATCH_SIZE
    MaxForkDepth     \* MAX_FORK_SEARCH_DEPTH

ASSUME SyncAssumption == SyncBatchSize \in Nat \ {0} /\ MaxForkDepth \in Nat

VARIABLES
    peer,            \* the tip of the peer's canonical chain
    phase,           \* where sync_blocks is, or how it ended
    remote_height,   \* the height in the peer's hello
    fetch_from,
    backtrack,
    batch,           \* the blocks of the last answer that are left to submit
    dropped,         \* history: transactions this sync took off the chain
    disturbed        \* history: what this sync could not have coped with

loop_vars == <<phase, remote_height, fetch_from, backtrack, batch>>
history_vars == <<dropped, disturbed>>
sync_vars == <<node_vars, peer, loop_vars, history_vars>>

Ended == {"uptodate", "failed"}

SyncTypeOK ==
    /\ peer \in Block
    /\ phase \in {"idle", "fetch", "apply"} \cup Ended
    /\ {remote_height, fetch_from, backtrack} \subseteq Nat
    /\ batch \in Seq(Block)
    /\ dropped \subseteq TxId
    /\ disturbed \in BOOLEAN

\* What a peer may have as its chain.
PeerChain(p) == \A n \in 1 .. Len(p) : SubSeq(p, 1, n) \in Block

SyncInit ==
    /\ NodeInit
    /\ peer \in {p \in Block : PeerChain(p)}
    /\ phase = "idle" /\ remote_height = 0 /\ fetch_from = 0
    /\ backtrack = 0 /\ batch = << >>
    /\ dropped = {} /\ disturbed = FALSE

-----------------------------------------------------------------------------
\* The peer adopts a chain with more work.
PeerAdvances ==
    /\ \E p \in Block : /\ PeerChain(p)
                        /\ chain_work(p) > chain_work(peer)
                        /\ peer' = p
    /\ disturbed' = TRUE
    /\ UNCHANGED <<node_vars, loop_vars, dropped>>

\* The peer's answer to GetBlocks.
BlocksFrom(from) ==
    LET left == Len(peer) - from
        n == IF left < SyncBatchSize THEN left ELSE SyncBatchSize
    IN  [i \in 1 .. n |-> SubSeq(peer, 1, from + i)]

\* The handshake of sync_from_peer.
SyncStart ==
    /\ phase = "idle" /\ ~ busy
    /\ phase' = IF height(peer) <= TipHeight THEN "uptodate" ELSE "fetch"
    /\ remote_height' = height(peer)
    /\ fetch_from' = TipHeight + 1
    /\ backtrack' = 0 /\ batch' = << >>
    /\ dropped' = {} /\ disturbed' = FALSE
    /\ Reopen
    /\ UNCHANGED <<pool_vars, peer>>

SyncFetch ==
    /\ phase = "fetch" /\ BlocksFrom(fetch_from) # << >>
    /\ batch' = BlocksFrom(fetch_from)
    /\ phase' = "apply"
    /\ UNCHANGED <<node_vars, peer, remote_height, fetch_from, backtrack,
                   history_vars>>

\* Leaving the loop: the requeue of sync_from_peer, whose steps are Node's.
BeginRequeue ==
    /\ phase' = "idle" /\ batch' = << >>
    /\ busy' = TRUE /\ working' = pending
    /\ queue' = RequeueCandidates(last_disconnected)
    /\ UNCHANGED <<vars, pending>>

\* An empty answer ends the loop.
SyncFetchNothing ==
    /\ phase = "fetch" /\ BlocksFrom(fetch_from) = << >>
    /\ BeginRequeue
    /\ UNCHANGED <<peer, remote_height, fetch_from, backtrack, history_vars>>

\* A peer that finds its own database locked answers with no blocks.
SyncPeerLocked ==
    /\ phase = "fetch"
    /\ BeginRequeue
    /\ disturbed' = TRUE
    /\ UNCHANGED <<peer, remote_height, fetch_from, backtrack, dropped>>

\* The transactions of blocks that leave the canonical chain in a step.
Left == UNION {{t \in Range(Txs(b)) : ~ is_coinbase(t)} :
                 b \in Range(canonical) \ Range(canonical')}

\* Ok or AlreadyKnown.
SyncApply ==
    /\ phase = "apply" /\ batch # << >>
    /\ SubmitOk(Head(batch)) \/ SubmitAlreadyKnown(Head(batch))
    /\ batch' = Tail(batch)
    /\ dropped' = dropped \cup Left
    /\ UNCHANGED <<pool_vars, peer, phase, remote_height, fetch_from, backtrack,
                   disturbed>>

\* UnknownParent: one block further back, up to the limit.
SyncBacktrack ==
    /\ phase = "apply" /\ batch # << >>
    /\ SubmitUnknownParent(Head(batch)) /\ fetch_from > 1
    /\ backtrack' = backtrack + 1
    /\ batch' = << >>
    /\ IF backtrack' > MaxForkDepth
       THEN phase' = "failed" /\ UNCHANGED fetch_from
       ELSE phase' = "fetch" /\ fetch_from' = fetch_from - 1
    /\ UNCHANGED <<pool_vars, peer, remote_height, history_vars>>

\* Any other error, UnknownParent at height 1 included.
SyncError ==
    /\ phase = "apply" /\ batch # << >>
    /\ Head(batch) \notin blocks
    /\ previous_hash(Head(batch)) \in blocks \/ fetch_from <= 1
    /\ SubmitErr(Head(batch))
    /\ phase' = "failed" /\ batch' = << >>
    /\ UNCHANGED <<pool_vars, peer, remote_height, fetch_from, backtrack,
                   history_vars>>

\* Mutant: the search depth adds up over the forks of one sync.
KeepBacktrack == backtrack
ResetBacktrack == 0

\* The batch is through.
SyncNextBatch ==
    /\ phase = "apply" /\ batch = << >>
    /\ backtrack' = ResetBacktrack
    /\ fetch_from' = TipHeight + 1
    /\ IF TipHeight >= remote_height
       THEN BeginRequeue
       ELSE phase' = "fetch" /\ UNCHANGED <<node_vars, batch>>
    /\ UNCHANGED <<peer, remote_height, history_vars>>

\* The process ends with an error or without work.
SyncExit ==
    /\ phase \in Ended
    /\ phase' = "idle" /\ dropped' = {} /\ Reopen
    /\ UNCHANGED <<pool_vars, peer, remote_height, fetch_from, backtrack, batch,
                   disturbed>>

\* The connection fails or the process is killed, perhaps inside submit_block.
SyncAborted ==
    /\ phase \in {"fetch", "apply"}
    /\ \/ Reopen
       \/ batch # << >> /\ SubmitCrash(Head(batch))
    /\ phase' = "idle" /\ batch' = << >>
    /\ dropped' = {} /\ disturbed' = TRUE
    /\ UNCHANGED <<pool_vars, peer, remote_height, fetch_from, backtrack>>

SyncLoop ==
    \/ SyncFetch \/ SyncFetchNothing \/ SyncApply
    \/ SyncBacktrack \/ SyncError \/ SyncNextBatch

\* A step of a handler, or of the requeue a sync ends with.
NodeStep ==
    /\ phase = "idle"
    /\ dropped' = IF busy /\ busy' THEN dropped ELSE {}
    /\ UNCHANGED <<peer, loop_vars, disturbed>>

SyncNext ==
    \/ NodeNext /\ NodeStep
    \/ PeerAdvances
    \/ SyncStart
    \/ SyncLoop
    \/ SyncPeerLocked
    \/ SyncExit
    \/ SyncAborted

\* The sync process keeps running; nothing else need ever happen.
SyncFairness == WF_sync_vars(SyncLoop)
SyncSpec == SyncInit /\ [][SyncNext]_sync_vars /\ SyncFairness

-----------------------------------------------------------------------------
\* Correctness

\* A chain that every block of passes the rules on its own branch.
HonestChain(p) ==
    /\ ReplayBranch(p).ok
    /\ \A n \in 1 .. Len(p) :
         LET b == SubSeq(p, 1, n)
         IN  validate_block(b, expected_leading_zero_bits_for(previous_hash(b)),
                            OwnSeed(b))
             /\ ~ header(b).early

\* How many blocks of our chain are not on p.
ForkDepth(p) ==
    Cardinality({n \in 1 .. Len(tip_cache) :
                    n > Len(p) \/ SubSeq(tip_cache, 1, n) # SubSeq(p, 1, n)})

\* A sync is under way, and nothing came between, with a peer on the valid chain
\* p that outweighs ours and left it no deeper than sync_blocks will look.
SyncingWithHeavier(p) ==
    /\ phase = "fetch" /\ ~ disturbed
    /\ peer = p /\ remote_height = height(p)
    /\ tip_cache # Zero /\ p[1] = tip_cache[1]
    /\ HonestChain(p) /\ MoreWork(p) /\ p \notin blocks
    /\ ForkDepth(p) <= MaxForkDepth

\* The blocks up to b were mined under the epoch seeds that this node, which looks
\* them up on its own chain, would check them with: b's chain did not part from ours
\* before the seed of an epoch that b has reached.
SeedsShared(b) ==
    \A n \in 1 .. Len(b) :
        LET a == SubSeq(b, 1, n) IN epoch_seed_for_height(height(a)) = OwnSeed(a)

\* One answer to GetBlocks from above the tip reaches a block of p that is new
\* to the node and outweighs its tip, in an epoch whose seed both chains share.
OneBatchOutweighs(p) ==
    \E n \in 1 .. Len(p) : /\ n <= TipHeight + 1 + SyncBatchSize
                           /\ MoreWork(SubSeq(p, 1, n))
                           /\ SubSeq(p, 1, n) \notin blocks
                           /\ SeedsShared(SubSeq(p, 1, n))

\* A sync with a peer whose chain is valid, longer, and outweighs ours within
\* one batch and before an epoch the chains have different seeds for ends with that
\* work on this node's chain: the search for the fork and the batches below the
\* tip, which only store side blocks, get there, unless the peer moves on or locks
\* its database, or the sync is cut off.
SyncHeals ==
    \A p \in Block :
        SyncingWithHeavier(p) /\ OneBatchOutweighs(p) ~> disturbed \/ ~ MoreWork(p)

\* What sync_blocks promises: the same of every longer chain with more work.
\* Said here of a node no submit_block of which ever died half way.
SyncHealsAnyFork ==
    \A p \in Block :
        SyncingWithHeavier(p) /\ interrupted = {} ~> disturbed \/ ~ MoreWork(p)

\* "already up to date" is said only of a peer without more work to offer.
UpToDateMeansNoMoreWork ==
    phase = "uptodate" /\ tip_cache # Zero =>
        ~ (HonestChain(peer) /\ peer[1] = tip_cache[1] /\ MoreWork(peer))

\* When a sync is done, every transaction it took off the chain that is valid on
\* the new one and pays its way is pending again, unless it conflicts with a
\* pending one or the pool is full.
SyncRequeues ==
    [][SaveMempool =>
         \A t \in dropped :
            /\ validate_transaction(utxo, t, TipHeight)
            /\ fee(utxo, t) >= MinRelayFee
            => \/ t \in DOMAIN pending'
               \/ conflicts_with_pending(pending', t)
               \/ Full(pending')]_sync_vars

-----------------------------------------------------------------------------
\* The inductive invariant: a sync works only on real blocks, and while no handler does.
SyncInv ==
    /\ NodeInv
    /\ peer \in Block /\ PeerChain(peer)
    /\ phase # "idle" => ~ busy
    /\ fetch_from \in Nat
    /\ batch \in Seq(Block)
=============================================================================
