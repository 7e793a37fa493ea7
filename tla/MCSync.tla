------------------------------- MODULE MCSync -------------------------------
(***************************************************************************)
(* An instance of Sync for TLC: two branches of different difficulty, so   *)
(* that length and work disagree, one of which confirms a transaction.     *)
(***************************************************************************)
EXTENDS Sync

CONSTANT MaxStored   \* bound on the number of stored blocks

Room == Cardinality(blocks) < MaxStored

\* SyncNext up to that many stored blocks.  Of the node's own handlers it keeps
\* the ones that move the chain; Node is checked with all of them.
BoundedSyncNext ==
    \/ \E b \in Block : Room /\ AcceptBlock(b) /\ NodeStep
    \/ \E b \in Block : Room /\ CrashInSubmit(b) /\ NodeStep
    \/ \E b \in Block : ~ busy /\ InitGenesis(b) /\ UNCHANGED pool_vars /\ NodeStep
    \/ Requeue /\ NodeStep
    \/ SaveMempool /\ NodeStep
    \/ PeerAdvances
    \/ SyncStart
    \/ SyncFetch
    \/ SyncFetchNothing
    \/ SyncPeerLocked
    \/ SyncApply
    \/ SyncBacktrack
    \/ SyncError
    \/ SyncNextBatch
    \/ SyncExit
    \/ SyncAborted
BoundedSyncSpec == SyncInit /\ [][BoundedSyncNext]_sync_vars /\ SyncFairness

Out(v) == [value |-> v, burn |-> FALSE]
Coinbase(values) ==
    [inputs |-> << >>, payload |-> "coinbase", unlocks |-> TRUE, lock |-> 0,
     outputs |-> [k \in DOMAIN values |-> Out(values[k])]]
Transactions ==
    [g |-> Coinbase(<<4>>), m |-> Coinbase(<<2>>), m1 |-> Coinbase(<<3>>),
     a |-> [inputs |-> <<<<"g", 0>>>>, outputs |-> <<Out(3)>>,
            payload |-> "payment", unlocks |-> TRUE, lock |-> 0]]

MkBody(txs, t, b) == [txs |-> txs, time |-> t, bits |-> b,
                      sane |-> TRUE, early |-> FALSE, pow |-> TRUE]
Bodies ==
    [gen |-> MkBody(<<"g">>, 0, 2), other |-> MkBody(<<"g">>, 1, 2),
     paid2 |-> MkBody(<<"m1", "a">>, 20, 2),
     fast1 |-> MkBody(<<"m">>, 0, 1), fast2 |-> MkBody(<<"m">>, 0, 2),
     fast3 |-> MkBody(<<"m">>, 0, 3),
     nopow |-> [MkBody(<<"m">>, 0, 2) EXCEPT !.pow = FALSE]]

Branch(p) == {SubSeq(p, 1, n) : n \in 1 .. Len(p)}

\* A light branch that confirms a (work 4, 8, 10, 14, 18) and a heavy one (work
\* 4, 8, 16, 24, 32), a peer of another chain, and one with an invalid block.
Light == <<"gen", "paid2", "fast1", "fast2", "fast2">>
Heavy == <<"gen", "fast2", "fast3", "fast3", "fast3">>
TwoBranches ==
    Branch(Light) \cup Branch(Heavy) \cup Branch(<<"other", "fast2">>)
      \cup {<<"gen", "nopow">>}

AllTxIds == DOMAIN Transactions
AllBodyIds == DOMAIN Bodies
MCTx == Transactions
MCTxId == AllTxIds
MCBodyOf == Bodies
MCBodyId == AllBodyIds
ForkBlocks == TwoBranches
=============================================================================
