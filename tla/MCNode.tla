------------------------------- MODULE MCNode -------------------------------
(***************************************************************************)
(* Instances of Node for TLC: two outputs of genesis, transactions that    *)
(* compete for one of them or depend on one another, and short branches    *)
(* that confirm different ones.                                            *)
(***************************************************************************)
EXTENDS Node

CONSTANT MaxStored   \* bound on the number of stored blocks

Room == Cardinality(blocks) < MaxStored

\* NodeNext up to that many stored blocks.
BoundedNodeNext ==
    \/ \E b \in Block : Room /\ AcceptBlock(b)
    \/ \E b \in Block : Room /\ RejectBlock(b)
    \/ \E b \in Block : Room /\ CrashInSubmit(b)
    \/ \E t \in TxId : AcceptTx(t)
    \/ \E t \in TxId : CrashInSave(t)
    \/ Requeue
    \/ SaveMempool
    \/ CrashInHandler
    \/ Room /\ ChainOnly /\ Cardinality(blocks') <= MaxStored
BoundedNodeSpec == NodeInit /\ [][BoundedNodeNext]_node_vars

Out(v) == [value |-> v, burn |-> FALSE]
Coinbase(values) ==
    [inputs |-> << >>, payload |-> "coinbase", unlocks |-> TRUE, lock |-> 0,
     outputs |-> [k \in DOMAIN values |-> Out(values[k])]]
Pay(op, v) ==
    [inputs |-> <<op>>, outputs |-> <<Out(v)>>, payload |-> "payment",
     unlocks |-> TRUE, lock |-> 0]

\* m, m1, m2 and m3 claim the reward and fees of 0 to 3.
Transactions ==
    [g |-> Coinbase(<<4, 4>>),
     m |-> Coinbase(<<2>>), m1 |-> Coinbase(<<3>>),
     m2 |-> Coinbase(<<4>>), m3 |-> Coinbase(<<5>>),
     a |-> Pay(<<"g", 0>>, 3),                      \* fee 1
     rival |-> Pay(<<"g", 0>>, 2),                  \* fee 2, conflicts with a
     b |-> Pay(<<"g", 1>>, 2),                      \* fee 2
     child |-> Pay(<<"b", 0>>, 1),                  \* fee 1, spends b
     free |-> Pay(<<"g", 1>>, 4)]                   \* below the relay fee

Plain(txs) == [txs |-> txs, time |-> 0, bits |-> 1,
               sane |-> TRUE, early |-> FALSE, pow |-> TRUE]
Bodies ==
    [gen |-> Plain(<<"g">>), empty |-> Plain(<<"m">>),
     a |-> Plain(<<"m1", "a">>), rival |-> Plain(<<"m2", "rival">>),
     b |-> Plain(<<"m2", "b">>), ba |-> Plain(<<"m3", "b", "a">>),
     child |-> Plain(<<"m1", "child">>),
     greedy |-> Plain(<<"m1">>)]        \* claims a fee no transaction pays

PoolBlocks ==
    {<<"gen">>} \cup {<<"gen", x>> : x \in {"empty", "a", "b", "rival", "ba"}}
      \cup {<<"gen", "a", "b">>, <<"gen", "a", "greedy">>, <<"gen", "b", "child">>,
            <<"gen", "empty", "empty">>, <<"gen", "empty", "a">>,
            <<"gen", "empty", "empty", "empty">>}

AllTxIds == DOMAIN Transactions
AllBodyIds == DOMAIN Bodies
MCTx == Transactions
MCTxId == AllTxIds
MCBodyOf == Bodies
MCBodyId == AllBodyIds
NodeBlocks == PoolBlocks
=============================================================================
