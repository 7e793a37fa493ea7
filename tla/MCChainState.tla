---------------------------- MODULE MCChainState ----------------------------
(***************************************************************************)
(* Instances of ChainState for TLC.  A block is a path of bodies; each     *)
(* instance takes every path up to a height over a small set of bodies.    *)
(***************************************************************************)
EXTENDS ChainState, TLC

CONSTANT MaxStored   \* bound on the number of stored blocks

Room == Cardinality(blocks) < MaxStored

\* Next up to that many stored blocks.
BoundedNext ==
    \/ \E b \in Block : InitGenesis(b)
    \/ \E b \in Block : Room /\ MineNextBlock(b)
    \/ \E b \in Block : Len(b) <= MaxStored /\ MigrateJson(b)
    \/ \E b \in Block : SubmitAlreadyKnown(b)
    \/ \E b \in Block : SubmitUnknownParent(b)
    \/ \E b \in Block : SubmitInvalid(b)
    \/ \E b \in Block : Room /\ SubmitSide(b)
    \/ \E b \in Block : Room /\ SubmitExtend(b)
    \/ \E b \in Block : Room /\ SubmitExtendInvalid(b)
    \/ \E b \in Block : Room /\ SubmitReorg(b)
    \/ \E b \in Block : Room /\ SubmitReorgInvalid(b)
    \/ \E b \in Block : Room /\ SubmitCrash(b)
    \/ EnsureUtxoSynced
    \/ Reopen
BoundedSpec == Init /\ [][BoundedNext]_vars

\* Transactions.  g is the genesis coinbase, m1 and m2 coinbases that claim the
\* plain reward, mf one that also claims a fee of 1.
Coinbase(values) ==
    [inputs |-> << >>, payload |-> "coinbase", unlocks |-> TRUE, lock |-> 0,
     outputs |-> [k \in DOMAIN values |-> [value |-> values[k], burn |-> FALSE]]]
Payment(ins, outs) ==
    [inputs |-> ins, outputs |-> outs, payload |-> "payment",
     unlocks |-> TRUE, lock |-> 0]
Out(v) == [value |-> v, burn |-> FALSE]

Transactions ==
    [g |-> Coinbase(<<3>>),
     m1 |-> Coinbase(<<2>>), m2 |-> Coinbase(<<2>>), mf |-> Coinbase(<<3>>),
     mw |-> Coinbase(<<20, 13>>),
     \* pay and rival spend the same output; pay leaves a fee of 1
     pay |-> Payment(<<<<"g", 0>>>>, <<Out(1), [value |-> 1, burn |-> TRUE]>>),
     rival |-> Payment(<<<<"g", 0>>>>, <<Out(3)>>),
     chained |-> Payment(<<<<"pay", 0>>>>, <<Out(1)>>),
     reward |-> Payment(<<<<"m1", 0>>>>, <<Out(2)>>),
     inflate |-> Payment(<<<<"g", 0>>>>, <<Out(20), Out(20)>>),
     late |-> [Payment(<<<<"g", 0>>>>, <<Out(3)>>) EXCEPT !.lock = 2],
     forged |-> [Payment(<<<<"g", 0>>>>, <<Out(3)>>) EXCEPT !.unlocks = FALSE]]

Plain(txs) == [txs |-> txs, time |-> 0, bits |-> 1,
               sane |-> TRUE, early |-> FALSE, pow |-> TRUE]
Timed(t, b) == [Plain(<<"m1">>) EXCEPT !.time = t, !.bits = b]

Bodies ==
    [gen |-> Plain(<<"g">>),
     empty |-> Plain(<<"m1">>), empty2 |-> Plain(<<"m2">>),
     pay |-> Plain(<<"mf", "pay">>), rival |-> Plain(<<"m1", "rival">>),
     chained |-> Plain(<<"m1", "chained">>),
     reward |-> Plain(<<"m2", "reward">>),
     \* bodies that no ledger state accepts, or only some heights do
     double |-> Plain(<<"m2", "pay", "rival">>),
     inner |-> Plain(<<"m1", "pay", "chained">>),
     wide |-> Plain(<<"mw">>), greedy |-> Plain(<<"mf">>),
     inflate |-> Plain(<<"m1", "inflate">>), late |-> Plain(<<"m1", "late">>),
     forged |-> Plain(<<"m1", "forged">>),
     none |-> Plain(<< >>), headless |-> Plain(<<"pay">>),
     \* bodies that differ in time and difficulty
     gen2 |-> [Plain(<<"g">>) EXCEPT !.bits = 2],
     fast1 |-> Timed(0, 1), fast2 |-> Timed(0, 2), fast3 |-> Timed(0, 3),
     slow1 |-> Timed(20, 1), slow2 |-> Timed(20, 2), slow3 |-> Timed(20, 3),
     early |-> [Timed(0, 2) EXCEPT !.early = TRUE],
     insane |-> [Timed(0, 2) EXCEPT !.sane = FALSE],
     nopow |-> [Timed(0, 2) EXCEPT !.pow = FALSE]]

Paths(genesis, bodies, n) ==
    {<<genesis>> \o p : p \in UNION {[1 .. k -> bodies] : k \in 0 .. n}}

\* Instance 1: what a block does to the ledger.  Difficulty is constant.
CommonPaths == Paths("gen", {"empty", "pay", "reward"}, 3)
LedgerBlocks ==
    CommonPaths \cup
      {Append(p, o) : p \in {q \in CommonPaths : Len(q) <= 2},
                      o \in {"rival", "chained", "double", "inner", "wide",
                             "greedy", "inflate", "late", "forged", "none",
                             "headless"}}

\* Instance 2: retargeting.  Branches of different speed need different bits,
\* so a shorter branch can outweigh a longer one.
RetargetBlocks ==
    LET h1 == {<<"gen2", x>> : x \in {"fast2", "slow2"}}
        h2 == {Append(p, x) : p \in h1, x \in {"fast1", "fast3", "slow1", "slow3"}}
        h3 == {Append(p, x) : p \in h2, x \in {"fast1", "fast2", "fast3"}}
    IN  {<<"gen2">>} \cup h1 \cup h2 \cup h3
          \cup {<<"gen2", x>> : x \in {"early", "insane", "nopow"}}

\* Instance 3: the dataset epochs of the proof of work.
SeedBlocks == Paths("gen", {"empty", "empty2"}, 4)

\* The names the configurations use.  TLC evaluates a definition once but the
\* body of one that replaces a constant every time, hence the indirection.
AllTxIds == DOMAIN Transactions
AllBodyIds == DOMAIN Bodies
MCTx == Transactions
MCTxId == AllTxIds
MCBodyOf == Bodies
MCBodyId == AllBodyIds
TxBlocks == LedgerBlocks
WorkBlocks == RetargetBlocks
EpochBlocks == SeedBlocks
=============================================================================
