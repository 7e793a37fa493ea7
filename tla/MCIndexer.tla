----------------------------- MODULE MCIndexer -----------------------------
(***************************************************************************)
(* An instance of Indexer for TLC: four branches that issue, mint and move *)
(* assets in different orders, and fork below, at and above a checkpoint.  *)
(***************************************************************************)
EXTENDS Indexer

Pays(a) == [addr |-> a, data |-> NoData]
Says(d) == [addr |-> NoAddr, data |-> d]
Issue(n) == [op |-> "issue", supply |-> n, decimals |-> 0]
Mint(bps) == [op |-> "nft_mint", royalty |-> bps, royalty_addr |-> "alice"]
Transfer(id, n) == [op |-> "transfer", asset |-> id, amount |-> n, dest |-> 0]
Spend(op, outs) == [inputs |-> <<op>>, outputs |-> outs]

Transactions ==
    [g |-> [inputs |-> << >>,
            outputs |-> <<Pays("alice"), Pays("alice"), Pays("bob"), Pays("bob")>>],
     coin |-> Spend(<<"g", 0>>, <<Pays("alice"), Says(Mint(99)), Says(Issue(3))>>),
     pay |-> Spend(<<"g", 1>>, <<Pays("bob"), Says(Transfer("coin", 2))>>),
     self |-> Spend(<<"coin", 0>>, <<Pays("alice"), Says(Transfer("coin", 1))>>),
     over |-> Spend(<<"g", 3>>, <<Pays("alice"), Says(Transfer("coin", 2))>>),
     nft |-> Spend(<<"g", 2>>, <<Pays("bob"), Says(Mint(1))>>),
     give |-> Spend(<<"nft", 0>>, <<Pays("alice"), Says(Transfer("nft", 1))>>),
     lost |-> Spend(<<"over", 0>>, <<Says(Transfer("nft", 1))>>)]

Bodies ==
    [gen |-> <<"g">>, coin |-> <<"coin">>, pay |-> <<"pay">>,
     self |-> <<"self", "over">>, nft |-> <<"nft", "lost">>, give |-> <<"give", "self">>]

Branch(p) == {SubSeq(p, 1, n) : n \in 1 .. Len(p)}
Long == <<"gen", "coin", "pay", "self">>
Late == <<"gen", "coin", "pay", "nft", "give">>
Other == <<"gen", "nft", "coin", "pay">>
Heavy == <<"gen", "coin", "self">>   \* wins with fewer blocks
Blocks == Branch(Long) \cup Branch(Late) \cup Branch(Other) \cup Branch(Heavy)
BlockWork ==
    [b \in Blocks |->
        2 * Len(b) + (IF b \in Branch(Other) \/ Len(b) = 5 THEN 1 ELSE 0)
          + (IF b = Heavy THEN 3 ELSE 0)]

MCTx == Transactions
MCTxId == DOMAIN Transactions
MCTxsOf == Bodies
MCBody == DOMAIN Bodies
MCBlock == Blocks
MCWork == BlockWork
=============================================================================
