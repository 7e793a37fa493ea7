------------------------------ MODULE MCWallet ------------------------------
(***************************************************************************)
(* An instance of Wallet for TLC: seven initial ledgers, for payments and  *)
(* withdrawals, for the market, for scripts and for key files.             *)
(***************************************************************************)
EXTENDS Wallet

Coin(lock, v) == [lock |-> lock, value |-> v, height |-> 0, coinbase |-> FALSE]
Mined(lock, v) == [lock |-> lock, value |-> v, height |-> 0, coinbase |-> TRUE]
Ledger(cs) == [o \in {<<0, i>> : i \in DOMAIN cs} |-> cs[o[2]]]

Info(kind, n, issuer, bps, creator) ==
    [kind |-> kind, supply |-> n, issuer |-> issuer, mint_height |-> 0,
     royalty_bps |-> bps, royalty_addr |-> creator]
NoAssets == [assets |-> << >>, ft_balances |-> << >>, nft_owner |-> << >>]

\* An NFT of carol's that alice bought, and a token alice issued.
MarketAssets ==
    [assets |-> (101 :> Info("nft", 1, "carol", 2, "carol"))
                  @@ (102 :> Info("ft", 2, "alice", 0, "no address")),
     ft_balances |-> (<<"alice", 102>> :> 2),
     nft_owner |-> (101 :> "alice")]

Start(cs, keyed, kinds, n) ==
    [height |-> 0, coins |-> Ledger(cs), keyed |-> keyed, kinds |-> kinds, commands |-> n,
     assets |-> NoAssets, keyops |-> 0]

Payments0 ==
    Start(<<Coin(P2pkh("alice"), 3), Mined(P2pkh("alice"), 4), Coin(P2pkh("x1"), 2),
            Coin(P2pkh("x2"), 3)>>, {"alice"}, {"pay", "withdraw"}, 3)
Creations0 ==
    Start(<<Coin(P2pkh("alice"), 2), Coin(P2pkh("alice"), 3)>>, {"alice"},
          {"create", "transfer", "sell"}, 3)
Market0 ==
    [Start(<<Coin(P2pkh("alice"), 2), Coin(P2pkh("bob"), 9)>>, {"alice", "bob"},
           {"sell", "transfer", "pay", "alter"}, 3) EXCEPT !.assets = MarketAssets]
Multisig0 ==
    [Start(<<Coin(<<"multisig", <<"alice", "bob", "carol">>, 2, 0>>, 5)>>,
           {"alice", "bob", "carol"}, {"script"}, 3) EXCEPT !.height = 2]
P2sh0 ==
    Start(<<Coin(<<"p2sh", <<"alice", "bob">>, 2, 0>>, 2),
            Coin(<<"p2sh", <<"alice", "bob">>, 2, 0>>, 3)>>, {"alice", "bob"}, {"script"}, 4)
Locks0 ==
    Start(<<Coin(<<"htlc", <<"bob", "carol">>, 0, 1>>, 3), Coin(P2pkh("alice"), 7)>>,
          {"alice", "bob", "carol"}, {"vest", "htlc"}, 3)
Keys0 ==
    [Start(<<Coin(P2pkh("alice"), 6)>>, {}, {"pay"}, 1) EXCEPT !.keyops = 3]

MCScenario == {Payments0, Creations0, Market0, Multisig0, P2sh0, Locks0, Keys0}
=============================================================================
