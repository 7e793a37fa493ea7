------------------------------- MODULE Assets -------------------------------
(***************************************************************************)
(* The asset overlay of tensorium-core/src/assets and what                 *)
(* tensorium-indexer/src/index.rs makes of a block: operations ride in     *)
(* outputs of ordinary transactions, and balances, owners and histories    *)
(* are computed from the chain.                                            *)
(*                                                                         *)
(* An output is the address it pays and the operation its OP_RETURN data   *)
(* spells.  A block is the path of bodies from genesis up to it.           *)
(***************************************************************************)
EXTENDS Integers, Sequences, FiniteSets, Functions

CONSTANTS
    Address,
    TxId, Tx,         \* Tx[t]: inputs (outpoints) and outputs
    Body, TxsOf,      \* TxsOf[x]: the transactions of a block body
    MaxRoyalty, MaxDecimals

NoAddr == "no address"
NoData == [op |-> "none"]

\* Output indices count from 0.
AssetOp ==
    [op : {"issue"}, supply : Nat, decimals : Nat]
      \cup [op : {"nft_mint"}, royalty : Nat, royalty_addr : Address]
      \cup [op : {"transfer"}, asset : TxId, amount : Nat, dest : Nat]
Output == [addr : Address \cup {NoAddr}, data : AssetOp \cup {NoData}]
AssetTx == [inputs : Seq(TxId \X Nat), outputs : Seq(Output)]

ASSUME AssetsAssumption ==
    /\ DOMAIN Tx = TxId /\ \A t \in TxId : Tx[t] \in AssetTx
    /\ TxsOf \in [Body -> Seq(TxId)]
    /\ {MaxRoyalty, MaxDecimals} \subseteq Nat /\ IsFiniteSet(Address)

-----------------------------------------------------------------------------
\* decode_op: a royalty above the limit is not a valid operation at all.
Decodes(d) == d # NoData /\ (d.op = "nft_mint" => d.royalty <= MaxRoyalty)

\* extract_asset_op: the first output that decodes.
extract_asset_op(t) ==
    LET outs == Tx[t].outputs
        valid == {i \in DOMAIN outs : Decodes(outs[i].data)}
    IN  IF valid = {} THEN NoData
        ELSE outs[CHOOSE i \in valid : \A j \in valid : i <= j].data

-----------------------------------------------------------------------------
\* AssetState

EmptyAssets == [assets |-> << >>, ft_balances |-> << >>, nft_owner |-> << >>]
Put(f, k, v) == [x \in DOMAIN f \cup {k} |-> IF x = k THEN v ELSE f[x]]
ft_balance(s, a, id) ==
    IF <<a, id>> \in DOMAIN s.ft_balances THEN s.ft_balances[<<a, id>>] ELSE 0

\* The conditions under which AssetState::apply returns Applied.
Applies(s, t, source, dest, op) ==
    CASE op.op = "issue" -> t \notin DOMAIN s.assets /\ op.decimals <= MaxDecimals
      [] op.op = "nft_mint" -> t \notin DOMAIN s.assets /\ op.royalty <= MaxRoyalty
      [] op.op = "transfer" ->
           /\ op.asset \in DOMAIN s.assets
           /\ dest # NoAddr
           /\ IF s.assets[op.asset].kind = "ft"
              THEN op.amount > 0 /\ ft_balance(s, source, op.asset) >= op.amount
              ELSE op.amount = 1 /\ s.nft_owner[op.asset] = source

\* Mutant: both sides are computed from the balances before the transfer.
MoveAtOnce(s, source, dest, op) ==
    Put(Put(s.ft_balances, <<source, op.asset>>,
            ft_balance(s, source, op.asset) - op.amount),
        <<dest, op.asset>>, ft_balance(s, dest, op.asset) + op.amount)

\* Debit, then credit what is there now.
MoveBalance(s, source, dest, op) ==
    LET debited == [s EXCEPT !.ft_balances[<<source, op.asset>>] = @ - op.amount]
    IN  Put(debited.ft_balances, <<dest, op.asset>>,
            ft_balance(debited, dest, op.asset) + op.amount)

Applied(s, t, h, source, dest, op) ==
    LET info(kind, supply, bps, addr) ==
          [kind |-> kind, supply |-> supply, issuer |-> source, mint_height |-> h,
           royalty_bps |-> bps, royalty_addr |-> addr]
    IN  CASE op.op = "issue" ->
               [s EXCEPT !.assets = Put(@, t, info("ft", op.supply, 0, NoAddr)),
                         !.ft_balances = Put(@, <<source, t>>,
                                             ft_balance(s, source, t) + op.supply)]
          [] op.op = "nft_mint" ->
               [s EXCEPT !.assets = Put(@, t, info("nft", 1, op.royalty, op.royalty_addr)),
                         !.nft_owner = Put(@, t, source)]
          [] op.op = "transfer" ->
               IF s.assets[op.asset].kind = "ft"
               THEN [s EXCEPT !.ft_balances = MoveBalance(s, source, dest, op)]
               ELSE [s EXCEPT !.nft_owner = Put(@, op.asset, dest)]

-----------------------------------------------------------------------------
\* The indexer's data: asset state, addresses of outputs, events by address.

EmptyData == [state |-> EmptyAssets, outpoints |-> << >>,
              history |-> [a \in Address |-> << >>]]

resolve_source(d, t) ==
    IF Tx[t].inputs # << >> /\ Tx[t].inputs[1] \in DOMAIN d.outpoints
    THEN d.outpoints[Tx[t].inputs[1]] ELSE NoAddr

\* The address of the output a transfer names; other operations have none.
DestOf(t, op) ==
    IF op.op = "transfer" /\ op.dest + 1 \in DOMAIN Tx[t].outputs
    THEN Tx[t].outputs[op.dest + 1].addr ELSE NoAddr

record_outputs(d, t) ==
    LET paid == {i \in DOMAIN Tx[t].outputs : Tx[t].outputs[i].addr # NoAddr}
        keys == {<<t, i - 1>> : i \in paid}
    IN  [d EXCEPT !.outpoints =
           [k \in DOMAIN @ \cup keys |->
              IF k \in keys THEN Tx[t].outputs[k[2] + 1].addr ELSE @[k]]]

record_history(d, t, h, source, dest) ==
    LET entry == [height |-> h, txid |-> t, from |-> source, to |-> dest]
    IN  [d EXCEPT !.history = [a \in Address |->
           IF a \in {source, dest} THEN Append(@[a], entry) ELSE @[a]]]

\* One transaction of Indexer::apply_block.
IndexTx(d, t, h) ==
    LET op == extract_asset_op(t)
        source == resolve_source(d, t)
        dest == DestOf(t, op)
    IN  record_outputs(
          IF op # NoData /\ source # NoAddr /\ Applies(d.state, t, source, dest, op)
          THEN record_history([d EXCEPT !.state = Applied(@, t, h, source, dest, op)],
                              t, h, source, dest)
          ELSE d, t)

apply_block(d, b) ==
    LET txs == TxsOf[b[Len(b)]]
        step[n \in 0 .. Len(txs)] ==
          IF n = 0 THEN d ELSE IndexTx(step[n - 1], txs[n], Len(b) - 1)
    IN  step[Len(txs)]

\* What a scan of the branch of b from genesis computes.
IndexOf(b) ==
    LET upto[n \in 0 .. Len(b)] ==
          IF n = 0 THEN EmptyData ELSE apply_block(upto[n - 1], SubSeq(b, 1, n))
    IN  upto[Len(b)]

-----------------------------------------------------------------------------
\* Correctness

\* No operation creates or destroys units: the balances of a token add up to its
\* supply, and every NFT, and only an NFT, has an owner.
Conserved(d) ==
    LET s == d.state IN
    /\ \A id \in DOMAIN s.assets : s.assets[id].kind = "ft" =>
         SumFunction([a \in Address |-> ft_balance(s, a, id)]) = s.assets[id].supply
    /\ DOMAIN s.nft_owner = {id \in DOMAIN s.assets : s.assets[id].kind = "nft"}
=============================================================================
