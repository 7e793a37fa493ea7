------------------------------- MODULE Wallet -------------------------------
(***************************************************************************)
(* The wallets: the commands of txmwallet, the keyless builders of the     *)
(* node and of the marketplace relay, and the withdrawals of the exchange  *)
(* adapter.  Wallets ask a node for confirmed coins, build and sign        *)
(* transactions into files, hand files to one another and broadcast them   *)
(* later; meanwhile blocks arrive and other wallets spend.                 *)
(*                                                                         *)
(* An address stands for its key pair.  A block holds at most one          *)
(* transaction; an outpoint is the height of its block and an output       *)
(* index, and an asset is named by the height of the block that created    *)
(* it.  Every output that was ever created keeps its entry in coins, and   *)
(* spent says at which height it went.                                     *)
(***************************************************************************)
EXTENDS Settlement, SequencesExt

CONSTANTS
    Address,          \* everybody's addresses, one wallet file each
    Managed,          \* the addresses in the exchange adapter's keystore
    ChangeAddr,       \* its change address
    Scenario,         \* initial ledgers, and bounds: how many commands, of which kinds
    Payee,            \* addresses payments are made to
    Amount, Price,    \* what the commands are asked to pay
    Fee,              \* fees a sender may choose
    Bps,              \* royalties and liquid parts, in units of BpsBase
    Tranches,         \* numbers of vesting tranches
    MaxSigFiles,      \* bound on the signature files combined at once
    MinFee,           \* MIN_RELAY_FEE_ATOMS
    Maturity,         \* coinbase_maturity_blocks
    MaxHeight         \* bound on the chain

\* A script with m of n keys says which m it wants.
IsLock(l) == /\ l[1] = "p2pkh" => l = P2pkh(l[2][1])
             /\ l[1] \in {"multisig", "p2sh"} => l[3] \in Nat

\* A ledger as the node and the indexer report it at height h: nothing in it is from
\* the future.
IsLedger(h, cs, as) ==
    /\ h \in Nat /\ IsFiniteSet(DOMAIN cs)
    /\ \A o \in DOMAIN cs : /\ o \in (0 .. h) \X Nat /\ IsLock(cs[o].lock)
                            /\ cs[o].value \in Nat /\ cs[o].height \in 0 .. h
    /\ as = [assets |-> as.assets, ft_balances |-> as.ft_balances, nft_owner |-> as.nft_owner]
    /\ \A id \in DOMAIN as.assets : as.assets[id].royalty_bps \in Nat

ASSUME WalletAssumption ==
    /\ Managed \cup Payee \subseteq Address /\ ChangeAddr \in Managed /\ Platform \in Address
    /\ IsFiniteSet(Address) /\ {NoAddress, ScriptAddress} \cap Address = {}
    /\ Amount \cup Price \cup Fee \cup Bps \subseteq Nat
    /\ Tranches \subseteq Nat \ {0} /\ {MaxSigFiles, MinFee, Maturity, MaxHeight} \subseteq Nat
    /\ \A s \in Scenario : IsLedger(s.height, s.coins, s.assets)

VARIABLES
    height, coins, spent,   \* the node's canonical chain
    pending,                \* its mempool
    assets,                 \* the indexer's asset state
    file,                   \* transaction files, by owner and name
    sigs,                   \* multisig signature files, by transaction file and signer
    orders, offers,         \* asset-order.json and asset-settlement.json handed over
    key,                    \* wallet files, backups and what a key command is doing
    left                    \* bounds on the commands still to come

chain == <<height, coins, spent, assets>>
vars == <<height, coins, spent, pending, assets, file, sigs, orders, offers, key, left>>

\* The state of the assets alone: its transactions are these.
AS == INSTANCE Assets WITH TxId <- Nat, Body <- {}, TxsOf <- << >>,
                           Tx <- [n \in Nat |-> [inputs |-> << >>, outputs |-> << >>]],
                           MaxRoyalty <- BpsBase, MaxDecimals <- 0

Put(f, k, v) == [x \in DOMAIN f \cup {k} |-> IF x = k THEN v ELSE f[x]]

-----------------------------------------------------------------------------
\* Transactions.  fee and terms record what the builder meant; the node does not
\* see them.

NoTerms == [price |-> -1]
Unsigned == [kind |-> "none", sigs |-> << >>]

payment(inputs, outputs, fee, terms) ==
    [inputs |-> inputs, unlock |-> [i \in DOMAIN inputs |-> Unsigned],
     outputs |-> outputs, fee |-> fee, terms |-> terms]
transaction_id(t) == <<t.inputs, t.unlock, t.outputs>>

signature_hash(t) == <<t.inputs, t.outputs>>

sign_hash(t, k) == <<k, signature_hash(t)>>
Stamp(t, u) == [t EXCEPT !.unlock = [i \in DOMAIN t.inputs |-> u]]
p2pkh_script_sig(t, k) == [kind |-> "p2pkh", sigs |-> <<sign_hash(t, k)>>]
sign_transaction(t, k) == Stamp(t, p2pkh_script_sig(t, k))
sign_input(t, i, k) == [t EXCEPT !.unlock = [@ EXCEPT ![i] = p2pkh_script_sig(t, k)]]

ValueOf(S) == SumFunction([o \in S |-> coins[o].value])
InSum(t) == SumFunction([i \in DOMAIN t.inputs |-> coins[t.inputs[i]].value])
Total(outs) == SumFunction([i \in DOMAIN outs |-> outs[i].value])
OutSum(t) == Total(t.outputs)

-----------------------------------------------------------------------------
\* The node

Unspent(h) == {o \in DOMAIN coins : /\ coins[o].height <= h
                                    /\ o \in DOMAIN spent => spent[o] > h}
Mature(o, h) == coins[o].coinbase => h >= coins[o].height + Maturity

\* GET /getutxos, and what a wallet computes from a state directory of height h.
UtxosAt(h, lock) == {o \in Unspent(h) : coins[o].lock = lock /\ Mature(o, h)}
getutxos(lock) == UtxosAt(height, lock)

\* What the scripts promise (Script): the last m signatures, in the order of the keys.
MultisigOpens(l, u, t) ==
    LET last == SubSeq(u.sigs, Len(u.sigs) - l[3] + 1, Len(u.sigs))
    IN  /\ Len(u.sigs) >= l[3]
        /\ \E f \in [1 .. l[3] -> DOMAIN l[2]] :
             /\ \A i, j \in 1 .. l[3] : i < j => f[i] < f[j]
             /\ \A i \in 1 .. l[3] : last[i] = <<l[2][f[i]], signature_hash(t)>>
Opens(l, u, t, h) ==
    LET by(n) == u.sigs = <<<<l[2][n], signature_hash(t)>>>>
    IN  CASE l[1] = "p2pkh" -> u.kind = "p2pkh" /\ by(1)
          [] l[1] = "cltv" -> u.kind = "p2pkh" /\ by(1) /\ h >= l[4]
          [] l[1] \in {"multisig", "p2sh"} -> u.kind = l[1] /\ MultisigOpens(l, u, t)
          [] l[1] = "htlc" -> \/ u.kind = "claim" /\ by(1)
                              \/ u.kind = "refund" /\ by(2) /\ h >= l[4]
          [] OTHER -> FALSE

Conflicts(t) == \E p \in pending : ToSet(p.inputs) \cap ToSet(t.inputs) # {}

\* POST /sendrawtransaction, with room in the pool.
Accepts(t) ==
    /\ ~ Conflicts(t) /\ IsInjective(t.inputs)
    /\ \A i \in DOMAIN t.inputs :
         /\ t.inputs[i] \in Unspent(height) /\ Mature(t.inputs[i], height)
         /\ Opens(coins[t.inputs[i]].lock, t.unlock[i], t, height)
    /\ OutSum(t) <= InSum(t) /\ InSum(t) - OutSum(t) >= MinFee

Post(t) == Accepts(t) /\ pending' = pending \cup {t}

\* Mutant: the source of an operation is the last input.
LastInputSource(t) == extract_address(coins[t.inputs[Len(t.inputs)]])
resolve_source(t) == extract_address(coins[t.inputs[1]])

\* The indexer applies the block (Assets).
AssetsAfter(t) ==
    LET op == first_op(t.outputs)
        dest == IF op.op = "transfer" /\ op.dest + 1 \in DOMAIN t.outputs
                THEN extract_address(t.outputs[op.dest + 1]) ELSE NoAddress
    IN  IF /\ op # NoOp /\ resolve_source(t) # NoAddress
           /\ AS!Applies(assets, height + 1, resolve_source(t), dest, op)
        THEN AS!Applied(assets, height + 1, height + 1, resolve_source(t), dest, op)
        ELSE assets

\* Every output that is not data becomes a coin.
NewCoins(t) ==
    [o \in {<<height + 1, i>> : i \in {j \in DOMAIN t.outputs : t.outputs[j].lock # DataLock}} |->
       [lock |-> t.outputs[o[2]].lock, value |-> t.outputs[o[2]].value,
        height |-> height + 1, coinbase |-> FALSE]]

Mine(t) ==
    /\ height < MaxHeight /\ height' = height + 1
    /\ coins' = [o \in DOMAIN NewCoins(t) \cup DOMAIN coins |->
                   IF o \in DOMAIN NewCoins(t) THEN NewCoins(t)[o] ELSE coins[o]]
    /\ spent' = [o \in ToSet(t.inputs) \cup DOMAIN spent |->
                   IF o \in ToSet(t.inputs) THEN height + 1 ELSE spent[o]]
    /\ assets' = AssetsAfter(t)
    /\ pending' = {p \in pending : ToSet(p.inputs) \cap ToSet(t.inputs) = {}}
    /\ UNCHANGED <<file, sigs, orders, offers, key, left>>

MineEmpty ==
    /\ height < MaxHeight /\ height' = height + 1
    /\ UNCHANGED <<coins, spent, assets, pending, file, sigs, orders, offers, key, left>>

-----------------------------------------------------------------------------
\* Building

\* The wallet takes coins in the order the node lists them (by transaction hash)
\* until they suffice; the last one taken was needed.
Selections(C, need) ==
    {S \in SUBSET C : /\ S # {} /\ ValueOf(S) >= need
                      /\ \E c \in S : S = {c} \/ ValueOf(S \ {c}) < need}

Pass == {"first", "second"}
Readable(content) == content \in Pass
CanSign(p) == Readable(key[p].file)
Command == left.commands > 0 /\ left' = [left EXCEPT !.commands = @ - 1]
Written(owner, name, t) == file' = Put(file, <<owner, name>>, t)

\* build_signed_payment, over either view of the chain.
PaymentTx(p, S, to, amount, fee) ==
    sign_transaction(
      payment(SetToSeq(S),
              <<Pay(to, amount)>> \o PayIfAny(p, ValueOf(S) - amount - fee), fee, NoTerms), p)

Send(p, to, amount, fee) ==
    /\ Command /\ CanSign(p)
    /\ \E S \in Selections(getutxos(P2pkh(p)), amount + fee) :
         Written(p, "signed-tx", PaymentTx(p, S, to, amount, fee))
    /\ UNCHANGED <<chain, pending, sigs, orders, offers, key>>

\* The node does not answer or reports too little: a local state directory, which
\* may have stopped at an earlier height, is used instead.
SendFromState(p, to, amount, fee, h) ==
    /\ Command /\ CanSign(p) /\ amount > 0
    /\ \E S \in Selections(UtxosAt(h, P2pkh(p)), amount + fee) :
         Written(p, "signed-tx", PaymentTx(p, S, to, amount, fee))
    /\ UNCHANGED <<chain, pending, sigs, orders, offers, key>>

Broadcast(f) ==
    /\ f \in DOMAIN file /\ Post(file[f])
    /\ UNCHANGED <<chain, file, sigs, orders, offers, key, left>>

\* Wallet::send of the adapter: coins of all addresses, each signed with its own key,
\* and sent at once.
SendToAddress(to, amount, fee) ==
    /\ Command
    /\ \E S \in Selections(UNION {getutxos(P2pkh(a)) : a \in Managed}, amount + fee) :
         LET t == payment(SetToSeq(S),
                    <<Pay(to, amount)>> \o PayIfAny(ChangeAddr, ValueOf(S) - amount - fee),
                    fee, NoTerms)
         IN  Post([t EXCEPT !.unlock = [i \in DOMAIN t.inputs |->
                p2pkh_script_sig(t, extract_address(coins[t.inputs[i]]))]])
    /\ UNCHANGED <<chain, file, sigs, orders, offers, key>>

-----------------------------------------------------------------------------
\* Assets

\* Owner's coins pay the fee and, for a transfer, the carrier of the recipient.
AssetTx(owner, op, dest, S) ==
    payment(SetToSeq(S), build_outputs(op, dest, owner, ValueOf(S), MinFee), MinFee, NoTerms)
AssetNeed(dest) == (IF dest = << >> THEN 0 ELSE Carrier) + MinFee

WriteAssetTx(p, name, op, dest) ==
    /\ \E S \in Selections(getutxos(P2pkh(p)), AssetNeed(dest)) :
         Written(p, name, sign_transaction(AssetTx(p, op, dest, S), p))
    /\ UNCHANGED <<chain, pending, sigs, orders, offers, key>>

IssueOp(supply) == [op |-> "issue", supply |-> supply, decimals |-> 0]
MintOp(bps, creator) == [op |-> "nft_mint", royalty |-> bps, royalty_addr |-> creator]

AssetIssue(p, supply) ==
    Command /\ CanSign(p) /\ WriteAssetTx(p, "signed-tx", IssueOp(supply), << >>)
AssetMint(p, bps, creator) ==
    /\ Command /\ CanSign(p) /\ bps <= BpsBase
    /\ WriteAssetTx(p, "signed-tx", MintOp(bps, creator), << >>)
AssetTransfer(p, id, n, to) ==
    Command /\ CanSign(p) /\ WriteAssetTx(p, "signed-tx", TransferOp(id, n, 0), <<to>>)

Holds(s, a, id) ==
    IF id \notin DOMAIN s.assets THEN 0
    ELSE IF s.assets[id].kind = "ft" THEN AS!ft_balance(s, a, id)
    ELSE IF s.nft_owner[id] = a THEN 1 ELSE 0

\* indexer_check_transfer: an NFT moves whole.
indexer_check_transfer(p, id, n) ==
    IF id \in DOMAIN assets.assets /\ assets.assets[id].kind = "nft"
    THEN Holds(assets, p, id) = 1 /\ n = 1
    ELSE Holds(assets, p, id) >= n

\* Keyless commands leave the signature to the caller's own wallet (external).
build_unsigned_asset_tx(p, op) == WriteAssetTx(p, "external", op, << >>)

AssetBuildIssue(p, supply) == Command /\ build_unsigned_asset_tx(p, IssueOp(supply))
AssetBuildMint(p, bps, creator) ==
    Command /\ bps <= BpsBase /\ build_unsigned_asset_tx(p, MintOp(bps, creator))

\* The node's /buildAssetTx, keyless too, which also transfers and checks more.
BuildAssetTx(p, op, dest) ==
    /\ Command
    /\ CASE op.op = "issue" -> op.supply > 0
         [] op.op = "nft_mint" -> op.royalty <= BpsBase
         [] op.op = "transfer" -> /\ op.amount > 0
                                  /\ indexer_check_transfer(p, op.asset, op.amount)
    /\ WriteAssetTx(p, "external", op, dest)

-----------------------------------------------------------------------------
\* The market

\* asset-sell: any of the smallest mature coins anchors the sale.  The wallet file is
\* read for its address only.
AssetSell(p, id, n, price) ==
    /\ Command /\ CanSign(p)
    /\ \E c \in getutxos(P2pkh(p)) :
         /\ \A d \in getutxos(P2pkh(p)) : coins[c].value <= coins[d].value
         /\ orders' = orders \cup {[asset |-> id, amount |-> n, price |-> price,
                                    seller |-> p, anchor |-> c]}
    /\ UNCHANGED <<chain, pending, file, sigs, offers, key>>

\* The royalty comes from the indexer, the rest from the order.
TermsOf(o, buyer) ==
    [asset |-> o.asset, amount |-> o.amount, price |-> o.price, seller |-> o.seller,
     buyer |-> buyer, royalty_bps |-> assets.assets[o.asset].royalty_bps,
     royalty_addr |-> assets.assets[o.asset].royalty_addr, miner_fee |-> MinFee]

build_settlement_tx(terms, anchor, S) ==
    payment(settlement_inputs(anchor, SetToSeq(S)),
            settlement_outputs(terms, coins[anchor].value, ValueOf(S)),
            terms.miner_fee, terms)

SignBuyer(t, buyer) ==
    [t EXCEPT !.unlock = [i \in DOMAIN t.inputs |->
       IF i = 1 THEN @[i] ELSE p2pkh_script_sig(t, buyer)]]

\* build_unsigned_settlement and the same steps in asset-buy: build and verify.
Offer(o, buyer, S) ==
    LET terms == TermsOf(o, buyer)
        t == build_settlement_tx(terms, o.anchor, S)
    IN  /\ Affordable(terms, ValueOf(S)) /\ verify_settlement(t.outputs, terms)
        /\ offers' = offers \cup {SignBuyer(t, buyer)}

\* asset-build-settlement, keyless: the buyer's own wallet signs.
AssetBuildSettlement(p, o) ==
    /\ Command /\ o \in orders /\ o.asset \in DOMAIN assets.assets
    /\ \E S \in Selections(getutxos(P2pkh(p)), o.price + Carrier + MinFee) : Offer(o, p, S)
    /\ UNCHANGED <<chain, pending, file, sigs, orders, key>>

AssetBuy(p, o) == CanSign(p) /\ AssetBuildSettlement(p, o)

\* A settlement file that something else wrote: the terms are not quite the order's, any
\* coin is the first, and a part of one output goes to the buyer instead or the transfer
\* is of another amount.
Altered(m, outs) ==
    {Diverted(outs, i, d, m.buyer) : i \in DOMAIN outs, d \in Amount}
      \cup {[outs EXCEPT ![2] = Data(TransferOp(m.asset, n, 0))] : n \in Amount}
AtPrice(m, price, bps) == [m EXCEPT !.price = price, !.royalty_bps = bps]
OtherTerms(o, buyer) ==
    {AtPrice(TermsOf(o, buyer), price, bps) :
       price \in {o.price} \cup Amount, bps \in {0, assets.assets[o.asset].royalty_bps}}
OtherSettlement(p, o) ==
    /\ Command /\ CanSign(p) /\ o \in orders /\ o.asset \in DOMAIN assets.assets
    /\ \E m \in OtherTerms(o, p), c \in Unspent(height) :
       \E S \in Selections(getutxos(P2pkh(p)) \ {c}, m.price + Carrier + MinFee) :
         LET t == build_settlement_tx(m, c, S)
         IN  /\ Mature(c, height) /\ Affordable(m, ValueOf(S))
             /\ \E outs \in Altered(m, t.outputs) :
                  offers' = offers \cup {SignBuyer([t EXCEPT !.outputs = outs], p)}
    /\ UNCHANGED <<chain, pending, file, sigs, orders, key>>

\* asset-accept: the file decides, whoever wrote it; the order is not looked at again.
AssetAccept(p, t) ==
    /\ t \in offers /\ verify_settlement(t.outputs, t.terms)
    /\ CanSign(p) /\ t.terms.seller = p
    /\ Post(sign_input(t, 1, p))
    /\ UNCHANGED <<chain, file, sigs, orders, offers, key, left>>

-----------------------------------------------------------------------------
\* Scripts

\* The change goes back to the script.
build_unsigned_multisig_tx(lock, to, amount, S) ==
    LET change == ValueOf(S) - amount - MinFee
        rest == [lock |-> lock, value |-> change, op |-> NoOp]
    IN  payment(SetToSeq(S), <<Pay(to, amount)>> \o (IF change > 0 THEN <<rest>> ELSE << >>),
                MinFee, NoTerms)

\* send-from-script and p2sh-multisig-spend.
MultisigSpend(lock, to, amount) ==
    /\ Command /\ amount > 0
    /\ \E S \in Selections(getutxos(lock), amount + MinFee) :
         Written(lock[1], "unsigned-tx", build_unsigned_multisig_tx(lock, to, amount, S))
    /\ UNCHANGED <<chain, pending, sigs, orders, offers, key>>

\* The signature file of a signer lies beside the transaction file.
MultisigSign(f, p) ==
    /\ f \in DOMAIN file /\ CanSign(p)
    /\ sigs' = Put(sigs, <<f, p>>, [unsigned_txid |-> transaction_id(file[f]),
                                    sig |-> sign_hash(file[f], p)])
    /\ UNCHANGED <<chain, pending, file, orders, offers, key, left>>

\* Mutant: the signature files are not compared with the transaction.
AnySignature(f, p) == <<f, p>> \in DOMAIN sigs
SignedThis(f, p) ==
    /\ <<f, p>> \in DOMAIN sigs
    /\ sigs[<<f, p>>].unsigned_txid = transaction_id(file[f])

\* multisig-combine of two or more signature files, in the order they are named; the
\* file is rewritten, with a new id.  Its user says what kind of script is spent: no
\* --redeem, the script the coins pay to, or another; nothing compares it with the coins.
CombineKind == {"multisig", "p2sh", "misredeem"}
MultisigCombine(f, who, kind) ==
    /\ Command /\ f \in DOMAIN file
    /\ \A i \in DOMAIN who : SignedThis(f, who[i])
    /\ file' = [file EXCEPT ![f] = Stamp(@,
         [kind |-> kind, sigs |-> [i \in DOMAIN who |-> sigs[<<f, who[i]>>].sig]])]
    /\ UNCHANGED <<chain, pending, sigs, orders, offers, key>>

\* build_unsigned_htlc_spend: one mature coin of the script, whole, less the fee.
ScriptSpend(o, to) == payment(<<o>>, <<Pay(to, coins[o].value - MinFee)>>, MinFee, NoTerms)

\* htlc-claim and htlc-refund: any script, anybody's key and any preimage will do for the
\* file; a misclaim has another preimage than the one the script asks for.
HtlcSpend(p, lock, to, name, kind) ==
    /\ Command /\ CanSign(p)
    /\ \E o \in getutxos(lock) :
         /\ coins[o].value > MinFee
         /\ LET t == ScriptSpend(o, to)
            IN  Written(p, name, Stamp(t, [kind |-> kind, sigs |-> <<sign_hash(t, p)>>]))
    /\ UNCHANGED <<chain, pending, sigs, orders, offers, key>>
HtlcKind == {"claim", "misclaim", "refund"}
HtlcClaim(p, lock, to) ==
    \E kind \in {"claim", "misclaim"} : HtlcSpend(p, lock, to, "claim", kind)
HtlcRefund(p, lock, to) == HtlcSpend(p, lock, to, "refund", "refund")

\* Mutant: the rest of the division is left to the miner.
EqualTranches(vested, n) == [i \in 1 .. n |-> vested \div n]
TrancheAmounts(vested, n) ==
    [i \in 1 .. n |-> IF i = n THEN vested - (vested \div n) * (n - 1) ELSE vested \div n]

\* vesting-lock: a liquid part and tranches that unlock one interval (here one block)
\* after another, sent at once.
VestingOutputs(to, total, bps, n, start) ==
    LET liquid == (total * bps) \div BpsBase
        amounts == TrancheAmounts(total - liquid, n)
    IN  PayIfAny(to, liquid) \o [i \in 1 .. n |->
          [lock |-> <<"cltv", <<to>>, 0, start + i - 1>>, value |-> amounts[i], op |-> NoOp]]

build_signed_vesting(p, outputs, total, S) ==
    sign_transaction(
      payment(SetToSeq(S), outputs \o PayIfAny(p, ValueOf(S) - total - MinFee), MinFee, NoTerms),
      p)

VestingLock(p, to, total, bps, n) ==
    /\ Command /\ CanSign(p) /\ bps <= BpsBase
    /\ \E S \in Selections(getutxos(P2pkh(p)), total + MinFee) :
         Post(build_signed_vesting(p, VestingOutputs(to, total, bps, n, height + 1), total, S))
    /\ UNCHANGED <<chain, file, sigs, orders, offers, key>>

\* vesting-claim, sent at once.
VestingClaim(p, lock, to) ==
    /\ CanSign(p)
    /\ \E o \in getutxos(lock) :
         coins[o].value > MinFee /\ Post(sign_transaction(ScriptSpend(o, to), p))
    /\ UNCHANGED <<chain, file, sigs, orders, offers, key, left>>

-----------------------------------------------------------------------------
\* Wallet files.  fs::write truncates the file before it writes; a crash leaves what
\* is there.

Idle == <<"idle", "none">>
KeyStep(p, changed) ==
    key' = [key EXCEPT ![p] = changed]
      /\ UNCHANGED <<chain, pending, file, sigs, orders, offers>>
KeyCommand == left.keyops > 0 /\ left' = [left EXCEPT !.keyops = @ - 1]

KeyCreate(p, pass) ==
    /\ KeyCommand /\ key[p].file = "absent" /\ key[p].doing = Idle
    /\ KeyStep(p, [key[p] EXCEPT !.file = "torn", !.doing = <<"writing", pass>>])

\* Mutant: rekey keeps no copy of the old file.
RekeyInPlace(p, pass) ==
    /\ KeyCommand /\ Readable(key[p].file) /\ pass # key[p].file /\ key[p].doing = Idle
    /\ KeyStep(p, [key[p] EXCEPT !.doing = <<"backed up", pass>>])

\* rekey: decrypt with the old passphrase and copy the file, over an earlier copy if
\* that was made in the same second ...
RekeyBackup(p, pass) ==
    /\ KeyCommand /\ Readable(key[p].file) /\ pass # key[p].file /\ key[p].doing = Idle
    /\ \E kept \in {key[p].backups, {}} :
         KeyStep(p, [key[p] EXCEPT !.backups = kept \cup {key[p].file},
                                   !.doing = <<"backed up", pass>>])
\* ... then write it anew.
RekeyTruncate(p) ==
    /\ key[p].doing[1] = "backed up" /\ UNCHANGED left
    /\ KeyStep(p, [key[p] EXCEPT !.file = "torn", !.doing = <<"writing", @[2]>>])

\* save_wallet returns; the address is printed.
KeyWritten(p) ==
    /\ key[p].doing[1] = "writing" /\ UNCHANGED left
    /\ KeyStep(p, [key[p] EXCEPT !.file = key[p].doing[2], !.doing = Idle, !.shown = TRUE])

KeyCrash(p) ==
    /\ key[p].doing # Idle /\ UNCHANGED left
    /\ KeyStep(p, [key[p] EXCEPT !.doing = Idle])

-----------------------------------------------------------------------------
Init ==
    \E s \in Scenario :
      /\ height = s.height /\ coins = s.coins /\ spent = << >> /\ assets = s.assets
      /\ pending = {} /\ file = << >> /\ sigs = << >> /\ orders = {} /\ offers = {}
      /\ key = [p \in Address |->
                  [file |-> IF p \in s.keyed THEN "first" ELSE "absent",
                   backups |-> {}, doing |-> Idle, shown |-> p \in s.keyed]]
      /\ left = [commands |-> s.commands, keyops |-> s.keyops, kinds |-> s.kinds]

Locks == {coins[o].lock : o \in Unspent(height)}
AssetIds == DOMAIN assets.assets

Does(kind) == kind \in left.kinds

Payments ==
    \E p \in Address, to \in Payee, v \in Amount, fee \in Fee :
      \/ Does("pay") /\ Send(p, to, v, fee)
      \/ \E h \in 0 .. height : Does("pay") /\ SendFromState(p, to, v, fee, h)
      \/ Does("withdraw") /\ p = ChangeAddr /\ SendToAddress(to, v, fee)
Creations ==
    Does("create") /\ \E p \in Address :
      \/ \E n \in Amount :
           AssetIssue(p, n) \/ AssetBuildIssue(p, n) \/ BuildAssetTx(p, IssueOp(n), << >>)
      \/ \E bps \in Bps, to \in Payee :
           \/ AssetMint(p, bps, to) \/ AssetBuildMint(p, bps, to)
           \/ BuildAssetTx(p, MintOp(bps, to), << >>)
Transfers ==
    Does("transfer") /\ \E p \in Address, id \in AssetIds, n \in Amount, to \in Payee :
      AssetTransfer(p, id, n, to) \/ BuildAssetTx(p, TransferOp(id, n, 0), <<to>>)
Market ==
    \E p \in Address :
      \/ \E id \in AssetIds, n \in Amount, price \in Price :
           Does("sell") /\ AssetSell(p, id, n, price)
      \/ \E o \in orders : AssetBuy(p, o) \/ AssetBuildSettlement(p, o)
      \/ \E o \in orders : Does("alter") /\ OtherSettlement(p, o)
      \/ \E t \in offers : AssetAccept(p, t)
Scripts ==
    \/ /\ Does("script")
       /\ \/ \E lock \in Locks, to \in Payee, v \in Amount : MultisigSpend(lock, to, v)
          \/ \E f \in DOMAIN file, p \in Address : MultisigSign(f, p)
          \/ \E f \in DOMAIN file, n \in 2 .. MaxSigFiles, kind \in CombineKind :
               \E who \in [1 .. n -> {p \in Address : <<f, p>> \in DOMAIN sigs}] :
                 MultisigCombine(f, who, kind)
    \/ \E p \in Address, lock \in Locks, to \in Payee :
         \/ Does("htlc") /\ (HtlcClaim(p, lock, to) \/ HtlcRefund(p, lock, to))
         \/ Does("vest") /\ VestingClaim(p, lock, to)
    \/ \E p \in Address, to \in Payee, v \in Price, bps \in Bps, n \in Tranches :
         Does("vest") /\ VestingLock(p, to, v, bps, n)
KeyCommands ==
    \E p \in Address :
      \/ \E pass \in Pass : KeyCreate(p, pass) \/ RekeyBackup(p, pass)
      \/ RekeyTruncate(p) \/ KeyWritten(p) \/ KeyCrash(p)

Next ==
    \/ Payments \/ Creations \/ Transfers \/ Market \/ Scripts \/ KeyCommands
    \/ \E f \in DOMAIN file : Broadcast(f)
    \/ \E t \in pending : Mine(t)
    \/ MineEmpty

Spec == Init /\ [][Next]_vars

-----------------------------------------------------------------------------
\* Correctness

Built == {file[f] : f \in DOMAIN file} \cup offers \cup pending
Finished(t) == \A i \in DOMAIN t.inputs : t.unlock[i] # Unsigned

\* Whoever builds a transaction, from whichever view of the chain, and however its
\* amounts are divided, it pays the miner exactly the fee the command announced.
FeesExact == \A t \in Built : InSum(t) - OutSum(t) = t.fee

\* Enough signatures of a multisig spend were named, in the order of the keys.
InKeyOrder(t) ==
    \A i \in DOMAIN t.inputs :
      LET l == coins[t.inputs[i]].lock
          pos(k) == CHOOSE n \in DOMAIN l[2] : l[2][n] = k
      IN  l[1] \in {"multisig", "p2sh"} =>
            LET s == t.unlock[i].sigs IN
            /\ Len(s) >= l[3] /\ \A j \in DOMAIN s : s[j][1] \in ToSet(l[2])
            /\ \A j, k \in DOMAIN s : j < k => pos(s[j][1]) < pos(s[k][1])
Due(t) == \A i \in DOMAIN t.inputs :
            LET l == coins[t.inputs[i]].lock
            IN  l[1] = "cltv" \/ t.unlock[i].kind = "refund" => height >= l[4]

\* What htlc-claim, htlc-refund and multisig-combine do not check and leave to their
\* user: the script is one of that kind, the wallet is the party it names, the preimage
\* is its preimage, and the redeem script the one it pays to.
AskedRightly(t) ==
    \A i \in DOMAIN t.inputs :
      LET l == coins[t.inputs[i]].lock
          u == t.unlock[i]
      IN  CASE u.kind = "claim" -> l[1] = "htlc" /\ u.sigs[1][1] = l[2][1]
            [] u.kind = "refund" -> l[1] = "htlc" /\ u.sigs[1][1] = l[2][2]
            [] u.kind \in {"multisig", "p2sh"} -> u.kind = l[1]
            [] OTHER -> u.kind = "p2pkh"

\* A finished transaction may become stale in its file: its coins spent, or claimed
\* by a pending transaction, or its lock not yet due.  If its user asked for the right
\* script with the right keys, the node refuses it for no other reason: no signature is
\* of another transaction or another owner's, no coin immature, no sum wrong.
RefusedOnlyForRace ==
    \A t \in {u \in Built : Finished(u) /\ u \notin pending} :
      (/\ IsInjective(t.inputs) /\ ToSet(t.inputs) \cap DOMAIN spent = {} /\ ~ Conflicts(t)
       /\ t.fee >= MinFee /\ AskedRightly(t) /\ InKeyOrder(t) /\ Due(t))
      => Accepts(t)

Funds(a) == ValueOf({o \in DOMAIN coins \ DOMAIN spent : coins[o].lock = P2pkh(a)})
Confirmed(t) == t \in pending /\ t \notin pending' /\ t.terms # NoTerms
                  /\ t.inputs[1] \notin DOMAIN spent /\ t.inputs[1] \in DOMAIN spent'

\* The outputs are the builder's for these terms and coins, and the first coin is the
\* seller's: so is every file asset-buy makes of an order of the seller's.
AsBuilt(t) ==
    LET v == coins[t.inputs[1]].value
    IN  /\ coins[t.inputs[1]].lock = P2pkh(t.terms.seller)
        /\ Affordable(t.terms, InSum(t) - v)
        /\ t.outputs = settlement_outputs(t.terms, v, InSum(t) - v)

Net(m) == m.price - fee_split(m).platform - fee_split(m).royalty
Gain(a) == Funds(a)' - Funds(a)
SellerPaid(t) ==
    t.terms.seller # t.terms.buyer =>
      Gain(t.terms.seller) >= Net(t.terms) - coins[t.inputs[1]].value
AllPaid(t) ==
    LET m == t.terms
        part(is, v) == IF is THEN v ELSE 0
    IN  \A a \in Address :
          Gain(a) = part(a = m.seller, Net(m)) + part(a = Platform, fee_split(m).platform)
                      + part(a = m.royalty_addr, fee_split(m).royalty)
                      - part(a = m.buyer, m.price + m.miner_fee)

\* When a settlement is confirmed that the seller had accepted, from a file that anyone
\* may have written, he has at least the price of its terms less platform fee and royalty,
\* though perhaps not the coin that went in first.  If the file is as the builder makes
\* it, he has exactly that, the buyer has paid the price and the miner's fee and nothing
\* else, and platform and creator have their parts, whoever of them is the same person
\* and whatever coins went in.
PaidAsAgreed ==
    [][\A t \in pending : Confirmed(t) => SellerPaid(t) /\ (AsBuilt(t) => AllPaid(t))]_vars

\* Not so ("Trustless", settlement.rs): verify_settlement does not see what the coins are
\* worth, so the coin a sale starts from need not come back ...
CoinComesBack ==
    [][\A t \in pending : (Confirmed(t) /\ t.terms.seller # t.terms.buyer)
                            => Gain(t.terms.seller) >= Net(t.terms)]_vars
\* ... and asset-accept does not look at the order, so the price need not be the one asked.
PriceAsOrdered ==
    [][\A t \in pending : Confirmed(t) =>
         \E o \in orders : /\ o.seller = t.terms.seller /\ o.asset = t.terms.asset
                            /\ o.price = t.terms.price]_vars

\* ... and the buyer has the units, if the seller still holds them and the first coin
\* names an owner.
DeliveredIfHeld ==
    [][\A t \in pending :
         LET m == t.terms IN
         (/\ Confirmed(t) /\ m.amount > 0 /\ Holds(assets, m.seller, m.asset) >= m.amount
          /\ m.seller # m.buyer /\ coins[t.inputs[1]].lock[1] = "p2pkh")
         => /\ Holds(assets', m.buyer, m.asset) = Holds(assets, m.buyer, m.asset) + m.amount
            /\ Holds(assets', m.seller, m.asset)
                 = Holds(assets, m.seller, m.asset) - m.amount]_vars

\* The key of every address that was printed can be read from the wallet file or a
\* backup, whenever create or rekey is interrupted.
KeyRecoverable ==
    \A p \in Address :
      key[p].shown => \E content \in key[p].backups \cup {key[p].file} : Readable(content)

-----------------------------------------------------------------------------
\* The inductive invariant of the proofs

IsOp(op) ==
    \/ op = NoOp \/ op.op \in {"issue", "transfer"}
    \/ op.op = "nft_mint" /\ op.royalty \in Nat
IsOutput(o) == o.value \in Nat /\ IsLock(o.lock) /\ IsOp(o.op)
AreOutputs(outs) == outs \in Seq(ToSet(outs)) /\ \A i \in DOMAIN outs : IsOutput(outs[i])

\* What the commands see to: an owner's signature opens his own coin, and every signature
\* is of this transaction.  Whose it is in a script, and for which script, is up to the
\* user.
Fits(l, u, t) ==
    \/ /\ u.kind = "p2pkh" /\ l[1] \in {"p2pkh", "cltv"}
       /\ u.sigs = <<<<l[2][1], signature_hash(t)>>>>
    \/ u.kind \in HtlcKind /\ \E p \in Address : u.sigs = <<<<p, signature_hash(t)>>>>
    \/ u.kind \in CombineKind /\ u.sigs \in Seq(Address \X {signature_hash(t)})

WellFormed(t) ==
    /\ t = [inputs |-> t.inputs, unlock |-> t.unlock, outputs |-> t.outputs,
            fee |-> t.fee, terms |-> t.terms]
    /\ t.inputs \in Seq(DOMAIN coins) /\ DOMAIN t.unlock = DOMAIN t.inputs
    /\ AreOutputs(t.outputs) /\ t.fee \in Nat

Signed(t) ==
    \A i \in DOMAIN t.inputs :
      /\ Mature(t.inputs[i], height)
      /\ t.unlock[i] = Unsigned \/ Fits(coins[t.inputs[i]].lock, t.unlock[i], t)

\* A settlement, whoever wrote the file: the buyer pays for it with his own coins.
TermsOK(m) ==
    /\ {m.price, m.amount, m.miner_fee, m.royalty_bps} \subseteq Nat
    /\ {m.seller, m.buyer} \subseteq Address
Settles(t) ==
    t.terms # NoTerms =>
      /\ TermsOK(t.terms) /\ t.inputs # << >> /\ t.fee = t.terms.miner_fee
      /\ \A i \in DOMAIN t.inputs \ {1} : coins[t.inputs[i]].lock = P2pkh(t.terms.buyer)

Sound(t) == WellFormed(t) /\ InSum(t) = OutSum(t) + t.fee /\ Signed(t) /\ Settles(t)

LedgerInv ==
    /\ IsLedger(height, coins, assets)
    /\ \A o \in DOMAIN spent : o \in DOMAIN coins /\ spent[o] \in 0 .. height
BuiltInv == \A t \in Built : Sound(t)

\* No two pending transactions are after the same coin, and none after a spent one.
PendingInv ==
    \A t \in pending :
      /\ IsInjective(t.inputs) /\ ToSet(t.inputs) \cap DOMAIN spent = {}
      /\ \A u \in pending : t # u => ToSet(t.inputs) \cap ToSet(u.inputs) = {}

\* The seller has verified every settlement that is pending, and signed for the first
\* coin, which is his.
AcceptedInv ==
    \A t \in pending : t.terms # NoTerms =>
      LET l == coins[t.inputs[1]].lock
      IN  /\ verify_settlement(t.outputs, t.terms)
          /\ l[1] \in {"p2pkh", "cltv"} /\ l[2][1] = t.terms.seller

\* No transaction file is a settlement, and a signature file has the signature of the
\* transaction whose id it names.
FilesInv == \A f \in DOMAIN file : file[f].terms = NoTerms
SigsInv ==
    \A k \in DOMAIN sigs :
      LET id == sigs[k].unsigned_txid
      IN  k[2] \in Address /\ sigs[k].sig = <<k[2], <<id[1], id[3]>>>>

OffersInv == \A t \in offers : t.terms # NoTerms
OrdersInv ==
    \A o \in orders :
      /\ {o.price, o.amount} \subseteq Nat /\ o.seller \in Address /\ o.anchor \in DOMAIN coins
      /\ coins[o.anchor].lock = P2pkh(o.seller) /\ Mature(o.anchor, height)

\* Rekeying has a backup when it starts to write.
KeyType == [file : Pass \cup {"absent", "torn"}, backups : SUBSET Pass,
            doing : {Idle} \cup ({"backed up", "writing"} \X Pass), shown : BOOLEAN]
KeyOK(k) == \/ k.backups # {}
            \/ k.doing[1] # "backed up" /\ (k.shown => Readable(k.file))
KeysInv == key \in [Address -> KeyType] /\ \A p \in Address : KeyOK(key[p])

WalletInv ==
    /\ LedgerInv /\ BuiltInv /\ PendingInv /\ AcceptedInv /\ FilesInv /\ SigsInv
    /\ OffersInv /\ OrdersInv /\ KeysInv
=============================================================================
