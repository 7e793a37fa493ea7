----------------------------- MODULE Settlement -----------------------------
(***************************************************************************)
(* The transaction of tensorium-core/src/settlement.rs that sells an asset *)
(* for coins: one transaction, signed by both sides, that moves the asset, *)
(* pays the seller, the platform and the creator, and returns the change.  *)
(* Also the outputs of the other asset transactions (assets/mod.rs).       *)
(*                                                                         *)
(* A lock is written as in Script, an address stands for its key; a coin   *)
(* is an outpoint and its value.                                           *)
(***************************************************************************)
EXTENDS Integers, Sequences, FiniteSets

CONSTANTS
    Platform,       \* PLATFORM_FEE_ADDRESS
    FeeBps,         \* PLATFORM_FEE_BPS
    BpsBase,        \* the 10_000 of a basis point
    Carrier         \* CARRIER_ATOMS and ASSET_CARRIER_ATOMS

ASSUME SettlementAssumption ==
    FeeBps \in 0 .. BpsBase /\ BpsBase \in Nat \ {0} /\ Carrier \in Nat

NoOp == [op |-> "none"]
P2pkh(a) == <<"p2pkh", <<a>>, 0, 0>>
DataLock == <<"op_return", << >>, 0, 0>>
Pay(a, v) == [lock |-> P2pkh(a), value |-> v, op |-> NoOp]
Data(op) == [lock |-> DataLock, value |-> 0, op |-> op]
TransferOp(id, n, i) == [op |-> "transfer", asset |-> id, amount |-> n, dest |-> i]

\* An output that is left out when its value is zero.
PayIfAny(a, v) == IF v > 0 THEN <<Pay(a, v)>> ELSE << >>

\* A pay-to-script-hash output has an address too, which is no wallet's.
NoAddress == "no address"
ScriptAddress == "script address"
extract_address(o) ==
    CASE o.lock[1] = "p2pkh" -> o.lock[2][1]
      [] o.lock[1] = "p2sh" -> ScriptAddress
      [] OTHER -> NoAddress

-----------------------------------------------------------------------------
\* build_outputs of an issue, a mint or a transfer; dest is << >> or the recipient.
build_outputs(op, dest, change_addr, total_in, fee) ==
    LET spent == (IF dest = << >> THEN 0 ELSE Carrier) + fee
    IN  [i \in DOMAIN dest |-> Pay(dest[i], Carrier)]
          \o <<Data(op)>> \o PayIfAny(change_addr, total_in - spent)

-----------------------------------------------------------------------------
\* terms: [asset, amount, price, royalty_bps, royalty_addr, seller, buyer, miner_fee]

fee_split(terms) ==
    [platform |-> (terms.price * FeeBps) \div BpsBase,
     royalty |-> IF terms.royalty_bps = 0 \/ terms.seller = terms.royalty_addr THEN 0
                 ELSE (terms.price * terms.royalty_bps) \div BpsBase]

\* The two errors of build_settlement_tx.
Affordable(terms, v_buyer) ==
    LET s == fee_split(terms)
    IN  /\ s.platform + s.royalty <= terms.price
        /\ v_buyer >= terms.price + Carrier + terms.miner_fee

settlement_outputs(terms, v_seller, v_buyer) ==
    LET s == fee_split(terms)
    IN  <<Pay(terms.buyer, Carrier),
          Data(TransferOp(terms.asset, terms.amount, 0)),
          Pay(terms.seller, v_seller + terms.price - s.platform - s.royalty)>>
          \o PayIfAny(Platform, s.platform)
          \o PayIfAny(terms.royalty_addr, s.royalty)
          \o PayIfAny(terms.buyer, v_buyer - terms.price - Carrier - terms.miner_fee)

\* A part of one output goes to somebody else.
Diverted(outs, i, part, to) ==
    LET v == IF part <= outs[i].value THEN part ELSE 0
    IN  [outs EXCEPT ![i] = [lock |-> @.lock, value |-> @.value - v, op |-> @.op]]
          \o PayIfAny(to, v)

\* The seller's coin comes first: the source of an operation is the first input.
settlement_inputs(seller_input, buyer_inputs) == <<seller_input>> \o buyer_inputs

-----------------------------------------------------------------------------
has_output_exact(outs, a, v) ==
    \E i \in DOMAIN outs : extract_address(outs[i]) = a /\ outs[i].value = v
has_output_at_least(outs, a, v) ==
    \E i \in DOMAIN outs : extract_address(outs[i]) = a /\ outs[i].value >= v

\* extract_asset_op: the first output that carries an operation.
first_op(outs) ==
    LET carry == {i \in DOMAIN outs : outs[i].op # NoOp}
    IN  IF carry = {} THEN NoOp
        ELSE outs[CHOOSE i \in carry : \A j \in carry : i <= j].op

\* Mutant: the seller's proceeds are not looked at.
VerifyBuyerSide(outs, terms) ==
    LET s == fee_split(terms)
    IN  /\ outs # << >> /\ outs[1].value = Carrier /\ extract_address(outs[1]) = terms.buyer
        /\ first_op(outs) = TransferOp(terms.asset, terms.amount, 0)
        /\ s.platform > 0 => has_output_exact(outs, Platform, s.platform)
        /\ s.royalty > 0 => has_output_exact(outs, terms.royalty_addr, s.royalty)

verify_settlement(outs, terms) ==
    LET s == fee_split(terms)
    IN  /\ outs # << >> /\ outs[1].value = Carrier /\ extract_address(outs[1]) = terms.buyer
        /\ first_op(outs) = TransferOp(terms.asset, terms.amount, 0)
        /\ s.platform > 0 => has_output_exact(outs, Platform, s.platform)
        /\ s.royalty > 0 => has_output_exact(outs, terms.royalty_addr, s.royalty)
        /\ has_output_at_least(outs, terms.seller, terms.price - s.platform - s.royalty)
=============================================================================
