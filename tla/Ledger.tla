------------------------------- MODULE Ledger -------------------------------
(***************************************************************************)
(* The consensus rules of tensorium-core that do not depend on the node's  *)
(* database: which blocks are well formed, what a block does to the set of *)
(* unspent outputs, how much a miner may create, and how many leading zero *)
(* bits a block must show.  Translated from utxo.rs, validation.rs,        *)
(* emission.rs, difficulty.rs and the private helpers of state.rs.         *)
(*                                                                         *)
(* Abstractions of the data:                                               *)
(*  - A block hash commits to the header, the header to the previous hash. *)
(*    With a collision-free hash a block is therefore the same thing as    *)
(*    the sequence of block bodies from genesis up to it, and that is what *)
(*    a block is here (a body being the header and transactions without    *)
(*    the previous hash): its previous hash is the sequence without its last  *)
(*    element, and Hash256::ZERO, the previous hash of genesis, is << >>.  *)
(*  - A transaction id stands for its transaction (ids are hashes of the   *)
(*    content); Tx gives what the rules read of it.                        *)
(*  - The script interpreter's verdict on the inputs of a transaction is   *)
(*    two fields: whether its signature scripts unlock what they spend,    *)
(*    and the height below which a time lock still fails them.             *)
(*  - What validate_block checks of a header alone (chain id, declared     *)
(*    height, previous hash, Merkle root) is one flag, a timestamp that is *)
(*    for now too far ahead of the clock another, and whether the nonce    *)
(*    meets the target under the epoch seed of the block's own branch a    *)
(*    third.                                                               *)
(***************************************************************************)
EXTENDS Integers, Sequences, FiniteSets, Functions

CONSTANTS
    TxId,                \* transaction ids
    Tx,                  \* what the rules read of each transaction
    BodyId,              \* block bodies: a header without its previous hash
    BodyOf,              \* what the rules read of each body
    Block,               \* the blocks anybody may ever produce
    U64Max,              \* u64::MAX, where saturating_add stops
    InitialReward,       \* ConsensusParams::initial_reward_atoms
    HalvingInterval,     \* ConsensusParams::halving_interval_blocks
    MaxHalvingEras,      \* ConsensusParams::max_halving_eras
    Premint,             \* atoms created by genesis on top of its reward
    Maturity,            \* ConsensusParams::coinbase_maturity_blocks
    TargetSeconds,       \* ConsensusParams::target_block_seconds
    InitialBits, MinBits, MaxBits,
    RetargetWindow,      \* ConsensusParams::difficulty_adjustment_window
    RetargetActivation,  \* ...::difficulty_retarget_activation_height
    EpochLength          \* tensorium_tensorhash::EPOCH_LENGTH

OutPoint == TxId \X Nat

Transaction ==
    [inputs : Seq(OutPoint),
     outputs : Seq([value : Nat, burn : BOOLEAN]),  \* burn: OP_RETURN script
     payload : {"coinbase", "payment"},
     unlocks : BOOLEAN,
     lock : Nat]

Body ==
    [txs : Seq(TxId),
     time : Nat,          \* header.timestamp_seconds
     bits : 0 .. 255,     \* header.leading_zero_bits, a u8
     sane : BOOLEAN,
     early : BOOLEAN,     \* ahead of the node's clock by more than the limit
     pow : BOOLEAN]

\* An entry of CF_UTXO, and the partial functions CF_UTXO may hold.
UtxoEntry == [value : Nat, created_height : Nat, coinbase : BOOLEAN]
IsUtxoSet(u) == u \in [DOMAIN u -> UtxoEntry] /\ DOMAIN u \subseteq OutPoint
EmptyUtxo == [op \in {} |-> op]

ASSUME TxAssumption == Tx \in [TxId -> Transaction]
ASSUME BodyAssumption == BodyOf \in [BodyId -> Body]
ASSUME BlockAssumption == Block \subseteq Seq(BodyId) \ {<< >>}
ASSUME ParamsAssumption ==
    /\ {U64Max, InitialReward, MaxHalvingEras, Premint, Maturity,
        TargetSeconds, InitialBits, MinBits, MaxBits,
        RetargetActivation} \subseteq Nat
    /\ {HalvingInterval, RetargetWindow, EpochLength} \subseteq Nat \ {0}
    /\ MaxHalvingEras <= 64      \* the reward is shifted right by the era
    /\ MinBits <= MaxBits /\ MaxBits <= 255
\* All that can ever be mined fits in a u64.
ASSUME SupplyAssumption ==
    InitialReward * (HalvingInterval * MaxHalvingEras) + Premint < U64Max

-----------------------------------------------------------------------------
\* Blocks

Zero == << >>                                   \* Hash256::ZERO
height(b) == Len(b) - 1
previous_hash(b) == SubSeq(b, 1, Len(b) - 1)
header(b) == BodyOf[b[Len(b)]]
Txs(b) == header(b).txs

\* build_canonical_chain: the blocks from genesis to b, by height.
build_canonical_chain(b) == [h \in 0 .. height(b) |-> SubSeq(b, 1, h + 1)]

is_coinbase(t) == Tx[t].inputs = << >> /\ Tx[t].payload = "coinbase"

-----------------------------------------------------------------------------
\* Amounts: u64 with saturating arithmetic

Saturate(n) == IF n > U64Max THEN U64Max ELSE n
SatSum(f) == Saturate(SumFunction(f))

\* Mutant: wrapping_add in place of saturating_add.
WrappingTotal(t) ==
    SumFunction([k \in DOMAIN Tx[t].outputs |-> Tx[t].outputs[k].value])
      % (U64Max + 1)
total_output_atoms(t) ==
    SatSum([k \in DOMAIN Tx[t].outputs |-> Tx[t].outputs[k].value])

\* Powers of two, for shifts by a u8.
Pow2[n \in 0 .. 255] == IF n = 0 THEN 1 ELSE 2 * Pow2[n - 1]

reward_at_height(h) ==
    LET era == h \div HalvingInterval
    IN  IF era >= MaxHalvingEras THEN 0 ELSE InitialReward \div Pow2[era]

\* The most a coinbase may pay itself, before fees.
CoinbaseSubsidy(h) ==
    Saturate(reward_at_height(h) + (IF h = 0 THEN Premint ELSE 0))

\* The block candidate_block builds when it adds no transaction.
IsBareCandidate(b) ==
    /\ Len(Txs(b)) = 1
    /\ total_output_atoms(Txs(b)[1]) = CoinbaseSubsidy(height(b))

-----------------------------------------------------------------------------
\* Unspent outputs

\* The positions of the block's non-coinbase inputs and what each one spends.
InputSlots(b) ==
    UNION {{i} \X DOMAIN Tx[Txs(b)[i]].inputs : i \in 2 .. Len(Txs(b))}
SpendAt(b, s) == Tx[Txs(b)[s[1]]].inputs[s[2]]
Spends(b) == {SpendAt(b, s) : s \in InputSlots(b)}

input_sum(u, t) ==
    SatSum([j \in DOMAIN Tx[t].inputs |-> u[Tx[t].inputs[j]].value])
fee(u, t) == input_sum(u, t) - total_output_atoms(t)

\* Mutant: a coinbase output spendable one block too soon.
InputOkOneEarly(u, t, op, h) ==
    /\ op \in DOMAIN u
    /\ u[op].coinbase => h + 1 >= u[op].created_height + Maturity
    /\ Tx[t].unlocks /\ h >= Tx[t].lock

\* One pass of the input loop of validate_transaction and of apply_block.
InputOk(u, t, op, h) ==
    /\ op \in DOMAIN u
    /\ u[op].coinbase => h >= u[op].created_height + Maturity
    /\ Tx[t].unlocks /\ h >= Tx[t].lock

TxOk(u, t, h) ==
    /\ \A j \in DOMAIN Tx[t].inputs : InputOk(u, t, Tx[t].inputs[j], h)
    /\ total_output_atoms(t) <= input_sum(u, t)

\* UtxoSet::validate_transaction; `h` is its tip_height argument.
validate_transaction(u, t, h) == IsInjective(Tx[t].inputs) /\ TxOk(u, t, h)

TotalFees(u, b) == SatSum([i \in 2 .. Len(Txs(b)) |-> fee(u, Txs(b)[i])])

\* Phases 1 and 2 of UtxoSet::apply_block.  `seen` spans the whole block.
ApplyOk(u, b) ==
    /\ Txs(b) # << >>
    /\ \A r, s \in InputSlots(b) : r # s => SpendAt(b, r) # SpendAt(b, s)
    /\ \A i \in 2 .. Len(Txs(b)) : TxOk(u, Txs(b)[i], height(b))
    /\ total_output_atoms(Txs(b)[1])
         <= Saturate(CoinbaseSubsidy(height(b)) + TotalFees(u, b))

\* The outputs a block creates, OP_RETURN outputs excepted.
Creates(b) ==
    UNION {{<<Txs(b)[i], k - 1>> :
              k \in {k \in DOMAIN Tx[Txs(b)[i]].outputs :
                       ~ Tx[Txs(b)[i]].outputs[k].burn}} :
           i \in DOMAIN Txs(b)}
\* Mutant: stamped with the parent's height.
NewEntryOfParent(b, op) ==
    [value |-> Tx[op[1]].outputs[op[2] + 1].value,
     created_height |-> height(b) - 1,
     coinbase |-> is_coinbase(op[1])]
NewEntry(b, op) ==
    [value |-> Tx[op[1]].outputs[op[2] + 1].value,
     created_height |-> height(b),
     coinbase |-> is_coinbase(op[1])]

\* Phase 3 of apply_block: remove what is spent, then insert what is created.
ApplyPhase3(u, b) ==
    [op \in (DOMAIN u \ Spends(b)) \cup Creates(b) |->
        IF op \in Creates(b) THEN NewEntry(b, op) ELSE u[op]]

apply_block(u, b) ==
    IF ApplyOk(u, b) THEN [ok |-> TRUE, utxo |-> ApplyPhase3(u, b)]
                     ELSE [ok |-> FALSE, utxo |-> u]

\* Mutant: the delta keeps the OP_RETURN outputs.
DeltaWithBurns(u, b) ==
    LET made == UNION {{Txs(b)[i]} \X {k - 1 : k \in DOMAIN Tx[Txs(b)[i]].outputs} :
                       i \in DOMAIN Txs(b)}
    IN  [op \in (DOMAIN u \ Spends(b)) \cup made |->
            IF op \in made THEN NewEntry(b, op) ELSE u[op]]

\* The same delta as the fast path of submit_block writes it to the database.
apply_utxo_delta(u, b) ==
    [op \in (DOMAIN u \ Spends(b)) \cup Creates(b) |->
        IF op \in Creates(b) THEN NewEntry(b, op) ELSE u[op]]

\* Mutant: only looks whether the inputs exist.
InputsExist(u, b) == Spends(b) \subseteq DOMAIN u

\* validate_block_utxo: apply_block on a set seeded with the block's inputs.
validate_block_utxo(u, b) ==
    apply_block(Restrict(u, DOMAIN u \cap Spends(b)), b).ok

\* replay_utxo over blocks c[0], c[1], ... into a fresh set; the first failing
\* block fails the replay.
ApplyNext(r, b) == IF r.ok THEN apply_block(r.utxo, b) ELSE r
replay_utxo(c) ==
    LET set[h \in DOMAIN c] == IF h = 0 THEN apply_block(EmptyUtxo, c[0])
                               ELSE ApplyNext(set[h - 1], c[h])
    IN  set[Cardinality(DOMAIN c) - 1]
ReplayBranch(b) == replay_utxo(build_canonical_chain(b))

\* What the blocks up to height h may create, and what a set of outputs holds.
Supply(h) == SumFunction([g \in 0 .. h |-> CoinbaseSubsidy(g)])
AtomsIn(u) == SumFunction([op \in DOMAIN u |-> u[op].value])

-----------------------------------------------------------------------------
\* Difficulty.  b[h + 1] is the ancestor of b at height h.

clamp(n) == IF n < MinBits THEN MinBits ELSE IF n > MaxBits THEN MaxBits ELSE n

\* next_leading_zero_bits on the sample between heights `first` and `last`.
next_leading_zero_bits(b, first, last) ==
    LET expected == TargetSeconds * (last - first + 1)
        elapsed == BodyOf[b[last + 1]].time - BodyOf[b[first + 1]].time
        actual == IF elapsed < 1 THEN 1 ELSE elapsed  \* saturating_sub, max(1)
        bits == BodyOf[b[last + 1]].bits
    IN  clamp(IF actual < expected \div 2 THEN bits + 1
              ELSE IF actual > expected * 2 THEN (IF bits = 0 THEN 0 ELSE bits - 1)
              ELSE bits)

\* expected_leading_zero_bits_for the block that extends `parent`: sampled on
\* the parent's own ancestry.  The first epoch is bootstrapped from a partial
\* window as soon as two blocks at or above the activation height exist.
expected_leading_zero_bits_for(parent) ==
    LET h == Len(parent)
        epoch == (h - RetargetActivation) \div RetargetWindow
        start == RetargetActivation + (epoch - 1) * RetargetWindow
    IN  CASE h < RetargetActivation -> InitialBits
          [] h >= RetargetActivation /\ epoch > 0 ->
               next_leading_zero_bits(parent, start, start + RetargetWindow - 1)
          [] h >= RetargetActivation + 2 /\ epoch = 0 ->
               next_leading_zero_bits(parent, RetargetActivation, h - 1)
          [] OTHER -> InitialBits

\* chain_work: the sum of 2^leading_zero_bits over the branch.
chain_work(b) ==
    LET work[i \in 0 .. Len(b)] ==
          IF i = 0 THEN 0 ELSE work[i - 1] + Pow2[BodyOf[b[i]].bits]
    IN  work[Len(b)]

\* The epoch seed a miner of b's own branch hashes with.
SeedHeight(h) == (h \div EpochLength) * EpochLength - 1
OwnSeed(b) ==
    IF height(b) < EpochLength THEN Zero
    ELSE SubSeq(b, 1, SeedHeight(height(b)) + 1)

\* A nonce found for one seed meets the target under no other.
header_meets_work(b, seed) == header(b).pow /\ seed = OwnSeed(b)

\* validate_block, given the expected difficulty and the epoch seed; the
\* timestamp limit moves with the clock and is left to the caller.
validate_block(b, bits, seed) ==
    /\ header(b).sane
    /\ header(b).bits = bits
    /\ header_meets_work(b, seed)
    /\ Txs(b) # << >>
    /\ is_coinbase(Txs(b)[1])
=============================================================================
