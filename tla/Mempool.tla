------------------------------ MODULE Mempool ------------------------------
(***************************************************************************)
(* Mempool of tensorium-core/src/mempool.rs.  A pool is the map `pending`  *)
(* from transaction ids to the fee computed when the transaction was       *)
(* added.  The map is a HashMap: where the code walks it, its order is     *)
(* arbitrary, so operations that depend on the order return the set of     *)
(* their possible results.                                                 *)
(***************************************************************************)
EXTENDS Ledger, SequencesExt

CONSTANTS
    MinRelayFee,   \* MIN_RELAY_FEE_ATOMS
    MaxMempool     \* MAX_MEMPOOL_TXS

ASSUME MempoolAssumption == MinRelayFee \in Nat /\ MaxMempool \in Nat \ {0}

IsPool(m) == DOMAIN m \subseteq TxId /\ m \in [DOMAIN m -> Nat]
EmptyPool == [t \in {} |-> 0]
InputsOf(t) == Range(Tx[t].inputs)

conflicts_with_pending(m, t) ==
    \E p \in DOMAIN m : InputsOf(p) \cap InputsOf(t) # {}

\* The checks of add that do not depend on the size of the pool.
\* Mutant: conflicts with pending transactions are not looked for.
AdmissibleWithConflicts(m, u, t, h) ==
    /\ ~ is_coinbase(t)
    /\ t \notin DOMAIN m
    /\ validate_transaction(u, t, h)
    /\ fee(u, t) >= MinRelayFee
Admissible(m, u, t, h) ==
    /\ ~ is_coinbase(t)
    /\ t \notin DOMAIN m
    /\ ~ conflicts_with_pending(m, t)
    /\ validate_transaction(u, t, h)
    /\ fee(u, t) >= MinRelayFee

\* Mutant: one transaction too many.
FullPlusOne(m) == Cardinality(DOMAIN m) > MaxMempool
Full(m) == Cardinality(DOMAIN m) >= MaxMempool

Lowest(m) == {p \in DOMAIN m : \A q \in DOMAIN m : m[p] <= m[q]}
Without(m, p) == Restrict(m, DOMAIN m \ {p})
Insert(m, t, f) == [p \in DOMAIN m \cup {t} |-> IF p = t THEN f ELSE m[p]]

\* add: the pools it may leave behind, `m` itself when it returns an error.  A
\* full pool gives up one of its entries with the lowest fee for a higher one.
add(m, u, t, h) ==
    IF ~ Admissible(m, u, t, h) THEN {m}
    ELSE IF ~ Full(m) THEN {Insert(m, t, fee(u, t))}
    ELSE LET outbid == {p \in Lowest(m) : fee(u, t) > m[p]}
         IN  IF outbid = {} THEN {m}
             ELSE {Insert(Without(m, p), t, fee(u, t)) : p \in outbid}

\* Mutant: drops what spends an output the block creates, too.
RemoveTouched(m, b) ==
    LET touched == UNION {InputsOf(t) \cup {<<t, k - 1>> : k \in DOMAIN Tx[t].outputs} :
                            t \in Range(Txs(b))}
    IN  Restrict(m, {p \in DOMAIN m : /\ p \notin Range(Txs(b))
                                      /\ InputsOf(p) \cap touched = {}})

\* Drops what the block confirms and what spends an output the block spends.
remove_confirmed(m, b) ==
    LET spent == UNION {InputsOf(t) : t \in Range(Txs(b))}
    IN  Restrict(m, {p \in DOMAIN m : /\ p \notin Range(Txs(b))
                                      /\ InputsOf(p) \cap spent = {}})

\* select_for_block: by descending fee, skipping what conflicts with a
\* transaction already taken.
TakeUnlessConflict(taken, t) ==
    IF \E i \in DOMAIN taken : InputsOf(taken[i]) \cap InputsOf(t) # {}
    THEN taken ELSE Append(taken, t)
FeeOrders(m) ==
    {s \in SetToSeqs(DOMAIN m) :
        \A i, j \in DOMAIN s : i < j => m[s[i]] >= m[s[j]]}
Taken(s) ==
    LET taken[i \in 0 .. Len(s)] ==
          IF i = 0 THEN << >> ELSE TakeUnlessConflict(taken[i - 1], s[i])
    IN  taken[Len(s)]
select_for_block(m) == {Taken(s) : s \in FeeOrders(m)}
=============================================================================
