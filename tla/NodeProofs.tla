----------------------------- MODULE NodeProofs -----------------------------
(***************************************************************************)
(* Proofs about the node.                                                  *)
(*                                                                         *)
(* Node and Sync: what a handler or a sync does to the chain is a step of  *)
(* ChainState, so all that is proved there holds of a node; the mempool    *)
(* stays within its limits and free of conflicts; a handler loses no       *)
(* transaction but those that are mined or squeezed out, and brings back   *)
(* those of disconnected blocks; the blocks made from a template are       *)
(* valid.                                                                  *)
(*                                                                         *)
(* Peers: the connection limit holds, and as long as no two updates of the *)
(* ban list file overlap, scores add up and bans hold, for any number of   *)
(* addresses and connections and any scores.                               *)
(***************************************************************************)
EXTENDS Sync, Peers, ChainStateProofs

-----------------------------------------------------------------------------
\* The steps of a node as steps of ChainState

LEMMA NodeStepIsChainStep == [NodeNext]_node_vars => [Next]_vars
<1> SUFFICES ASSUME [NodeNext]_node_vars PROVE [Next]_vars
  OBVIOUS
<1>1. CASE UNCHANGED node_vars
  BY <1>1 DEF node_vars
<1>2. ASSUME NEW b \in Block, AcceptBlock(b) \/ RejectBlock(b) \/ CrashInSubmit(b)
      PROVE  [Next]_vars
  BY <1>2 DEF AcceptBlock, RejectBlock, CrashInSubmit, SubmitOk, SubmitErr, Next, SubmitBlock
<1>3. ASSUME NEW t \in TxId, AcceptTx(t) \/ CrashInSave(t)
      PROVE  [Next]_vars
  BY <1>3 DEF AcceptTx, CrashInSave, SyncFirst, Next
<1>4. ASSUME Requeue \/ SaveMempool \/ CrashInHandler \/ ChainOnly
      PROVE  [Next]_vars
  BY <1>4 DEF Requeue, SaveMempool, CrashInHandler, ChainOnly, Next
<1> QED  BY <1>1, <1>2, <1>3, <1>4 DEF NodeNext

\* What the handlers of a node, crashes included, do to its database is what
\* ChainState says, so that its theorems hold of a node.
THEOREM NodeImplementsChainState == NodeSpec => Spec
<1>1. NodeInit => Init
  BY DEF NodeInit
<1> QED  BY <1>1, NodeStepIsChainStep, PTL DEF NodeSpec, Spec

-----------------------------------------------------------------------------
\* Pools

LEMMA EmptyPoolOk == PoolOk(EmptyPool) /\ IsPool(EmptyPool) /\ DOMAIN EmptyPool = {}
<1>1. DOMAIN EmptyPool = {} /\ IsPool(EmptyPool)
  BY DEF EmptyPool, IsPool
<1>2. IsFiniteSet({}) /\ Cardinality({}) = 0
  BY FS_EmptySet
<1> HIDE DEF EmptyPool
<1> QED  BY <1>1, <1>2, MempoolAssumption DEF PoolOk

\* A part of a pool is a pool.
LEMMA RestrictPool ==
  ASSUME NEW m, PoolOk(m), NEW S \in SUBSET DOMAIN m, NEW r, r = Restrict(m, S)
  PROVE  /\ PoolOk(r) /\ DOMAIN r = S /\ \A p \in S : r[p] = m[p]
<1>1. DOMAIN r = S /\ (\A p \in S : r[p] = m[p]) /\ IsPool(r)
  BY DEF Restrict, PoolOk, IsPool
<1>2. IsFiniteSet(S) /\ Cardinality(S) <= Cardinality(DOMAIN m)
  BY FS_Subset DEF PoolOk
<1>3. Cardinality(S) \in Nat /\ Cardinality(DOMAIN m) \in Nat
  BY <1>2, FS_CardinalityType DEF PoolOk
<1>4. Cardinality(S) <= MaxMempool
  BY <1>2, <1>3, MempoolAssumption DEF PoolOk
<1> QED  BY <1>1, <1>2, <1>4 DEF PoolOk

\* What add may do to a pool that is not full.
LEMMA InsertPool ==
  ASSUME NEW m, PoolOk(m), ~ Full(m), NEW t \in TxId, t \notin DOMAIN m,
         ~ conflicts_with_pending(m, t), NEW f \in Nat, f >= MinRelayFee,
         NEW r, r = Insert(m, t, f)
  PROVE  PoolOk(r) /\ DOMAIN r = DOMAIN m \cup {t}
<1>1. DOMAIN r = DOMAIN m \cup {t} /\ IsPool(r)
  BY DEF Insert, PoolOk, IsPool
<1>2. IsFiniteSet(DOMAIN r) /\ Cardinality(DOMAIN r) = Cardinality(DOMAIN m) + 1
  BY <1>1, FS_AddElement DEF PoolOk
<1>3. Cardinality(DOMAIN r) <= MaxMempool
  <2>1. Cardinality(DOMAIN m) \in Nat
    BY FS_CardinalityType DEF PoolOk
  <2> QED  BY <1>2, <2>1, MempoolAssumption DEF Full
<1>4. \A p \in DOMAIN r : r[p] >= MinRelayFee
  BY <1>1 DEF Insert, PoolOk
<1>5. \A p, q \in DOMAIN r : p # q => InputsOf(p) \cap InputsOf(q) = {}
  BY <1>1 DEF PoolOk, conflicts_with_pending
<1> QED  BY <1>1, <1>2, <1>3, <1>4, <1>5 DEF PoolOk

\* add keeps a pool in order; a full pool stays full, another one loses nothing, and
\* an admissible transaction gets into it.
LEMMA AddPool ==
  ASSUME NEW m, PoolOk(m), NEW u, IsUtxoSet(u), NEW t \in TxId, NEW h,
         NEW r \in add(m, u, t, h)
  PROVE  /\ PoolOk(r)
         /\ Full(m) => Full(r)
         /\ ~ Full(m) => /\ DOMAIN m \subseteq DOMAIN r
                         /\ Admissible(m, u, t, h) => t \in DOMAIN r
<1>1. CASE r = m /\ (~ Admissible(m, u, t, h) \/ Full(m))
  BY <1>1
<1>2. CASE ~ (r = m /\ (~ Admissible(m, u, t, h) \/ Full(m)))
  <2>1. Admissible(m, u, t, h)
    BY <1>2 DEF add
  <2>2. /\ t \notin DOMAIN m /\ ~ conflicts_with_pending(m, t)
        /\ fee(u, t) \in Nat /\ fee(u, t) >= MinRelayFee
    BY <2>1, FeeType DEF Admissible
  <2>3. CASE ~ Full(m)
    <3>1. r = Insert(m, t, fee(u, t))
      BY <2>1, <2>3 DEF add
    <3>2. PoolOk(r) /\ DOMAIN r = DOMAIN m \cup {t}
      BY <2>2, <2>3, <3>1, InsertPool
    <3> QED  BY <2>3, <3>2
  <2>4. CASE Full(m)
    <3>1. PICK p \in DOMAIN m : r = Insert(Without(m, p), t, fee(u, t))
      BY <1>2, <2>1, <2>4 DEF add, Lowest
    <3> DEFINE w == Without(m, p)
    <3>2. DOMAIN m \ {p} \in SUBSET DOMAIN m /\ w = Restrict(m, DOMAIN m \ {p})
      BY DEF Without
    <3>3. PoolOk(w) /\ DOMAIN w = DOMAIN m \ {p}
      <4> DEFINE S == DOMAIN m \ {p}
      <4>1. S \in SUBSET DOMAIN m /\ w = Restrict(m, S)
        BY <3>2
      <4> HIDE DEF S, w
      <4>2. PoolOk(w) /\ DOMAIN w = S
        BY <4>1, RestrictPool
      <4> QED  BY <4>2 DEF S
    <3> HIDE DEF w
    <3>4. /\ Cardinality(DOMAIN w) = Cardinality(DOMAIN m) - 1
          /\ Cardinality(DOMAIN m) \in Nat
      BY <3>3, FS_RemoveElement, FS_CardinalityType DEF PoolOk
    <3>5. ~ Full(w) /\ Cardinality(DOMAIN m) = MaxMempool
      BY <2>4, <3>4, MempoolAssumption DEF Full, PoolOk
    <3>6. t \notin DOMAIN w /\ ~ conflicts_with_pending(w, t)
      BY <2>2, <3>3 DEF conflicts_with_pending
    <3>7. r = Insert(w, t, fee(u, t))
      BY <3>1 DEF w
    <3>8. PoolOk(r) /\ DOMAIN r = DOMAIN w \cup {t}
      BY <2>2, <3>3, <3>5, <3>6, <3>7, InsertPool
    <3>9. Cardinality(DOMAIN r) = Cardinality(DOMAIN w) + 1
      BY <3>3, <3>6, <3>8, FS_AddElement DEF PoolOk
    <3>10. Full(r)
      BY <3>4, <3>5, <3>9, MempoolAssumption DEF Full
    <3> QED  BY <2>4, <3>8, <3>10
  <2> QED  BY <2>3, <2>4
<1> QED  BY <1>1, <1>2

\* The entries seed_utxos_for_tx reads are enough for add's checks.
LEMMA SeedFacts ==
  ASSUME NEW u, IsUtxoSet(u), NEW t \in TxId, NEW s, s = seed_utxos_for_tx(u, t), NEW h
  PROVE  /\ IsUtxoSet(s)
         /\ validate_transaction(u, t, h) =>
              validate_transaction(s, t, h) /\ fee(s, t) = fee(u, t)
<1> DEFINE In == Tx[t].inputs
<1>1. /\ DOMAIN s = DOMAIN u \cap InputsOf(t) /\ \A op \in DOMAIN s : s[op] = u[op]
      /\ IsUtxoSet(s)
  BY DEF seed_utxos_for_tx, Restrict, IsUtxoSet
<1>2. ASSUME validate_transaction(u, t, h)
      PROVE  validate_transaction(s, t, h) /\ fee(s, t) = fee(u, t)
  <2>1. \A j \in DOMAIN In : In[j] \in DOMAIN u /\ In[j] \in InputsOf(t)
    BY <1>2 DEF validate_transaction, TxOk, InputOk, InputsOf, Range
  <2>2. \A j \in DOMAIN In : In[j] \in DOMAIN s /\ s[In[j]] = u[In[j]]
    BY <1>1, <2>1
  <2>3. \A j \in DOMAIN In : InputOk(s, t, In[j], h)
    BY <1>2, <2>2 DEF validate_transaction, TxOk, InputOk
  <2>4. [j \in DOMAIN In |-> u[In[j]].value] = [j \in DOMAIN In |-> s[In[j]].value]
    BY <2>2
  <2>5. input_sum(u, t) = input_sum(s, t)
    BY <2>4 DEF input_sum
  <2> QED  BY <1>2, <2>3, <2>5 DEF validate_transaction, TxOk, fee
<1> QED  BY <1>1, <1>2

\* What remove_confirmed drops is mined once the block is stored.
LEMMA RemoveConfirmed ==
  ASSUME NEW m, PoolOk(m), NEW b \in Block, is_coinbase(Txs(b)[1]), Txs(b) # << >>,
         NEW r, r = remove_confirmed(m, b)
  PROVE  /\ PoolOk(r) /\ DOMAIN r \subseteq DOMAIN m
         /\ \A p \in DOMAIN m \ DOMAIN r :
              p \in Range(Txs(b)) \/ InputsOf(p) \cap Spends(b) # {}
<1> DEFINE spent == UNION {InputsOf(t) : t \in Range(Txs(b))}
           S == {p \in DOMAIN m : p \notin Range(Txs(b)) /\ InputsOf(p) \cap spent = {}}
<1>1. S \in SUBSET DOMAIN m /\ r = Restrict(m, S)
  BY DEF remove_confirmed
<1>2. PoolOk(r) /\ DOMAIN r = S
  <2> HIDE DEF S
  <2> QED  BY <1>1, RestrictPool
<1>3. spent \subseteq Spends(b)
  <2> SUFFICES ASSUME NEW t \in Range(Txs(b)), NEW op \in InputsOf(t) PROVE op \in Spends(b)
    OBVIOUS
  <2>1. b \in Path /\ Txs(b) \in Seq(TxId)
    BY BlockIsPath, PathFacts
  <2>2. PICK i \in 1 .. Len(Txs(b)) : t = Txs(b)[i]
    BY <2>1 DEF Range
  <2>3. PICK j \in DOMAIN Tx[t].inputs : op = Tx[t].inputs[j]
    BY DEF InputsOf, Range
  <2>4. i # 1
    <3>1. DOMAIN (<< >>) = {}
      OBVIOUS
    <3> QED  BY <2>2, <2>3, <3>1 DEF is_coinbase
  <2>5. i \in 2 .. Len(Txs(b))
    BY <2>1, <2>2, <2>4
  <2> QED  BY <2>1, <2>2, <2>3, <2>5, InputsAreSpends
<1> QED  BY <1>2, <1>3

-----------------------------------------------------------------------------
\* The transactions to requeue

LEMMA InRange ==
  ASSUME NEW S, NEW q \in Seq(S)
  PROVE  Range(q) \subseteq S /\ \A x : x \in Range(q) <=> \E i \in 1 .. Len(q) : x = q[i]
<1>1. DOMAIN q = 1 .. Len(q) /\ \A i \in 1 .. Len(q) : q[i] \in S
  OBVIOUS
<1> QED  BY <1>1 DEF Range

LEMMA RangeAppend ==
  ASSUME NEW S, NEW q \in Seq(S), NEW e \in S
  PROVE  Append(q, e) \in Seq(S) /\ Range(Append(q, e)) = Range(q) \cup {e}
<1> DEFINE r == Append(q, e)
<1>1. /\ r \in Seq(S) /\ Len(r) = Len(q) + 1 /\ Len(q) \in Nat /\ r[Len(q) + 1] = e
      /\ \A i \in 1 .. Len(q) : r[i] = q[i]
  OBVIOUS
<1> HIDE DEF r
<1>2. /\ \A i \in 1 .. Len(r) : i \in 1 .. Len(q) \/ i = Len(q) + 1
      /\ \A i \in 1 .. Len(q) : i \in 1 .. Len(r)
      /\ Len(q) + 1 \in 1 .. Len(r)
  BY <1>1
<1>3. \A x : x \in Range(r) <=> \E i \in 1 .. Len(r) : x = r[i]
  BY <1>1, InRange
<1>4. \A x : x \in Range(q) <=> \E i \in 1 .. Len(q) : x = q[i]
  BY InRange
<1>5. \A x : x \in Range(r) <=> x \in Range(q) \/ x = e
  BY <1>1, <1>2, <1>3, <1>4
<1> QED  BY <1>1, <1>5 DEF r

LEMMA RangeConcat ==
  ASSUME NEW S, NEW q \in Seq(S), NEW r \in Seq(S)
  PROVE  q \o r \in Seq(S) /\ Range(q \o r) = Range(q) \cup Range(r)
<1> DEFINE c == q \o r
<1>1. /\ c \in Seq(S) /\ Len(c) = Len(q) + Len(r) /\ Len(q) \in Nat /\ Len(r) \in Nat
      /\ \A i \in 1 .. Len(q) : c[i] = q[i]
      /\ \A i \in 1 .. Len(r) : c[Len(q) + i] = r[i]
  OBVIOUS
<1> HIDE DEF c
<1>2. ASSUME NEW i \in 1 .. Len(c), i \notin 1 .. Len(q)
      PROVE  \E j \in 1 .. Len(r) : i = Len(q) + j
  <2>1. i - Len(q) \in 1 .. Len(r) /\ i = Len(q) + (i - Len(q))
    BY <1>1, <1>2
  <2> QED  BY <2>1
<1>3. /\ \A i \in 1 .. Len(q) : i \in 1 .. Len(c)
      /\ \A j \in 1 .. Len(r) : Len(q) + j \in 1 .. Len(c)
  BY <1>1
<1>4. \A x : x \in Range(c) <=> \E i \in 1 .. Len(c) : x = c[i]
  BY <1>1, InRange
<1>5. \A x : /\ x \in Range(q) <=> \E i \in 1 .. Len(q) : x = q[i]
             /\ x \in Range(r) <=> \E i \in 1 .. Len(r) : x = r[i]
  BY InRange
<1>6. ASSUME NEW x \in Range(c) PROVE x \in Range(q) \/ x \in Range(r)
  <2>1. PICK i \in 1 .. Len(c) : x = c[i]
    BY <1>4
  <2>2. CASE i \in 1 .. Len(q)
    <3>1. x = q[i]
      BY <1>1, <2>1, <2>2
    <3> QED  BY <1>5, <2>2, <3>1
  <2>3. CASE i \notin 1 .. Len(q)
    <3>1. PICK j \in 1 .. Len(r) : i = Len(q) + j
      BY <1>2, <2>3
    <3>2. x = r[j]
      BY <1>1, <2>1, <3>1
    <3> QED  BY <1>5, <3>2
  <2> QED  BY <2>2, <2>3
<1>7. \A x : x \in Range(q) \/ x \in Range(r) => x \in Range(c)
  <2>1. \A i \in 1 .. Len(q) : q[i] \in Range(c)
    BY <1>1, <1>3, <1>4
  <2>2. \A j \in 1 .. Len(r) : r[j] \in Range(c)
    BY <1>1, <1>3, <1>4
  <2> QED  BY <1>5, <2>1, <2>2
<1> QED  BY <1>1, <1>6, <1>7 DEF c

LEMMA RangeHeadTail ==
  ASSUME NEW S, NEW q \in Seq(S), q # << >>
  PROVE  /\ Head(q) \in S /\ Tail(q) \in Seq(S)
         /\ Range(q) = {Head(q)} \cup Range(Tail(q))
<1> DEFINE r == Tail(q)
<1>1. /\ Head(q) = q[1] /\ Head(q) \in S /\ r \in Seq(S)
      /\ Len(q) \in Nat \ {0} /\ Len(r) = Len(q) - 1
      /\ \A i \in 1 .. Len(q) - 1 : r[i] = q[i + 1]
  OBVIOUS
<1> HIDE DEF r
<1>2. ASSUME NEW i \in 1 .. Len(q), i # 1
      PROVE  \E j \in 1 .. Len(r) : i = j + 1
  <2>1. i - 1 \in 1 .. Len(r) /\ i = (i - 1) + 1
    BY <1>1, <1>2
  <2> QED  BY <2>1
<1>3. 1 \in 1 .. Len(q) /\ \A j \in 1 .. Len(r) : j + 1 \in 1 .. Len(q) /\ r[j] = q[j + 1]
  BY <1>1
<1>4. \A x : /\ x \in Range(q) <=> \E i \in 1 .. Len(q) : x = q[i]
             /\ x \in Range(r) <=> \E i \in 1 .. Len(r) : x = r[i]
  BY <1>1, InRange
<1>5. \A x : x \in Range(q) => x = q[1] \/ x \in Range(r)
  BY <1>2, <1>3, <1>4
<1>6. \A x : x = q[1] \/ x \in Range(r) => x \in Range(q)
  BY <1>3, <1>4
<1> QED  BY <1>1, <1>5, <1>6 DEF r

\* No two elements of a sequence of transactions spend the same output.
Apart(s) == \A i, j \in DOMAIN s : i # j => InputsOf(s[i]) \cap InputsOf(s[j]) = {}

LEMMA ApartAppend ==
  ASSUME NEW q \in Seq(TxId), Apart(q), NEW e \in TxId,
         \A x \in Range(q) : InputsOf(x) \cap InputsOf(e) = {}
  PROVE  Apart(Append(q, e))
<1> DEFINE r == Append(q, e)
<1>1. /\ r \in Seq(TxId) /\ Len(r) = Len(q) + 1 /\ Len(q) \in Nat /\ r[Len(q) + 1] = e
      /\ \A i \in 1 .. Len(q) : r[i] = q[i]
  OBVIOUS
<1> HIDE DEF r
<1>2. DOMAIN r = 1 .. Len(q) + 1 /\ DOMAIN q = 1 .. Len(q)
  BY <1>1
<1>3. \A i \in 1 .. Len(q) : InputsOf(q[i]) \cap InputsOf(e) = {}
  BY InRange
<1>4. ASSUME NEW i \in DOMAIN r, NEW j \in DOMAIN r, i # j
      PROVE  InputsOf(r[i]) \cap InputsOf(r[j]) = {}
  <2>1. CASE i \in 1 .. Len(q) /\ j \in 1 .. Len(q)
    BY <1>1, <1>2, <1>4, <2>1 DEF Apart
  <2>2. CASE i \in 1 .. Len(q) /\ j = Len(q) + 1
    BY <1>1, <1>3, <2>2
  <2>3. CASE j \in 1 .. Len(q) /\ i = Len(q) + 1
    <3>1. InputsOf(r[j]) \cap InputsOf(r[i]) = {}
      BY <1>1, <1>3, <2>3
    <3> QED  BY <3>1
  <2> QED  BY <1>1, <1>2, <1>4, <2>1, <2>2, <2>3
<1> QED  BY <1>4 DEF Apart, r

\* Kept keeps what is in K and nothing else, and brings nothing together.
LEMMA KeptFacts ==
  ASSUME NEW s \in Seq(TxId), NEW K
  PROVE  /\ Kept(s, K) \in Seq(TxId)
         /\ Range(Kept(s, K)) = Range(s) \cap K
         /\ Apart(s) => Apart(Kept(s, K))
<1> DEFINE N == Len(s)
           V == Seq(TxId)
           F == [p \in (1 .. N) \X V |->
                   IF s[p[1]] \in K THEN Append(p[2], s[p[1]]) ELSE p[2]]
           kept[i \in 0 .. Len(s)] ==
              IF i = 0 THEN << >>
              ELSE IF s[i] \in K THEN Append(kept[i - 1], s[i]) ELSE kept[i - 1]
<1>1. N \in Nat /\ << >> \in V /\ DOMAIN s = 1 .. N
  OBVIOUS
<1>2. F \in [(1 .. N) \X V -> V]
  <2>1. ASSUME NEW p \in (1 .. N) \X V
        PROVE  (IF s[p[1]] \in K THEN Append(p[2], s[p[1]]) ELSE p[2]) \in V
    <3>1. p[2] \in V /\ s[p[1]] \in TxId
      OBVIOUS
    <3>2. Append(p[2], s[p[1]]) \in V
      BY <3>1
    <3> QED  BY <3>1, <3>2
  <2> QED  BY <2>1
<1>3. PICK f \in [0 .. N -> V] :
        f = [i \in 0 .. N |-> IF i = 0 THEN << >> ELSE F[<<i, f[i - 1]>>]]
  <2> HIDE DEF N, V, F
  <2>1. \E f : Solves(f, N, V, << >>, F)
    BY <1>1, <1>2, RecursionSolved
  <2> QED  BY <2>1 DEF Solves
<1>4. f = [i \in 0 .. Len(s) |->
             IF i = 0 THEN << >>
             ELSE IF s[i] \in K THEN Append(f[i - 1], s[i]) ELSE f[i - 1]]
  <2> DEFINE g == [i \in 0 .. Len(s) |->
             IF i = 0 THEN << >>
             ELSE IF s[i] \in K THEN Append(f[i - 1], s[i]) ELSE f[i - 1]]
  <2>1. ASSUME NEW i \in 0 .. N, i # 0
        PROVE  F[<<i, f[i - 1]>>]
                 = IF s[i] \in K THEN Append(f[i - 1], s[i]) ELSE f[i - 1]
    <3>1. i \in 1 .. N /\ i - 1 \in 0 .. N
      BY <1>1, <2>1
    <3>2. f[i - 1] \in V
      BY <1>3, <3>1, Zenon
    <3> QED  BY <3>1, <3>2
  <2>2. \A i \in 0 .. N : f[i] = g[i]
    <3> HIDE DEF F
    <3> QED  BY <1>3, <2>1
  <2> QED  BY <1>3, <2>2
<1>5. kept = [i \in 0 .. Len(s) |->
                IF i = 0 THEN << >>
                ELSE IF s[i] \in K THEN Append(kept[i - 1], s[i]) ELSE kept[i - 1]]
  BY <1>4, Zenon DEF kept
<1>6. Kept(s, K) = kept[N]
  BY DEF Kept
<1> HIDE DEF kept, F
<1>7. /\ kept[0] = << >>
      /\ \A i \in 1 .. N :
           kept[i] = IF s[i] \in K THEN Append(kept[i - 1], s[i]) ELSE kept[i - 1]
  <2> DEFINE g == [i \in 0 .. Len(s) |->
                IF i = 0 THEN << >>
                ELSE IF s[i] \in K THEN Append(kept[i - 1], s[i]) ELSE kept[i - 1]]
  <2>1. 0 \in 0 .. Len(s) /\ \A i \in 1 .. N : i \in 0 .. Len(s) /\ i # 0
    BY <1>1
  <2>2. /\ g[0] = << >>
        /\ \A i \in 1 .. N :
             g[i] = IF s[i] \in K THEN Append(kept[i - 1], s[i]) ELSE kept[i - 1]
    BY <2>1
  <2>3. kept = g
    BY <1>5, Zenon
  <2> QED  BY <2>2, <2>3, Zenon
<1> DEFINE Good(n) == /\ kept[n] \in V
                      /\ Range(kept[n]) = {s[i] : i \in 1 .. n} \cap K
                      /\ Apart(s) => Apart(kept[n])
           Bad == {n \in 0 .. N : ~ Good(n)}
<1>8. Good(0)
  <2>1. 1 .. 0 = {} /\ Range(<< >>) = {}
    BY DEF Range
  <2> QED  BY <1>1, <1>7, <2>1 DEF Apart
<1>9. ASSUME NEW n \in 1 .. N, Good(n - 1) PROVE Good(n)
  <2> DEFINE k == kept[n - 1]
             e == s[n]
             P == {s[i] : i \in 1 .. n - 1}
  <2>1. /\ e \in TxId /\ k \in Seq(TxId) /\ Range(k) = P \cap K
        /\ Apart(s) => Apart(k)
    BY <1>9
  <2>2. {s[i] : i \in 1 .. n} = P \cup {e}
    <3>1. 1 .. n = (1 .. n - 1) \cup {n}
      OBVIOUS
    <3> QED  BY <3>1
  <2>3. ASSUME Apart(s), NEW x \in Range(k) PROVE InputsOf(x) \cap InputsOf(e) = {}
    <3>1. PICK i \in 1 .. n - 1 : x = s[i]
      BY <2>1
    <3>2. i \in DOMAIN s /\ n \in DOMAIN s /\ i # n
      BY <1>1
    <3> QED  BY <2>3, <3>1, <3>2 DEF Apart
  <2>4. kept[n] = IF e \in K THEN Append(k, e) ELSE k
    BY <1>7
  <2> HIDE DEF k, e, P
  <2>5. /\ Append(k, e) \in Seq(TxId) /\ Range(Append(k, e)) = Range(k) \cup {e}
        /\ Apart(s) => Apart(Append(k, e))
    BY <2>1, <2>3, RangeAppend, ApartAppend
  <2>6. CASE e \in K
    <3>1. kept[n] = Append(k, e)
      BY <2>4, <2>6
    <3>2. Range(k) \cup {e} = (P \cup {e}) \cap K
      BY <2>1, <2>6
    <3> QED  BY <2>2, <2>5, <3>1, <3>2
  <2>7. CASE e \notin K
    <3>1. kept[n] = k
      BY <2>4, <2>7
    <3>2. Range(k) = (P \cup {e}) \cap K
      BY <2>1, <2>7
    <3> QED  BY <2>1, <2>2, <3>1, <3>2
  <2> QED  BY <2>6, <2>7
<1>10. Bad = {}
  <2> SUFFICES ASSUME Bad # {} PROVE FALSE
    OBVIOUS
  <2>1. PICK m \in Bad : \A k \in Bad : m <= k
    <3>1. Bad \subseteq Nat
      BY <1>1
    <3> HIDE DEF Bad
    <3> QED  BY <3>1, LeastElement, Zenon
  <2>2. m \in 0 .. N /\ ~ Good(m)
    BY <2>1
  <2> HIDE DEF Good
  <2>3. m # 0
    BY <1>8, <2>2
  <2>4. m \in 1 .. N /\ m - 1 \in 0 .. N /\ m - 1 \notin Bad
    BY <1>1, <2>1, <2>2, <2>3
  <2>5. Good(m - 1)
    BY <2>4
  <2> QED  BY <1>9, <2>2, <2>4, <2>5
<1>11. Good(N)
  <2>1. N \in 0 .. N
    BY <1>1
  <2> HIDE DEF Good
  <2> QED  BY <1>10, <2>1
<1>12. Range(s) = {s[i] : i \in 1 .. N}
  BY <1>1 DEF Range
<1> QED  BY <1>6, <1>11, <1>12

\* Payments keeps every transaction that is not a coinbase.
LEMMA PaymentsFacts ==
  ASSUME NEW s \in Seq(TxId)
  PROVE  /\ Payments(s) \in Seq(TxId)
         /\ \A t \in Range(s) : ~ is_coinbase(t) => t \in Range(Payments(s))
<1> DEFINE K == {t \in Range(s) : ~ is_coinbase(t)}
<1>1. Payments(s) = Kept(s, K)
  BY DEF Payments
<1>2. \A t \in Range(s) : ~ is_coinbase(t) => t \in K
  OBVIOUS
<1> HIDE DEF K
<1>3. Kept(s, K) \in Seq(TxId) /\ Range(Kept(s, K)) = Range(s) \cap K
  BY KeptFacts
<1> QED  BY <1>1, <1>2, <1>3

\* What select_for_block takes has no conflicts, whatever the pool held.
LEMMA TakenFacts ==
  ASSUME NEW s \in Seq(TxId)
  PROVE  Taken(s) \in Seq(TxId) /\ Apart(Taken(s))
<1> DEFINE N == Len(s)
           V == Seq(TxId)
           F == [p \in (1 .. N) \X V |-> TakeUnlessConflict(p[2], s[p[1]])]
           taken[i \in 0 .. Len(s)] ==
              IF i = 0 THEN << >> ELSE TakeUnlessConflict(taken[i - 1], s[i])
<1>1. N \in Nat /\ << >> \in V /\ \A i \in 1 .. N : s[i] \in TxId
  OBVIOUS
<1>2. ASSUME NEW q \in Seq(TxId), NEW e \in TxId
      PROVE  /\ TakeUnlessConflict(q, e) \in Seq(TxId)
             /\ Apart(q) => Apart(TakeUnlessConflict(q, e))
  <2>1. CASE \E i \in DOMAIN q : InputsOf(q[i]) \cap InputsOf(e) # {}
    BY <2>1 DEF TakeUnlessConflict
  <2>2. CASE ~ \E i \in DOMAIN q : InputsOf(q[i]) \cap InputsOf(e) # {}
    <3>1. TakeUnlessConflict(q, e) = Append(q, e)
      BY <2>2 DEF TakeUnlessConflict
    <3>2. \A x \in Range(q) : InputsOf(x) \cap InputsOf(e) = {}
      BY <2>2 DEF Range
    <3>3. Append(q, e) \in Seq(TxId) /\ (Apart(q) => Apart(Append(q, e)))
      BY <3>2, RangeAppend, ApartAppend
    <3> QED  BY <3>1, <3>3
  <2> QED  BY <2>1, <2>2
<1>3. PICK f \in [0 .. N -> V] :
        f = [i \in 0 .. N |-> IF i = 0 THEN << >> ELSE F[<<i, f[i - 1]>>]]
  <2>1. F \in [(1 .. N) \X V -> V]
    <3>1. ASSUME NEW p \in (1 .. N) \X V PROVE TakeUnlessConflict(p[2], s[p[1]]) \in V
      <4>1. p[2] \in Seq(TxId) /\ s[p[1]] \in TxId
        BY <1>1
      <4> QED  BY <1>2, <4>1
    <3> QED  BY <3>1
  <2> HIDE DEF N, V, F
  <2>2. \E f : Solves(f, N, V, << >>, F)
    BY <1>1, <2>1, RecursionSolved
  <2> QED  BY <2>2 DEF Solves
<1>4. f = [i \in 0 .. Len(s) |->
             IF i = 0 THEN << >> ELSE TakeUnlessConflict(f[i - 1], s[i])]
  <2> DEFINE g == [i \in 0 .. Len(s) |->
             IF i = 0 THEN << >> ELSE TakeUnlessConflict(f[i - 1], s[i])]
  <2>1. ASSUME NEW i \in 0 .. N, i # 0
        PROVE  F[<<i, f[i - 1]>>] = TakeUnlessConflict(f[i - 1], s[i])
    <3>1. i \in 1 .. N /\ i - 1 \in 0 .. N
      BY <1>1, <2>1
    <3>2. f[i - 1] \in V
      BY <1>3, <3>1, Zenon
    <3> QED  BY <3>1, <3>2
  <2>2. \A i \in 0 .. N : f[i] = g[i]
    <3> HIDE DEF F
    <3> QED  BY <1>3, <2>1
  <2> QED  BY <1>3, <2>2
<1>5. taken = [i \in 0 .. Len(s) |->
                 IF i = 0 THEN << >> ELSE TakeUnlessConflict(taken[i - 1], s[i])]
  BY <1>4, Zenon DEF taken
<1>6. Taken(s) = taken[N]
  BY DEF Taken
<1> HIDE DEF taken, F
<1>7. /\ taken[0] = << >>
      /\ \A i \in 1 .. N : taken[i] = TakeUnlessConflict(taken[i - 1], s[i])
  <2> DEFINE g == [i \in 0 .. Len(s) |->
                 IF i = 0 THEN << >> ELSE TakeUnlessConflict(taken[i - 1], s[i])]
  <2>1. 0 \in 0 .. Len(s) /\ \A i \in 1 .. N : i \in 0 .. Len(s) /\ i # 0
    BY <1>1
  <2>2. /\ g[0] = << >>
        /\ \A i \in 1 .. N : g[i] = TakeUnlessConflict(taken[i - 1], s[i])
    BY <2>1
  <2>3. taken = g
    BY <1>5, Zenon
  <2> QED  BY <2>2, <2>3, Zenon
<1> DEFINE Good(n) == taken[n] \in V /\ Apart(taken[n])
           Bad == {n \in 0 .. N : ~ Good(n)}
<1>8. Good(0)
  BY <1>1, <1>7 DEF Apart
<1>9. ASSUME NEW n \in 1 .. N, Good(n - 1) PROVE Good(n)
  BY <1>1, <1>2, <1>7, <1>9
<1>10. Bad = {}
  <2> SUFFICES ASSUME Bad # {} PROVE FALSE
    OBVIOUS
  <2>1. PICK m \in Bad : \A k \in Bad : m <= k
    <3>1. Bad \subseteq Nat
      BY <1>1
    <3> HIDE DEF Bad
    <3> QED  BY <3>1, LeastElement, Zenon
  <2>2. m \in 0 .. N /\ ~ Good(m)
    BY <2>1
  <2> HIDE DEF Good
  <2>3. m # 0
    BY <1>8, <2>2
  <2>4. m \in 1 .. N /\ m - 1 \in 0 .. N /\ m - 1 \notin Bad
    BY <1>1, <2>1, <2>2, <2>3
  <2>5. Good(m - 1)
    BY <2>4
  <2> QED  BY <1>9, <2>2, <2>4, <2>5
<1>11. Good(N)
  <2>1. N \in 0 .. N
    BY <1>1
  <2> HIDE DEF Good
  <2> QED  BY <1>10, <2>1
<1> QED  BY <1>6, <1>11

\* Every transaction of a disconnected block that is not a coinbase is a candidate.
LEMMA CandidatesFacts ==
  ASSUME NEW d \in Seq(Block)
  PROVE  /\ RequeueCandidates(d) \in Seq(TxId)
         /\ \A i \in DOMAIN d : \A t \in Range(Txs(d[i])) :
              ~ is_coinbase(t) => t \in Range(RequeueCandidates(d))
<1> DEFINE N == Len(d)
           V == Seq(TxId)
           P(i) == Payments(Txs(d[i]))
           F == [p \in (1 .. N) \X V |-> p[2] \o P(p[1])]
           upto[i \in 0 .. Len(d)] ==
              IF i = 0 THEN << >> ELSE upto[i - 1] \o Payments(Txs(d[i]))
<1>1. N \in Nat /\ << >> \in V /\ DOMAIN d = 1 .. N
  OBVIOUS
<1>2. ASSUME NEW i \in 1 .. N
      PROVE  /\ Txs(d[i]) \in Seq(TxId) /\ P(i) \in V
             /\ \A t \in Range(Txs(d[i])) : ~ is_coinbase(t) => t \in Range(P(i))
  <2>1. d[i] \in Path
    BY BlockIsPath
  <2>2. Txs(d[i]) \in Seq(TxId)
    BY <2>1, PathFacts
  <2> QED  BY <2>2, PaymentsFacts
<1> HIDE DEF P
<1>3. PICK f \in [0 .. N -> V] :
        f = [i \in 0 .. N |-> IF i = 0 THEN << >> ELSE F[<<i, f[i - 1]>>]]
  <2>1. F \in [(1 .. N) \X V -> V]
    <3>1. ASSUME NEW p \in (1 .. N) \X V PROVE p[2] \o P(p[1]) \in V
      <4>1. p[2] \in V /\ P(p[1]) \in V
        BY <1>2
      <4> QED  BY <4>1
    <3> QED  BY <3>1
  <2> HIDE DEF N, V, F
  <2>2. \E f : Solves(f, N, V, << >>, F)
    BY <1>1, <2>1, RecursionSolved
  <2> QED  BY <2>2 DEF Solves
<1>4. f = [i \in 0 .. N |-> IF i = 0 THEN << >> ELSE f[i - 1] \o P(i)]
  <2> DEFINE g == [i \in 0 .. N |-> IF i = 0 THEN << >> ELSE f[i - 1] \o P(i)]
  <2>1. ASSUME NEW i \in 0 .. N, i # 0 PROVE F[<<i, f[i - 1]>>] = f[i - 1] \o P(i)
    <3>1. i \in 1 .. N /\ i - 1 \in 0 .. N
      BY <1>1, <2>1
    <3>2. f[i - 1] \in V
      BY <1>3, <3>1, Zenon
    <3> QED  BY <3>1, <3>2
  <2>2. \A i \in 0 .. N : f[i] = g[i]
    <3> HIDE DEF F
    <3> QED  BY <1>3, <2>1
  <2> QED  BY <1>3, <2>2
<1>5. upto = [i \in 0 .. N |-> IF i = 0 THEN << >> ELSE upto[i - 1] \o P(i)]
  BY <1>4, Zenon DEF upto, P
<1>6. RequeueCandidates(d) = upto[N]
  BY DEF RequeueCandidates
<1> HIDE DEF upto, F
<1>7. upto[0] = << >> /\ \A i \in 1 .. N : upto[i] = upto[i - 1] \o P(i)
  <2> DEFINE g == [i \in 0 .. N |-> IF i = 0 THEN << >> ELSE upto[i - 1] \o P(i)]
  <2>1. 0 \in 0 .. N /\ \A i \in 1 .. N : i \in 0 .. N /\ i # 0
    BY <1>1
  <2>2. g[0] = << >> /\ \A i \in 1 .. N : g[i] = upto[i - 1] \o P(i)
    BY <2>1
  <2>3. upto = g
    BY <1>5, Zenon
  <2> QED  BY <2>2, <2>3, Zenon
<1> DEFINE Good(n) == /\ upto[n] \in V
                      /\ \A i \in 1 .. n : Range(P(i)) \subseteq Range(upto[n])
           Bad == {n \in 0 .. N : ~ Good(n)}
<1>8. Good(0)
  BY <1>1, <1>7
<1>9. ASSUME NEW n \in 1 .. N, Good(n - 1) PROVE Good(n)
  <2>1. P(n) \in V /\ upto[n - 1] \in V
    BY <1>2, <1>9
  <2>2. upto[n] \in V /\ Range(upto[n]) = Range(upto[n - 1]) \cup Range(P(n))
    <3>1. upto[n] = upto[n - 1] \o P(n)
      BY <1>7
    <3> DEFINE k == upto[n - 1]
               e == P(n)
    <3>2. k \in Seq(TxId) /\ e \in Seq(TxId)
      BY <2>1
    <3> HIDE DEF k, e
    <3>3. k \o e \in Seq(TxId) /\ Range(k \o e) = Range(k) \cup Range(e)
      BY <3>2, RangeConcat
    <3> QED  BY <3>1, <3>3 DEF k, e
  <2>3. \A i \in 1 .. n : i = n \/ i \in 1 .. n - 1
    OBVIOUS
  <2> QED  BY <1>9, <2>2, <2>3
<1>10. Bad = {}
  <2> SUFFICES ASSUME Bad # {} PROVE FALSE
    OBVIOUS
  <2>1. PICK m \in Bad : \A k \in Bad : m <= k
    <3>1. Bad \subseteq Nat
      BY <1>1
    <3> HIDE DEF Bad
    <3> QED  BY <3>1, LeastElement, Zenon
  <2>2. m \in 0 .. N /\ ~ Good(m)
    BY <2>1
  <2> HIDE DEF Good
  <2>3. m # 0
    BY <1>8, <2>2
  <2>4. m \in 1 .. N /\ m - 1 \in 0 .. N /\ m - 1 \notin Bad
    BY <1>1, <2>1, <2>2, <2>3
  <2>5. Good(m - 1)
    BY <2>4
  <2> QED  BY <1>9, <2>2, <2>4, <2>5
<1>11. Good(N)
  BY <1>1, <1>10
<1> QED  BY <1>1, <1>2, <1>6, <1>11

-----------------------------------------------------------------------------
\* The invariant

LEMMA NodeInitInv == NodeInit => NodeInv
<1> SUFFICES ASSUME NodeInit PROVE NodeInv
  OBVIOUS
<1>1. IInv
  BY InitIInv DEF NodeInit
<1>2. PoolOk(pending) /\ PoolOk(working) /\ IsPool(pending) /\ IsPool(working)
  BY EmptyPoolOk, Zenon DEF NodeInit
<1>3. busy = FALSE /\ queue = << >>
  BY Zenon DEF NodeInit
<1>4. << >> \in Seq(TxId)
  OBVIOUS
<1> QED  BY <1>1, <1>2, <1>3, <1>4 DEF NodeInv, NodeTypeOK, RemovedSoFar, RequeuedSoFar

\* When no handler is at work afterwards, only the pools matter.
LEMMA IdleInv ==
  ASSUME IInv', PoolOk(pending'), PoolOk(working'), busy' = FALSE, queue' \in Seq(TxId)
  PROVE  NodeInv'
<1>1. IsPool(pending') /\ IsPool(working')
  BY DEF PoolOk
<1> QED  BY <1>1 DEF NodeInv, NodeTypeOK, RemovedSoFar, RequeuedSoFar, PoolOk

\* A handler has submitted a block and cleaned its copy of the pool.
LEMMA AcceptBlockInv ==
  ASSUME NodeInv, IInv', NEW b \in Block, AcceptBlock(b)
  PROVE  NodeInv'
<1>1. /\ pending' = pending /\ working' = remove_confirmed(pending, b)
      /\ queue' = RequeueCandidates(last_disconnected') /\ busy' = TRUE
  BY DEF AcceptBlock
<1>2. Storable(b) /\ b \in blocks'
  BY Zenon DEF AcceptBlock, SubmitOk, SubmitSide, SubmitExtend, SubmitReorg, Submitted
<1>3. is_coinbase(Txs(b)[1]) /\ Txs(b) # << >>
  BY <1>2 DEF Storable, Validates, validate_block
<1>4. PoolOk(pending)
  BY DEF NodeInv
<1>5. /\ PoolOk(working') /\ DOMAIN working' \subseteq DOMAIN pending
      /\ \A p \in DOMAIN pending \ DOMAIN working' :
           p \in Range(Txs(b)) \/ InputsOf(p) \cap Spends(b) # {}
  BY <1>1, <1>3, <1>4, RemoveConfirmed
<1>6. RemovedSoFar'
  BY <1>1, <1>2, <1>5 DEF RemovedSoFar, Mined
<1>7. last_disconnected' \in Seq(Block)
  BY DEF IInv, TypeOK
<1>8. queue' \in Seq(TxId) /\ RequeuedSoFar'
  <2> DEFINE d == last_disconnected'
  <2>1. /\ RequeueCandidates(d) \in Seq(TxId)
        /\ \A i \in DOMAIN d : \A t \in Range(Txs(d[i])) :
             ~ is_coinbase(t) => t \in Range(RequeueCandidates(d))
    <3> HIDE DEF d
    <3>1. d \in Seq(Block)
      BY <1>7 DEF d
    <3> QED  BY <3>1, CandidatesFacts
  <2> QED  BY <1>1, <2>1 DEF RequeuedSoFar, Wanted
<1>9. IsPool(pending') /\ IsPool(working') /\ busy' \in BOOLEAN /\ PoolOk(pending')
  BY <1>1, <1>4, <1>5 DEF PoolOk
<1> QED  BY <1>1, <1>4, <1>5, <1>6, <1>8, <1>9 DEF NodeInv, NodeTypeOK, PoolOk

\* One disconnected transaction is offered to the pool.
LEMMA RequeueInv ==
  ASSUME NodeInv, Requeue
  PROVE  NodeInv'
<1> DEFINE t == Head(queue)
           s == seed_utxos_for_tx(utxo, t)
<1>1. /\ busy /\ queue # << >> /\ working' \in add(working, s, t, TipHeight)
      /\ queue' = Tail(queue) /\ UNCHANGED <<vars, pending, busy>>
  BY DEF Requeue
<1>2. /\ queue \in Seq(TxId) /\ PoolOk(pending) /\ PoolOk(working) /\ IInv /\ IsUtxoSet(utxo)
      /\ busy \in BOOLEAN
  BY DEF NodeInv, NodeTypeOK, IInv, TypeOK
<1>3. t \in TxId /\ queue' \in Seq(TxId) /\ Range(queue) = {t} \cup Range(queue')
  BY <1>1, <1>2, RangeHeadTail
<1> HIDE DEF t
<1>4. /\ IsUtxoSet(s)
      /\ validate_transaction(utxo, t, TipHeight) =>
           validate_transaction(s, t, TipHeight) /\ fee(s, t) = fee(utxo, t)
  BY <1>2, <1>3, SeedFacts
<1> HIDE DEF s
<1>5. /\ PoolOk(working')
      /\ Full(working) => Full(working')
      /\ ~ Full(working) => /\ DOMAIN working \subseteq DOMAIN working'
                            /\ Admissible(working, s, t, TipHeight) => t \in DOMAIN working'
  BY <1>1, <1>2, <1>3, <1>4, AddPool
<1>6. RemovedSoFar'
  <2>1. blocks' = blocks /\ pending' = pending
    BY <1>1 DEF vars, db
  <2>2. \A p \in DOMAIN pending \ DOMAIN working : Full(working) \/ Mined(p)
    BY <1>1 DEF NodeInv, RemovedSoFar
  <2> QED  BY <1>5, <2>1, <2>2 DEF RemovedSoFar, Mined
<1>7. RequeuedSoFar'
  <2>1. last_disconnected' = last_disconnected /\ utxo' = utxo /\ tip_cache' = tip_cache
    BY <1>1 DEF vars, db
  <2>2. TipHeight' = TipHeight
    BY <2>1 DEF TipHeight
  <2>3. \A x : Wanted(x)' <=> Wanted(x)
    BY <2>1, <2>2 DEF Wanted
  <2> SUFFICES ASSUME NEW i \in DOMAIN last_disconnected,
                      NEW x \in Range(Txs(last_disconnected[i])), Wanted(x)
               PROVE  \/ x \in Range(queue') \/ x \in DOMAIN working'
                      \/ conflicts_with_pending(working', x) \/ Full(working')
    BY <2>1, <2>3 DEF RequeuedSoFar
  <2>4. \/ x \in Range(queue) \/ x \in DOMAIN working
        \/ conflicts_with_pending(working, x) \/ Full(working)
    BY <1>1 DEF NodeInv, RequeuedSoFar
  <2>5. CASE Full(working)
    BY <1>5, <2>5
  <2>6. CASE ~ Full(working)
    <3>1. DOMAIN working \subseteq DOMAIN working'
      BY <1>5, <2>6
    <3>2. conflicts_with_pending(working, x) => conflicts_with_pending(working', x)
      BY <3>1 DEF conflicts_with_pending
    <3>3. CASE x = t
      <4>1. \/ Admissible(working, s, t, TipHeight) \/ t \in DOMAIN working
            \/ conflicts_with_pending(working, t)
        BY <1>4, <3>3 DEF Admissible, Wanted
      <4> QED  BY <1>5, <2>6, <3>1, <3>2, <3>3, <4>1
    <3>4. CASE x # t
      BY <1>3, <2>4, <2>6, <3>1, <3>2, <3>4
    <3> QED  BY <3>3, <3>4
  <2> QED  BY <2>5, <2>6
<1>8. IInv'
  <2>1. [Next]_vars
    BY <1>1
  <2> QED  BY <1>2, <2>1, NextIInv
<1> QED  BY <1>1, <1>2, <1>3, <1>5, <1>6, <1>7, <1>8 DEF NodeInv, NodeTypeOK, PoolOk

\* A transaction arrives.
LEMMA AcceptTxInv ==
  ASSUME NodeInv, IInv', NEW t \in TxId, AcceptTx(t) \/ CrashInSave(t)
  PROVE  NodeInv'
<1> DEFINE s == seed_utxos_for_tx(SyncedUtxo, t)
<1>1. /\ PoolOk(pending) /\ PoolOk(working) /\ queue \in Seq(TxId) /\ IInv
      /\ busy \in BOOLEAN
  BY DEF NodeInv, NodeTypeOK
<1>2. IsUtxoSet(s)
  BY <1>1, Synced, SeedFacts
<1> HIDE DEF s
<1>3. /\ pending' \in add(pending, s, t, TipHeight) \/ pending' = EmptyPool
      /\ busy' = FALSE /\ working' = working /\ queue' = queue
  BY <1>1 DEF AcceptTx, CrashInSave, s
<1>4. PoolOk(pending')
  BY <1>1, <1>2, <1>3, AddPool, EmptyPoolOk
<1> QED  BY <1>1, <1>3, <1>4, IdleInv

\* A handler ends, or a step leaves the mempool alone.
LEMMA OtherInv ==
  ASSUME NodeInv, IInv',
         \/ SaveMempool \/ CrashInHandler \/ ChainOnly
         \/ \E b \in Block : RejectBlock(b) \/ CrashInSubmit(b)
  PROVE  NodeInv'
<1>1. /\ PoolOk(pending) /\ PoolOk(working) /\ queue \in Seq(TxId) /\ busy \in BOOLEAN
      /\ PoolOk(EmptyPool) /\ << >> \in Seq(TxId)
  BY EmptyPoolOk DEF NodeInv, NodeTypeOK
<1>2. /\ pending' \in {pending, working, EmptyPool} /\ working' \in {working, EmptyPool}
      /\ busy' = FALSE /\ queue' \in {queue, << >>}
  <2>1. CASE SaveMempool \/ CrashInHandler
    BY <2>1 DEF SaveMempool, CrashInHandler, Idle
  <2>2. CASE ChainOnly \/ \E b \in Block : RejectBlock(b) \/ CrashInSubmit(b)
    BY <1>1, <2>2 DEF ChainOnly, RejectBlock, CrashInSubmit, pool_vars
  <2> QED  BY <2>1, <2>2
<1>3. PoolOk(pending') /\ PoolOk(working') /\ queue' \in Seq(TxId)
  BY <1>1, <1>2
<1> QED  BY <1>2, <1>3, IdleInv

LEMMA NodeNextInv == NodeInv /\ [NodeNext]_node_vars => NodeInv'
<1> SUFFICES ASSUME NodeInv, [NodeNext]_node_vars PROVE NodeInv'
  OBVIOUS
<1>1. IInv'
  BY NodeStepIsChainStep, NextIInv DEF NodeInv
<1>2. CASE UNCHANGED node_vars
  BY <1>1, <1>2 DEF node_vars, vars, db, pool_vars, NodeInv, NodeTypeOK, PoolOk, RemovedSoFar,
              Mined, RequeuedSoFar, Wanted, TipHeight
<1>3. CASE NodeNext
  BY <1>1, <1>3, AcceptBlockInv, RequeueInv, AcceptTxInv, OtherInv DEF NodeNext
<1> QED  BY <1>2, <1>3

\* The invariant of the mempool and of the handlers at work on it holds in every
\* reachable state of a node.
THEOREM NodeInvariance == NodeSpec => []NodeInv
BY NodeInitInv, NodeNextInv, PTL DEF NodeSpec

-----------------------------------------------------------------------------
\* What follows

\* The files and copies of the mempool have their types: fees are natural numbers,
\* whatever amounts the transactions carry.
THEOREM NodeTypeCorrect == NodeSpec => []NodeTypeOK
<1>1. NodeInv => NodeTypeOK
  BY DEF NodeInv
<1> QED  BY <1>1, NodeInvariance, PTL

\* add and requeue_reorged_transactions never let two transactions in that spend
\* the same output.
THEOREM PendingNeverConflict == NodeSpec => []NoPendingConflict
<1>1. NodeInv => NoPendingConflict
  BY DEF NodeInv, PoolOk, NoPendingConflict
<1> QED  BY <1>1, NodeInvariance, PTL

\* The pool stays within MAX_MEMPOOL_TXS and above the relay fee, evictions and
\* requeues included.
THEOREM PoolStaysWithinLimits == NodeSpec => []PoolWithinLimits
<1>1. NodeInv => PoolWithinLimits
  BY DEF NodeInv, PoolOk, PoolWithinLimits
<1> QED  BY <1>1, NodeInvariance, PTL

\* A block handler takes nothing out of the mempool but what a stored block confirms
\* or outspends, or what a full pool gives up for a better paying transaction.
THEOREM NothingElseRemoved == NodeSpec => RemovedOnlyIfMined
<1>1. NodeInv /\ [NodeNext]_node_vars =>
        [SaveMempool =>
         \A p \in DOMAIN pending \ DOMAIN pending' :
            \/ Full(pending')
            \/ \E b \in blocks : \/ p \in Range(Txs(b))
                                 \/ InputsOf(p) \cap Spends(b) # {}]_node_vars
  <2> SUFFICES ASSUME NodeInv, SaveMempool, NEW p \in DOMAIN pending \ DOMAIN pending'
               PROVE  \/ Full(pending')
                      \/ \E b \in blocks : \/ p \in Range(Txs(b))
                                           \/ InputsOf(p) \cap Spends(b) # {}
    OBVIOUS
  <2>1. busy /\ pending' = working
    BY DEF SaveMempool
  <2> QED  BY <2>1 DEF NodeInv, RemovedSoFar, Mined
<1> QED  BY <1>1, NodeInvariance, PTL DEF NodeSpec, RemovedOnlyIfMined

\* When the handler of a block that reorganised the chain is done, the transactions
\* of the disconnected blocks that are still worth it are pending again.
THEOREM OrphansComeBack == NodeSpec => OrphansRequeued
<1>1. NodeInv /\ [NodeNext]_node_vars =>
        [SaveMempool =>
         \A i \in DOMAIN last_disconnected : \A t \in Range(Txs(last_disconnected[i])) :
            /\ ~ is_coinbase(t)
            /\ validate_transaction(utxo, t, TipHeight)
            /\ fee(utxo, t) >= MinRelayFee
            => \/ t \in DOMAIN pending'
               \/ conflicts_with_pending(pending', t)
               \/ Full(pending')]_node_vars
  <2> SUFFICES ASSUME NodeInv, SaveMempool, NEW i \in DOMAIN last_disconnected,
                      NEW t \in Range(Txs(last_disconnected[i])), Wanted(t)
               PROVE  \/ t \in DOMAIN pending'
                      \/ conflicts_with_pending(pending', t)
                      \/ Full(pending')
    BY DEF Wanted
  <2>1. busy /\ pending' = working /\ queue = << >>
    BY DEF SaveMempool
  <2>2. Range(queue) = {}
    BY <2>1 DEF Range
  <2> QED  BY <2>1, <2>2 DEF NodeInv, RequeuedSoFar
<1> QED  BY <1>1, NodeInvariance, PTL DEF NodeSpec, OrphansRequeued


-----------------------------------------------------------------------------
\* Templates

\* What validates at a height validates at a later one: maturity and time locks
\* only open.
LEMMA ValidLater ==
  ASSUME NEW u, IsUtxoSet(u), NEW t \in TxId, NEW h \in Nat, NEW g \in Nat, h <= g,
         TxOk(seed_utxos_for_tx(u, t), t, h)
  PROVE  TxOk(u, t, g)
<1> DEFINE s == seed_utxos_for_tx(u, t)
           In == Tx[t].inputs
<1>1. DOMAIN s \subseteq DOMAIN u /\ \A op \in DOMAIN s : s[op] = u[op]
  BY DEF seed_utxos_for_tx, Restrict
<1>2. Tx[t].lock \in Nat
  BY TxAssumption DEF Transaction
<1>3. \A op \in DOMAIN u : u[op].created_height \in Nat
  BY DEF IsUtxoSet, UtxoEntry
<1>4. \A j \in DOMAIN In : In[j] \in DOMAIN s
  BY DEF TxOk, InputOk
<1>5. ASSUME NEW j \in DOMAIN In PROVE InputOk(u, t, In[j], g)
  <2>1. InputOk(s, t, In[j], h)
    BY DEF TxOk
  <2>2. In[j] \in DOMAIN u /\ s[In[j]] = u[In[j]] /\ Maturity \in Nat
    BY <1>1, <1>4, ParamsAssumption
  <2>3. u[In[j]].coinbase => g >= u[In[j]].created_height + Maturity
    <3>1. u[In[j]].coinbase => h >= u[In[j]].created_height + Maturity
      BY <2>1, <2>2 DEF InputOk
    <3>2. u[In[j]].created_height + Maturity \in Nat
      BY <1>3, <2>2
    <3> QED  BY <3>1, <3>2
  <2>4. Tx[t].unlocks /\ g >= Tx[t].lock
    BY <1>2, <2>1 DEF InputOk
  <2> QED  BY <2>2, <2>3, <2>4 DEF InputOk
<1>6. [j \in DOMAIN In |-> s[In[j]].value] = [j \in DOMAIN In |-> u[In[j]].value]
  BY <1>1, <1>4
<1>7. input_sum(s, t) = input_sum(u, t)
  BY <1>6 DEF input_sum
<1>8. total_output_atoms(t) <= input_sum(s, t)
  BY DEF TxOk
<1> QED  BY <1>5, <1>7, <1>8 DEF TxOk

\* The selection of a sound pool is a sequence of transactions without conflicts.
LEMMA SelectionFacts ==
  ASSUME NEW m, PoolOk(m), NEW s \in select_for_block(m)
  PROVE  s \in Seq(TxId) /\ Apart(s)
<1> DEFINE n == Cardinality(DOMAIN m)
<1>1. PICK q \in SetToSeqs(DOMAIN m) : s = Taken(q)
  BY DEF select_for_block, FeeOrders
<1>2. q \in [1 .. n -> DOMAIN m]
  BY DEF SetToSeqs
<1>3. n \in Nat /\ DOMAIN m \subseteq TxId
  BY FS_CardinalityType DEF PoolOk, IsPool
<1> HIDE DEF n
<1>4. q \in Seq(TxId)
  BY <1>2, <1>3
<1> QED  BY <1>1, <1>4, TakenFacts

\* The payments of a template and their fees, as apply_block meets them.
LEMMA TailFacts ==
  ASSUME NEW T \in Seq(TxId), T # << >>, NEW k, k = Tail(T)
  PROVE  /\ Len(T) \in Nat \ {0} /\ DOMAIN T = 1 .. Len(T)
         /\ DOMAIN k = 1 .. Len(T) - 1
         /\ \A i \in 2 .. Len(T) : i - 1 \in DOMAIN k /\ T[i] = k[i - 1] /\ T[i] \in TxId
         /\ \A i \in DOMAIN k : i + 1 \in 2 .. Len(T) /\ k[i] = T[i + 1]
<1>1. /\ Len(T) \in Nat \ {0} /\ DOMAIN T = 1 .. Len(T)
      /\ k \in Seq(TxId) /\ Len(k) = Len(T) - 1
      /\ \A i \in 1 .. Len(T) - 1 : k[i] = T[i + 1]
  OBVIOUS
<1>2. DOMAIN k = 1 .. Len(T) - 1
  BY <1>1
<1>3. ASSUME NEW i \in 2 .. Len(T)
      PROVE  i - 1 \in DOMAIN k /\ T[i] = k[i - 1] /\ T[i] \in TxId
  <2>1. i - 1 \in 1 .. Len(T) - 1 /\ (i - 1) + 1 = i /\ i \in 1 .. Len(T)
    BY <1>1
  <2> QED  BY <1>1, <1>2, <2>1
<1>4. \A i \in DOMAIN k : i + 1 \in 2 .. Len(T) /\ k[i] = T[i + 1]
  BY <1>1, <1>2
<1> QED  BY <1>1, <1>2, <1>3, <1>4

LEMMA TemplateFeesAddUp ==
  ASSUME NEW u, NEW b \in Path, Txs(b) # << >>, NEW k, k = Tail(Txs(b)),
         \A i \in 2 .. Len(Txs(b)) : fee(u, Txs(b)[i]) \in Nat
  PROVE  /\ TotalFees(u, b) = SatSum([i \in DOMAIN k |-> fee(u, k[i])])
         /\ SumFunctionOnSet(Fees(u, b), 2 .. Len(Txs(b))) \in Nat
         /\ TotalFees(u, b) = Saturate(SumFunctionOnSet(Fees(u, b), 2 .. Len(Txs(b))))
<1> DEFINE T == Txs(b)
           N == Len(T)
           S == DOMAIN k
           f == Fees(u, b)
           e == [i \in S |-> fee(u, k[i])]
           g == [i \in S |-> i + 1]
<1>1. T \in Seq(TxId) /\ T # << >>
  BY PathFacts
<1>2. /\ N \in Nat \ {0} /\ S = 1 .. N - 1
      /\ \A i \in 2 .. N : i - 1 \in S
      /\ \A i \in S : i + 1 \in 2 .. N /\ k[i] = T[i + 1]
  BY <1>1, TailFacts
<1>3. IsFiniteSet(S)
  <2>1. \A n \in Nat : IsFiniteSet(1 .. n)
    BY FS_Interval
  <2>2. N - 1 \in Nat
    BY <1>2
  <2> QED  BY <1>2, <2>1, <2>2
<1>4. Values(g, S) = 2 .. N
  <2>1. \A i \in S : g[i] \in 2 .. N
    BY <1>2
  <2>2. \A i \in 2 .. N : i - 1 \in S /\ i = g[i - 1]
    BY <1>2
  <2> HIDE DEF g
  <2> QED  BY <2>1, <2>2 DEF Values
<1>5. PullsBack(e, f, g, S)
  <2>1. ASSUME NEW i \in S PROVE f[g[i]] \in Nat /\ e[i] = f[g[i]]
    <3>1. i + 1 \in 2 .. N /\ k[i] = T[i + 1] /\ fee(u, T[i + 1]) \in Nat
      BY <1>2
    <3>2. f[i + 1] = fee(u, T[i + 1])
      BY <3>1 DEF Fees
    <3> QED  BY <3>1, <3>2
  <2>2. ASSUME NEW i \in S, NEW j \in S, g[i] = g[j] PROVE i = j
    BY <1>2, <2>2
  <2> HIDE DEF g, e, f, S
  <2> QED  BY <2>1, <2>2 DEF PullsBack
<1>6. TotalFees(u, b) = Saturate(SumFunctionOnSet(f, 2 .. N))
  BY DEF TotalFees, SatSum, SumFunction, Fees
<1>7. SatSum(e) = Saturate(SumFunctionOnSet(e, S))
  BY DEF SatSum, SumFunction
<1> HIDE DEF f, e, g, S, N
<1>8. /\ SumFunctionOnSet(f, Values(g, S)) = SumFunctionOnSet(e, S)
      /\ SumFunctionOnSet(f, Values(g, S)) \in Nat
  BY <1>3, <1>5, SumImage, Zenon
<1>9. TotalFees(u, b) = SatSum(e) /\ SumFunctionOnSet(f, 2 .. N) \in Nat
  BY <1>4, <1>6, <1>7, <1>8, Zenon
<1> QED  BY <1>6, <1>9, Zenon DEF f, e, S, N

LEMMA TemplateIsValid ==
  ASSUME NodeInv, NEW b \in Block, FromTemplate(b)
  PROVE  validate_block_utxo(SyncedUtxo, b)
<1> DEFINE u == SyncedUtxo
           T == Txs(b)
           N == Len(T)
           k == Tail(T)
           h == TipHeight
<1>1. b \in Path /\ T \in Seq(TxId) /\ IsUtxoSet(u) /\ u \in Utxos
  BY BlockIsPath, PathFacts, Synced, UtxosAreUtxoSets DEF NodeInv
<1>2. /\ tip_cache # Zero /\ previous_hash(b) = tip_cache /\ T # << >>
  BY DEF FromTemplate
<1>3. h \in Nat /\ height(b) = h + 1
  <2>1. Len(b) # 1
    BY <1>1, <1>2, ParentFacts
  <2>2. tip_cache \in Path /\ height(tip_cache) = height(b) - 1
    BY <1>1, <1>2, <2>1, ParentFacts
  <2>3. height(b) \in Nat /\ height(tip_cache) \in Nat
    BY <1>1, <2>2, PathFacts
  <2> QED  BY <1>2, <2>2, <2>3 DEF TipHeight
<1>4. PICK s \in select_for_block(pending) :
        /\ k = Revalidated(s)
        /\ total_output_atoms(T[1]) = Saturate(reward_at_height(height(b)) + TemplateFees(s))
  BY DEF FromTemplate
<1>5. s \in Seq(TxId) /\ Apart(s)
  BY SelectionFacts DEF NodeInv
<1>6. /\ \A t \in Range(k) : validate_transaction(seed_utxos_for_tx(u, t), t, h)
      /\ Apart(k)
  <2> DEFINE K == {t \in Range(s) : validate_transaction(seed_utxos_for_tx(u, t), t, h)}
  <2>1. k = Kept(s, K)
    BY <1>4 DEF Revalidated
  <2>2. \A t \in K : validate_transaction(seed_utxos_for_tx(u, t), t, h)
    OBVIOUS
  <2> HIDE DEF K, k
  <2>3. Range(k) = Range(s) \cap K /\ Apart(k)
    BY <1>5, <2>1, KeptFacts
  <2> QED  BY <2>2, <2>3
<1>7. /\ N \in Nat \ {0} /\ DOMAIN k = 1 .. N - 1
      /\ \A i \in 2 .. N : i - 1 \in DOMAIN k /\ T[i] = k[i - 1] /\ T[i] \in TxId
  BY <1>1, <1>2, TailFacts
<1>8. ASSUME NEW i \in 2 .. N
      PROVE  TxOk(u, T[i], height(b)) /\ IsInjective(Tx[T[i]].inputs)
  <2>1. T[i] \in Range(k) /\ T[i] \in TxId
    BY <1>7 DEF Range
  <2>2. validate_transaction(seed_utxos_for_tx(u, T[i]), T[i], h)
    BY <1>6, <2>1
  <2>3. /\ TxOk(seed_utxos_for_tx(u, T[i]), T[i], h) /\ IsInjective(Tx[T[i]].inputs)
    BY <2>2 DEF validate_transaction
  <2>4. height(b) \in Nat /\ h <= height(b)
    BY <1>3
  <2> HIDE DEF u, T, h
  <2> QED  BY <1>1, <1>3, <2>1, <2>3, <2>4, ValidLater
<1>9. ASSUME NEW r \in InputSlots(b), NEW q \in InputSlots(b),
             SpendAt(b, r) = SpendAt(b, q)
      PROVE  r = q
  <2>1. PICK i \in 2 .. N : r \in {i} \X DOMAIN Tx[T[i]].inputs
    BY DEF InputSlots
  <2>2. PICK j \in 2 .. N : q \in {j} \X DOMAIN Tx[T[j]].inputs
    BY DEF InputSlots
  <2>3. /\ r = <<i, r[2]>> /\ r[1] = i /\ r[2] \in DOMAIN Tx[T[i]].inputs
        /\ q = <<j, q[2]>> /\ q[1] = j /\ q[2] \in DOMAIN Tx[T[j]].inputs
    BY <2>1, <2>2
  <2>4. Tx[T[i]].inputs[r[2]] = Tx[T[j]].inputs[q[2]]
    BY <1>9, <2>3 DEF SpendAt
  <2>5. i = j
    <3> SUFFICES ASSUME i # j PROVE FALSE
      OBVIOUS
    <3>1. Tx[T[i]].inputs[r[2]] \in InputsOf(T[i]) \cap InputsOf(T[j])
      BY <2>3, <2>4 DEF InputsOf, Range
    <3>2. /\ i - 1 \in DOMAIN k /\ j - 1 \in DOMAIN k /\ i - 1 # j - 1
          /\ T[i] = k[i - 1] /\ T[j] = k[j - 1]
      BY <1>7
    <3> HIDE DEF k, T
    <3> QED  BY <1>6, <3>1, <3>2 DEF Apart
  <2>6. r[2] = q[2]
    BY <1>8, <2>3, <2>4, <2>5 DEF IsInjective
  <2> QED  BY <2>3, <2>5, <2>6
<1>10. \A i \in 2 .. N : fee(u, T[i]) \in Nat
  <2>1. ASSUME NEW i \in 2 .. N PROVE fee(u, T[i]) \in Nat
    <3>1. T[i] \in TxId /\ validate_transaction(u, T[i], height(b))
      BY <1>7, <1>8 DEF validate_transaction
    <3> HIDE DEF u, T
    <3> QED  BY <1>1, <3>1, FeeType
  <2> QED  BY <2>1
<1>11. /\ TotalFees(u, b) = TemplateFees(s) /\ TotalFees(u, b) \in Nat
  <2>1. TemplateFees(s) = SatSum([i \in DOMAIN k |-> fee(u, k[i])])
    BY <1>4 DEF TemplateFees
  <2> DEFINE x == SumFunctionOnSet(Fees(u, b), 2 .. N)
  <2>2. /\ TotalFees(u, b) = SatSum([i \in DOMAIN k |-> fee(u, k[i])])
        /\ x \in Nat /\ TotalFees(u, b) = Saturate(x)
    BY <1>1, <1>2, <1>10, TemplateFeesAddUp
  <2> HIDE DEF x
  <2>3. Saturate(x) \in Nat
    BY <2>2, SaturateType
  <2> QED  BY <2>1, <2>2, <2>3, Zenon
<1>12. total_output_atoms(T[1]) <= Saturate(CoinbaseSubsidy(height(b)) + TotalFees(u, b))
  <2> DEFINE r == reward_at_height(height(b))
             f == TotalFees(u, b)
  <2>1. r \in Nat /\ f \in Nat /\ U64Max \in Nat
    BY <1>3, <1>11, RewardType, ParamsAssumption
  <2>2. CoinbaseSubsidy(height(b)) = Saturate(r + 0)
    BY <1>3 DEF CoinbaseSubsidy
  <2>3. total_output_atoms(T[1]) = Saturate(r + f)
    BY <1>4, <1>11, Zenon
  <2> HIDE DEF r, f
  <2>4. Saturate(r + f) = Saturate(Saturate(r + 0) + f) /\ Saturate(r + f) \in Nat
    BY <2>1 DEF Saturate
  <2> QED  BY <2>2, <2>3, <2>4 DEF f
<1>13. ApplyOk(u, b)
  <2>1. \A r, q \in InputSlots(b) : r # q => SpendAt(b, r) # SpendAt(b, q)
    BY <1>9
  <2>2. \A i \in 2 .. Len(Txs(b)) : TxOk(u, Txs(b)[i], height(b))
    BY <1>8
  <2> QED  BY <1>2, <1>12, <2>1, <2>2, Zenon DEF ApplyOk
<1>14. apply_block(u, b).ok
  BY <1>13 DEF apply_block
<1> QED  BY <1>1, <1>14, FastPath

\* Whatever the mempool file went through, submit_block accepts the transactions
\* of a block that a miner makes of a template of /getblocktemplate.
THEOREM TemplatesAreAccepted == NodeSpec => []TemplateAccepted
<1>1. NodeInv => TemplateAccepted
  BY TemplateIsValid DEF TemplateAccepted
<1> QED  BY <1>1, NodeInvariance, PTL

-----------------------------------------------------------------------------
\* The steps of a sync

\* A step that leaves the node alone, or is one of its handlers'.
LEMMA NodeKeepsInv ==
  ASSUME NodeInv, [NodeNext]_node_vars PROVE NodeInv' /\ [Next]_vars
BY NodeNextInv, NodeStepIsChainStep

\* A step of the chain while no handler is at work.
LEMMA ChainStepInv ==
  ASSUME NodeInv, [Next]_vars, ~ busy, UNCHANGED pool_vars
  PROVE  NodeInv'
<1>1. IInv'
  BY NextIInv DEF NodeInv
<1>2. PoolOk(pending') /\ PoolOk(working') /\ busy' = FALSE /\ queue' \in Seq(TxId)
  BY DEF pool_vars, NodeInv, NodeTypeOK
<1> QED  BY <1>1, <1>2, IdleInv

\* The requeue a sync ends with starts from the pool in the file.
LEMMA BeginRequeueInv ==
  ASSUME NodeInv, BeginRequeue
  PROVE  NodeInv' /\ [Next]_vars
<1>1. /\ busy' = TRUE /\ working' = pending /\ pending' = pending
      /\ queue' = RequeueCandidates(last_disconnected) /\ UNCHANGED vars
  BY DEF BeginRequeue
<1>2. PoolOk(pending) /\ IInv /\ last_disconnected \in Seq(Block)
  BY DEF NodeInv, IInv, TypeOK
<1>3. IInv'
  BY <1>1, <1>2, NextIInv
<1>4. /\ queue' \in Seq(TxId)
      /\ \A i \in DOMAIN last_disconnected : \A t \in Range(Txs(last_disconnected[i])) :
           ~ is_coinbase(t) => t \in Range(queue')
  BY <1>1, <1>2, CandidatesFacts
<1>5. RequeuedSoFar'
  BY <1>1, <1>4 DEF RequeuedSoFar, Wanted, vars
<1>6. RemovedSoFar'
  BY <1>1 DEF RemovedSoFar
<1>7. IsPool(pending') /\ IsPool(working') /\ busy' \in BOOLEAN
      /\ PoolOk(pending') /\ PoolOk(working')
  BY <1>1, <1>2 DEF PoolOk
<1> QED  BY <1>1, <1>3, <1>4, <1>5, <1>6, <1>7 DEF NodeInv, NodeTypeOK

\* A peer answers with blocks of its chain.
LEMMA BlocksFromType ==
  ASSUME SyncInv PROVE BlocksFrom(fetch_from) \in Seq(Block)
<1> DEFINE left == Len(peer) - fetch_from
           n == IF left < SyncBatchSize THEN left ELSE SyncBatchSize
<1>1. Len(peer) \in Nat /\ fetch_from \in Nat /\ SyncBatchSize \in Nat
  BY SyncAssumption, BlockIsPath, PathFacts DEF SyncInv
<1>2. \A k \in 1 .. Len(peer) : SubSeq(peer, 1, k) \in Block
  BY DEF SyncInv, PeerChain
<1>3. \A i \in 1 .. n : fetch_from + i \in 1 .. Len(peer)
  BY <1>1
<1>4. BlocksFrom(fetch_from) = [i \in 1 .. n |-> SubSeq(peer, 1, fetch_from + i)]
  BY DEF BlocksFrom
<1>5. n \in Int
  BY <1>1
<1> HIDE DEF n, left
<1>6. \A i \in 1 .. n : SubSeq(peer, 1, fetch_from + i) \in Block
  BY <1>2, <1>3
<1>7. CASE n \in Nat
  BY <1>4, <1>6, <1>7
<1>8. CASE n \notin Nat
  <2>1. 1 .. n = {}
    BY <1>5, <1>8
  <2>2. BlocksFrom(fetch_from) = << >>
    BY <1>4, <2>1
  <2> QED  BY <2>2
<1> QED  BY <1>7, <1>8

LEMMA TipHeightType == ASSUME IInv PROVE TipHeight \in Nat
BY BlockIsPath, PathFacts DEF TipHeight, IInv, TypeOK

\* A submission of the next block of a batch.
LEMMA SubmitIsStep ==
  ASSUME NEW b \in Block,
         SubmitOk(b) \/ SubmitErr(b) \/ SubmitAlreadyKnown(b)
         \/ SubmitUnknownParent(b) \/ SubmitCrash(b)
  PROVE  [Next]_vars
BY DEF SubmitOk, SubmitErr, Next, SubmitBlock

\* A step of a sync is a step of the chain.
LEMMA SyncStepInv ==
  ASSUME SyncInv, [SyncNext]_sync_vars
  PROVE  SyncInv' /\ [Next]_vars
<1>1. /\ NodeInv /\ IInv /\ peer \in Block /\ PeerChain(peer) /\ fetch_from \in Nat
      /\ batch \in Seq(Block) /\ (phase # "idle" => ~ busy)
      /\ TipHeight + 1 \in Nat /\ << >> \in Seq(Block)
  BY TipHeightType DEF SyncInv, NodeInv
<1>2. batch # << >> => Head(batch) \in Block /\ Tail(batch) \in Seq(Block)
  BY <1>1
<1> DEFINE Loop == /\ peer' \in Block /\ PeerChain(peer')
                   /\ phase' # "idle" => ~ busy'
                   /\ fetch_from' \in Nat /\ batch' \in Seq(Block)
<1>3. SUFFICES NodeInv' /\ [Next]_vars /\ Loop
  BY DEF SyncInv, PeerChain
<1>4. CASE UNCHANGED sync_vars
  <2>1. UNCHANGED node_vars /\ Loop
    BY <1>1, <1>4 DEF sync_vars, loop_vars, node_vars, pool_vars
  <2> QED  BY <1>1, <2>1, NodeKeepsInv
<1>5. CASE NodeNext /\ NodeStep
  <2>1. Loop
    BY <1>1, <1>5 DEF NodeStep, loop_vars
  <2> QED  BY <1>1, <1>5, <2>1, NodeKeepsInv
<1>6. CASE PeerAdvances
  <2>1. UNCHANGED node_vars /\ Loop
    BY <1>1, <1>6 DEF PeerAdvances, loop_vars, node_vars, pool_vars
  <2> QED  BY <1>1, <2>1, NodeKeepsInv
<1>7. CASE SyncStart
  <2>1. Reopen /\ ~ busy /\ UNCHANGED pool_vars
    BY <1>7 DEF SyncStart
  <2>2. Loop
    BY <1>1, <1>7 DEF SyncStart, pool_vars
  <2>3. [Next]_vars
    BY <2>1 DEF Next
  <2> QED  BY <1>1, <2>1, <2>2, <2>3, ChainStepInv
<1>8. CASE SyncFetch
  <2>1. UNCHANGED node_vars
    BY <1>8 DEF SyncFetch
  <2>2. Loop
    BY <1>1, <1>8, BlocksFromType DEF SyncFetch, node_vars, pool_vars
  <2> QED  BY <1>1, <2>1, <2>2, NodeKeepsInv
<1>9. CASE SyncFetchNothing \/ SyncPeerLocked
  <2>1. BeginRequeue /\ Loop
    BY <1>1, <1>9 DEF SyncFetchNothing, SyncPeerLocked, BeginRequeue
  <2> QED  BY <1>1, <2>1, BeginRequeueInv
<1>10. CASE SyncApply \/ SyncBacktrack \/ SyncError
  <2>1. /\ ~ busy /\ batch # << >> /\ UNCHANGED pool_vars /\ UNCHANGED peer
        /\ \/ SubmitOk(Head(batch)) \/ SubmitErr(Head(batch))
           \/ SubmitAlreadyKnown(Head(batch)) \/ SubmitUnknownParent(Head(batch))
    BY <1>1, <1>10 DEF SyncApply, SyncBacktrack, SyncError
  <2>2. [Next]_vars
    BY <1>2, <2>1, SubmitIsStep
  <2>3. /\ fetch_from' = fetch_from \/ (fetch_from > 1 /\ fetch_from' = fetch_from - 1)
        /\ batch' \in {Tail(batch), << >>}
    <3>1. CASE SyncApply \/ SyncError
      BY <3>1 DEF SyncApply, SyncError
    <3>2. CASE SyncBacktrack
      BY <3>2, Zenon DEF SyncBacktrack
    <3> QED  BY <1>10, <3>1, <3>2
  <2>4. Loop
    <3>1. fetch_from' \in Nat
      BY <1>1, <2>3
    <3>2. batch' \in Seq(Block)
      BY <1>1, <1>2, <2>1, <2>3, Zenon
    <3>3. ~ busy' /\ peer' \in Block /\ PeerChain(peer')
      BY <1>1, <2>1, Zenon DEF pool_vars
    <3> QED  BY <3>1, <3>2, <3>3
  <2> QED  BY <1>1, <2>1, <2>2, <2>4, ChainStepInv
<1>11. CASE SyncNextBatch
  <2>1. Loop
    BY <1>1, <1>11 DEF SyncNextBatch, BeginRequeue, node_vars, pool_vars
  <2>2. BeginRequeue \/ UNCHANGED node_vars
    BY <1>11 DEF SyncNextBatch
  <2> QED  BY <1>1, <2>1, <2>2, BeginRequeueInv, NodeKeepsInv
<1>12. CASE SyncExit \/ SyncAborted
  <2>1. /\ ~ busy /\ UNCHANGED pool_vars /\ UNCHANGED <<peer, fetch_from>>
        /\ Reopen \/ (batch # << >> /\ SubmitCrash(Head(batch)))
        /\ batch' \in {batch, << >>}
    BY <1>1, <1>12 DEF SyncExit, SyncAborted, Ended
  <2>2. [Next]_vars
    <3>1. Reopen => Next
      BY DEF Next
    <3> QED  BY <1>2, <2>1, <3>1, SubmitIsStep
  <2>3. Loop
    BY <1>1, <2>1 DEF pool_vars
  <2> QED  BY <1>1, <2>1, <2>2, <2>3, ChainStepInv
<1> QED  BY <1>4, <1>5, <1>6, <1>7, <1>8, <1>9, <1>10, <1>11, <1>12 DEF SyncNext, SyncLoop

LEMMA SyncInitInv == SyncInit => SyncInv
<1> SUFFICES ASSUME SyncInit PROVE SyncInv
  OBVIOUS
<1>1. NodeInv
  BY NodeInitInv DEF SyncInit
<1> QED  BY <1>1 DEF SyncInit, SyncInv

\* The invariant holds of a node that also syncs from peers, whatever their answers.
THEOREM SyncInvariance == SyncSpec => []SyncInv
<1>1. SyncInv /\ [SyncNext]_sync_vars => SyncInv'
  BY SyncStepInv
<1> QED  BY <1>1, SyncInitInv, PTL DEF SyncSpec

\* What sync_from_peer and sync_blocks do to the database is what ChainState says, with
\* any peer, batch size and fork depth, so that its theorems hold of a node that syncs.
THEOREM SyncImplementsChainState == SyncSpec => Spec
<1>1. SyncInit => Init
  BY DEF SyncInit, NodeInit
<1>2. SyncInv /\ [SyncNext]_sync_vars => [Next]_vars
  BY SyncStepInv
<1> QED  BY <1>1, <1>2, SyncInvariance, PTL DEF SyncSpec, Spec

\* The requeue after a sync lets no two transactions in that spend the same output,
\* keeps to MAX_MEMPOOL_TXS and the relay fee, and leaves templates valid.
THEOREM SyncKeepsPool ==
  SyncSpec => [](NoPendingConflict /\ PoolWithinLimits /\ TemplateAccepted)
<1>1. SyncInv => NoPendingConflict /\ PoolWithinLimits
  BY DEF SyncInv, NodeInv, PoolOk, NoPendingConflict, PoolWithinLimits
<1>2. SyncInv => TemplateAccepted
  <2>1. SyncInv => NodeInv
    BY DEF SyncInv
  <2> QED  BY <2>1, TemplateIsValid DEF TemplateAccepted
<1> QED  BY <1>1, <1>2, SyncInvariance, PTL

-----------------------------------------------------------------------------
\* Peers: ban lists

LEMMA EmptyListFacts == IsBanList(EmptyList) /\ DOMAIN EmptyList = {}
BY DEF IsBanList, EmptyList

\* A part of a list is a list.
LEMMA RestrictList ==
  ASSUME NEW l, IsBanList(l), NEW S \in SUBSET DOMAIN l
  PROVE  /\ IsBanList(Restrict(l, S)) /\ DOMAIN Restrict(l, S) = S
         /\ \A i \in S : Restrict(l, S)[i] = l[i]
BY DEF IsBanList, Restrict

LEMMA SaturatingAddType ==
  ASSUME NEW a \in 0 .. ScoreMax, NEW b \in Nat \ {0}
  PROVE  SaturatingAdd(a, b) \in 1 .. ScoreMax
BY PeersAssumption DEF SaturatingAdd

LEMMA NewScoreType ==
  ASSUME NEW l, IsBanList(l), NEW ip, NEW s \in Nat \ {0}
  PROVE  NewScore(l, ip, s) \in 1 .. ScoreMax
<1>1. ip \in DOMAIN l => l[ip].score \in 0 .. ScoreMax
  BY DEF IsBanList, BanEntry
<1>2. 0 \in 0 .. ScoreMax
  BY PeersAssumption
<1> QED  BY <1>1, <1>2, SaturatingAddType DEF NewScore

\* record changes the entry of one address.
LEMMA RecordFacts ==
  ASSUME NEW l, IsBanList(l), NEW ip \in Ip, NEW s \in Nat \ {0}, now \in Nat
  PROVE  /\ IsBanList(record(l, ip, s))
         /\ DOMAIN record(l, ip, s) = DOMAIN l \cup {ip}
         /\ \A i \in DOMAIN l \ {ip} : record(l, ip, s)[i] = l[i]
         /\ record(l, ip, s)[ip].score = NewScore(l, ip, s)
         /\ record(l, ip, s)[ip].until
              = IF Imposes(l, ip, s) THEN now + BanDuration
                ELSE IF ip \in DOMAIN l THEN l[ip].until ELSE 0
<1> DEFINE until == IF Imposes(l, ip, s) THEN now + BanDuration
                    ELSE IF ip \in DOMAIN l THEN l[ip].until ELSE 0
<1>1. NewScore(l, ip, s) \in 1 .. ScoreMax
  BY NewScoreType
<1>2. until \in Nat
  BY PeersAssumption DEF IsBanList, BanEntry
<1>3. record(l, ip, s) = [i \in DOMAIN l \cup {ip} |->
          IF i # ip THEN l[i] ELSE [score |-> NewScore(l, ip, s), until |-> until]]
  BY DEF record
<1>4. [score |-> NewScore(l, ip, s), until |-> until] \in BanEntry
  BY <1>1, <1>2 DEF BanEntry
<1> HIDE DEF until
<1>5. IsBanList(record(l, ip, s))
  BY <1>3, <1>4 DEF IsBanList
<1> QED  BY <1>3, <1>5 DEF until

-----------------------------------------------------------------------------
\* Pruning keeps a list in agreement.
LEMMA PruneAgrees ==
  ASSUME PeersTypeOK, NEW l, IsBanList(l), NEW ip \in Ip, Agrees(l, ip)
  PROVE  /\ Agrees(prune_expired(l), ip)
         /\ ip \in DOMAIN prune_expired(l) =>
              l[ip].until = 0 \/ l[ip].until > now
<1> DEFINE S == {i \in DOMAIN l : l[i].until = 0 \/ l[i].until > now}
<1>1. /\ prune_expired(l) = Restrict(l, S) /\ DOMAIN prune_expired(l) = S
      /\ \A i \in S : prune_expired(l)[i] = l[i]
  BY RestrictList DEF prune_expired
<1>2. ip \in DOMAIN l => l[ip].until \in Nat
  BY DEF IsBanList, BanEntry
<1> QED  BY <1>1, <1>2 DEF Agrees, PeersTypeOK

\* A charge on a list that agrees and has been pruned.
LEMMA RecordAgrees ==
  ASSUME PeersTypeOK, NEW p, IsBanList(p), \A i \in Ip : Agrees(p, i),
         NEW ip \in Ip, NEW s \in Nat \ {0}, NEW q, q = record(p, ip, s)
  PROVE  /\ \A i \in Ip \ {ip} : Agrees(q, i)
         /\ ip \in DOMAIN q
         /\ q[ip].until = 0 => /\ served[ip] <= now /\ q[ip].score < BanThreshold
                               /\ q[ip].score = SaturatingAdd(owed[ip], s)
<1>0. now \in Nat
  BY DEF PeersTypeOK
<1>3. /\ DOMAIN q = DOMAIN p \cup {ip}
      /\ \A i \in DOMAIN p \ {ip} : q[i] = p[i]
      /\ q[ip].score = NewScore(p, ip, s)
      /\ q[ip].until = IF Imposes(p, ip, s) THEN now + BanDuration
                       ELSE IF ip \in DOMAIN p THEN p[ip].until ELSE 0
  BY <1>0 DEF record, IsBanList
<1>4. ASSUME NEW i \in Ip \ {ip} PROVE Agrees(q, i)
  BY <1>3 DEF Agrees
<1>5. ASSUME q[ip].until = 0
      PROVE  /\ served[ip] <= now /\ q[ip].score < BanThreshold
             /\ q[ip].score = SaturatingAdd(owed[ip], s)
  <2>1. ~ Imposes(p, ip, s) /\ (ip \in DOMAIN p => p[ip].until = 0)
    BY <1>0, <1>3, <1>5, PeersAssumption
  <2>2. ~ is_banned(p, ip)
    BY <1>0, <2>1 DEF is_banned
  <2>3. q[ip].score < BanThreshold
    <3>1. NewScore(p, ip, s) \in 1 .. ScoreMax
      BY NewScoreType
    <3> QED  BY <1>3, <2>1, <2>2, <3>1, PeersAssumption DEF Imposes
  <2>4. served[ip] <= now /\ NewScore(p, ip, s) = SaturatingAdd(owed[ip], s)
    BY <1>0, <2>1 DEF Agrees, NewScore
  <2> QED  BY <1>3, <2>3, <2>4
<1> QED  BY <1>3, <1>4, <1>5
-----------------------------------------------------------------------------
\* Init and the steps that leave the file alone

LEMMA FreeFacts == IsThread(Free) /\ Free.pc = "free"
BY EmptyListFacts DEF Free, IsThread

LEMMA InitPeersInv == PeersInit => PeersInv
<1> SUFFICES ASSUME PeersInit PROVE PeersInv
  OBVIOUS
<1>1. PeersTypeOK
  <2>1. served \in [Ip -> Nat] /\ owed \in [Ip -> 0 .. ScoreMax]
    BY PeersAssumption DEF PeersInit
  <2>2. DOMAIN thread = Writer /\ \A w \in Writer : IsThread(thread[w])
    BY FreeFacts DEF PeersInit
  <2>3. IsBanList(file)
    BY EmptyListFacts, Zenon DEF PeersInit
  <2>4. now \in Nat \ {0}
    BY SMT DEF PeersInit
  <2>5. torn \in BOOLEAN /\ raced \in BOOLEAN
    BY Zenon DEF PeersInit
  <2>6. IsAcceptor(acceptor) /\ peer_count \in Int /\ panicked \in Nat
    BY DEF PeersInit, Accepting, IsAcceptor
  <2> QED  BY <2>1, <2>2, <2>3, <2>4, <2>5, <2>6 DEF PeersTypeOK
<1>2. \A w \in Writer : thread[w].pc = "free"
  BY FreeFacts DEF PeersInit
<1>3. FileAgrees
  BY EmptyListFacts DEF PeersInit, FileAgrees, Agrees
<1> QED  BY <1>1, <1>2, <1>3
         DEF PeersInit, PeersInv, OneUpdate, TornWhileSaving, Updating, Writer

\* Time passes: a ban that ends now takes what is owed with it.
LEMMA TickInv == PeersInv /\ Tick => PeersInv'
<1> SUFFICES ASSUME PeersInv, Tick PROVE PeersInv'
  OBVIOUS
<1> USE DEF PeersInv, PeersTypeOK
<1>1. PeersTypeOK'
  BY PeersAssumption DEF Tick, counting
<1>2. ASSUME NEW l, IsBanList(l), NEW ip \in Ip, Agrees(l, ip)
      PROVE  /\ ip \in DOMAIN l =>
                  /\ served[ip] = l[ip].until
                  /\ l[ip].until = 0 => owed'[ip] = l[ip].score /\ owed'[ip] < BanThreshold
                  /\ l[ip].until \in 1 .. now' => owed'[ip] = 0
             /\ ip \notin DOMAIN l => owed'[ip] = 0 /\ served[ip] <= now'
  BY <1>2 DEF Tick, Agrees, IsBanList, BanEntry
<1>3. \A w \in Writer : Updating(w)' <=> Updating(w)
  BY DEF Tick, Updating
<1>4. ASSUME ~ raced
      PROVE  /\ OneUpdate' /\ TornWhileSaving' /\ FileAgrees'
             /\ \A w \in Writer : Updating(w)' => CopyAgrees(w)'
  <2>1. OneUpdate' /\ TornWhileSaving'
    BY <1>3, <1>4 DEF Tick, OneUpdate, TornWhileSaving
  <2>2. FileAgrees'
    BY <1>2, <1>4 DEF FileAgrees, Agrees, Tick
  <2>3. ASSUME NEW w \in Writer, Updating(w)' PROVE CopyAgrees(w)'
    <3>1. CopyAgrees(w) /\ IsThread(thread[w]) /\ thread[w].ip \in Ip
      BY <1>3, <1>4, <2>3 DEF IsThread, Updating
    <3>2. ASSUME NEW ip \in Ip \ {thread[w].ip} PROVE Agrees(thread[w].list, ip)'
      BY <3>1, <3>2, <1>2 DEF CopyAgrees, IsThread, Agrees, Tick
    <3>3. Charged(w)'
      BY <3>1 DEF CopyAgrees, Charged, Tick, SaturatingAdd
    <3> QED  BY <3>2, <3>3 DEF CopyAgrees, Tick
  <2> QED  BY <2>1, <2>2, <2>3
<1>5. \A c \in Conn : Updating(c)' => thread'[c].ip \in DOMAIN thread'[c].list
  BY <1>3 DEF Writer, Tick
<1>6. raced' = raced
  BY DEF Tick
<1> QED  BY <1>1, <1>4, <1>5, <1>6

\* A thread other than those that update the file changes: nothing the invariant
\* speaks of does.
LEMMA ThreadStep ==
  ASSUME PeersInv, NEW c \in Conn, ~ Updating(c), NEW t, IsThread(t),
         t.pc \in {"free", "hello", "open", "ended"}, thread' = [thread EXCEPT ![c] = t],
         IsAcceptor(acceptor'), peer_count' \in Int, panicked' \in Nat,
         UNCHANGED <<now, file, torn, served, owed, raced>>
  PROVE  PeersInv'
<1> USE DEF PeersInv, PeersTypeOK
<1>0. c \in Writer
  BY DEF Writer
<1>1. PeersTypeOK'
  BY <1>0
<1>2. \A w \in Writer : /\ Updating(w)' <=> Updating(w)
                        /\ Updating(w) => thread'[w] = thread[w]
                        /\ thread'[w].pc = "saving" <=> thread[w].pc = "saving"
  BY <1>0 DEF Updating
<1>3. ASSUME ~ raced'
      PROVE  /\ OneUpdate' /\ TornWhileSaving' /\ FileAgrees'
             /\ \A w \in Writer : Updating(w)' => CopyAgrees(w)'
  <2>1. OneUpdate' /\ TornWhileSaving'
    BY <1>2, <1>3 DEF OneUpdate, TornWhileSaving
  <2>2. FileAgrees'
    BY <1>3 DEF FileAgrees, Agrees
  <2>3. ASSUME NEW w \in Writer, Updating(w)' PROVE CopyAgrees(w)'
    <3>1. CopyAgrees(w) /\ thread'[w] = thread[w]
      BY <1>2, <1>3, <2>3
    <3> QED  BY <3>1 DEF CopyAgrees, Agrees, Charged
  <2> QED  BY <2>1, <2>2, <2>3
<1>4. \A d \in Conn : Updating(d)' => thread'[d].ip \in DOMAIN thread'[d].list
  BY <1>2 DEF Writer
<1> QED  BY <1>1, <1>3, <1>4

\* The accept loop goes on: nothing but the counter and its own state changes.
LEMMA AcceptorStep ==
  ASSUME PeersInv, IsAcceptor(acceptor'), peer_count' \in Int, panicked' = panicked,
         raced' = (raced \/ torn) \/ raced' = raced,
         UNCHANGED <<now, file, torn, thread, served, owed>>
  PROVE  PeersInv'
<1> USE DEF PeersInv, PeersTypeOK
<1>1. PeersTypeOK'
  OBVIOUS
<1>2. ASSUME ~ raced'
      PROVE  /\ OneUpdate' /\ TornWhileSaving' /\ FileAgrees'
             /\ \A w \in Writer : Updating(w)' => CopyAgrees(w)'
  BY <1>2 DEF OneUpdate, TornWhileSaving, FileAgrees, CopyAgrees, Agrees, Charged, Updating
<1>3. \A d \in Conn : Updating(d)' => thread'[d].ip \in DOMAIN thread'[d].list
  BY DEF Updating
<1> QED  BY <1>1, <1>2, <1>3

LEMMA AcceptorInv ==
  ASSUME PeersInv, (\E ip \in Ip : CheckLimit(ip)) \/ LookUp \/ CountUp
  PROVE  PeersInv'
<1>0. IsAcceptor(acceptor) /\ peer_count \in Int
  BY DEF PeersInv, PeersTypeOK
<1>1. CASE \E ip \in Ip : CheckLimit(ip)
  BY <1>0, <1>1, AcceptorStep DEF CheckLimit, IsAcceptor
<1>2. CASE LookUp
  <2>1. IsAcceptor(acceptor')
    BY <1>0, <1>2 DEF LookUp, IsAcceptor, Accepting
  <2> QED  BY <1>0, <1>2, <2>1, AcceptorStep DEF LookUp
<1>3. CASE CountUp
  BY <1>0, <1>3, AcceptorStep DEF CountUp, IsAcceptor
<1> QED  BY <1>1, <1>2, <1>3

LEMMA SpawnInv ==
  ASSUME PeersInv, NEW c \in Conn, Spawn(c)
  PROVE  PeersInv'
<1> DEFINE t == [Free EXCEPT !.pc = "hello", !.ip = acceptor.ip]
<1>0. acceptor.ip \in Ip /\ peer_count \in Int /\ panicked \in Nat
  BY DEF Spawn, PeersInv, PeersTypeOK, IsAcceptor
<1>1. IsThread(t) /\ t.pc = "hello"
  BY <1>0, EmptyListFacts DEF IsThread, Free
<1>2. ~ Updating(c)
  BY DEF Spawn, Updating
<1>3. IsAcceptor(acceptor')
  BY DEF Spawn, IsAcceptor, Accepting
<1> HIDE DEF t
<1> QED  BY <1>0, <1>1, <1>2, <1>3, ThreadStep DEF Spawn, t

LEMMA HelloOkInv ==
  ASSUME PeersInv, NEW c \in Conn, HelloOk(c)
  PROVE  PeersInv'
<1> DEFINE t == [thread[c] EXCEPT !.pc = "open"]
<1>1. IsThread(t) /\ t.pc = "open"
  BY DEF IsThread, HelloOk, PeersInv, PeersTypeOK, Writer
<1>2. ~ Updating(c)
  BY DEF HelloOk, Updating
<1>3. thread' = [thread EXCEPT ![c] = t]
  BY DEF HelloOk
<1> HIDE DEF t
<1>4. IsAcceptor(acceptor') /\ peer_count' \in Int /\ panicked' \in Nat
  BY DEF HelloOk, counting, PeersInv, PeersTypeOK
<1> QED  BY <1>1, <1>2, <1>3, <1>4, ThreadStep DEF HelloOk

LEMMA CloseInv ==
  ASSUME PeersInv, NEW c \in Conn, Close(c)
  PROVE  PeersInv'
<1> DEFINE t == [thread[c] EXCEPT !.pc = "ended"]
<1>1. IsThread(t) /\ t.pc = "ended"
  BY DEF IsThread, Close, PeersInv, PeersTypeOK, Writer
<1>2. ~ Updating(c)
  BY DEF Close, Updating
<1>3. thread' = [thread EXCEPT ![c] = t]
  BY DEF Close
<1> HIDE DEF t
<1>4. IsAcceptor(acceptor') /\ peer_count' \in Int /\ panicked' \in Nat
  BY DEF Close, counting, PeersInv, PeersTypeOK
<1> QED  BY <1>1, <1>2, <1>3, <1>4, ThreadStep DEF Close

LEMMA GoneInv ==
  ASSUME PeersInv, NEW c \in Conn, Leave(c) \/ Panic(c)
  PROVE  PeersInv'
<1>1. ~ Updating(c)
  BY DEF Leave, Panic, Updating
<1>2. IsAcceptor(acceptor') /\ peer_count' \in Int /\ panicked' \in Nat
  BY DEF Leave, Panic, PeersInv, PeersTypeOK
<1> QED  BY <1>1, <1>2, FreeFacts, ThreadStep DEF Leave, Panic

LEMMA RestartInv == PeersInv /\ Restart => PeersInv'
<1> SUFFICES ASSUME PeersInv, Restart PROVE PeersInv'
  OBVIOUS
<1>1. PeersTypeOK'
  BY FreeFacts DEF PeersInv, PeersTypeOK, Restart, Accepting, IsAcceptor
<1>2. \A w \in Writer : thread'[w].pc = "free"
  BY FreeFacts DEF Restart
<1>3. ~ raced' => FileAgrees' /\ ~ torn'
  BY DEF PeersInv, Restart, FileAgrees, Agrees
<1> QED  BY <1>1, <1>2, <1>3
         DEF PeersInv, OneUpdate, TornWhileSaving, Updating, Writer
-----------------------------------------------------------------------------
\* The updates

\* A thread has loaded the file and changed its copy.
LEMMA LoadStep ==
  ASSUME PeersInv, NEW w \in Writer, NEW t, IsThread(t), t.pc = "loaded",
         w \in Conn => t.ip \in DOMAIN t.list,
         thread' = [thread EXCEPT ![w] = t], ~ Updating(w),
         raced' = (raced \/ Others(w)),
         UNCHANGED <<now, file, torn, served, owed, counting>>,
         ~ raced /\ ~ torn => CopyAgrees(w)'
  PROVE  PeersInv'
<1> USE DEF PeersInv, PeersTypeOK
<1>1. PeersTypeOK'
  BY DEF Others, counting
<1>2. /\ \A v \in Writer \ {w} : thread'[v] = thread[v]
      /\ thread'[w] = t
  OBVIOUS
<1>3. ASSUME ~ raced'
      PROVE  /\ OneUpdate' /\ TornWhileSaving' /\ FileAgrees'
             /\ \A v \in Writer : Updating(v)' => CopyAgrees(v)'
  <2>0. ~ raced /\ \A v \in Writer \ {w} : ~ Updating(v)
    BY <1>3 DEF Others
  <2>1. \A v \in Writer : ~ Updating(v) /\ (Updating(v)' => v = w)
    BY <1>2, <2>0 DEF Updating
  <2>2. ~ torn
    BY <2>0, <2>1 DEF TornWhileSaving, Updating
  <2>3. OneUpdate' /\ TornWhileSaving'
    BY <1>2, <2>1, <2>2 DEF OneUpdate, TornWhileSaving, Updating
  <2>4. FileAgrees'
    BY <2>0 DEF FileAgrees, Agrees
  <2> QED  BY <2>0, <2>1, <2>2, <2>3, <2>4
<1>4. \A d \in Conn : Updating(d)' => thread'[d].ip \in DOMAIN thread'[d].list
  BY <1>2 DEF Writer, Updating
<1> QED  BY <1>1, <1>3, <1>4

LEMMA OffendInv ==
  ASSUME PeersInv, NEW c \in Conn, NEW o \in HelloOffence \cup MsgOffence, Offend(c, o)
  PROVE  PeersInv'
<1> DEFINE l == prune_expired(file)
           ip == thread[c].ip
           q == record(l, ip, o[2])
           t == [pc |-> "loaded", ip |-> ip, list |-> q, score |-> o[2],
                 then |-> IF o \in HelloOffence \/ Imposes(l, ip, o[2])
                          THEN "ended" ELSE "open"]
<1>1. c \in Writer /\ o[2] \in Nat \ {0}
  BY PeersAssumption DEF Writer, HelloOffence, MsgOffence
<1>2. IsThread(thread[c]) /\ ip \in Ip /\ ~ Updating(c)
  BY <1>1 DEF PeersInv, PeersTypeOK, IsThread, Offend, Updating
<1>3. IsBanList(l)
  <2> DEFINE S == {i \in DOMAIN file : file[i].until = 0 \/ file[i].until > now}
  <2>1. S \in SUBSET DOMAIN file  OBVIOUS
  <2> HIDE DEF S
  <2>2. IsBanList(Restrict(file, S))
    BY <2>1, RestrictList DEF PeersInv, PeersTypeOK
  <2> QED  BY <2>2 DEF prune_expired, S
<1>4. IsBanList(q) /\ ip \in DOMAIN q
  <2>1. now \in Nat
    BY DEF PeersInv, PeersTypeOK
  <2> HIDE DEF l, ip
  <2>2. IsBanList(q) /\ DOMAIN q = DOMAIN l \cup {ip}
    BY <1>1, <1>2, <1>3, <2>1, RecordFacts
  <2> QED  BY <2>2
<1>5. ASSUME ~ raced, ~ torn
      PROVE  /\ \A i \in Ip \ {ip} : Agrees(q, i)
             /\ q[ip].until = 0 => /\ served[ip] <= now /\ q[ip].score < BanThreshold
                                   /\ q[ip].score = SaturatingAdd(owed[ip], o[2])
  <2>1. PeersTypeOK /\ IsBanList(file)
    BY DEF PeersInv, PeersTypeOK
  <2>2. \A i \in Ip : Agrees(file, i)
    BY <1>5 DEF PeersInv, FileAgrees
  <2>3. \A i \in Ip : Agrees(l, i)
    BY <2>1, <2>2, PruneAgrees, Zenon
  <2> HIDE DEF l, ip, q
  <2>4. q = record(l, ip, o[2])  BY DEF q
  <2> QED  BY <1>1, <1>2, <1>3, <2>1, <2>3, <2>4, RecordAgrees
<1>6. IsThread(t) /\ t.pc = "loaded" /\ t.ip = ip /\ t.list = q /\ t.score = o[2]
  BY <1>1, <1>2, <1>4 DEF IsThread
<1>7. /\ thread' = [thread EXCEPT ![c] = t] /\ raced' = (raced \/ Others(c))
      /\ UNCHANGED <<now, file, torn, served, owed, counting>>
  BY DEF Offend
<1> HIDE DEF l, ip, q, t
<1>8. ~ raced /\ ~ torn => CopyAgrees(c)'
  <2>1. thread'[c] = t /\ c # Admin
    BY <1>1, <1>7, PeersAssumption DEF PeersInv, PeersTypeOK
  <2> QED  BY <1>4, <1>5, <1>6, <1>7, <2>1 DEF CopyAgrees, Charged, Agrees
<1> QED  BY <1>1, <1>2, <1>4, <1>6, <1>7, <1>8, LoadStep

LEMMA UnbanInv ==
  ASSUME PeersInv, NEW ip \in Ip, Unban(ip)
  PROVE  PeersInv'
<1> DEFINE q == Restrict(file, DOMAIN file \ {ip})
           t == [Free EXCEPT !.pc = "loaded", !.ip = ip, !.list = q]
<1>1. Admin \in Writer /\ Admin \notin Conn /\ ~ Updating(Admin)
  BY PeersAssumption DEF Writer, Unban, Updating
<1>2. /\ IsBanList(q) /\ DOMAIN q = DOMAIN file \ {ip}
      /\ \A i \in DOMAIN q : q[i] = file[i]
  BY RestrictList DEF PeersInv, PeersTypeOK
<1>3. /\ thread' = [thread EXCEPT ![Admin] = t] /\ raced' = (raced \/ Others(Admin))
      /\ UNCHANGED <<now, file, torn, served, owed, counting>>
  BY DEF Unban
<1> HIDE DEF q
<1>4. IsThread(t) /\ t.pc = "loaded" /\ t.ip = ip /\ t.list = q
  BY <1>2 DEF IsThread, Free
<1> HIDE DEF t
<1>5. ~ raced /\ ~ torn => CopyAgrees(Admin)'
  <2>1. thread'[Admin] = t
    BY <1>1, <1>3 DEF PeersInv, PeersTypeOK
  <2> QED  BY <1>2, <1>3, <1>4, <2>1
           DEF CopyAgrees, Charged, Agrees, PeersInv, FileAgrees
<1> QED  BY <1>1, <1>3, <1>4, <1>5, LoadStep

\* save_banlist truncates the file.
LEMMA BeginSaveInv ==
  ASSUME PeersInv, NEW w \in Writer, BeginSave(w)
  PROVE  PeersInv'
<1> USE DEF PeersInv, PeersTypeOK
<1>1. /\ \A v \in Writer \ {w} : thread'[v] = thread[v]
      /\ thread[w].pc = "loaded" /\ thread'[w] = [thread[w] EXCEPT !.pc = "saving"]
      /\ DOMAIN thread' = Writer
  BY DEF BeginSave
<1>2. /\ thread'[w].pc = "saving" /\ thread'[w].ip = thread[w].ip
      /\ thread'[w].list = thread[w].list /\ thread'[w].score = thread[w].score
      /\ IsThread(thread'[w])
  BY <1>1 DEF IsThread
<1>3. PeersTypeOK'
  <2>1. IsBanList(file') /\ torn' = TRUE
    BY EmptyListFacts, Zenon DEF BeginSave
  <2> QED  BY <1>1, <1>2, <2>1 DEF BeginSave, counting
<1>4. \A v \in Writer : Updating(v)' <=> Updating(v)
  BY <1>1, <1>2 DEF Updating
<1>5. /\ \A v \in Writer : thread'[v].ip = thread[v].ip /\ thread'[v].list = thread[v].list
      /\ \A v \in Writer : thread'[v].score = thread[v].score
      /\ torn' = TRUE /\ UNCHANGED <<now, served, owed, raced>>
  BY <1>1, <1>2 DEF BeginSave
<1>6. ASSUME ~ raced'
      PROVE  /\ OneUpdate' /\ TornWhileSaving' /\ FileAgrees'
             /\ \A v \in Writer : Updating(v)' => CopyAgrees(v)'
  <2>1. OneUpdate' /\ TornWhileSaving' /\ FileAgrees'
    BY <1>2, <1>4, <1>5, <1>6 DEF OneUpdate, TornWhileSaving, FileAgrees
  <2>2. ASSUME NEW v \in Writer, Updating(v)' PROVE CopyAgrees(v)'
    <3>1. CopyAgrees(v)
      BY <1>4, <1>5, <1>6, <2>2
    <3> QED  BY <3>1, <1>5 DEF CopyAgrees, Agrees, Charged
  <2> QED  BY <2>1, <2>2
<1>7. \A d \in Conn : Updating(d)' => thread'[d].ip \in DOMAIN thread'[d].list
  BY <1>4, <1>5 DEF Writer
<1> QED  BY <1>3, <1>6, <1>7

\* save_banlist fills the file.
LEMMA EndSaveInv ==
  ASSUME PeersInv, NEW w \in Writer, EndSave(w)
  PROVE  PeersInv'
<1> DEFINE t == thread[w]
           r == IF w = Admin THEN Free ELSE [Free EXCEPT !.pc = t.then, !.ip = t.ip]
<1> USE DEF PeersInv, PeersTypeOK
<1>1. /\ t.pc = "saving" /\ IsThread(t) /\ t.ip \in Ip /\ Updating(w)
      /\ w # Admin => t.ip \in DOMAIN t.list
  BY DEF EndSave, IsThread, Updating, Writer
<1>2. IsThread(r) /\ r.pc \in {"free", "open", "ended"}
  BY <1>1, EmptyListFacts DEF Free, IsThread
<1>3. thread' = [thread EXCEPT ![w] = r]
  BY DEF EndSave
<1>4. /\ torn' \in BOOLEAN /\ torn' \in {FALSE, ~ torn} /\ UNCHANGED <<now, raced>>
      /\ file' = IF torn' THEN EmptyList ELSE t.list
      /\ UNCHANGED <<acceptor, peer_count, panicked>>
  BY DEF EndSave, counting
<1>5. w # Admin => /\ t.list[t.ip].until \in Nat /\ t.list[t.ip].score \in 1 .. ScoreMax
  BY <1>1 DEF IsThread, IsBanList, BanEntry
<1>6. /\ w = Admin => /\ served' = [served EXCEPT ![t.ip] = 0]
                      /\ owed' = [owed EXCEPT ![t.ip] = 0]
      /\ w # Admin => /\ served' = [served EXCEPT ![t.ip] = t.list[t.ip].until]
                      /\ owed' = [owed EXCEPT ![t.ip] =
                                    IF t.list[t.ip].until \in 1 .. now THEN 0
                                    ELSE SaturatingAdd(owed[t.ip], t.score)]
  BY DEF EndSave
<1>7. t.score \in Nat
  BY <1>1 DEF IsThread
<1> HIDE DEF r
<1>8. PeersTypeOK'
  <2>1. IsBanList(file')
    BY <1>1, <1>4, EmptyListFacts, Zenon DEF IsThread
  <2>2. \A v \in Writer : IsThread(thread'[v])
    BY <1>2, <1>3
  <2>3. served' \in [Ip -> Nat]
    BY <1>1, <1>5, <1>6
  <2>4. owed' \in [Ip -> 0 .. ScoreMax]
    BY <1>1, <1>6, <1>7, PeersAssumption DEF SaturatingAdd
  <2> QED  BY <1>3, <1>4, <2>1, <2>2, <2>3, <2>4
<1>9. /\ \A v \in Writer \ {w} : thread'[v] = thread[v]
      /\ thread'[w] = r
  BY <1>3
<1>10. \A d \in Conn : Updating(d)' => thread'[d].ip \in DOMAIN thread'[d].list
  BY <1>2, <1>9 DEF Writer, Updating
<1>11. ASSUME ~ raced'
       PROVE  /\ OneUpdate' /\ TornWhileSaving' /\ FileAgrees'
              /\ \A v \in Writer : Updating(v)' => CopyAgrees(v)'
  <2>1. \A v \in Writer : ~ Updating(v)'
    BY <1>1, <1>2, <1>4, <1>9, <1>11 DEF OneUpdate, Updating
  <2>2. torn /\ CopyAgrees(w)
    BY <1>1, <1>4, <1>11 DEF TornWhileSaving
  <2>3. torn' = FALSE /\ file' = t.list
    BY <1>4, <2>2
  <2>4. ASSUME NEW i \in Ip \ {t.ip} PROVE Agrees(file, i)'
    BY <1>1, <1>4, <1>6, <2>2, <2>3 DEF CopyAgrees, Agrees
  <2>5. ASSUME NEW i \in Ip, i = t.ip PROVE Agrees(file, i)'
    <3>1. CASE w = Admin
      BY <1>1, <1>4, <1>6, <2>2, <2>3, <2>5, <3>1 DEF CopyAgrees, Charged, Agrees
    <3>2. CASE w # Admin
      BY <1>1, <1>4, <1>5, <1>6, <2>2, <2>3, <2>5, <3>2 DEF CopyAgrees, Charged, Agrees
    <3> QED  BY <3>1, <3>2
  <2>6. FileAgrees'
    BY <2>4, <2>5 DEF FileAgrees
  <2>7. OneUpdate' /\ TornWhileSaving'
    BY <2>1, <2>3 DEF OneUpdate, TornWhileSaving, Updating
  <2> QED  BY <2>1, <2>6, <2>7
<1> QED  BY <1>8, <1>10, <1>11

LEMMA NextPeersInv == PeersInv /\ [PeersNext]_peers_vars => PeersInv'
<1> SUFFICES ASSUME PeersInv, [PeersNext]_peers_vars PROVE PeersInv'
  OBVIOUS
<1>1. CASE UNCHANGED peers_vars
  BY <1>1 DEF peers_vars, counting, PeersInv, PeersTypeOK, OneUpdate, TornWhileSaving,
              FileAgrees, CopyAgrees, Charged, Agrees, Updating
<1>2. CASE PeersNext
  BY <1>2, TickInv, AcceptorInv, SpawnInv, HelloOkInv, CloseInv, GoneInv, OffendInv, UnbanInv,
     BeginSaveInv, EndSaveInv, RestartInv, Zenon DEF PeersNext
<1> QED  BY <1>1, <1>2

\* The invariant of the ban list holds in every reachable state.
THEOREM PeersInvariant == PeersSpec => []PeersInv
BY InitPeersInv, NextPeersInv, PTL DEF PeersSpec

-----------------------------------------------------------------------------
\* The results

\* Entries, scores and copies keep their types: a score saturates, a copy of the
\* ban list under change has an entry for the address that is charged.
THEOREM PeersTypeCorrect == PeersSpec => []PeersTypeOK
<1>1. PeersInv => PeersTypeOK
  BY DEF PeersInv
<1> QED  BY <1>1, PeersInvariant, PTL

\* The offences of an address add up to a ban, over connections, pruning and
\* restarts, as long as no two load-change-save updates overlapped.
THEOREM OffencesAddUp == PeersSpec => []ScoresAddUp
<1>1. PeersInv => ScoresAddUp
  <2> SUFFICES ASSUME PeersInv, ~ raced, Quiet, NEW ip \in Ip, owed[ip] >= BanThreshold
               PROVE  is_banned(file, ip)
    BY DEF ScoresAddUp
  <2>1. Agrees(file, ip)
    BY DEF PeersInv, Quiet, Updating, TornWhileSaving, FileAgrees
  <2>2. now \in Nat \ {0} /\ owed[ip] \in Nat /\ (ip \in DOMAIN file => file[ip].until \in Nat)
    BY DEF PeersInv, PeersTypeOK, IsBanList, BanEntry
  <2> QED  BY <2>1, <2>2, PeersAssumption DEF Agrees, is_banned
<1> QED  BY <1>1, PeersInvariant, PTL

\* A saved ban keeps the address out until it ends or is lifted, as long as no two
\* updates overlapped and no half-written file was read.
THEOREM BansHold == PeersSpec => BanHoldsUnlessRaced
<1>1. PeersInv /\ [PeersNext]_peers_vars =>
        [acceptor.pc = "checked" /\ acceptor'.pc = "admitted" /\ ~ raced'
           => served[acceptor.ip] <= now]_peers_vars
  <2> SUFFICES ASSUME PeersInv, PeersNext, acceptor.pc = "checked",
                      acceptor'.pc = "admitted", ~ raced'
               PROVE  served[acceptor.ip] <= now
    BY DEF peers_vars
  <2>1. LookUp
    <3>1. ~ \E ip \in Ip : CheckLimit(ip)
      BY DEF CheckLimit
    <3>2. ~ CountUp /\ ~ \E c \in Conn : Spawn(c)
      BY DEF CountUp, Spawn
    <3>3. acceptor' # acceptor
      OBVIOUS
    <3>4. ~ Tick /\ ~ \E c \in Conn : HelloOk(c) \/ Close(c) \/ Leave(c) \/ Panic(c)
      BY <3>3, Zenon DEF Tick, HelloOk, Close, Leave, Panic, counting
    <3>5. /\ ~ \E c \in Conn, o \in HelloOffence \cup MsgOffence : Offend(c, o)
          /\ ~ \E ip \in Ip : Unban(ip)
      BY <3>3, Zenon DEF Offend, Unban, counting
    <3>6. ~ \E w \in Writer : BeginSave(w) \/ EndSave(w)
      BY <3>3, Zenon DEF BeginSave, EndSave, counting
    <3>7. ~ Restart
      BY DEF Restart, Accepting
    <3> QED  BY <3>1, <3>2, <3>4, <3>5, <3>6, <3>7 DEF PeersNext
  <2>2. ~ raced /\ ~ torn /\ ~ is_banned(file, acceptor.ip)
    BY <2>1 DEF LookUp, NotRefused, Accepting
  <2>3. acceptor.ip \in Ip
    BY DEF PeersInv, PeersTypeOK, IsAcceptor
  <2>4. Agrees(file, acceptor.ip)
    BY <2>2, <2>3 DEF PeersInv, FileAgrees
  <2>5. now \in Nat \ {0} /\ (acceptor.ip \in DOMAIN file => file[acceptor.ip].until \in Nat)
    BY <2>3 DEF PeersInv, PeersTypeOK, IsBanList, BanEntry
  <2> QED  BY <2>2, <2>4, <2>5 DEF Agrees, is_banned
<1> QED  BY <1>1, PeersInvariant, PTL DEF PeersSpec, BanHoldsUnlessRaced

-----------------------------------------------------------------------------
\* The limit of inbound connections

\* The counter is exact but for panics, never above the limit, and below it from
\* the comparison to the increment: only the accepting thread counts up.
CountInv ==
    /\ IsFiniteSet(Live)
    /\ peer_count = Cardinality(Live) + panicked + (IF acceptor.pc = "counted" THEN 1 ELSE 0)
    /\ peer_count <= MaxInbound
    /\ acceptor.pc \in {"checked", "admitted"} => peer_count < MaxInbound
    /\ \A c \in Conn : Updating(c) => thread[c].then # "free"

LEMMA CountStep ==
  ASSUME PeersTypeOK, CountInv, [PeersNext]_peers_vars
  PROVE  CountInv'
<1>0. /\ Conn \subseteq Writer /\ Admin \notin Conn /\ DOMAIN thread = Writer
      /\ IsAcceptor(acceptor) /\ peer_count \in Int /\ panicked \in Nat
      /\ MaxInbound \in Nat \ {0} /\ Cardinality(Live) \in Nat
  BY PeersAssumption, FS_CardinalityType DEF Writer, PeersTypeOK, CountInv
<1>a. \A c \in Conn : Updating(c)' => thread'[c].then # "free"
  <2> USE DEF CountInv, Updating
  <2>1. CASE \E c \in Conn : Spawn(c) \/ Leave(c) \/ Panic(c) \/ HelloOk(c) \/ Close(c)
    <3>1. PICK c \in Conn : Spawn(c) \/ Leave(c) \/ Panic(c) \/ HelloOk(c) \/ Close(c)
      BY <2>1
    <3>2. \A d \in Conn \ {c} : thread'[d] = thread[d]
      BY <1>0, <3>1 DEF Spawn, Leave, Panic, HelloOk, Close
    <3>3. CASE Spawn(c)
      BY <1>0, <3>2, <3>3 DEF Spawn, Free
    <3>4. CASE Leave(c) \/ Panic(c)
      BY <1>0, <3>2, <3>4 DEF Leave, Panic, Free
    <3>5. CASE HelloOk(c)
      BY <1>0, <3>2, <3>5 DEF HelloOk
    <3>6. CASE Close(c)
      BY <1>0, <3>2, <3>6 DEF Close
    <3> QED  BY <3>1, <3>3, <3>4, <3>5, <3>6
  <2>2. CASE \E c \in Conn, o \in HelloOffence \cup MsgOffence : Offend(c, o)
    BY <1>0, <2>2 DEF Offend
  <2>3. CASE \E ip \in Ip : Unban(ip)
    BY <1>0, <2>3 DEF Unban
  <2>4. CASE \E w \in Writer : BeginSave(w)
    BY <1>0, <2>4 DEF BeginSave
  <2>5. CASE \E w \in Writer : EndSave(w)
    <3>1. PICK w \in Writer : EndSave(w)
      BY <2>5
    <3>2. \A v \in Writer \ {w} : thread'[v] = thread[v]
      BY <3>1 DEF EndSave
    <3>3. thread'[w].pc \in {"free", "open", "ended"}
      BY <1>0, <3>1 DEF EndSave, Free, PeersTypeOK, IsThread
    <3> QED  BY <1>0, <3>2, <3>3
  <2>6. CASE Restart
    BY <1>0, <2>6 DEF Restart, Free
  <2>7. CASE Tick \/ (\E ip \in Ip : CheckLimit(ip)) \/ LookUp \/ CountUp \/ UNCHANGED peers_vars
    BY <2>7 DEF Tick, CheckLimit, LookUp, CountUp, peers_vars
  <2> QED  BY <2>1, <2>2, <2>3, <2>4, <2>5, <2>6, <2>7 DEF PeersNext
<1>1. ASSUME NEW c \in Conn, Spawn(c)
      PROVE  CountInv'
  <2>1. Live' = Live \cup {c} /\ c \notin Live
    BY <1>0, <1>1 DEF Live, Spawn, Free
  <2>2. IsFiniteSet(Live') /\ Cardinality(Live') = Cardinality(Live) + 1
    BY <2>1, FS_AddElement DEF CountInv
  <2> QED  BY <1>0, <1>a, <1>1, <2>2 DEF CountInv, Spawn, Accepting
<1>2. ASSUME NEW c \in Conn, Leave(c) \/ Panic(c)
      PROVE  CountInv'
  <2>1. Live' = Live \ {c} /\ c \in Live
    BY <1>0, <1>2 DEF Live, Leave, Panic, Free
  <2>2. IsFiniteSet(Live') /\ Cardinality(Live') = Cardinality(Live) - 1
    BY <2>1, FS_RemoveElement DEF CountInv
  <2> QED  BY <1>0, <1>a, <1>2, <2>2 DEF CountInv, Leave, Panic
<1>3. CASE (\E ip \in Ip : CheckLimit(ip)) \/ LookUp \/ CountUp
  <2>1. Live' = Live
    BY <1>3 DEF Live, CheckLimit, LookUp, CountUp
  <2>2. CASE \E ip \in Ip : CheckLimit(ip)
    BY <1>0, <1>a, <2>1, <2>2 DEF CountInv, CheckLimit
  <2>3. CASE LookUp
    <3>1. acceptor'.pc \in {"idle", "admitted"}
      BY <2>3 DEF LookUp, Accepting
    <3> QED  BY <1>0, <1>a, <2>1, <2>3, <3>1 DEF CountInv, LookUp
  <2>4. CASE CountUp
    <3>1. acceptor'.pc = "counted"
      BY <2>4 DEF CountUp
    <3> QED  BY <1>0, <1>a, <2>1, <2>4, <3>1 DEF CountInv, CountUp
  <2> QED  BY <1>3, <2>2, <2>3, <2>4
<1>4. CASE Restart
  <2>1. Live' = {}
    BY <1>0, <1>4 DEF Live, Restart, Free
  <2> QED  BY <1>0, <1>a, <1>4, <2>1, FS_EmptySet DEF CountInv, Restart, Accepting
<1>5. ASSUME Live' = Live, UNCHANGED <<acceptor, peer_count, panicked>> PROVE CountInv'
  BY <1>a, <1>5 DEF CountInv
<1> USE DEF counting
<1>6. CASE Tick \/ UNCHANGED peers_vars
  BY <1>5, <1>6 DEF Tick, Live, peers_vars
<1>7. CASE \E c \in Conn : HelloOk(c) \/ Close(c)
  <2>1. Live' = Live
    <3>1. PICK c \in Conn : HelloOk(c) \/ Close(c)
      BY <1>7
    <3>2. /\ \A d \in Conn \ {c} : thread'[d] = thread[d]
          /\ thread[c].pc # "free" /\ thread'[c].pc \in {"open", "ended"}
      <4>1. CASE HelloOk(c)
        BY <1>0, <4>1 DEF HelloOk
      <4>2. CASE Close(c)
        BY <1>0, <4>2 DEF Close
      <4> QED  BY <3>1, <4>1, <4>2
    <3> QED  BY <3>2 DEF Live
  <2> QED  BY <1>5, <1>7, <2>1 DEF HelloOk, Close
<1>8. CASE \E c \in Conn, o \in HelloOffence \cup MsgOffence : Offend(c, o)
  <2>1. Live' = Live
    BY <1>0, <1>8 DEF Offend, Live
  <2> QED  BY <1>5, <1>8, <2>1 DEF Offend
<1>9. CASE \E ip \in Ip : Unban(ip)
  <2>1. Live' = Live
    BY <1>0, <1>9 DEF Unban, Live
  <2> QED  BY <1>5, <1>9, <2>1 DEF Unban
<1>10. CASE \E w \in Writer : BeginSave(w)
  <2>1. Live' = Live
    BY <1>0, <1>10 DEF BeginSave, Live
  <2> QED  BY <1>5, <1>10, <2>1 DEF BeginSave
<1>11. CASE \E w \in Writer : EndSave(w)
  <2>1. PICK w \in Writer : EndSave(w)
    BY <1>11
  <2>2. /\ thread[w].pc = "saving" /\ \A v \in Writer \ {w} : thread'[v] = thread[v]
        /\ w # Admin => thread'[w].pc = thread[w].then
    BY <1>0, <2>1 DEF EndSave, Free
  <2>3. w # Admin => w \in Conn /\ thread[w].then # "free"
    BY <2>2 DEF CountInv, Updating, Writer
  <2>4. Live' = Live
    BY <1>0, <2>2, <2>3 DEF Live
  <2> QED  BY <1>5, <2>1, <2>4 DEF EndSave
<1> QED  BY <1>1, <1>2, <1>3, <1>4, <1>6, <1>7, <1>8, <1>9, <1>10, <1>11
         DEF PeersNext

\* serve_p2p never has more connections than MAX_INBOUND_PEERS, and peer_count says
\* how many there are, but for the threads that died in a panic: comparing, counting
\* up, spawning and counting down are separate steps of the accepting thread and of
\* the connections.
THEOREM ConnectionLimit == PeersSpec => []InboundBounded
<1>1. PeersInit => CountInv
  <2> SUFFICES ASSUME PeersInit PROVE CountInv
    OBVIOUS
  <2>1. Live = {}
    BY FreeFacts DEF PeersInit, Live, Writer
  <2>2. \A c \in Conn : ~ Updating(c)
    BY FreeFacts DEF PeersInit, Updating, Writer
  <2> QED  BY <2>1, <2>2, FS_EmptySet, PeersAssumption DEF PeersInit, CountInv, Accepting
<1>2. PeersTypeOK /\ CountInv /\ [PeersNext]_peers_vars => CountInv'
  BY CountStep
<1>3. PeersTypeOK /\ CountInv => InboundBounded
  BY PeersAssumption, FS_CardinalityType DEF CountInv, InboundBounded, PeersTypeOK
<1> QED  BY <1>1, <1>2, <1>3, PeersTypeCorrect, PTL DEF PeersSpec
=============================================================================
