-------------------------- MODULE ChainStateProofs --------------------------
(***************************************************************************)
(* Proofs about Ledger and ChainState, for every set of blocks and         *)
(* transactions and every choice of the consensus parameters.              *)
(*                                                                         *)
(* The first part has the facts about the operators of Ledger: what the    *)
(* two walks along a branch, replay_utxo and chain_work, give for a block  *)
(* in terms of what they give for its parent, and why it is enough for     *)
(* validate_block_utxo to see only the outputs a block spends; where the   *)
(* entries of a replayed set come from; and that a block adds no more than *)
(* its subsidy to the atoms in the set.                                    *)
(*                                                                         *)
(* The inductive invariant is IInv of ChainState.  Every action either     *)
(* keeps the tip (lemma KeepTip: it may store blocks that do not beat the  *)
(* tip and may bring CF_UTXO up to date) or adopts a new one (lemma Adopt: *)
(* the new tip has more work and a branch that replays).                   *)
(***************************************************************************)
EXTENDS ChainState, RecursionProofs, TLAPS, FiniteSetTheorems

-----------------------------------------------------------------------------
\* Powers of two

\* Pow2 satisfies its defining equation and is never zero.
LEMMA Pow2Positive == \A n \in 0 .. 255 : Pow2[n] \in Nat \ {0}
<1> DEFINE V == Nat \ {0}
           F == [p \in (1 .. 255) \X V |-> 2 * p[2]]
<1>1. PICK f : Computes(f, 255, V, 1, F)
  <2>1. F \in [(1 .. 255) \X V -> V] /\ 1 \in V /\ 255 \in Nat
    OBVIOUS
  <2> HIDE DEF V, F
  <2> QED  BY <2>1, RecursionExists
<1>2. f \in [0 .. 255 -> V] /\ f[0] = 1
  BY <1>1 DEF Computes
<1>3. ASSUME NEW n \in 1 .. 255 PROVE f[n] = 2 * f[n - 1]
  <2>1. n - 1 \in 0 .. 255  OBVIOUS
  <2>2. f[n - 1] \in V  BY <1>2, <2>1
  <2>3. <<n, f[n - 1]>> \in (1 .. 255) \X V  BY <2>2
  <2>4. F[<<n, f[n - 1]>>] = 2 * f[n - 1]  BY <2>3
  <2> QED  BY <1>1, <2>4 DEF Computes
<1>4. f = [n \in 0 .. 255 |-> IF n = 0 THEN 1 ELSE 2 * f[n - 1]]
  <2> DEFINE g == [n \in 0 .. 255 |-> IF n = 0 THEN 1 ELSE 2 * f[n - 1]]
  <2>1. \A n \in 0 .. 255 : n # 0 => n \in 1 .. 255  OBVIOUS
  <2>2. \A n \in 0 .. 255 : f[n] = g[n]  BY <1>2, <1>3, <2>1
  <2> QED  BY <1>2, <2>2
<1>5. Pow2 = [n \in 0 .. 255 |-> IF n = 0 THEN 1 ELSE 2 * Pow2[n - 1]]
  BY <1>4, Zenon DEF Pow2
<1> HIDE DEF Pow2
<1>6. Pow2[0] = 1 /\ \A n \in 1 .. 255 : Pow2[n] = 2 * Pow2[n - 1]
  BY <1>5
<1>7. \A n \in 0 .. 255 : Pow2[n] = f[n]
  <2>1. SameSteps(Pow2, f, 255)
    BY <1>2, <1>3, <1>6 DEF SameSteps
  <2>2. Agree(Pow2, f, 255)
    BY <2>1, RecursionUnique
  <2> QED  BY <2>2 DEF Agree
<1> QED  BY <1>2, <1>7

-----------------------------------------------------------------------------
\* Blocks and their branches

Path == Seq(BodyId) \ {<< >>}

\* A block, its header, and its parent.
LEMMA PathFacts ==
  ASSUME NEW b \in Path
  PROVE  /\ Len(b) \in Nat \ {0} /\ height(b) \in Nat
         /\ \A i \in 1 .. Len(b) : b[i] \in BodyId /\ BodyOf[b[i]] \in Body
         /\ header(b) \in Body
         /\ Txs(b) \in Seq(TxId)
<1>1. Len(b) \in Nat \ {0} /\ height(b) \in Nat
  BY DEF Path, height
<1>2. \A i \in 1 .. Len(b) : b[i] \in BodyId /\ BodyOf[b[i]] \in Body
  BY BodyAssumption DEF Path
<1>3. Len(b) \in 1 .. Len(b)
  BY <1>1
<1>4. header(b) \in Body
  BY <1>2, <1>3 DEF header
<1>5. Txs(b) \in Seq(TxId)
  BY <1>4 DEF Txs, Body
<1> QED  BY <1>1, <1>2, <1>4, <1>5

\* The prefixes of a block are its ancestors.
LEMMA PrefixFacts ==
  ASSUME NEW b \in Path, NEW n \in 1 .. Len(b)
  PROVE  /\ SubSeq(b, 1, n) \in Path
         /\ Len(SubSeq(b, 1, n)) = n
         /\ height(SubSeq(b, 1, n)) = n - 1
         /\ \A i \in 1 .. n : SubSeq(b, 1, n)[i] = b[i]
         /\ \A k \in 1 .. n : SubSeq(SubSeq(b, 1, n), 1, k) = SubSeq(b, 1, k)
<1>1. SubSeq(b, 1, n) \in Seq(BodyId) /\ Len(SubSeq(b, 1, n)) = n
  BY DEF Path
<1>2. \A i \in 1 .. n : SubSeq(b, 1, n)[i] = b[i]
  BY DEF Path
<1>3. SubSeq(b, 1, n) \in Path
  BY <1>1 DEF Path
<1>4. \A k \in 1 .. n : SubSeq(SubSeq(b, 1, n), 1, k) = SubSeq(b, 1, k)
  BY <1>1, <1>2 DEF Path
<1> QED  BY <1>1, <1>2, <1>3, <1>4 DEF height

LEMMA WholePrefix ==
  ASSUME NEW b \in Path
  PROVE  SubSeq(b, 1, Len(b)) = b
BY DEF Path

\* The parent of a block that is not genesis is itself a block.
LEMMA ParentFacts ==
  ASSUME NEW b \in Path
  PROVE  /\ previous_hash(b) \in Seq(BodyId)
         /\ previous_hash(b) # b
         /\ Len(previous_hash(b)) = Len(b) - 1
         /\ previous_hash(b) = Zero <=> Len(b) = 1
         /\ Len(b) # 1 => /\ previous_hash(b) \in Path
                          /\ height(previous_hash(b)) = height(b) - 1
         /\ \A i \in 1 .. Len(b) - 1 : previous_hash(b)[i] = b[i]
         /\ \A n \in 1 .. Len(b) - 1 :
              SubSeq(previous_hash(b), 1, n) = SubSeq(b, 1, n)
<1>1. Len(b) \in Nat \ {0}
  BY PathFacts
<1>2. previous_hash(b) \in Seq(BodyId) /\ Len(previous_hash(b)) = Len(b) - 1
  BY <1>1 DEF previous_hash, Path
<1>3. CASE Len(b) = 1
  <2>1. previous_hash(b) = << >>
    BY <1>2, <1>3
  <2> QED  BY <1>1, <1>2, <1>3, <2>1 DEF Zero, Path
<1>4. CASE Len(b) # 1
  <2>1. Len(b) - 1 \in 1 .. Len(b)
    <3>1. \A n \in Nat \ {0} : n # 1 => n - 1 \in 1 .. n  OBVIOUS
    <3> QED  BY <1>1, <1>4, <3>1, Zenon
  <2>2. /\ previous_hash(b) \in Path /\ height(previous_hash(b)) = height(b) - 1
        /\ \A i \in 1 .. Len(b) - 1 : previous_hash(b)[i] = b[i]
        /\ \A n \in 1 .. Len(b) - 1 :
              SubSeq(previous_hash(b), 1, n) = SubSeq(b, 1, n)
    BY <2>1, <1>1, PrefixFacts DEF previous_hash, height
  <2> QED  BY <1>1, <1>2, <1>4, <2>2 DEF Zero, Path
<1> QED  BY <1>3, <1>4

-----------------------------------------------------------------------------
\* Chain work

\* chain_work is the last value of a running sum along the branch.
LEMMA WorkIsSum ==
  ASSUME NEW b \in Seq(BodyId)
  PROVE  \E w \in [0 .. Len(b) -> Nat] :
           /\ w[0] = 0
           /\ \A i \in 1 .. Len(b) : w[i] = w[i - 1] + Pow2[BodyOf[b[i]].bits]
           /\ chain_work(b) = w[Len(b)]
<1> DEFINE N == Len(b)
           F == [p \in (1 .. N) \X Nat |-> p[2] + Pow2[BodyOf[b[p[1]]].bits]]
           work[i \in 0 .. Len(b)] ==
              IF i = 0 THEN 0 ELSE work[i - 1] + Pow2[BodyOf[b[i]].bits]
<1>1. N \in Nat  OBVIOUS
<1>2. \A i \in 1 .. N : Pow2[BodyOf[b[i]].bits] \in Nat
  <2>1. \A i \in 1 .. N : BodyOf[b[i]] \in Body
    BY BodyAssumption
  <2>2. \A x \in Body : x.bits \in 0 .. 255
    BY DEF Body
  <2> QED  BY <2>1, <2>2, Pow2Positive
<1>3. PICK f : Computes(f, N, Nat, 0, F)
  <2>1. F \in [(1 .. N) \X Nat -> Nat]
    BY <1>2
  <2> HIDE DEF N, F
  <2> QED  BY <1>1, <2>1, RecursionExists
<1>4. f \in [0 .. N -> Nat] /\ f[0] = 0
  BY <1>3 DEF Computes
<1>5. ASSUME NEW i \in 1 .. N PROVE f[i] = f[i - 1] + Pow2[BodyOf[b[i]].bits]
  <2>1. f[i - 1] \in Nat
    BY <1>1, <1>4
  <2>2. F[<<i, f[i - 1]>>] = f[i - 1] + Pow2[BodyOf[b[i]].bits]
    BY <2>1
  <2> QED  BY <1>3, <2>2 DEF Computes
<1>6. f = [i \in 0 .. Len(b) |->
             IF i = 0 THEN 0 ELSE f[i - 1] + Pow2[BodyOf[b[i]].bits]]
  <2> DEFINE g == [i \in 0 .. Len(b) |->
                     IF i = 0 THEN 0 ELSE f[i - 1] + Pow2[BodyOf[b[i]].bits]]
  <2>1. \A i \in 0 .. N : i # 0 => i \in 1 .. N  BY <1>1
  <2>2. \A i \in 0 .. N : f[i] = g[i]  BY <1>4, <1>5, <2>1
  <2> QED  BY <1>4, <2>2
<1>7. work = [i \in 0 .. Len(b) |->
                IF i = 0 THEN 0 ELSE work[i - 1] + Pow2[BodyOf[b[i]].bits]]
  BY <1>6, Zenon DEF work
<1>8. chain_work(b) = work[Len(b)]
  BY DEF chain_work
<1> HIDE DEF work
<1>9. /\ work[0] = 0
      /\ \A i \in 1 .. N : work[i] = work[i - 1] + Pow2[BodyOf[b[i]].bits]
  <2> DEFINE g == [i \in 0 .. Len(b) |->
                     IF i = 0 THEN 0 ELSE work[i - 1] + Pow2[BodyOf[b[i]].bits]]
  <2>1. 0 \in 0 .. Len(b) /\ \A i \in 1 .. N : i \in 0 .. Len(b) /\ i # 0
    BY <1>1
  <2>2. /\ g[0] = 0
        /\ \A i \in 1 .. N : g[i] = work[i - 1] + Pow2[BodyOf[b[i]].bits]
    BY <2>1
  <2>3. work = g  BY <1>7, Zenon
  <2> QED  BY <2>2, <2>3, Zenon
<1>10. \A i \in 0 .. N : work[i] = f[i]
  <2>1. SameSteps(work, f, N)
    BY <1>4, <1>5, <1>9 DEF SameSteps
  <2>2. Agree(work, f, N)
    BY <1>1, <2>1, RecursionUnique
  <2> QED  BY <2>2 DEF Agree
<1>11. work[Len(b)] = f[Len(b)]
  BY <1>1, <1>10
<1> QED  BY <1>4, <1>5, <1>8, <1>11

\* A block adds the work of its own header to its parent's.
LEMMA WorkStep ==
  ASSUME NEW b \in Path
  PROVE  /\ chain_work(b) \in Nat
         /\ chain_work(previous_hash(b)) \in Nat
         /\ chain_work(previous_hash(b)) < chain_work(b)
<1> DEFINE N == Len(b)
           a == previous_hash(b)
<1>1. /\ N \in Nat \ {0} /\ b \in Seq(BodyId) /\ a \in Seq(BodyId)
      /\ Len(a) = N - 1 /\ \A i \in 1 .. N - 1 : a[i] = b[i]
  BY PathFacts, ParentFacts DEF Path
<1>2. PICK w \in [0 .. N -> Nat] :
           /\ w[0] = 0
           /\ \A i \in 1 .. N : w[i] = w[i - 1] + Pow2[BodyOf[b[i]].bits]
           /\ chain_work(b) = w[N]
  BY <1>1, WorkIsSum
<1>3. PICK v \in [0 .. N - 1 -> Nat] :
           /\ v[0] = 0
           /\ \A i \in 1 .. N - 1 : v[i] = v[i - 1] + Pow2[BodyOf[a[i]].bits]
           /\ chain_work(a) = v[N - 1]
  <2>1. PICK v \in [0 .. Len(a) -> Nat] :
           /\ v[0] = 0
           /\ \A i \in 1 .. Len(a) : v[i] = v[i - 1] + Pow2[BodyOf[a[i]].bits]
           /\ chain_work(a) = v[Len(a)]
    BY <1>1, WorkIsSum
  <2> QED  BY <1>1, <2>1
<1> HIDE DEF N, a
<1>4. w[N - 1] = v[N - 1]
  <2>1. N - 1 \in Nat /\ N - 1 \in 0 .. N - 1 /\ w[0] = v[0]
    BY <1>1, <1>2, <1>3
  <2>2. ASSUME NEW i \in 1 .. N - 1, w[i - 1] = v[i - 1] PROVE w[i] = v[i]
    <3>1. i \in 1 .. N  BY <1>1
    <3>2. w[i] = w[i - 1] + Pow2[BodyOf[b[i]].bits]  BY <1>2, <3>1
    <3>3. v[i] = v[i - 1] + Pow2[BodyOf[b[i]].bits]  BY <1>1, <1>3
    <3> QED  BY <2>2, <3>2, <3>3
  <2>3. \A i \in 0 .. N - 1 : w[i] = v[i]
    <3>1. SameSteps(w, v, N - 1)
      BY <2>1, <2>2 DEF SameSteps
    <3>2. Agree(w, v, N - 1)
      BY <2>1, <3>1, RecursionUnique
    <3> QED  BY <3>2 DEF Agree
  <2> QED  BY <2>1, <2>3
<1>5. Pow2[BodyOf[b[N]].bits] \in Nat \ {0}
  <2>1. BodyOf[b[N]] \in Body
    <3>1. N \in 1 .. N  BY <1>1
    <3> QED  BY <3>1, PathFacts DEF N
  <2>2. BodyOf[b[N]].bits \in 0 .. 255  BY <2>1 DEF Body
  <2> QED  BY <2>2, Pow2Positive
<1>6. w[N] = w[N - 1] + Pow2[BodyOf[b[N]].bits] /\ w[N - 1] \in Nat /\ w[N] \in Nat
  <2>1. N \in 1 .. N /\ N \in 0 .. N /\ N - 1 \in 0 .. N  BY <1>1
  <2> QED  BY <1>2, <2>1
<1> QED  BY <1>2, <1>3, <1>4, <1>5, <1>6 DEF a

-----------------------------------------------------------------------------
\* Sets of unspent outputs

Utxos == UNION {[D -> UtxoEntry] : D \in SUBSET OutPoint}
Results == [ok : BOOLEAN, utxo : Utxos]

LEMMA UtxosAreUtxoSets == \A u : u \in Utxos <=> IsUtxoSet(u)
<1>1. ASSUME NEW u, u \in Utxos PROVE IsUtxoSet(u)
  <2>1. PICK D \in SUBSET OutPoint : u \in [D -> UtxoEntry]
    BY <1>1 DEF Utxos
  <2> QED  BY <2>1 DEF IsUtxoSet
<1>2. ASSUME NEW u, IsUtxoSet(u) PROVE u \in Utxos
  BY <1>2 DEF Utxos, IsUtxoSet
<1> QED  BY <1>1, <1>2

LEMMA EmptyUtxoType == EmptyUtxo \in Utxos /\ DOMAIN EmptyUtxo = {}
<1>1. EmptyUtxo \in [{} -> UtxoEntry] /\ DOMAIN EmptyUtxo = {}
  BY DEF EmptyUtxo
<1> QED  BY <1>1 DEF Utxos

\* What a block creates has the type of what CF_UTXO holds.
LEMMA CreatesType ==
  ASSUME NEW b \in Path, NEW op \in Creates(b)
  PROVE  op \in OutPoint /\ NewEntry(b, op) \in UtxoEntry
<1>0. PICK i \in DOMAIN Txs(b) : \E k \in DOMAIN Tx[Txs(b)[i]].outputs :
         op = <<Txs(b)[i], k - 1>>
  BY DEF Creates
<1>1. PICK k \in DOMAIN Tx[Txs(b)[i]].outputs : op = <<Txs(b)[i], k - 1>>
  BY <1>0
<1>2. Txs(b)[i] \in TxId
  BY PathFacts
<1>3. Tx[Txs(b)[i]] \in Transaction
  BY <1>2, TxAssumption
<1>4. Tx[Txs(b)[i]].outputs \in Seq([value : Nat, burn : BOOLEAN])
  BY <1>3 DEF Transaction
<1>5. k \in Nat \ {0} /\ Tx[Txs(b)[i]].outputs[k].value \in Nat
  <2> DEFINE outs == Tx[Txs(b)[i]].outputs
             Output == [value : Nat, burn : BOOLEAN]
  <2>1. outs \in Seq(Output) /\ k \in DOMAIN outs
    BY <1>4
  <2> HIDE DEF outs, Output
  <2>2. k \in Nat \ {0} /\ outs[k] \in Output
    BY <2>1
  <2> QED  BY <2>2 DEF outs, Output
<1>6. op[1] = Txs(b)[i] /\ op[2] + 1 = k
  BY <1>1, <1>5
<1>7. is_coinbase(op[1]) \in BOOLEAN
  BY DEF is_coinbase
<1>8. height(b) \in Nat
  BY PathFacts
<1> QED  BY <1>1, <1>2, <1>5, <1>6, <1>7, <1>8 DEF OutPoint, NewEntry, UtxoEntry

\* apply_block maps sets of unspent outputs to sets of unspent outputs.
LEMMA ApplyType ==
  ASSUME NEW u \in Utxos, NEW b \in Path
  PROVE  apply_block(u, b) \in Results /\ ApplyPhase3(u, b) \in Utxos
<1>1. u \in [DOMAIN u -> UtxoEntry] /\ DOMAIN u \subseteq OutPoint
  BY UtxosAreUtxoSets DEF IsUtxoSet
<1> DEFINE D == (DOMAIN u \ Spends(b)) \cup Creates(b)
<1>2. D \subseteq OutPoint
  BY <1>1, CreatesType
<1>3. \A op \in D : (IF op \in Creates(b) THEN NewEntry(b, op) ELSE u[op])
                      \in UtxoEntry
  BY <1>1, CreatesType
<1>4. ApplyPhase3(u, b) \in [D -> UtxoEntry]
  BY <1>3 DEF ApplyPhase3
<1>5. ApplyPhase3(u, b) \in Utxos
  BY <1>2, <1>4 DEF Utxos
<1> QED  BY <1>5 DEF apply_block, Results

-----------------------------------------------------------------------------
\* Replaying a branch

\* replay_utxo of a branch is the last value of an iteration of apply_block.
LEMMA ReplayIsIteration ==
  ASSUME NEW b \in Path
  PROVE  \E r \in [0 .. height(b) -> Results] :
           /\ r[0] = apply_block(EmptyUtxo, SubSeq(b, 1, 1))
           /\ \A h \in 1 .. height(b) :
                r[h] = ApplyNext(r[h - 1], SubSeq(b, 1, h + 1))
           /\ ReplayBranch(b) = r[height(b)]
<1> DEFINE N == height(b)
           c == build_canonical_chain(b)
           v0 == apply_block(EmptyUtxo, SubSeq(b, 1, 1))
           F == [p \in (1 .. N) \X Results |->
                   ApplyNext(p[2], SubSeq(b, 1, p[1] + 1))]
           set[h \in DOMAIN c] == IF h = 0 THEN apply_block(EmptyUtxo, c[0])
                                  ELSE ApplyNext(set[h - 1], c[h])
<1>1. N \in Nat /\ Len(b) = N + 1
  BY PathFacts DEF height
<1>2. \A h \in 0 .. N : SubSeq(b, 1, h + 1) \in Path
  BY <1>1, PrefixFacts
<1>3. /\ DOMAIN c = 0 .. N /\ \A h \in 0 .. N : c[h] = SubSeq(b, 1, h + 1)
      /\ c[0] = SubSeq(b, 1, 1)
  BY <1>1 DEF build_canonical_chain
<1>4. v0 \in Results
  <2>1. SubSeq(b, 1, 1) \in Path  BY <1>1, PrefixFacts
  <2> QED  BY <2>1, EmptyUtxoType, ApplyType
<1>5. \A r \in Results : \A d \in Path : ApplyNext(r, d) \in Results
  <2> SUFFICES ASSUME NEW r \in Results, NEW d \in Path
               PROVE ApplyNext(r, d) \in Results
    OBVIOUS
  <2>1. r.utxo \in Utxos  BY DEF Results
  <2> QED  BY <2>1, ApplyType DEF ApplyNext
<1>6. PICK f : Computes(f, N, Results, v0, F)
  <2>1. F \in [(1 .. N) \X Results -> Results]
    <3>1. \A p \in (1 .. N) \X Results :
             p[2] \in Results /\ SubSeq(b, 1, p[1] + 1) \in Path
      BY <1>1, <1>2
    <3> QED  BY <3>1, <1>5
  <2> HIDE DEF N, F, v0
  <2> QED  BY <1>1, <1>4, <2>1, RecursionExists
<1>7. f \in [0 .. N -> Results] /\ f[0] = v0
  BY <1>6 DEF Computes
<1>8. ASSUME NEW h \in 1 .. N
      PROVE  f[h] = ApplyNext(f[h - 1], SubSeq(b, 1, h + 1))
  <2>1. f[h - 1] \in Results
    BY <1>1, <1>7
  <2>2. F[<<h, f[h - 1]>>] = ApplyNext(f[h - 1], SubSeq(b, 1, h + 1))
    BY <2>1
  <2> QED  BY <1>6, <2>2 DEF Computes
<1> HIDE DEF N, c, v0, F
<1>9. f = [h \in DOMAIN c |-> IF h = 0 THEN apply_block(EmptyUtxo, c[0])
                              ELSE ApplyNext(f[h - 1], c[h])]
  <2> DEFINE g == [h \in DOMAIN c |-> IF h = 0 THEN apply_block(EmptyUtxo, c[0])
                                      ELSE ApplyNext(f[h - 1], c[h])]
  <2>1. \A h \in 0 .. N : h # 0 => h \in 1 .. N  BY <1>1
  <2>2. \A h \in 0 .. N : f[h] = g[h]
    BY <1>3, <1>7, <1>8, <2>1 DEF v0
  <2> QED  BY <1>3, <1>7, <2>2
<1>10. set = [h \in DOMAIN c |-> IF h = 0 THEN apply_block(EmptyUtxo, c[0])
                                 ELSE ApplyNext(set[h - 1], c[h])]
  BY <1>9, Zenon DEF set
<1>11. ReplayBranch(b) = set[Cardinality(DOMAIN c) - 1]
  BY DEF ReplayBranch, replay_utxo, set, c
<1>12. Cardinality(DOMAIN c) - 1 = N
  <2>1. Cardinality(0 .. N) = N + 1
    BY <1>1, FS_Interval
  <2> QED  BY <1>1, <1>3, <2>1
<1> HIDE DEF set
<1>13. /\ set[0] = v0
       /\ \A h \in 1 .. N : set[h] = ApplyNext(set[h - 1], SubSeq(b, 1, h + 1))
  <2> DEFINE g == [h \in DOMAIN c |-> IF h = 0 THEN apply_block(EmptyUtxo, c[0])
                                      ELSE ApplyNext(set[h - 1], c[h])]
  <2>1. 0 \in 0 .. N /\ \A h \in 1 .. N : h \in 0 .. N /\ h # 0
    BY <1>1
  <2>2. /\ g[0] = v0
        /\ \A h \in 1 .. N : g[h] = ApplyNext(set[h - 1], SubSeq(b, 1, h + 1))
    BY <1>3, <2>1 DEF v0
  <2>3. set = g  BY <1>10, Zenon
  <2> QED  BY <2>2, <2>3, Zenon
<1>14. set[N] = f[N]
  <2>1. SameSteps(set, f, N)
    BY <1>7, <1>8, <1>13 DEF SameSteps
  <2>2. Agree(set, f, N)
    BY <1>1, <2>1, RecursionUnique
  <2> QED  BY <1>1, <2>2 DEF Agree
<1> QED  BY <1>7, <1>8, <1>11, <1>12, <1>14 DEF N, v0

\* A branch replays to its parent's branch followed by its last block.
LEMMA ReplayStep ==
  ASSUME NEW b \in Path
  PROVE  /\ ReplayBranch(b) \in Results
         /\ Len(b) = 1 => ReplayBranch(b) = apply_block(EmptyUtxo, b)
         /\ Len(b) # 1 => ReplayBranch(b) = ApplyNext(ReplayBranch(previous_hash(b)), b)
<1> DEFINE N == height(b)
           a == previous_hash(b)
<1>1. N \in Nat /\ Len(b) = N + 1
  BY PathFacts DEF height
<1>2. PICK r \in [0 .. N -> Results] :
           /\ r[0] = apply_block(EmptyUtxo, SubSeq(b, 1, 1))
           /\ \A h \in 1 .. N : r[h] = ApplyNext(r[h - 1], SubSeq(b, 1, h + 1))
           /\ ReplayBranch(b) = r[N]
  BY ReplayIsIteration
<1>3. SubSeq(b, 1, N + 1) = b
  BY <1>1, WholePrefix
<1>4. ReplayBranch(b) \in Results
  BY <1>1, <1>2
<1>5. CASE Len(b) = 1
  <2>1. N = 0  BY <1>1, <1>5
  <2> HIDE DEF N
  <2>2. SubSeq(b, 1, 1) = b  BY <1>3, <2>1
  <2> QED  BY <1>2, <1>4, <1>5, <2>1, <2>2
<1>6. CASE Len(b) # 1
  <2>0. N # 0 /\ N = Len(b) - 1
    BY <1>1, <1>6
  <2>1. /\ a \in Path /\ height(a) = N - 1 /\ N - 1 \in Nat /\ N \in Nat
        /\ \A n \in 1 .. N : SubSeq(a, 1, n) = SubSeq(b, 1, n)
    <3>0. \A n \in Nat : n # 0 => n - 1 \in Nat  OBVIOUS
    <3>1. N - 1 \in Nat /\ N \in Nat  BY <1>1, <2>0, <3>0, Zenon
    <3> QED  BY <3>1, <2>0, <1>6, ParentFacts
  <2>2. PICK q \in [0 .. height(a) -> Results] :
           /\ q[0] = apply_block(EmptyUtxo, SubSeq(a, 1, 1))
           /\ \A h \in 1 .. height(a) :
                q[h] = ApplyNext(q[h - 1], SubSeq(a, 1, h + 1))
           /\ ReplayBranch(a) = q[height(a)]
    BY <2>1, ReplayIsIteration
  <2> HIDE DEF N, a
  <2>3. SameSteps(r, q, N - 1)
    <3>1. r[0] = q[0]
      <4>1. 1 \in 1 .. N  BY <2>1
      <4>2. SubSeq(a, 1, 1) = SubSeq(b, 1, 1)  BY <2>1, <4>1
      <4> QED  BY <1>2, <2>2, <4>2
    <3>2. ASSUME NEW h \in 1 .. N - 1, r[h - 1] = q[h - 1] PROVE r[h] = q[h]
      <4>1. h \in 1 .. N /\ h + 1 \in 1 .. N  BY <2>1
      <4>2. r[h] = ApplyNext(r[h - 1], SubSeq(b, 1, h + 1))  BY <1>2, <4>1
      <4>3. q[h] = ApplyNext(q[h - 1], SubSeq(b, 1, h + 1))  BY <2>1, <2>2, <4>1
      <4> QED  BY <3>2, <4>2, <4>3
    <3> QED  BY <3>1, <3>2 DEF SameSteps
  <2>4. r[N - 1] = q[N - 1]
    <3>1. Agree(r, q, N - 1)  BY <2>1, <2>3, RecursionUnique
    <3> QED  BY <2>1, <3>1 DEF Agree
  <2>5. r[N] = ApplyNext(r[N - 1], SubSeq(b, 1, N + 1))
    <3>1. N \in 1 .. N  BY <2>1
    <3> QED  BY <1>2, <3>1
  <2> QED  BY <1>2, <1>3, <1>4, <1>6, <2>1, <2>2, <2>4, <2>5 DEF a
<1> QED  BY <1>5, <1>6

-----------------------------------------------------------------------------
\* validate_block_utxo

\* Every input of a transaction after the first is one of the block's spends.
LEMMA InputsAreSpends ==
  ASSUME NEW b \in Path, NEW i \in 2 .. Len(Txs(b)),
         NEW j \in DOMAIN Tx[Txs(b)[i]].inputs
  PROVE  Tx[Txs(b)[i]].inputs[j] \in Spends(b)
<1>1. <<i, j>> \in InputSlots(b)
  BY DEF InputSlots
<1>2. SpendAt(b, <<i, j>>) = Tx[Txs(b)[i]].inputs[j]
  BY DEF SpendAt
<1> QED  BY <1>1, <1>2, Zenon DEF Spends

\* Two sets that agree on what the block spends accept the same transactions
\* with the same fees.
Alike(u, v, b) ==
  \A op \in Spends(b) : /\ op \in DOMAIN u <=> op \in DOMAIN v
                        /\ op \in DOMAIN u => u[op] = v[op]

LEMMA AlikeTx ==
  ASSUME NEW b \in Path, NEW u, NEW v, Alike(u, v, b),
         NEW i \in 2 .. Len(Txs(b)), TxOk(u, Txs(b)[i], height(b))
  PROVE  TxOk(v, Txs(b)[i], height(b)) /\ fee(u, Txs(b)[i]) = fee(v, Txs(b)[i])
<1> DEFINE t == Txs(b)[i]
           In == Tx[t].inputs
<1>1. \A j \in DOMAIN In : /\ In[j] \in DOMAIN u /\ In[j] \in DOMAIN v
                           /\ u[In[j]] = v[In[j]]
  <2>1. \A j \in DOMAIN In : In[j] \in Spends(b)
    BY InputsAreSpends
  <2>2. \A j \in DOMAIN In : In[j] \in DOMAIN u
    BY DEF TxOk, InputOk
  <2> QED  BY <2>1, <2>2 DEF Alike
<1>2. \A j \in DOMAIN In : InputOk(v, t, In[j], height(b))
  <2>1. \A j \in DOMAIN In : InputOk(u, t, In[j], height(b))
    BY DEF TxOk
  <2> QED  BY <1>1, <2>1 DEF InputOk
<1>3. [j \in DOMAIN In |-> u[In[j]].value] = [j \in DOMAIN In |-> v[In[j]].value]
  BY <1>1
<1>4. input_sum(u, t) = input_sum(v, t)
  BY <1>3 DEF input_sum
<1>5. total_output_atoms(t) <= input_sum(v, t)
  BY <1>4 DEF TxOk
<1> QED  BY <1>2, <1>4, <1>5 DEF TxOk, fee

LEMMA AlikeBlock ==
  ASSUME NEW b \in Path, NEW u, NEW v, Alike(u, v, b), ApplyOk(u, b)
  PROVE  ApplyOk(v, b)
<1>1. \A i \in 2 .. Len(Txs(b)) : TxOk(u, Txs(b)[i], height(b))
  BY DEF ApplyOk
<1>2. \A i \in 2 .. Len(Txs(b)) :
         TxOk(v, Txs(b)[i], height(b)) /\ fee(u, Txs(b)[i]) = fee(v, Txs(b)[i])
  BY <1>1, AlikeTx
<1>3. [i \in 2 .. Len(Txs(b)) |-> fee(u, Txs(b)[i])]
        = [i \in 2 .. Len(Txs(b)) |-> fee(v, Txs(b)[i])]
  BY <1>2
<1>4. TotalFees(u, b) = TotalFees(v, b)
  BY <1>3 DEF TotalFees
<1> QED  BY <1>2, <1>4 DEF ApplyOk

\* Seeing only the outputs a block spends is enough: the verdict of
\* validate_block_utxo is the verdict of apply_block on the whole set, and the
\* delta of the fast path is what apply_block would have done.
LEMMA FastPath ==
  ASSUME NEW u \in Utxos, NEW b \in Path
  PROVE  /\ validate_block_utxo(u, b) <=> apply_block(u, b).ok
         /\ apply_block(u, b).ok => apply_utxo_delta(u, b) = apply_block(u, b).utxo
<1> DEFINE s == Restrict(u, DOMAIN u \cap Spends(b))
<1>1. DOMAIN s = DOMAIN u \cap Spends(b) /\ \A op \in DOMAIN s : s[op] = u[op]
  BY DEF Restrict
<1>2. Alike(u, s, b) /\ Alike(s, u, b)
  BY <1>1 DEF Alike
<1>3. ApplyOk(u, b) <=> ApplyOk(s, b)
  <2> HIDE DEF s
  <2> QED  BY <1>2, AlikeBlock
<1>4. /\ ApplyOk(u, b) <=> apply_block(u, b).ok
      /\ ApplyOk(s, b) <=> apply_block(s, b).ok
      /\ ApplyOk(u, b) => apply_block(u, b).utxo = ApplyPhase3(u, b)
  BY DEF apply_block
<1>5. validate_block_utxo(u, b) <=> apply_block(s, b).ok
  BY DEF validate_block_utxo
<1>6. apply_utxo_delta(u, b) = ApplyPhase3(u, b)
  BY DEF apply_utxo_delta, ApplyPhase3
<1> QED  BY <1>3, <1>4, <1>5, <1>6

-----------------------------------------------------------------------------
\* The blocks init_genesis and mine_next_block build

\* An empty sum is zero.
LEMMA EmptySum ==
  ASSUME NEW f, DOMAIN f = {}
  PROVE  SumFunction(f) = 0
BY SumOfNone DEF SumFunction

LEMMA SaturateType ==
  ASSUME NEW n \in Nat
  PROVE  Saturate(n) \in Nat /\ Saturate(n) <= n /\ Saturate(Saturate(n)) = Saturate(n)
BY ParamsAssumption DEF Saturate

LEMMA RewardType == \A h \in Nat : reward_at_height(h) \in Nat
<1> SUFFICES ASSUME NEW h \in Nat PROVE reward_at_height(h) \in Nat
  OBVIOUS
<1> DEFINE era == h \div HalvingInterval
<1>1. /\ HalvingInterval \in Nat \ {0} /\ InitialReward \in Nat
      /\ MaxHalvingEras \in Nat /\ MaxHalvingEras <= 64
  BY ParamsAssumption
<1>2. era \in Nat
  BY <1>1
<1>3. era < MaxHalvingEras => era \in 0 .. 255
  BY <1>1, <1>2
<1> HIDE DEF era
<1>4. CASE era >= MaxHalvingEras
  BY <1>4 DEF reward_at_height, era
<1>5. CASE ~ (era >= MaxHalvingEras)
  <2>1. Pow2[era] \in Nat \ {0}
    BY <1>1, <1>2, <1>3, <1>5, Pow2Positive
  <2>2. \A p \in Nat \ {0} : InitialReward \div p \in Nat
    BY <1>1
  <2>3. reward_at_height(h) = InitialReward \div Pow2[era]
    BY <1>5 DEF reward_at_height, era
  <2> QED  BY <2>1, <2>2, <2>3
<1> QED  BY <1>4, <1>5

LEMMA SubsidyType == \A h \in Nat : CoinbaseSubsidy(h) \in Nat
<1> SUFFICES ASSUME NEW h \in Nat PROVE CoinbaseSubsidy(h) \in Nat
  OBVIOUS
<1>1. reward_at_height(h) + (IF h = 0 THEN Premint ELSE 0) \in Nat
  BY RewardType, ParamsAssumption
<1> QED  BY <1>1, SaturateType DEF CoinbaseSubsidy

\* A block with nothing but a coinbase that claims the plain subsidy applies to
\* every set of unspent outputs.
LEMMA BareCandidateApplies ==
  ASSUME NEW b \in Path, IsBareCandidate(b), NEW u
  PROVE  ApplyOk(u, b)
<1>1. Len(Txs(b)) = 1 /\ Txs(b) # << >>
  <2>1. Len(Txs(b)) = 1  BY DEF IsBareCandidate
  <2>2. Len(<< >>) = 0  OBVIOUS
  <2> QED  BY <2>1, <2>2
<1>2. 2 .. Len(Txs(b)) = {}
  BY <1>1
<1>3. InputSlots(b) = {}
  BY <1>2 DEF InputSlots
<1>4. TotalFees(u, b) = 0
  <2> DEFINE f == [i \in 2 .. Len(Txs(b)) |-> fee(u, Txs(b)[i])]
  <2>1. DOMAIN f = {}  BY <1>2
  <2> HIDE DEF f
  <2>2. SumFunction(f) = 0  BY <2>1, EmptySum
  <2>3. TotalFees(u, b) = Saturate(SumFunction(f))
    BY DEF TotalFees, SatSum, f
  <2> QED  BY <2>2, <2>3, ParamsAssumption DEF Saturate
<1>5. CoinbaseSubsidy(height(b)) \in Nat
  BY PathFacts, SubsidyType
<1>6. Saturate(CoinbaseSubsidy(height(b))) = CoinbaseSubsidy(height(b))
  <2> DEFINE n == reward_at_height(height(b))
                    + (IF height(b) = 0 THEN Premint ELSE 0)
  <2>1. CoinbaseSubsidy(height(b)) = Saturate(n)
    BY DEF CoinbaseSubsidy
  <2> HIDE DEF n
  <2>2. Saturate(Saturate(n)) = Saturate(n)
    BY ParamsAssumption DEF Saturate
  <2> QED  BY <2>1, <2>2
<1>7. total_output_atoms(Txs(b)[1])
        <= Saturate(CoinbaseSubsidy(height(b)) + TotalFees(u, b))
  BY <1>4, <1>5, <1>6 DEF IsBareCandidate
<1> QED  BY <1>1, <1>2, <1>3, <1>7 DEF ApplyOk

-----------------------------------------------------------------------------
\* More about branches

\* No ancestor has more work than the block.
LEMMA WorkOfPrefix ==
  ASSUME NEW b \in Path, NEW n \in 1 .. Len(b)
  PROVE  chain_work(SubSeq(b, 1, n)) <= chain_work(b)
<1> DEFINE W(k) == chain_work(SubSeq(b, 1, k))
           Bad == {k \in Nat : k < Len(b) /\ ~ (W(Len(b) - k) <= chain_work(b))}
<1>1. Len(b) \in Nat \ {0}
  BY PathFacts
<1>2. ASSUME NEW k \in 1 .. Len(b)
      PROVE  /\ W(k) \in Nat
             /\ k # 1 => W(k - 1) < W(k) /\ W(k - 1) \in Nat
  <2> DEFINE p == SubSeq(b, 1, k)
  <2>1. p \in Path /\ Len(p) = k
    BY PrefixFacts
  <2>2. \A j \in 1 .. k : SubSeq(p, 1, j) = SubSeq(b, 1, j)
    BY PrefixFacts
  <2>3. k # 1 => previous_hash(p) = SubSeq(b, 1, k - 1)
    <3>1. k # 1 => k - 1 \in 1 .. k  BY <1>1
    <3>2. previous_hash(p) = SubSeq(p, 1, k - 1)  BY <2>1 DEF previous_hash
    <3> HIDE DEF p
    <3> QED  BY <2>2, <3>1, <3>2
  <2> HIDE DEF p
  <2>4. /\ chain_work(p) \in Nat /\ chain_work(previous_hash(p)) \in Nat
        /\ chain_work(previous_hash(p)) < chain_work(p)
    BY <2>1, WorkStep
  <2> QED  BY <2>3, <2>4 DEF p
<1>3. W(Len(b)) = chain_work(b)
  BY WholePrefix
<1> HIDE DEF W
<1>4. Bad = {}
  <2>1. SUFFICES ASSUME Bad # {} PROVE FALSE  OBVIOUS
  <2>2. PICK m \in Bad : \A k \in Bad : m <= k
    <3>1. Bad \subseteq Nat  OBVIOUS
    <3> QED  BY <2>1, <3>1, LeastElement, Zenon
  <2>3. m \in Nat /\ m < Len(b) /\ ~ (W(Len(b) - m) <= chain_work(b))
    BY <2>2
  <2>4. Len(b) \in 1 .. Len(b) /\ W(Len(b)) \in Nat
    BY <1>1, <1>2
  <2>5. m # 0
    BY <1>1, <1>3, <2>3, <2>4
  <2> DEFINE k == Len(b) - m + 1
  <2>6. k \in 1 .. Len(b) /\ k # 1 /\ k - 1 = Len(b) - m /\ k = Len(b) - (m - 1)
    BY <1>1, <2>3, <2>5
  <2>7. m - 1 \in Nat /\ m - 1 < Len(b) /\ m - 1 \notin Bad
    BY <1>1, <2>2, <2>3, <2>5
  <2>8. W(k) <= chain_work(b)
    BY <2>6, <2>7
  <2>9. W(k - 1) < W(k) /\ W(k) \in Nat /\ W(k - 1) \in Nat
    BY <1>2, <2>6
  <2> QED  BY <1>3, <2>3, <2>4, <2>6, <2>8, <2>9
<1>5. Len(b) - n \in Nat /\ Len(b) - n < Len(b) /\ Len(b) - (Len(b) - n) = n
  BY <1>1
<1>6. W(n) <= chain_work(b)
  BY <1>4, <1>5
<1> QED  BY <1>6 DEF W

\* The canonical chain of a block is its parent's with the block on top.
LEMMA ChainFacts ==
  ASSUME NEW b \in Path
  PROVE  /\ DOMAIN build_canonical_chain(b) = 0 .. height(b)
         /\ \A h \in 0 .. height(b) :
               build_canonical_chain(b)[h] = SubSeq(b, 1, h + 1)
         /\ build_canonical_chain(b)[height(b)] = b
         /\ Len(b) # 1 => \A h \in 0 .. height(b) - 1 :
               build_canonical_chain(previous_hash(b))[h]
                 = build_canonical_chain(b)[h]
<1>1. height(b) \in Nat /\ Len(b) = height(b) + 1
  BY PathFacts DEF height
<1>2. /\ DOMAIN build_canonical_chain(b) = 0 .. height(b)
      /\ \A h \in 0 .. height(b) :
               build_canonical_chain(b)[h] = SubSeq(b, 1, h + 1)
  BY DEF build_canonical_chain
<1>3. build_canonical_chain(b)[height(b)] = b
  BY <1>1, <1>2, WholePrefix
<1>4. ASSUME Len(b) # 1, NEW h \in 0 .. height(b) - 1
      PROVE  build_canonical_chain(previous_hash(b))[h]
               = build_canonical_chain(b)[h]
  <2>1. height(previous_hash(b)) = height(b) - 1
    BY <1>4, ParentFacts
  <2>2. h + 1 \in 1 .. Len(b) - 1 /\ h \in 0 .. height(b)
    BY <1>1
  <2>3. build_canonical_chain(previous_hash(b))[h]
          = SubSeq(previous_hash(b), 1, h + 1)
    BY <2>1 DEF build_canonical_chain
  <2> QED  BY <1>2, <2>2, <2>3, ParentFacts
<1> QED  BY <1>2, <1>3, <1>4

-----------------------------------------------------------------------------
\* Amounts

LEMMA SatSumType ==
  ASSUME NEW f, IsFiniteSet(DOMAIN f), \A x \in DOMAIN f : f[x] \in Nat
  PROVE  SatSum(f) \in Nat
BY SumOfNat, SaturateType DEF SatSum, SumFunction

\* The amounts of a transaction whose inputs exist are natural numbers.
LEMMA AmountTypes ==
  ASSUME NEW u, IsUtxoSet(u), NEW t \in TxId,
         \A j \in DOMAIN Tx[t].inputs : Tx[t].inputs[j] \in DOMAIN u
  PROVE  input_sum(u, t) \in Nat /\ total_output_atoms(t) \in Nat
<1> DEFINE f == [k \in DOMAIN Tx[t].outputs |-> Tx[t].outputs[k].value]
           e == [j \in DOMAIN Tx[t].inputs |-> u[Tx[t].inputs[j]].value]
<1>1. /\ Tx[t].outputs \in Seq([value : Nat, burn : BOOLEAN])
      /\ Tx[t].inputs \in Seq(OutPoint)
  BY TxAssumption DEF Transaction
<1>2. /\ DOMAIN Tx[t].outputs = 1 .. Len(Tx[t].outputs) /\ Len(Tx[t].outputs) \in Nat
      /\ DOMAIN Tx[t].inputs = 1 .. Len(Tx[t].inputs) /\ Len(Tx[t].inputs) \in Nat
  BY <1>1
<1>3. IsFiniteSet(DOMAIN f) /\ IsFiniteSet(DOMAIN e)
  <2>1. \A n \in Nat : IsFiniteSet(1 .. n)
    BY FS_Interval
  <2>2. IsFiniteSet(DOMAIN Tx[t].outputs) /\ IsFiniteSet(DOMAIN Tx[t].inputs)
    BY <1>2, <2>1
  <2> QED  BY <2>2
<1>4. \A k \in DOMAIN f : f[k] \in Nat
  <2>1. \A k \in DOMAIN Tx[t].outputs : Tx[t].outputs[k] \in [value : Nat, burn : BOOLEAN]
    <3>1. ASSUME NEW S, NEW o \in Seq(S) PROVE \A k \in DOMAIN o : o[k] \in S
      OBVIOUS
    <3> QED  BY <1>1, <3>1, Zenon
  <2> QED  BY <2>1
<1>5. \A j \in DOMAIN e : e[j] \in Nat
  BY DEF IsUtxoSet, UtxoEntry
<1> HIDE DEF f, e
<1>6. SatSum(f) \in Nat /\ SatSum(e) \in Nat
  BY <1>3, <1>4, <1>5, SatSumType
<1> QED  BY <1>6 DEF f, e, input_sum, total_output_atoms

\* The fee of a valid transaction is a natural number.
LEMMA FeeType ==
  ASSUME NEW u, IsUtxoSet(u), NEW t \in TxId, NEW h, validate_transaction(u, t, h)
  PROVE  fee(u, t) \in Nat
<1>1. input_sum(u, t) \in Nat /\ total_output_atoms(t) \in Nat
  BY AmountTypes DEF validate_transaction, TxOk, InputOk
<1>2. total_output_atoms(t) <= input_sum(u, t)
  BY DEF validate_transaction, TxOk
<1> QED  BY <1>1, <1>2 DEF fee

-----------------------------------------------------------------------------
\* The history of an unspent output

\* The prefixes of a branch, and how each replays from the one before it.
At(b, n) == SubSeq(b, 1, n)

LEMMA ReplayOfPrefix ==
  ASSUME NEW b \in Path, NEW n \in 1 .. Len(b)
  PROVE  /\ At(b, n) \in Path /\ height(At(b, n)) = n - 1
         /\ ReplayBranch(At(b, n)) \in Results
         /\ n = 1 => ReplayBranch(At(b, n)) = apply_block(EmptyUtxo, At(b, n))
         /\ n # 1 => ReplayBranch(At(b, n)) = ApplyNext(ReplayBranch(At(b, n - 1)), At(b, n))
<1> DEFINE p == At(b, n)
<1>1. p \in Path /\ Len(p) = n /\ height(p) = n - 1
  BY PrefixFacts DEF At
<1>2. n # 1 => previous_hash(p) = At(b, n - 1)
  <2>1. n # 1 => n - 1 \in 1 .. n
    OBVIOUS
  <2>2. \A k \in 1 .. n : SubSeq(p, 1, k) = SubSeq(b, 1, k)
    BY PrefixFacts DEF At
  <2>3. previous_hash(p) = SubSeq(p, 1, n - 1)
    BY <1>1 DEF previous_hash
  <2> HIDE DEF p
  <2> QED  BY <2>1, <2>2, <2>3 DEF At
<1> HIDE DEF p
<1>3. /\ ReplayBranch(p) \in Results
      /\ n = 1 => ReplayBranch(p) = apply_block(EmptyUtxo, p)
      /\ n # 1 => ReplayBranch(p) = ApplyNext(ReplayBranch(previous_hash(p)), p)
  BY <1>1, ReplayStep
<1> QED  BY <1>1, <1>2, <1>3 DEF p

\* What the replay of the first n blocks rests on: nothing for the first block, the
\* set of the blocks before it for another.
Before(b, n) == IF n = 1 THEN EmptyUtxo ELSE ReplayBranch(At(b, n - 1)).utxo

LEMMA ReplaySplits ==
  ASSUME NEW b \in Path, NEW n \in 1 .. Len(b), ReplayBranch(At(b, n)).ok
  PROVE  /\ n # 1 => ReplayBranch(At(b, n - 1)).ok
         /\ Before(b, n) \in Utxos
         /\ ApplyOk(Before(b, n), At(b, n))
         /\ ReplayBranch(At(b, n)).utxo = ApplyPhase3(Before(b, n), At(b, n))
<1>1. CASE n = 1
  <2>1. ReplayBranch(At(b, n)) = apply_block(EmptyUtxo, At(b, n))
    BY <1>1, ReplayOfPrefix
  <2>2. Before(b, n) = EmptyUtxo
    BY <1>1 DEF Before
  <2>3. ApplyOk(EmptyUtxo, At(b, n))
    BY <2>1 DEF apply_block
  <2>4. ReplayBranch(At(b, n)).utxo = ApplyPhase3(EmptyUtxo, At(b, n))
    BY <2>1, <2>3 DEF apply_block
  <2> QED  BY <1>1, <2>2, <2>3, <2>4, EmptyUtxoType
<1>2. CASE n # 1
  <2> DEFINE r == ReplayBranch(At(b, n - 1))
  <2>1. ReplayBranch(At(b, n)) = ApplyNext(r, At(b, n))
    BY <1>2, ReplayOfPrefix
  <2>2. n - 1 \in 1 .. Len(b)
    BY <1>2, PathFacts
  <2>3. r \in Results
    BY <2>2, ReplayOfPrefix
  <2>4. Before(b, n) = r.utxo /\ r.utxo \in Utxos
    BY <1>2, <2>3 DEF Before, Results
  <2> HIDE DEF r
  <2>5. r.ok
    BY <2>1 DEF ApplyNext
  <2>6. ReplayBranch(At(b, n)) = apply_block(r.utxo, At(b, n))
    BY <2>1, <2>5 DEF ApplyNext
  <2>7. ApplyOk(r.utxo, At(b, n))
    BY <2>6 DEF apply_block
  <2>8. ReplayBranch(At(b, n)).utxo = ApplyPhase3(r.utxo, At(b, n))
    BY <2>6, <2>7 DEF apply_block
  <2> QED  BY <2>4, <2>5, <2>7, <2>8 DEF r
<1> QED  BY <1>1, <1>2

\* Output op was created by the block at height g and spent by none up to height n - 1.
Since(b, n, op, g) ==
  /\ op \in Creates(At(b, g + 1))
  /\ \A k \in g + 1 .. n - 1 : op \notin Spends(At(b, k + 1))

\* The entry of an unspent output tells when it was created, and by what.
Justified(b, n, u) ==
  \A op \in DOMAIN u :
    /\ u[op].created_height \in 0 .. n - 1
    /\ Since(b, n, op, u[op].created_height)
    /\ u[op].coinbase = is_coinbase(op[1])

\* Every output in the replay of the first n blocks is justified by them.
LEMMA JustifiedStep ==
  ASSUME NEW b \in Path, NEW n \in 1 .. Len(b), NEW u,
         n = 1 => DOMAIN u = {}, n # 1 => Justified(b, n - 1, u)
  PROVE  Justified(b, n, ApplyPhase3(u, At(b, n)))
<1> DEFINE c == At(b, n)
           v == ApplyPhase3(u, c)
<1>1. height(c) = n - 1 /\ n \in Nat \ {0}
  BY ReplayOfPrefix
<1>2. /\ DOMAIN v = (DOMAIN u \ Spends(c)) \cup Creates(c)
      /\ \A op \in DOMAIN v : v[op] = IF op \in Creates(c) THEN NewEntry(c, op) ELSE u[op]
  BY DEF ApplyPhase3
<1> HIDE DEF c, v
<1> SUFFICES ASSUME NEW op \in DOMAIN v
             PROVE  /\ v[op].created_height \in 0 .. n - 1
                    /\ Since(b, n, op, v[op].created_height)
                    /\ v[op].coinbase = is_coinbase(op[1])
  BY DEF Justified, c, v
<1>3. CASE op \in Creates(c)
  <2>1. v[op].created_height = n - 1 /\ v[op].coinbase = is_coinbase(op[1])
    <3>1. v[op] = NewEntry(c, op)
      BY <1>2, <1>3
    <3>2. NewEntry(c, op).created_height = height(c)
      BY DEF NewEntry
    <3>3. NewEntry(c, op).coinbase = is_coinbase(op[1])
      BY DEF NewEntry, is_coinbase
    <3> QED  BY <1>1, <3>1, <3>2, <3>3
  <2>2. n - 1 \in 0 .. n - 1 /\ (n - 1) + 1 = n /\ \A k \in n .. n - 1 : FALSE
    BY <1>1
  <2>3. Since(b, n, op, n - 1)
    BY <1>3, <2>2 DEF Since, c
  <2> QED  BY <2>1, <2>2, <2>3
<1>4. CASE op \notin Creates(c)
  <2>1. op \in DOMAIN u /\ op \notin Spends(c) /\ v[op] = u[op]
    BY <1>2, <1>4
  <2>2. n # 1 /\ Justified(b, n - 1, u)
    BY <2>1
  <2> DEFINE g == u[op].created_height
  <2>3. g \in 0 .. n - 2 /\ Since(b, n - 1, op, g) /\ u[op].coinbase = is_coinbase(op[1])
    BY <1>1, <2>1, <2>2 DEF Justified
  <2> HIDE DEF g
  <2>4. g \in 0 .. n - 1
    BY <1>1, <2>3
  <2>5. \A k \in g + 1 .. n - 1 : k = n - 1 \/ k \in g + 1 .. (n - 1) - 1
    BY <1>1, <2>3
  <2>6. (n - 1) + 1 = n
    BY <1>1
  <2>7. Since(b, n, op, g)
    BY <2>1, <2>3, <2>5, <2>6 DEF Since, c
  <2> QED  BY <2>1, <2>3, <2>4, <2>7 DEF g
<1> QED  BY <1>3, <1>4

LEMMA ReplayJustified ==
  ASSUME NEW b \in Path, NEW n \in 1 .. Len(b), ReplayBranch(At(b, n)).ok
  PROVE  Justified(b, n, ReplayBranch(At(b, n)).utxo)
<1> DEFINE Good(k) == ReplayBranch(At(b, k)).ok => Justified(b, k, ReplayBranch(At(b, k)).utxo)
           Bad == {k \in 1 .. Len(b) : ~ Good(k)}
<1>1. Len(b) \in Nat \ {0}
  BY PathFacts
<1>2. ASSUME NEW k \in 1 .. Len(b), k # 1 => Good(k - 1) PROVE Good(k)
  <2> SUFFICES ASSUME ReplayBranch(At(b, k)).ok
               PROVE  Justified(b, k, ReplayBranch(At(b, k)).utxo)
    OBVIOUS
  <2>1. /\ k # 1 => ReplayBranch(At(b, k - 1)).ok
        /\ ReplayBranch(At(b, k)).utxo = ApplyPhase3(Before(b, k), At(b, k))
    BY ReplaySplits
  <2>2. k = 1 => DOMAIN Before(b, k) = {}
    BY EmptyUtxoType DEF Before
  <2>3. k # 1 => Justified(b, k - 1, Before(b, k))
    BY <1>2, <2>1 DEF Before
  <2> QED  BY <2>1, <2>2, <2>3, JustifiedStep
<1> HIDE DEF Good
<1>3. Bad = {}
  <2> SUFFICES ASSUME Bad # {} PROVE FALSE
    OBVIOUS
  <2>1. PICK m \in Bad : \A k \in Bad : m <= k
    <3>1. Bad \subseteq Nat
      BY <1>1
    <3> HIDE DEF Bad
    <3> QED  BY <3>1, LeastElement, Zenon
  <2>2. m \in 1 .. Len(b) /\ ~ Good(m)
    BY <2>1
  <2>3. m # 1 => m - 1 \in 1 .. Len(b) /\ ~ (m <= m - 1)
    BY <1>1, <2>2
  <2>4. m # 1 => Good(m - 1)
    BY <2>1, <2>3
  <2> QED  BY <1>2, <2>2, <2>4
<1>4. Good(n)
  BY <1>3
<1> QED  BY <1>4 DEF Good

\* If a branch replays, so does every prefix of it.
LEMMA PrefixReplays ==
  ASSUME NEW b \in Path, ReplayBranch(b).ok, NEW n \in 1 .. Len(b)
  PROVE  ReplayBranch(At(b, n)).ok
<1> DEFINE Good(k) == ReplayBranch(At(b, Len(b) - k)).ok
           Bad == {k \in Nat : k < Len(b) /\ ~ Good(k)}
<1>1. Len(b) \in Nat \ {0}
  BY PathFacts
<1>2. Good(0)
  <2>1. Len(b) - 0 = Len(b)
    BY <1>1
  <2> QED  BY <2>1, WholePrefix DEF At
<1>3. ASSUME NEW k \in Nat \ {0}, k < Len(b), Good(k - 1) PROVE Good(k)
  <2>1. /\ Len(b) - (k - 1) \in 1 .. Len(b) /\ Len(b) - (k - 1) # 1
        /\ (Len(b) - (k - 1)) - 1 = Len(b) - k
    BY <1>1, <1>3
  <2> QED  BY <1>3, <2>1, ReplaySplits
<1> HIDE DEF Good
<1>4. Bad = {}
  <2> SUFFICES ASSUME Bad # {} PROVE FALSE
    OBVIOUS
  <2>1. PICK m \in Bad : \A k \in Bad : m <= k
    <3>1. Bad \subseteq Nat
      OBVIOUS
    <3> HIDE DEF Bad
    <3> QED  BY <3>1, LeastElement, Zenon
  <2>2. m \in Nat /\ m < Len(b) /\ ~ Good(m)
    BY <2>1
  <2>3. m # 0 => m - 1 \in Nat /\ m - 1 < Len(b) /\ ~ (m <= m - 1)
    BY <1>1, <2>2
  <2>4. m # 0 => Good(m - 1)
    BY <2>1, <2>3
  <2> QED  BY <1>2, <1>3, <2>2, <2>4
<1>5. Len(b) - n \in Nat /\ Len(b) - n < Len(b) /\ Len(b) - (Len(b) - n) = n
  BY <1>1
<1>6. Good(Len(b) - n)
  BY <1>4, <1>5
<1> QED  BY <1>5, <1>6 DEF Good

-----------------------------------------------------------------------------
\* Supply

LEMMA SubsidyBound ==
  ASSUME NEW h \in Nat
  PROVE  /\ CoinbaseSubsidy(h) \in Nat
         /\ CoinbaseSubsidy(h)
              <= (IF h < HalvingInterval * MaxHalvingEras THEN InitialReward ELSE 0)
                 + (IF h = 0 THEN Premint ELSE 0)
<1> DEFINE era == h \div HalvingInterval
           r == reward_at_height(h)
           top == IF h < HalvingInterval * MaxHalvingEras THEN InitialReward ELSE 0
           extra == IF h = 0 THEN Premint ELSE 0
<1>1. /\ HalvingInterval \in Nat \ {0} /\ InitialReward \in Nat
      /\ MaxHalvingEras \in Nat /\ MaxHalvingEras <= 64 /\ Premint \in Nat
  BY ParamsAssumption
<1>2. era \in Nat
  BY <1>1
<1>3. h >= HalvingInterval * MaxHalvingEras => era >= MaxHalvingEras
  <2>1. \A n \in Nat : \A d \in Nat \ {0} : \A m \in Nat : n >= d * m => n \div d >= m
    OBVIOUS
  <2> QED  BY <1>1, <2>1
<1>4. HalvingInterval * MaxHalvingEras \in Nat
  BY <1>1
<1>5. r \in Nat /\ r <= top
  <2>1. CASE era >= MaxHalvingEras
    BY <1>1, <2>1 DEF reward_at_height
  <2>2. CASE ~ (era >= MaxHalvingEras)
    <3>1. Pow2[era] \in Nat \ {0}
      <4>1. era \in 0 .. 255
        BY <1>1, <1>2, <2>2
      <4> HIDE DEF era
      <4> QED  BY <4>1, Pow2Positive
    <3>2. \A a \in Nat : \A p \in Nat \ {0} : a \div p \in Nat /\ a \div p <= a
      OBVIOUS
    <3>3. r = InitialReward \div Pow2[era]
      BY <2>2 DEF reward_at_height
    <3>4. top = InitialReward
      BY <1>2, <1>3, <1>4, <2>2, <1>1
    <3> HIDE DEF era, r, top
    <3> QED  BY <1>1, <3>1, <3>2, <3>3, <3>4
  <2> QED  BY <2>1, <2>2
<1>6. extra \in Nat /\ CoinbaseSubsidy(h) = Saturate(r + extra)
  BY <1>1 DEF CoinbaseSubsidy
<1> HIDE DEF r, extra
<1>7. Saturate(r + extra) \in Nat /\ Saturate(r + extra) <= r + extra
  BY <1>5, <1>6, SaturateType
<1>8. top \in Nat
  BY <1>1
<1> HIDE DEF top
<1>9. CoinbaseSubsidy(h) \in Nat /\ CoinbaseSubsidy(h) <= top + extra
  BY <1>5, <1>6, <1>7, <1>8
<1> QED  BY <1>9 DEF top, extra

\* A block adds its subsidy to the supply.
LEMMA SupplyStep ==
  ASSUME NEW h \in Nat
  PROVE  /\ Supply(h) \in Nat
         /\ h = 0 => Supply(h) = CoinbaseSubsidy(0)
         /\ h # 0 => Supply(h) = Supply(h - 1) + CoinbaseSubsidy(h)
<1> DEFINE S == 0 .. h
           f == [g \in S |-> CoinbaseSubsidy(g)]
           R == 0 .. h - 1
           e == [g \in R |-> CoinbaseSubsidy(g)]
<1>1. IsFiniteSet(S) /\ IsFiniteSet(R) /\ h \in S /\ S \ {h} = R
  BY FS_Interval
<1>2. /\ \A g \in S : f[g] \in Nat /\ f[g] \in Int /\ f[g] = CoinbaseSubsidy(g)
      /\ \A g \in R : f[g] \in Int /\ f[g] = e[g]
  BY SubsidyBound
<1>3. Supply(h) = SumFunctionOnSet(f, S)
  BY DEF Supply, SumFunction
<1>4. Supply(h - 1) = SumFunctionOnSet(e, R)
  BY DEF Supply, SumFunction
<1>5. h = 0 => R = {}
  OBVIOUS
<1> HIDE DEF S, R, f, e
<1>6. SumFunctionOnSet(f, S) \in Nat
  BY <1>1, <1>2, SumOfNat
<1>7. SumFunctionOnSet(f, S) = f[h] + SumFunctionOnSet(f, R) /\ SumFunctionOnSet(f, R) \in Int
  BY <1>1, <1>2, SumRemove
<1>8. SumFunctionOnSet(f, R) = SumFunctionOnSet(e, R)
  BY <1>1, <1>2, SumAgree
<1>9. f[h] = CoinbaseSubsidy(h) /\ f[h] \in Nat
  BY <1>1, <1>2
<1>10. h = 0 => SumFunctionOnSet(f, R) = 0
  BY <1>5, SumOfNone
<1> QED  BY <1>3, <1>4, <1>6, <1>7, <1>8, <1>9, <1>10

\* The emission ends: the supply stays below what a u64 holds.
LEMMA SupplyFits == \A h \in Nat : Supply(h) < U64Max
<1> DEFINE Z == HalvingInterval * MaxHalvingEras
           k(h) == IF h + 1 <= Z THEN h + 1 ELSE Z
           Good(h) == Supply(h) <= Premint + InitialReward * k(h)
           Bad == {h \in Nat : ~ Good(h)}
<1>1. InitialReward \in Nat /\ Z \in Nat /\ Premint \in Nat /\ U64Max \in Nat
  BY ParamsAssumption
<1>2. \A a, m, z \in Nat : a * (m + z) = a * m + a * z /\ a * m \in Nat
  OBVIOUS
<1>3. \A a \in Nat : a * 0 = 0 /\ a * 1 = a
  OBVIOUS
<1>4. ASSUME NEW h \in Nat
      PROVE  CoinbaseSubsidy(h) \in Nat
             /\ CoinbaseSubsidy(h) <= (IF h < Z THEN InitialReward ELSE 0)
                                      + (IF h = 0 THEN Premint ELSE 0)
  BY SubsidyBound
<1> HIDE DEF Z
<1>5. Good(0)
  <2>1. Supply(0) = CoinbaseSubsidy(0)
    BY SupplyStep
  <2>2. CASE 0 < Z
    <3>1. k(0) = 1
      BY <1>1, <2>2
    <3> QED  BY <1>1, <1>3, <1>4, <2>1, <2>2, <3>1
  <2>3. CASE ~ (0 < Z)
    <3>1. k(0) = 0
      BY <1>1, <2>3
    <3> QED  BY <1>1, <1>3, <1>4, <2>1, <2>3, <3>1
  <2> QED  BY <2>2, <2>3
<1>6. ASSUME NEW h \in Nat \ {0}, Good(h - 1) PROVE Good(h)
  <2>1. Supply(h) = Supply(h - 1) + CoinbaseSubsidy(h) /\ Supply(h - 1) \in Nat
    BY SupplyStep
  <2>2. CASE h < Z
    <3>1. k(h) = h + 1 /\ k(h - 1) = h
      BY <1>1, <2>2
    <3>2. InitialReward * (h + 1) = InitialReward * h + InitialReward
      BY <1>1, <1>2, <1>3
    <3>3. CoinbaseSubsidy(h) <= InitialReward /\ CoinbaseSubsidy(h) \in Nat
      BY <1>1, <1>4, <2>2
    <3>4. InitialReward * h \in Nat
      BY <1>1, <1>2
    <3>5. Supply(h - 1) <= Premint + InitialReward * h
      BY <1>6, <3>1
    <3>6. Supply(h) <= Premint + InitialReward * (h + 1)
      BY <1>1, <2>1, <3>2, <3>3, <3>4, <3>5
    <3> QED  BY <3>1, <3>6
  <2>3. CASE ~ (h < Z)
    <3>1. k(h) = Z /\ k(h - 1) = Z
      BY <1>1, <2>3
    <3>2. CoinbaseSubsidy(h) = 0
      BY <1>1, <1>4, <2>3
    <3> QED  BY <1>6, <2>1, <3>1, <3>2
  <2> QED  BY <2>2, <2>3
<1>7. ASSUME NEW h \in Nat, Good(h) PROVE Supply(h) < U64Max
  <2>1. k(h) \in Nat /\ Z - k(h) \in Nat
    BY <1>1
  <2> DEFINE a == k(h)
             d == Z - k(h)
  <2>2. Z = a + d
    BY <1>1, <2>1
  <2> HIDE DEF a, d
  <2>3. /\ InitialReward * Z = InitialReward * a + InitialReward * d
        /\ InitialReward * a \in Nat /\ InitialReward * d \in Nat
    BY <1>1, <1>2, <2>1, <2>2 DEF a, d
  <2>4. InitialReward * Z + Premint < U64Max
    BY SupplyAssumption DEF Z
  <2>5. Supply(h) <= Premint + InitialReward * a /\ Supply(h) \in Nat
    BY <1>7, SupplyStep DEF a
  <2> QED  BY <1>1, <2>3, <2>4, <2>5
<1> HIDE DEF Good
<1>8. Bad = {}
  <2> SUFFICES ASSUME Bad # {} PROVE FALSE
    OBVIOUS
  <2>1. PICK m \in Bad : \A n \in Bad : m <= n
    <3>1. Bad \subseteq Nat
      OBVIOUS
    <3> HIDE DEF Bad
    <3> QED  BY <3>1, LeastElement, Zenon
  <2>2. m \in Nat /\ ~ Good(m)
    BY <2>1
  <2>3. m # 0 => m \in Nat \ {0} /\ m - 1 \in Nat /\ ~ (m <= m - 1)
    BY <2>2
  <2>4. m # 0 => Good(m - 1)
    BY <2>1, <2>3
  <2> QED  BY <1>5, <1>6, <2>2, <2>3, <2>4
<1> QED  BY <1>7, <1>8

-----------------------------------------------------------------------------
\* A block creates no more than it spends and its subsidy

\* The outputs of a transaction, burnt ones included, and what they are worth.
MadeBy(t) == {<<t, k - 1>> : k \in DOMAIN Tx[t].outputs}
Worth(op) == Tx[op[1]].outputs[op[2] + 1].value

LEMMA OutputsAddUp ==
  ASSUME NEW t \in TxId, NEW w, \A op \in MadeBy(t) : w[op] = Worth(op)
  PROVE  /\ IsFiniteSet(MadeBy(t)) /\ \A op \in MadeBy(t) : w[op] \in Nat
         /\ SumFunctionOnSet(w, MadeBy(t)) \in Nat
         /\ total_output_atoms(t) = Saturate(SumFunctionOnSet(w, MadeBy(t)))
<1> DEFINE outs == Tx[t].outputs
           D == DOMAIN outs
           g == [k \in D |-> <<t, k - 1>>]
           e == [k \in D |-> outs[k].value]
<1>1. outs \in Seq([value : Nat, burn : BOOLEAN])
  BY TxAssumption DEF Transaction
<1>2. D = 1 .. Len(outs) /\ Len(outs) \in Nat
  BY <1>1
<1>3. IsFiniteSet(D) /\ \A k \in D : k \in Nat
  <2>1. \A n \in Nat : IsFiniteSet(1 .. n) /\ \A k \in 1 .. n : k \in Nat
    BY FS_Interval
  <2> QED  BY <1>2, <2>1
<1>4. \A k \in D : outs[k].value \in Nat
  <2>1. ASSUME NEW S, NEW o \in Seq(S) PROVE \A k \in DOMAIN o : o[k] \in S
    OBVIOUS
  <2>2. \A k \in D : outs[k] \in [value : Nat, burn : BOOLEAN]
    BY <1>1, <2>1, Zenon
  <2> QED  BY <2>2
<1>5. MadeBy(t) = {g[k] : k \in D}
  BY DEF MadeBy
<1>6. \A k \in D : g[k][1] = t /\ g[k][2] + 1 = k
  BY <1>3
<1>7. \A k \in D : w[g[k]] = e[k] /\ w[g[k]] \in Nat
  <2>1. ASSUME NEW k \in D PROVE w[g[k]] = e[k] /\ w[g[k]] \in Nat
    <3>1. g[k] \in MadeBy(t)
      BY <1>5
    <3>2. w[g[k]] = Worth(g[k])
      BY <3>1
    <3>3. Worth(g[k]) = outs[k].value
      BY <1>6 DEF Worth
    <3>4. e[k] = outs[k].value /\ outs[k].value \in Nat
      BY <1>4
    <3>5. w[g[k]] = e[k]
      BY <3>2, <3>3, <3>4, Zenon
    <3> QED  BY <3>4, <3>5, Zenon
  <2> HIDE DEF e, g, D
  <2> QED  BY <2>1, Zenon
<1>8. \A x, y \in D : g[x] = g[y] => x = y
  <2>1. ASSUME NEW x \in D, NEW y \in D, g[x] = g[y] PROVE x = y
    <3>1. g[x][2] + 1 = x /\ g[y][2] + 1 = y
      BY <1>6
    <3> QED  BY <2>1, <3>1
  <2> QED  BY <2>1
<1>9. total_output_atoms(t) = Saturate(SumFunctionOnSet(e, D))
  BY DEF total_output_atoms, SatSum, SumFunction
<1>10. PullsBack(e, w, g, D)
  BY <1>7, <1>8 DEF PullsBack
<1>11. Values(g, D) = MadeBy(t)
  BY <1>5 DEF Values
<1>12. \A op \in MadeBy(t) : w[op] \in Nat
  BY <1>5, <1>7
<1> HIDE DEF g, e, D
<1>13. /\ IsFiniteSet(Values(g, D))
       /\ SumFunctionOnSet(w, Values(g, D)) = SumFunctionOnSet(e, D)
       /\ SumFunctionOnSet(w, Values(g, D)) \in Nat
  BY <1>3, <1>10, SumImage, Zenon
<1> QED  BY <1>9, <1>11, <1>12, <1>13, Zenon

LEMMA InputsAddUp ==
  ASSUME NEW u, IsUtxoSet(u), NEW t \in TxId, NEW f, \A op \in DOMAIN u : f[op] = u[op].value,
         \A j \in DOMAIN Tx[t].inputs : Tx[t].inputs[j] \in DOMAIN u,
         \A i, j \in DOMAIN Tx[t].inputs : Tx[t].inputs[i] = Tx[t].inputs[j] => i = j
  PROVE  /\ IsFiniteSet(Range(Tx[t].inputs)) /\ Range(Tx[t].inputs) \subseteq DOMAIN u
         /\ SumFunctionOnSet(f, Range(Tx[t].inputs)) \in Nat
         /\ input_sum(u, t) = Saturate(SumFunctionOnSet(f, Range(Tx[t].inputs)))
<1> DEFINE g == Tx[t].inputs
           D == DOMAIN g
           e == [j \in D |-> u[g[j]].value]
<1>1. g \in Seq(OutPoint)
  BY TxAssumption DEF Transaction
<1>2. D = 1 .. Len(g) /\ Len(g) \in Nat
  BY <1>1
<1>3. IsFiniteSet(D)
  <2>1. \A n \in Nat : IsFiniteSet(1 .. n)
    BY FS_Interval
  <2> QED  BY <1>2, <2>1
<1>4. \A j \in D : e[j] = f[g[j]] /\ f[g[j]] \in Nat
  BY DEF IsUtxoSet, UtxoEntry
<1>5. input_sum(u, t) = Saturate(SumFunctionOnSet(e, D))
  BY DEF input_sum, SatSum, SumFunction
<1>6. Values(g, D) = Range(g) /\ Range(g) \subseteq DOMAIN u
  BY DEF Range, Values
<1>7. PullsBack(e, f, g, D)
  BY <1>4 DEF PullsBack
<1> HIDE DEF g, e, D
<1>8. /\ IsFiniteSet(Values(g, D))
      /\ SumFunctionOnSet(f, Values(g, D)) = SumFunctionOnSet(e, D)
      /\ SumFunctionOnSet(f, Values(g, D)) \in Nat
  BY <1>3, <1>7, SumImage, Zenon
<1> QED  BY <1>5, <1>6, <1>8, Zenon DEF g

\* No sum of a valid transaction reaches the point where it would saturate.
LEMMA TxConserves ==
  ASSUME NEW u, IsUtxoSet(u), IsFiniteSet(DOMAIN u), NEW t \in TxId, NEW h, TxOk(u, t, h),
         \A i, j \in DOMAIN Tx[t].inputs : Tx[t].inputs[i] = Tx[t].inputs[j] => i = j,
         NEW f, \A op \in DOMAIN u : f[op] = u[op].value,
         SumFunctionOnSet(f, DOMAIN u) < U64Max,
         NEW w, \A op \in MadeBy(t) : w[op] = Worth(op)
  PROVE  /\ Range(Tx[t].inputs) \subseteq DOMAIN u /\ fee(u, t) \in Nat
         /\ SumFunctionOnSet(w, MadeBy(t)) \in Nat
         /\ SumFunctionOnSet(f, Range(Tx[t].inputs))
              = SumFunctionOnSet(w, MadeBy(t)) + fee(u, t)
<1> DEFINE I == Range(Tx[t].inputs)
           in == SumFunctionOnSet(f, I)
           out == SumFunctionOnSet(w, MadeBy(t))
           all == SumFunctionOnSet(f, DOMAIN u)
<1>1. I \subseteq DOMAIN u /\ in \in Nat /\ input_sum(u, t) = Saturate(in)
  <2>1. \A j \in DOMAIN Tx[t].inputs : Tx[t].inputs[j] \in DOMAIN u
    BY DEF TxOk, InputOk
  <2> QED  BY <2>1, InputsAddUp
<1>2. out \in Nat /\ total_output_atoms(t) = Saturate(out)
  BY OutputsAddUp
<1>3. all \in Nat /\ in <= all
  <2>1. \A op \in DOMAIN u : f[op] \in Nat
    BY DEF IsUtxoSet, UtxoEntry
  <2> HIDE DEF I
  <2> QED  BY <1>1, <2>1, SumSubset
<1>4. total_output_atoms(t) <= input_sum(u, t) /\ all < U64Max /\ U64Max \in Nat
  BY ParamsAssumption DEF TxOk
<1> HIDE DEF I, in, out, all
<1>5. input_sum(u, t) = in
  BY <1>1, <1>3, <1>4 DEF Saturate
<1>6. total_output_atoms(t) = out /\ out <= in
  BY <1>1, <1>2, <1>3, <1>4, <1>5 DEF Saturate
<1>7. fee(u, t) = in - out
  BY <1>5, <1>6 DEF fee
<1>8. fee(u, t) \in Nat /\ in = out + fee(u, t)
  BY <1>1, <1>2, <1>6, <1>7
<1> QED  BY <1>1, <1>2, <1>8 DEF I, in, out

\* The outputs M and the fees of the transactions F are paid by the inputs S.
Conserved(f, S, w, M, e, F) ==
    /\ IsFiniteSet(S) /\ IsFiniteSet(M) /\ IsFiniteSet(F)
    /\ \A x \in S : f[x] \in Nat
    /\ \A x \in M : w[x] \in Nat
    /\ \A x \in F : e[x] \in Nat
    /\ SumFunctionOnSet(w, M) + SumFunctionOnSet(e, F) <= SumFunctionOnSet(f, S)

LEMMA ConservedByOneMore ==
  ASSUME NEW f, NEW w, NEW e, NEW S, NEW M, NEW F, Conserved(f, S, w, M, e, F),
         NEW I, NEW O, NEW n, n \notin F, e[n] \in Nat,
         IsFiniteSet(I), I \cap S = {}, \A x \in I : f[x] \in Nat,
         IsFiniteSet(O), \A x \in O : w[x] \in Nat,
         SumFunctionOnSet(f, I) = SumFunctionOnSet(w, O) + e[n]
  PROVE  Conserved(f, S \cup I, w, M \cup O, e, F \cup {n})
<1>1. IsFiniteSet(S \cup I) /\ IsFiniteSet(M \cup O) /\ IsFiniteSet(F \cup {n})
  BY FS_Union, FS_AddElement DEF Conserved
<1>2. /\ \A x \in S \cup I : f[x] \in Nat
      /\ \A x \in M \cup O : w[x] \in Nat
      /\ \A x \in F \cup {n} : e[x] \in Nat
  BY DEF Conserved
<1>3. SumFunctionOnSet(f, S \cup I) = SumFunctionOnSet(f, S) + SumFunctionOnSet(f, I)
  <2>1. S \cap I = {} /\ IsFiniteSet(S) /\ \A x \in S \cup I : f[x] \in Int
    BY <1>2 DEF Conserved
  <2> QED  BY <2>1, SumUnion
<1>4. /\ SumFunctionOnSet(w, M \cup O) \in Nat
      /\ SumFunctionOnSet(w, M) \in Nat /\ SumFunctionOnSet(w, O) \in Nat
      /\ SumFunctionOnSet(w, M \cup O) <= SumFunctionOnSet(w, M) + SumFunctionOnSet(w, O)
  <2>1. IsFiniteSet(M)
    BY DEF Conserved
  <2> QED  BY <1>2, <2>1, SumOfUnion
<1>5. SumFunctionOnSet(e, F \cup {n}) = e[n] + SumFunctionOnSet(e, F)
  <2> DEFINE G == F \cup {n}
  <2>1. n \in G /\ G \ {n} = F /\ IsFiniteSet(G) /\ \A x \in G : e[x] \in Int
    BY <1>1, <1>2
  <2> HIDE DEF G
  <2>2. SumFunctionOnSet(e, G) = e[n] + SumFunctionOnSet(e, G \ {n})
    BY <2>1, SumRemove
  <2> QED  BY <2>1, <2>2, Zenon DEF G
<1>6. SumFunctionOnSet(e, F) \in Nat /\ SumFunctionOnSet(f, S) \in Nat
  <2>1. IsFiniteSet(F) /\ IsFiniteSet(S) /\ (\A x \in S : f[x] \in Nat) /\ \A x \in F : e[x] \in Nat
    BY DEF Conserved
  <2> QED  BY <2>1, SumOfNat
<1>7. SumFunctionOnSet(w, M) + SumFunctionOnSet(e, F) <= SumFunctionOnSet(f, S)
  BY DEF Conserved
<1>8. SumFunctionOnSet(w, M \cup O) + SumFunctionOnSet(e, F \cup {n})
        <= SumFunctionOnSet(f, S \cup I)
  BY <1>3, <1>4, <1>5, <1>6, <1>7
<1> QED  BY <1>1, <1>2, <1>8 DEF Conserved

\* What the payments of a block up to its n-th transaction spend and create.
SpentUpTo(b, n) == UNION {Range(Tx[Txs(b)[i]].inputs) : i \in 2 .. n}
MadeUpTo(b, n) == UNION {MadeBy(Txs(b)[i]) : i \in 2 .. n}
Fees(u, b) == [i \in 2 .. Len(Txs(b)) |-> fee(u, Txs(b)[i])]

\* No two payments of a block share an input, and none lists one twice.
LEMMA BlockSpendsOnce ==
  ASSUME NEW u, NEW b \in Path, ApplyOk(u, b), NEW i \in 2 .. Len(Txs(b)),
         NEW j \in DOMAIN Tx[Txs(b)[i]].inputs, NEW k \in 2 .. Len(Txs(b)),
         NEW l \in DOMAIN Tx[Txs(b)[k]].inputs,
         Tx[Txs(b)[i]].inputs[j] = Tx[Txs(b)[k]].inputs[l]
  PROVE  i = k /\ j = l
<1>1. <<i, j>> \in InputSlots(b) /\ <<k, l>> \in InputSlots(b)
  BY DEF InputSlots
<1>2. SpendAt(b, <<i, j>>) = SpendAt(b, <<k, l>>)
  BY DEF SpendAt
<1>3. <<i, j>> = <<k, l>>
  BY <1>1, <1>2 DEF ApplyOk
<1> QED  BY <1>3

LEMMA PaymentsConserve ==
  ASSUME NEW u, IsUtxoSet(u), IsFiniteSet(DOMAIN u), NEW b \in Path, ApplyOk(u, b),
         NEW f, \A op \in DOMAIN u : f[op] = u[op].value,
         SumFunctionOnSet(f, DOMAIN u) < U64Max,
         NEW w, \A i \in DOMAIN Txs(b) : \A op \in MadeBy(Txs(b)[i]) : w[op] = Worth(op)
  PROVE  \A n \in 1 .. Len(Txs(b)) :
           /\ SpentUpTo(b, n) \subseteq DOMAIN u
           /\ Conserved(f, SpentUpTo(b, n), w, MadeUpTo(b, n), Fees(u, b), 2 .. n)
<1> DEFINE T == Txs(b)
           N == Len(T)
           S(n) == SpentUpTo(b, n)
           M(n) == MadeUpTo(b, n)
           e == Fees(u, b)
           Good(n) == S(n) \subseteq DOMAIN u /\ Conserved(f, S(n), w, M(n), e, 2 .. n)
           Bad == {n \in 1 .. N : ~ Good(n)}
<1>1. N \in Nat /\ DOMAIN T = 1 .. N /\ \A i \in 1 .. N : T[i] \in TxId
  BY PathFacts
<1>2. Good(1)
  <2>1. 2 .. 1 = {}
    OBVIOUS
  <2>2. S(1) = {} /\ M(1) = {}
    BY <2>1 DEF SpentUpTo, MadeUpTo
  <2>3. Conserved(f, {}, w, {}, e, {})
    <3>1. /\ SumFunctionOnSet(f, {}) = 0 /\ SumFunctionOnSet(w, {}) = 0
          /\ SumFunctionOnSet(e, {}) = 0 /\ IsFiniteSet({})
      BY SumOfNone, FS_EmptySet
    <3> HIDE DEF e
    <3> QED  BY <3>1 DEF Conserved
  <2> QED  BY <2>1, <2>2, <2>3, Zenon
<1>3. ASSUME NEW n \in 2 .. N, Good(n - 1) PROVE Good(n)
  <2> DEFINE t == T[n]
             I == Range(Tx[t].inputs)
             O == MadeBy(t)
  <2>1. n \in 1 .. N /\ t \in TxId /\ 2 .. n = (2 .. n - 1) \cup {n} /\ n \notin 2 .. n - 1
    BY <1>1
  <2>2. S(n) = S(n - 1) \cup I /\ M(n) = M(n - 1) \cup O
    BY <2>1 DEF SpentUpTo, MadeUpTo
  <2>3. TxOk(u, t, height(b))
    BY DEF ApplyOk
  <2>4. \A i, j \in DOMAIN Tx[t].inputs : Tx[t].inputs[i] = Tx[t].inputs[j] => i = j
    BY BlockSpendsOnce
  <2>5. \A op \in O : w[op] = Worth(op)
    BY <1>1, <2>1
  <2>6. /\ I \subseteq DOMAIN u /\ fee(u, t) \in Nat
        /\ SumFunctionOnSet(f, I) = SumFunctionOnSet(w, O) + fee(u, t)
    BY <2>1, <2>3, <2>4, <2>5, TxConserves
  <2>7. IsFiniteSet(O) /\ \A op \in O : w[op] \in Nat
    BY <2>1, <2>5, OutputsAddUp
  <2>8. IsFiniteSet(I) /\ \A op \in I : f[op] \in Nat
    <3>1. IsFiniteSet(I)
      BY <2>6, FS_Subset
    <3>2. \A op \in DOMAIN u : f[op] \in Nat
      BY DEF IsUtxoSet, UtxoEntry
    <3> QED  BY <2>6, <3>1, <3>2
  <2>9. e[n] = fee(u, t)
    BY DEF Fees
  <2>10. I \cap S(n - 1) = {}
    <3> SUFFICES ASSUME NEW op, op \in I, op \in S(n - 1) PROVE FALSE
      OBVIOUS
    <3>1. PICK i \in 2 .. n - 1 : op \in Range(Tx[T[i]].inputs)
      BY DEF SpentUpTo
    <3>2. i \in 2 .. N /\ i # n
      BY <1>1
    <3>3. PICK j \in DOMAIN Tx[T[i]].inputs : op = Tx[T[i]].inputs[j]
      BY <3>1 DEF Range
    <3>4. PICK l \in DOMAIN Tx[T[n]].inputs : op = Tx[T[n]].inputs[l]
      BY DEF Range
    <3> QED  BY <3>2, <3>3, <3>4, BlockSpendsOnce
  <2>11. S(n - 1) \subseteq DOMAIN u /\ Conserved(f, S(n - 1), w, M(n - 1), e, 2 .. n - 1)
    BY <1>3
  <2> HIDE DEF S, M, e, I, O, t
  <2>12. SumFunctionOnSet(f, I) = SumFunctionOnSet(w, O) + e[n] /\ e[n] \in Nat
    BY <2>6, <2>9, Zenon
  <2> DEFINE F == 2 .. n - 1
  <2>13. Conserved(f, S(n - 1), w, M(n - 1), e, F) /\ n \notin F /\ 2 .. n = F \cup {n}
    BY <2>1, <2>11, Zenon
  <2> HIDE DEF F
  <2>14. Conserved(f, S(n - 1) \cup I, w, M(n - 1) \cup O, e, F \cup {n})
    BY <2>7, <2>8, <2>10, <2>12, <2>13, ConservedByOneMore
  <2>15. Conserved(f, S(n), w, M(n), e, 2 .. n)
    BY <2>2, <2>13, <2>14, Zenon
  <2>16. S(n) \subseteq DOMAIN u
    BY <2>2, <2>6, <2>11
  <2> QED  BY <2>15, <2>16, Zenon
<1> HIDE DEF Good
<1>4. Bad = {}
  <2> SUFFICES ASSUME Bad # {} PROVE FALSE
    OBVIOUS
  <2>1. PICK m \in Bad : \A k \in Bad : m <= k
    <3>1. Bad \subseteq Nat
      BY <1>1
    <3> HIDE DEF Bad
    <3> QED  BY <3>1, LeastElement, Zenon
  <2>2. m \in 1 .. N /\ ~ Good(m)
    BY <2>1
  <2>3. m # 1 => m \in 2 .. N /\ m - 1 \in 1 .. N /\ ~ (m <= m - 1)
    BY <1>1, <2>2
  <2>4. m # 1 => Good(m - 1)
    BY <2>1, <2>3
  <2> QED  BY <1>2, <1>3, <2>2, <2>3, <2>4
<1>5. \A n \in 1 .. N : Good(n)
  BY <1>4
<1> QED  BY <1>5, Zenon DEF Good

\* The block's spends and creations, payment by payment.
LEMMA BlockByPayments ==
  ASSUME NEW b \in Path, Txs(b) # << >>
  PROVE  /\ Len(Txs(b)) \in Nat \ {0} /\ Txs(b)[1] \in TxId
         /\ Spends(b) = SpentUpTo(b, Len(Txs(b)))
         /\ Creates(b) \subseteq MadeBy(Txs(b)[1]) \cup MadeUpTo(b, Len(Txs(b)))
<1> DEFINE T == Txs(b)
           N == Len(T)
<1>1. T \in Seq(TxId) /\ N \in Nat \ {0} /\ DOMAIN T = 1 .. N /\ T[1] \in TxId
  BY PathFacts
<1>2. Spends(b) \subseteq SpentUpTo(b, N)
  <2> SUFFICES ASSUME NEW s \in InputSlots(b) PROVE SpendAt(b, s) \in SpentUpTo(b, N)
    BY DEF Spends
  <2>1. PICK i \in 2 .. N : s \in {i} \X DOMAIN Tx[T[i]].inputs
    BY DEF InputSlots
  <2>2. s[1] = i /\ s[2] \in DOMAIN Tx[T[i]].inputs
    BY <2>1
  <2>3. SpendAt(b, s) \in Range(Tx[T[i]].inputs)
    BY <2>2 DEF SpendAt, Range
  <2> QED  BY <2>3 DEF SpentUpTo
<1>3. SpentUpTo(b, N) \subseteq Spends(b)
  <2> SUFFICES ASSUME NEW i \in 2 .. N, NEW op \in Range(Tx[T[i]].inputs)
               PROVE  op \in Spends(b)
    BY DEF SpentUpTo
  <2>1. PICK j \in DOMAIN Tx[T[i]].inputs : op = Tx[T[i]].inputs[j]
    BY DEF Range
  <2> QED  BY <2>1, InputsAreSpends
<1>4. ASSUME NEW op \in Creates(b) PROVE op \in MadeBy(T[1]) \cup MadeUpTo(b, N)
  <2>1. PICK i \in DOMAIN T : op \in MadeBy(T[i])
    BY DEF Creates, MadeBy
  <2>2. i = 1 \/ i \in 2 .. N
    BY <1>1
  <2> QED  BY <2>1, <2>2 DEF MadeUpTo
<1> QED  BY <1>1, <1>2, <1>3, <1>4

\* A block adds at most its subsidy to what the unspent outputs hold.
LEMMA ApplyConserves ==
  ASSUME NEW u, IsUtxoSet(u), IsFiniteSet(DOMAIN u), NEW b \in Path, ApplyOk(u, b),
         AtomsIn(u) + CoinbaseSubsidy(height(b)) < U64Max
  PROVE  /\ IsFiniteSet(DOMAIN ApplyPhase3(u, b))
         /\ AtomsIn(ApplyPhase3(u, b)) <= AtomsIn(u) + CoinbaseSubsidy(height(b))
<1> DEFINE T == Txs(b)
           N == Len(T)
           S == Spends(b)
           C == Creates(b)
           M == MadeUpTo(b, N)
           O == MadeBy(T[1])
           D == DOMAIN u
           f == [op \in D |-> u[op].value]
           w == [op \in O \cup M |-> Worth(op)]
           e == Fees(u, b)
           F == 2 .. N
           v == ApplyPhase3(u, b)
           g == [op \in DOMAIN v |-> v[op].value]
           K == D \ (S \cup C)
           sub == CoinbaseSubsidy(height(b))
           Sum(x, s) == SumFunctionOnSet(x, s)
<1>1. /\ N \in Nat \ {0} /\ T[1] \in TxId
      /\ S = SpentUpTo(b, N) /\ C \subseteq O \cup M
  BY BlockByPayments DEF ApplyOk
<1>2. AtomsIn(u) = Sum(f, D) /\ AtomsIn(v) = Sum(g, DOMAIN v)
  BY DEF AtomsIn, SumFunction
<1>3. \A op \in D : f[op] \in Nat
  BY DEF IsUtxoSet, UtxoEntry
<1>4. sub \in Nat /\ U64Max \in Nat /\ Sum(f, D) \in Nat /\ Sum(f, D) < U64Max
  <2>1. sub \in Nat /\ U64Max \in Nat
    BY PathFacts, SubsidyType, ParamsAssumption
  <2>2. Sum(f, D) \in Nat
    BY <1>3, SumOfNat
  <2> QED  BY <1>2, <2>1, <2>2
<1>5. \A op \in O \cup M : w[op] = Worth(op)
  OBVIOUS
<1>6. S \subseteq D /\ Conserved(f, S, w, M, e, F)
  <2>1. \A i \in DOMAIN T : \A op \in MadeBy(T[i]) : w[op] = Worth(op)
    <3>1. DOMAIN T = 1 .. N
      BY PathFacts
    <3>2. ASSUME NEW i \in DOMAIN T, NEW op \in MadeBy(T[i]) PROVE op \in O \cup M
      <4>1. i = 1 \/ i \in 2 .. N
        BY <1>1, <3>1
      <4> QED  BY <4>1 DEF MadeUpTo
    <3> QED  BY <1>5, <3>2
  <2>2. \A op \in D : f[op] = u[op].value
    OBVIOUS
  <2>3. N \in 1 .. N
    BY <1>1
  <2> HIDE DEF f, w, e
  <2> QED  BY <1>1, <1>4, <2>1, <2>2, <2>3, PaymentsConserve DEF e
<1>7. /\ IsFiniteSet(O) /\ \A op \in O : w[op] \in Nat
      /\ Sum(w, O) \in Nat /\ total_output_atoms(T[1]) = Saturate(Sum(w, O))
  <2>1. \A op \in MadeBy(T[1]) : w[op] = Worth(op)
    BY <1>5
  <2> HIDE DEF w
  <2> QED  BY <1>1, <2>1, OutputsAddUp
<1>8. /\ total_output_atoms(T[1]) <= Saturate(sub + TotalFees(u, b))
      /\ TotalFees(u, b) = Saturate(Sum(e, F))
  BY DEF ApplyOk, TotalFees, SatSum, SumFunction, Fees
<1>9. DOMAIN v = K \cup C /\ K \cap C = {}
  BY DEF ApplyPhase3
<1>10. \A op \in K : g[op] = f[op]
  BY DEF ApplyPhase3
<1>11. \A op \in C : g[op] = w[op]
  BY <1>1 DEF ApplyPhase3, NewEntry, Worth
<1> HIDE DEF T, N, S, C, M, O, D, f, w, e, F, v, g, K, sub
<1>12. /\ IsFiniteSet(M) /\ (\A op \in M : w[op] \in Nat)
       /\ IsFiniteSet(S) /\ IsFiniteSet(F) /\ (\A x \in F : e[x] \in Nat)
       /\ Sum(w, M) + Sum(e, F) <= Sum(f, S)
  BY <1>6 DEF Conserved
<1>13. Sum(e, F) \in Nat /\ Sum(w, M) \in Nat
  BY <1>12, SumOfNat
<1>14. /\ Sum(f, S) \in Nat /\ Sum(f, D) = Sum(f, S) + Sum(f, D \ S)
       /\ Sum(f, D \ S) \in Nat
  <2>1. IsFiniteSet(D)
    BY DEF D
  <2> QED  BY <1>3, <1>6, <2>1, SumSubset
<1>15. Sum(f, K) <= Sum(f, D \ S) /\ Sum(f, K) \in Nat /\ IsFiniteSet(K)
  <2>1. IsFiniteSet(D \ S) /\ K \subseteq D \ S /\ IsFiniteSet(K)
    BY FS_Subset DEF K, D
  <2>2. \A op \in D \ S : f[op] \in Nat
    BY <1>3
  <2> QED  BY <2>1, <2>2, SumSubset
<1>16. TotalFees(u, b) = Sum(e, F) /\ Sum(w, O) <= sub + Sum(e, F)
  <2>1. Sum(e, F) <= Sum(f, S) /\ Sum(f, S) <= Sum(f, D)
    BY <1>12, <1>13, <1>14
  <2>2. Sum(f, D) + sub < U64Max
    BY <1>2 DEF sub
  <2> DEFINE x == Sum(e, F)
             y == Sum(w, O)
             z == TotalFees(u, b)
  <2>3. x \in Nat /\ y \in Nat /\ sub + x < U64Max /\ x < U64Max
    BY <1>4, <1>7, <1>13, <1>14, <2>1, <2>2
  <2>4. z = Saturate(x) /\ Saturate(y) <= Saturate(sub + z)
    BY <1>7, <1>8
  <2> HIDE DEF x, y, z
  <2>5. z = x
    BY <1>4, <2>3, <2>4 DEF Saturate
  <2>6. Saturate(sub + x) = sub + x
    BY <1>4, <2>3 DEF Saturate
  <2>7. y <= sub + x
    BY <1>4, <2>3, <2>4, <2>5, <2>6 DEF Saturate
  <2> QED  BY <2>5, <2>7 DEF x, y, z
<1>17. IsFiniteSet(C) /\ Sum(w, C) <= Sum(w, O) + Sum(w, M) /\ Sum(w, C) \in Nat
       /\ \A op \in C : w[op] \in Nat
  <2>1. /\ IsFiniteSet(O \cup M) /\ \A op \in O \cup M : w[op] \in Nat
    BY <1>7, <1>12, FS_Union
  <2>2. Sum(w, O \cup M) <= Sum(w, O) + Sum(w, M) /\ Sum(w, O \cup M) \in Nat
    BY <1>7, <1>12, <2>1, SumOfUnion
  <2>3. Sum(w, C) <= Sum(w, O \cup M) /\ Sum(w, C) \in Nat
    BY <1>1, <2>1, SumSubset
  <2>4. IsFiniteSet(C)
    BY <1>1, <2>1, FS_Subset
  <2> QED  BY <1>1, <1>7, <1>13, <2>1, <2>2, <2>3, <2>4
<1>18. /\ IsFiniteSet(K \cup C) /\ Sum(g, K \cup C) = Sum(g, K) + Sum(g, C)
  <2>1. \A op \in K : f[op] \in Nat
    BY <1>3 DEF K
  <2>2. \A op \in K \cup C : g[op] \in Int
    BY <1>10, <1>11, <1>17, <2>1
  <2> QED  BY <1>9, <1>15, <1>17, <2>2, SumUnion, FS_Union
<1>19. Sum(g, K) = Sum(f, K) /\ Sum(g, C) = Sum(w, C)
  <2>1. \A op \in K : g[op] \in Int /\ g[op] = f[op]
    BY <1>3, <1>10 DEF K
  <2>2. \A op \in C : g[op] \in Int /\ g[op] = w[op]
    BY <1>11, <1>17
  <2> QED  BY <1>15, <1>17, <2>1, <2>2, SumAgree
<1>20. Sum(g, K \cup C) <= Sum(f, D) + sub
  BY <1>4, <1>7, <1>12, <1>13, <1>14, <1>15, <1>16, <1>17, <1>18, <1>19
<1> QED  BY <1>2, <1>9, <1>18, <1>20 DEF v, sub

\* What a replayed branch leaves unspent never exceeds the emission schedule.
LEMMA ReplayBounded ==
  ASSUME NEW b \in Path, NEW n \in 1 .. Len(b), ReplayBranch(At(b, n)).ok
  PROVE  /\ IsFiniteSet(DOMAIN ReplayBranch(At(b, n)).utxo)
         /\ AtomsIn(ReplayBranch(At(b, n)).utxo) <= Supply(n - 1)
<1> DEFINE U(k) == ReplayBranch(At(b, k)).utxo
           Good(k) == ReplayBranch(At(b, k)).ok
                        => IsFiniteSet(DOMAIN U(k)) /\ AtomsIn(U(k)) <= Supply(k - 1)
           Bad == {k \in 1 .. Len(b) : ~ Good(k)}
<1>1. Len(b) \in Nat \ {0}
  BY PathFacts
<1>2. ASSUME NEW k \in 1 .. Len(b), k # 1 => Good(k - 1) PROVE Good(k)
  <2> SUFFICES ASSUME ReplayBranch(At(b, k)).ok
               PROVE  IsFiniteSet(DOMAIN U(k)) /\ AtomsIn(U(k)) <= Supply(k - 1)
    OBVIOUS
  <2> DEFINE p == At(b, k)
             u == Before(b, k)
             old == IF k = 1 THEN 0 ELSE Supply(k - 2)
  <2>1. /\ k # 1 => ReplayBranch(At(b, k - 1)).ok
        /\ u \in Utxos /\ ApplyOk(u, p) /\ U(k) = ApplyPhase3(u, p)
    BY ReplaySplits
  <2>2. p \in Path /\ height(p) = k - 1
    BY ReplayOfPrefix
  <2>3. IsFiniteSet(DOMAIN u) /\ AtomsIn(u) <= old
    <3>1. CASE k = 1
      <4>1. DOMAIN u = {} /\ u = EmptyUtxo
        BY <3>1, EmptyUtxoType DEF Before
      <4>2. AtomsIn(u) = 0
        <5> DEFINE f == [op \in DOMAIN u |-> u[op].value]
        <5>1. DOMAIN f = {}
          BY <4>1
        <5> HIDE DEF f
        <5>2. SumFunction(f) = 0
          BY <5>1, EmptySum
        <5> QED  BY <5>2 DEF f, AtomsIn
      <4> QED  BY <3>1, <4>1, <4>2, FS_EmptySet
    <3>2. CASE k # 1
      <4>1. u = U(k - 1) /\ k - 1 - 1 = k - 2
        BY <1>1, <3>2 DEF Before
      <4>2. IsFiniteSet(DOMAIN U(k - 1)) /\ AtomsIn(U(k - 1)) <= Supply(k - 1 - 1)
        BY <1>2, <2>1, <3>2
      <4> HIDE DEF U, u
      <4> QED  BY <3>2, <4>1, <4>2
    <3> QED  BY <3>1, <3>2
  <2>4. AtomsIn(u) \in Nat
    <3> DEFINE f == [op \in DOMAIN u |-> u[op].value]
    <3>1. \A op \in DOMAIN f : f[op] \in Nat
      BY <2>1, UtxosAreUtxoSets DEF IsUtxoSet, UtxoEntry
    <3>2. IsFiniteSet(DOMAIN f)
      BY <2>3
    <3> HIDE DEF f
    <3>3. SumFunction(f) \in Nat
      BY <3>1, <3>2, SumOfNat DEF SumFunction
    <3> QED  BY <3>3 DEF f, AtomsIn
  <2>5. /\ Supply(k - 1) = old + CoinbaseSubsidy(k - 1) /\ old \in Nat
        /\ CoinbaseSubsidy(k - 1) \in Nat /\ Supply(k - 1) < U64Max
    <3>1. k - 1 \in Nat /\ (k # 1 => k - 1 \in Nat \ {0} /\ k - 1 - 1 = k - 2)
      BY <1>1
    <3>2. CASE k = 1
      BY <3>1, <3>2, SupplyStep, SupplyFits, SubsidyType
    <3>3. CASE k # 1
      BY <3>1, <3>3, SupplyStep, SupplyFits, SubsidyType
    <3> QED  BY <3>2, <3>3
  <2> HIDE DEF p, u, old, U
  <2>6. AtomsIn(u) + CoinbaseSubsidy(height(p)) < U64Max
    <3>1. ASSUME NEW x \in Nat, NEW y \in Nat, NEW z \in Nat, NEW m \in Nat, x <= y, y + z < m
          PROVE  x + z < m
      BY <3>1
    <3>2. U64Max \in Nat /\ old + CoinbaseSubsidy(k - 1) < U64Max
      BY <2>5, ParamsAssumption, Zenon
    <3>3. AtomsIn(u) + CoinbaseSubsidy(k - 1) < U64Max
      BY <2>3, <2>4, <2>5, <3>1, <3>2, Zenon
    <3> QED  BY <2>2, <3>3, Zenon
  <2>7. /\ IsFiniteSet(DOMAIN ApplyPhase3(u, p))
        /\ AtomsIn(ApplyPhase3(u, p)) <= AtomsIn(u) + CoinbaseSubsidy(height(p))
    BY <2>1, <2>2, <2>3, <2>6, UtxosAreUtxoSets, ApplyConserves
  <2>8. AtomsIn(ApplyPhase3(u, p)) \in Int
    <3> DEFINE x == ApplyPhase3(u, p)
               f == [op \in DOMAIN x |-> x[op].value]
    <3>1. IsUtxoSet(x)
      BY <2>1, <2>2, ApplyType, UtxosAreUtxoSets
    <3> HIDE DEF x
    <3>2. \A op \in DOMAIN f : f[op] \in Int
      BY <3>1 DEF IsUtxoSet, UtxoEntry
    <3>3. IsFiniteSet(DOMAIN f)
      BY <2>7 DEF x
    <3> HIDE DEF f
    <3>4. SumFunction(f) \in Int
      BY <3>2, <3>3, SumType DEF SumFunction
    <3> QED  BY <3>4 DEF f, x, AtomsIn
  <2>9. AtomsIn(ApplyPhase3(u, p)) <= Supply(k - 1)
    BY <2>2, <2>3, <2>4, <2>5, <2>7, <2>8
  <2> QED  BY <2>1, <2>7, <2>9
<1> HIDE DEF Good
<1>3. Bad = {}
  <2> SUFFICES ASSUME Bad # {} PROVE FALSE
    OBVIOUS
  <2>1. PICK m \in Bad : \A k \in Bad : m <= k
    <3>1. Bad \subseteq Nat
      BY <1>1
    <3> HIDE DEF Bad
    <3> QED  BY <3>1, LeastElement, Zenon
  <2>2. m \in 1 .. Len(b) /\ ~ Good(m)
    BY <2>1
  <2>3. m # 1 => m - 1 \in 1 .. Len(b) /\ ~ (m <= m - 1)
    BY <1>1, <2>2
  <2>4. m # 1 => Good(m - 1)
    BY <2>1, <2>3
  <2> QED  BY <1>2, <2>2, <2>4
<1>4. Good(n)
  BY <1>3
<1> QED  BY <1>4 DEF Good

-----------------------------------------------------------------------------
\* The chain state

LEMMA BlockIsPath == Block \subseteq Path
BY BlockAssumption DEF Path

LEMMA ZeroFacts == Zero \notin Path /\ Zero \notin Block /\ chain_work(Zero) = 0
<1>1. Zero \notin Path /\ Zero \in Seq(BodyId) /\ Len(Zero) = 0
  BY DEF Zero, Path
<1>2. PICK w \in [0 .. Len(Zero) -> Nat] : w[0] = 0 /\ chain_work(Zero) = w[Len(Zero)]
  BY <1>1, WorkIsSum
<1> QED  BY <1>1, <1>2, BlockIsPath

LEMMA WorkType == \A b \in Block \cup {Zero} : chain_work(b) \in Nat
BY BlockIsPath, ZeroFacts, WorkStep

\* ensure_utxo_synced cannot fail, and leaves the tip's own set and stamp.
LEMMA Synced ==
  ASSUME IInv
  PROVE  /\ CanSync
         /\ IsUtxoSet(SyncedUtxo)
         /\ SyncedStamp \in Block \cup {Zero}
         /\ chain_work(SyncedStamp) <= chain_work(tip_cache)
         /\ tip_cache # Zero => /\ SyncedUtxo = ReplayBranch(tip_cache).utxo
                                /\ SyncedStamp = tip_cache
<1>1. /\ tip_cache \in Block \cup {Zero} /\ IsUtxoSet(utxo)
      /\ meta_utxo_tip \in Block \cup {Zero}
      /\ chain_work(meta_utxo_tip) <= chain_work(tip_cache)
  BY DEF IInv, TypeOK, CachesCoherent
<1>2. chain_work(tip_cache) <= chain_work(tip_cache)
  BY <1>1, WorkType
<1>3. CASE tip_cache = Zero
  BY <1>1, <1>3 DEF UtxoStale, CanSync, SyncedUtxo, SyncedStamp
<1>4. CASE tip_cache # Zero
  <2>1. tip_cache \in Path
    BY <1>1, <1>4, BlockIsPath
  <2>2. canonical = build_canonical_chain(tip_cache)
    BY <1>4 DEF IInv, CanonicalIsAncestry
  <2>3. replay_utxo(canonical) = ReplayBranch(tip_cache)
    BY <2>2 DEF ReplayBranch
  <2>4. ReplayBranch(tip_cache).ok /\ IsUtxoSet(ReplayBranch(tip_cache).utxo)
    <3>1. ReplayBranch(tip_cache).utxo \in Utxos
      BY <2>1, ReplayStep DEF Results
    <3> QED  BY <1>4, <3>1, UtxosAreUtxoSets DEF IInv, TipReplays
  <2>5. ~ UtxoStale => utxo = ReplayBranch(tip_cache).utxo /\ meta_utxo_tip = tip_cache
    BY <1>4 DEF UtxoStale, IInv, UtxoMatchesChain
  <2> QED  BY <1>1, <1>2, <1>4, <2>3, <2>4, <2>5
           DEF CanSync, SyncedUtxo, SyncedStamp
<1> QED  BY <1>3, <1>4

\* Adding blocks whose parents are stored keeps every branch complete.
LEMMA StoreGrows ==
  ASSUME StoreClosed, blocks \subseteq Path, NEW stored, stored \subseteq Path,
         \A b \in stored : previous_hash(b) \in blocks,
         blocks' = blocks \cup stored
  PROVE  StoreClosed'
<1> SUFFICES ASSUME NEW b \in blocks', NEW n \in 1 .. Len(b)
             PROVE  SubSeq(b, 1, n) \in blocks'
  BY DEF StoreClosed
<1>1. CASE b \in blocks
  BY <1>1 DEF StoreClosed
<1>2. CASE b \in stored
  <2>1. b \in Path /\ Len(b) \in Nat \ {0} /\ previous_hash(b) \in Path
    BY <1>2, PathFacts
  <2>2. CASE n = Len(b)
    BY <1>2, <2>1, <2>2, WholePrefix
  <2>3. CASE n # Len(b)
    <3>1. n \in 1 .. Len(b) - 1 /\ Len(previous_hash(b)) = Len(b) - 1
      BY <2>1, <2>3, ParentFacts
    <3>2. SubSeq(previous_hash(b), 1, n) = SubSeq(b, 1, n)
      BY <2>1, <3>1, ParentFacts
    <3>3. SubSeq(previous_hash(b), 1, n) \in blocks
      BY <1>2, <3>1 DEF StoreClosed
    <3> QED  BY <3>2, <3>3
  <2> QED  BY <2>2, <2>3
<1> QED  BY <1>1, <1>2

LEMMA StoreGrowsByOne ==
  ASSUME IInv, NEW b \in Block, previous_hash(b) \in blocks,
         blocks' = blocks \cup {b}
  PROVE  StoreClosed'
<1> DEFINE stored == {b}
<1>1. StoreClosed /\ blocks \subseteq Path
  BY BlockIsPath DEF IInv, TypeOK
<1>2. /\ stored \subseteq Path /\ blocks' = blocks \cup stored
      /\ \A c \in stored : previous_hash(c) \in blocks
  BY BlockIsPath
<1> HIDE DEF stored
<1> QED  BY <1>1, <1>2, StoreGrows

\* A step that keeps the tip, stores blocks that do not beat it and brings
\* CF_UTXO up to date.
LEMMA KeepTip ==
  ASSUME IInv, NEW stored, stored \subseteq Block,
         \A b \in stored : previous_hash(b) \in blocks,
         blocks' = blocks \cup stored,
         canonical' = canonical, meta_tip' = meta_tip, tip_cache' = tip_cache,
         utxo' = SyncedUtxo, meta_utxo_tip' = SyncedStamp,
         last_disconnected' \in Seq(Block),
         interrupted \subseteq interrupted', interrupted' \subseteq Block,
         \A b \in stored : \/ b \in interrupted'
                            \/ ~ ReplayBranch(b).ok
                            \/ chain_work(b) <= chain_work(tip_cache)
  PROVE  IInv'
<1>1. TypeOK'
  BY Synced DEF IInv, TypeOK
<1>2. StoreClosed'
  <2>1. StoreClosed /\ blocks \subseteq Path /\ stored \subseteq Path
    BY BlockIsPath DEF IInv, TypeOK
  <2> QED  BY <2>1, StoreGrows
<1>3. CanonicalIsAncestry'
  BY DEF IInv, CanonicalIsAncestry
<1>4. CachesCoherent'
  <2>1. tip_cache = Zero => blocks' = {}
    BY DEF IInv, CachesCoherent
  <2> QED  BY <2>1, Synced DEF IInv, CachesCoherent
<1>5. UtxoMatchesChain'
  BY Synced DEF UtxoMatchesChain
<1>6. TipReplays'
  BY DEF IInv, TipReplays
<1>7. TipHasMostWork'
  BY DEF IInv, TipHasMostWork
<1> QED  BY <1>1, <1>2, <1>3, <1>4, <1>5, <1>6, <1>7 DEF IInv

\* A step that adopts b, which replays and beats the tip.
LEMMA Adopt ==
  ASSUME IInv, NEW b \in Block,
         b \in blocks', blocks \subseteq blocks', blocks' \subseteq Block,
         StoreClosed',
         \A c \in blocks' \ blocks : chain_work(c) <= chain_work(b),
         canonical' = build_canonical_chain(b), meta_tip' = b, tip_cache' = b,
         ReplayBranch(b).ok,
         chain_work(tip_cache) < chain_work(b),
         IsUtxoSet(utxo'),
         meta_utxo_tip' \in Block \cup {Zero},
         chain_work(meta_utxo_tip') <= chain_work(b),
         meta_utxo_tip' = b => utxo' = ReplayBranch(b).utxo,
         last_disconnected' \in Seq(Block),
         interrupted' = interrupted
  PROVE  IInv'
<1>0. b \in Path /\ b # Zero
  BY BlockIsPath, ZeroFacts
<1>1. TypeOK'
  <2>1. \A h \in 0 .. height(b) : SubSeq(b, 1, h + 1) \in Block
    <3>1. height(b) \in Nat /\ Len(b) = height(b) + 1
      BY <1>0, PathFacts DEF height
    <3>2. \A h \in 0 .. height(b) : h + 1 \in 1 .. Len(b)
      BY <3>1
    <3> QED  BY <3>2 DEF StoreClosed
  <2>2. /\ canonical' \in [DOMAIN canonical' -> Block]
        /\ DOMAIN canonical' \subseteq Nat
    BY <1>0, <2>1 DEF build_canonical_chain
  <2> QED  BY <2>2 DEF IInv, TypeOK
<1>2. CanonicalIsAncestry'
  BY <1>0 DEF CanonicalIsAncestry
<1>3. CachesCoherent'
  BY <1>0 DEF CachesCoherent
<1>4. UtxoMatchesChain'
  BY DEF UtxoMatchesChain
<1>5. TipReplays'
  BY DEF TipReplays
<1>6. TipHasMostWork'
  <2> SUFFICES ASSUME NEW c \in blocks' \ interrupted', ReplayBranch(c).ok
               PROVE  chain_work(c) <= chain_work(b)
    BY DEF TipHasMostWork
  <2>1. CASE c \in blocks
    <3>1. chain_work(c) <= chain_work(tip_cache)
      BY <2>1 DEF IInv, TipHasMostWork
    <3>2. chain_work(c) \in Nat /\ chain_work(tip_cache) \in Nat /\ chain_work(b) \in Nat
      BY WorkType DEF IInv, TypeOK
    <3> QED  BY <3>1, <3>2
  <2>2. CASE c \notin blocks
    BY <2>2
  <2> QED  BY <2>1, <2>2
<1> QED  BY <1>1, <1>2, <1>3, <1>4, <1>5, <1>6 DEF IInv

-----------------------------------------------------------------------------
\* Init and the actions

LEMMA InitIInv == Init => IInv
<1> SUFFICES ASSUME Init PROVE IInv
  OBVIOUS
<1>1. TypeOK
  <2>1. EmptyUtxo \in [DOMAIN EmptyUtxo -> Block] /\ DOMAIN EmptyUtxo \subseteq Nat
    BY DEF EmptyUtxo
  <2>2. IsUtxoSet(EmptyUtxo)
    BY EmptyUtxoType, UtxosAreUtxoSets
  <2> QED  BY <2>1, <2>2 DEF Init, TypeOK
<1>2. chain_work(Zero) <= chain_work(Zero)
  BY ZeroFacts
<1> QED  BY <1>1, <1>2 DEF Init, IInv, StoreClosed, CanonicalIsAncestry,
              CachesCoherent, UtxoMatchesChain, TipReplays, TipHasMostWork

\* The fork-choice batch of a block on top of the tip.
LEMMA OnTop ==
  ASSUME IInv, NEW b \in Block, previous_hash(b) = tip_cache, tip_cache # Zero,
         canonical' = [h \in DOMAIN canonical \cup {height(b)} |->
                          IF h = height(b) THEN b ELSE canonical[h]]
  PROVE  /\ b \in Path /\ Len(b) # 1 /\ tip_cache \in Path
         /\ canonical' = build_canonical_chain(b)
         /\ chain_work(tip_cache) < chain_work(b)
         /\ ReplayBranch(b) = apply_block(ReplayBranch(tip_cache).utxo, b)
<1>1. b \in Path /\ Len(b) # 1 /\ tip_cache \in Path
  BY BlockIsPath, ParentFacts DEF IInv, TypeOK
<1>2. chain_work(tip_cache) < chain_work(b)
  BY <1>1, WorkStep
<1>3. ReplayBranch(b) = apply_block(ReplayBranch(tip_cache).utxo, b)
  BY <1>1, ReplayStep DEF ApplyNext, IInv, TipReplays
<1>4. canonical' = build_canonical_chain(b)
  <2>1. canonical = build_canonical_chain(tip_cache)
    BY DEF IInv, CanonicalIsAncestry
  <2>2. height(tip_cache) = height(b) - 1 /\ height(b) \in Nat
    BY <1>1, ParentFacts, PathFacts
  <2>3. DOMAIN canonical = 0 .. height(b) - 1
    BY <1>1, <2>1, <2>2, ChainFacts
  <2>4. DOMAIN canonical \cup {height(b)} = 0 .. height(b)
    BY <2>2, <2>3
  <2>5. \A h \in 0 .. height(b) - 1 : canonical[h] = build_canonical_chain(b)[h]
    BY <1>1, <2>1, ChainFacts
  <2>6. \A h \in 0 .. height(b) : h # height(b) => h \in 0 .. height(b) - 1
    BY <2>2
  <2> DEFINE c == build_canonical_chain(b)
  <2>7. \A h \in 0 .. height(b) : c[h] = IF h = height(b) THEN b ELSE canonical[h]
    BY <1>1, <2>5, <2>6, ChainFacts
  <2>8. c = [h \in 0 .. height(b) |-> c[h]]
    BY DEF build_canonical_chain
  <2> HIDE DEF c
  <2>9. c = [h \in 0 .. height(b) |-> IF h = height(b) THEN b ELSE canonical[h]]
    BY <2>7, <2>8
  <2> QED  BY <2>4, <2>9 DEF c
<1> QED  BY <1>1, <1>2, <1>3, <1>4

\* A block whose parent is stored: there is a tip, and storing the block keeps
\* every branch complete.
LEMMA StoredParent ==
  ASSUME IInv, NEW b \in Block, previous_hash(b) \in blocks
  PROVE  tip_cache # Zero /\ tip_cache \in Block
BY DEF IInv, TypeOK, CachesCoherent

\* The steps that leave the tip where it is.
LEMMA SyncOnly ==
  ASSUME IInv, UNCHANGED <<blocks, canonical, meta_tip, tip_cache, interrupted>>,
         utxo' = SyncedUtxo, meta_utxo_tip' = SyncedStamp,
         UNCHANGED last_disconnected
  PROVE  IInv'
<1> DEFINE stored == {}
<1>1. /\ blocks' = blocks \cup stored /\ stored \subseteq Block
      /\ \A b \in stored : FALSE
  OBVIOUS
<1>2. /\ last_disconnected' \in Seq(Block)
      /\ interrupted \subseteq interrupted' /\ interrupted' \subseteq Block
  BY DEF IInv, TypeOK
<1> HIDE DEF stored
<1> QED  BY <1>1, <1>2, KeepTip

LEMMA RefusedIInv ==
  ASSUME IInv, NEW b \in Block, Submitted(b, {}), UNCHANGED last_disconnected
  PROVE  IInv'
BY SyncOnly DEF Submitted

LEMMA StoredIInv ==
  ASSUME IInv, NEW b \in Block, Storable(b),
         Submitted(b, {b}), last_disconnected' = << >>,
         ~ ReplayBranch(b).ok \/ chain_work(b) <= chain_work(tip_cache)
  PROVE  IInv'
<1>1. /\ previous_hash(b) \in blocks
      /\ blocks' = blocks \cup {b}
      /\ canonical' = canonical /\ meta_tip' = meta_tip /\ tip_cache' = tip_cache
      /\ utxo' = SyncedUtxo /\ meta_utxo_tip' = SyncedStamp
      /\ last_disconnected' \in Seq(Block) /\ interrupted' = interrupted
  BY DEF Submitted, Storable
<1>2. interrupted' \subseteq Block /\ interrupted \subseteq interrupted'
  BY <1>1 DEF IInv, TypeOK
<1>3. {b} \subseteq Block /\ \A c \in {b} : previous_hash(c) \in blocks
  BY <1>1
<1>4. \A c \in {b} : \/ c \in interrupted'
                     \/ ~ ReplayBranch(c).ok
                     \/ chain_work(c) <= chain_work(tip_cache)
  OBVIOUS
<1> QED  BY <1>1, <1>2, <1>3, <1>4, KeepTip

LEMMA SideIInv ==
  ASSUME IInv, NEW b \in Block, SubmitSide(b)
  PROVE  IInv'
<1>1. chain_work(b) \in Nat /\ chain_work(tip_cache) \in Nat
  BY WorkType DEF IInv, TypeOK
<1>2. chain_work(b) <= chain_work(tip_cache)
  BY <1>1 DEF SubmitSide, MoreWork
<1> QED  BY <1>2, StoredIInv DEF SubmitSide

\* The fast path and a replay of the whole branch give the same verdict and the
\* same set of unspent outputs.
LEMMA ExtendVerdict ==
  ASSUME IInv, NEW b \in Block, Storable(b), ExtendsTip(b)
  PROVE  /\ validate_block_utxo(SyncedUtxo, b) <=> ReplayBranch(b).ok
         /\ ReplayBranch(b).ok =>
              /\ apply_utxo_delta(SyncedUtxo, b) = ReplayBranch(b).utxo
              /\ IsUtxoSet(ReplayBranch(b).utxo)
<1>1. tip_cache # Zero /\ previous_hash(b) = tip_cache
  BY StoredParent DEF Storable, ExtendsTip
<1>2. b \in Path /\ Len(b) # 1 /\ tip_cache \in Path
  BY <1>1, BlockIsPath, ParentFacts DEF IInv, TypeOK
<1>3. ReplayBranch(b) = apply_block(ReplayBranch(tip_cache).utxo, b)
  BY <1>1, <1>2, ReplayStep DEF ApplyNext, IInv, TipReplays
<1>4. SyncedUtxo = ReplayBranch(tip_cache).utxo /\ SyncedUtxo \in Utxos
  BY <1>1, Synced, UtxosAreUtxoSets
<1>5. ReplayBranch(b).utxo \in Utxos
  BY <1>2, ReplayStep DEF Results
<1> QED  BY <1>2, <1>3, <1>4, <1>5, FastPath, UtxosAreUtxoSets

LEMMA ExtendInvalidIInv ==
  ASSUME IInv, NEW b \in Block, SubmitExtendInvalid(b)
  PROVE  IInv'
BY ExtendVerdict, StoredIInv DEF SubmitExtendInvalid

LEMMA ReorgInvalidIInv ==
  ASSUME IInv, NEW b \in Block, SubmitReorgInvalid(b)
  PROVE  IInv'
BY StoredIInv DEF SubmitReorgInvalid

\* A restart reads back the tip the process had.
LEMMA ReloadIsTip == ASSUME IInv PROVE ReloadedTip = tip_cache
<1>1. tip_cache \in blocks \/ (tip_cache = Zero /\ blocks = {})
  BY DEF IInv, CachesCoherent
<1> QED  BY <1>1 DEF ReloadedTip, IInv, CachesCoherent

LEMMA CrashIInv ==
  ASSUME IInv, NEW b \in Block, SubmitCrash(b)
  PROVE  IInv'
<1>1. /\ previous_hash(b) \in blocks
      /\ blocks' = blocks \cup {b}
      /\ canonical' = canonical /\ meta_tip' = meta_tip /\ tip_cache' = tip_cache
      /\ utxo' = SyncedUtxo /\ meta_utxo_tip' = SyncedStamp
      /\ last_disconnected' \in Seq(Block) /\ interrupted' = interrupted \cup {b}
  BY ReloadIsTip DEF SubmitCrash, Storable
<1>2. interrupted' \subseteq Block
  BY <1>1 DEF IInv, TypeOK
<1> QED  BY <1>1, <1>2, KeepTip

LEMMA EnsureIInv == ASSUME IInv, EnsureUtxoSynced PROVE IInv'
BY SyncOnly DEF EnsureUtxoSynced

\* A step that moves nothing but the list of disconnected blocks.
LEMMA QuietIInv ==
  ASSUME IInv, UNCHANGED <<db, tip_cache, interrupted>>,
         last_disconnected' \in Seq(Block)
  PROVE  IInv'
BY DEF db, IInv, TypeOK, StoreClosed, CanonicalIsAncestry, CachesCoherent,
       UtxoMatchesChain, TipReplays, TipHasMostWork

LEMMA ReopenIInv == ASSUME IInv, Reopen PROVE IInv'
BY ReloadIsTip, QuietIInv DEF Reopen

\* The steps that adopt a new tip.
LEMMA ExtendIInv ==
  ASSUME IInv, NEW b \in Block, SubmitExtend(b)
  PROVE  IInv'
<1>1. /\ Storable(b) /\ previous_hash(b) \in blocks
      /\ ExtendsTip(b) /\ previous_hash(b) = tip_cache
      /\ validate_block_utxo(SyncedUtxo, b)
      /\ blocks' = blocks \cup {b}
      /\ utxo' = apply_utxo_delta(SyncedUtxo, b)
      /\ meta_tip' = b /\ meta_utxo_tip' = b /\ tip_cache' = b
      /\ last_disconnected' \in Seq(Block)
      /\ interrupted' = interrupted
  BY DEF SubmitExtend, Storable, ExtendsTip
<1>2. /\ canonical' = build_canonical_chain(b)
      /\ chain_work(tip_cache) < chain_work(b)
  BY <1>1, StoredParent, OnTop DEF SubmitExtend
<1>3. /\ ReplayBranch(b).ok /\ utxo' = ReplayBranch(b).utxo
      /\ IsUtxoSet(utxo')
  BY <1>1, ExtendVerdict
<1>4. blocks' \subseteq Block /\ b \in blocks' /\ blocks \subseteq blocks'
  BY <1>1 DEF IInv, TypeOK
<1>5. StoreClosed'
  BY <1>1, StoreGrowsByOne
<1>6. chain_work(b) <= chain_work(b) /\ \A c \in blocks' \ blocks : c = b
  BY <1>1, WorkType
<1> QED  BY <1>1, <1>2, <1>3, <1>4, <1>5, <1>6, Adopt

LEMMA MineIInv ==
  ASSUME IInv, NEW b \in Block, MineNextBlock(b)
  PROVE  IInv'
<1>1. /\ tip_cache # Zero /\ previous_hash(b) = tip_cache
      /\ IsBareCandidate(b)
      /\ blocks' = blocks \cup {b}
      /\ meta_tip' = b /\ tip_cache' = b
      /\ utxo' = utxo /\ meta_utxo_tip' = meta_utxo_tip
      /\ last_disconnected' = last_disconnected
      /\ interrupted' = interrupted
  BY DEF MineNextBlock, PutBlock
<1>2. /\ b \in Path
      /\ canonical' = build_canonical_chain(b)
      /\ chain_work(tip_cache) < chain_work(b)
      /\ ReplayBranch(b) = apply_block(ReplayBranch(tip_cache).utxo, b)
  BY <1>1, OnTop DEF MineNextBlock, PutBlock
<1>3. ReplayBranch(b).ok
  BY <1>1, <1>2, BareCandidateApplies DEF apply_block
<1>4. /\ chain_work(meta_utxo_tip) <= chain_work(tip_cache)
      /\ meta_utxo_tip \in Block \cup {Zero} /\ tip_cache \in Block \cup {Zero}
      /\ IsUtxoSet(utxo) /\ last_disconnected \in Seq(Block)
  BY DEF IInv, CachesCoherent, TypeOK
<1>5. chain_work(meta_utxo_tip) <= chain_work(b) /\ meta_utxo_tip # b
  BY <1>2, <1>4, WorkType
<1>6. blocks' \subseteq Block /\ b \in blocks' /\ blocks \subseteq blocks'
  BY <1>1 DEF IInv, TypeOK
<1>7. StoreClosed'
  BY <1>1, StoreGrowsByOne DEF IInv, CachesCoherent
<1>8. chain_work(b) <= chain_work(b) /\ \A c \in blocks' \ blocks : c = b
  BY <1>1, WorkType
<1> QED  BY <1>1, <1>2, <1>3, <1>4, <1>5, <1>6, <1>7, <1>8, Adopt

\* A store that holds exactly the prefixes of b, as genesis and the migration
\* leave it in an empty database.
LEMMA FreshChain ==
  ASSUME IInv, NEW b \in Block, tip_cache = Zero,
         canonical' = build_canonical_chain(b),
         blocks' = {SubSeq(b, 1, n) : n \in 1 .. Len(b)}, blocks' \subseteq Block,
         ReplayBranch(b).ok,
         meta_tip' = b, tip_cache' = b,
         UNCHANGED <<utxo, meta_utxo_tip, last_disconnected, interrupted>>
  PROVE  IInv'
<1>1. b \in Path /\ Len(b) \in Nat \ {0}
  BY BlockIsPath, PathFacts
<1>2. blocks = {} /\ chain_work(meta_utxo_tip) <= chain_work(tip_cache)
  BY DEF IInv, CachesCoherent
<1>3. b \in blocks'
  BY <1>1, WholePrefix
<1>4. StoreClosed'
  <2> SUFFICES ASSUME NEW n \in 1 .. Len(b), NEW k \in 1 .. Len(SubSeq(b, 1, n))
               PROVE  SubSeq(SubSeq(b, 1, n), 1, k) \in blocks'
    BY DEF StoreClosed
  <2>1. /\ Len(SubSeq(b, 1, n)) = n
        /\ \A j \in 1 .. n : SubSeq(SubSeq(b, 1, n), 1, j) = SubSeq(b, 1, j)
    BY <1>1, PrefixFacts
  <2>2. k \in 1 .. n /\ k \in 1 .. Len(b)
    BY <1>1, <2>1
  <2> QED  BY <2>1, <2>2
<1>5. \A c \in blocks' : chain_work(c) <= chain_work(b)
  BY <1>1, WorkOfPrefix
<1>6. /\ chain_work(tip_cache) < chain_work(b)
      /\ chain_work(meta_utxo_tip) <= chain_work(b) /\ meta_utxo_tip # b
  <2>1. chain_work(Zero) = 0 /\ chain_work(previous_hash(b)) \in Nat
        /\ chain_work(previous_hash(b)) < chain_work(b)
    BY <1>1, ZeroFacts, WorkStep
  <2>2. chain_work(b) \in Nat /\ chain_work(meta_utxo_tip) \in Nat
    BY WorkType DEF IInv, TypeOK
  <2> QED  BY <1>2, <2>1, <2>2
<1>7. /\ IsUtxoSet(utxo) /\ meta_utxo_tip \in Block \cup {Zero}
      /\ last_disconnected \in Seq(Block)
  BY DEF IInv, TypeOK
<1> QED  BY <1>2, <1>3, <1>4, <1>5, <1>6, <1>7, Adopt

LEMMA GenesisIInv ==
  ASSUME IInv, NEW b \in Block, InitGenesis(b)
  PROVE  IInv'
<1>1. b \in Path /\ Len(b) = 1 /\ height(b) = 0
  BY BlockIsPath, ParentFacts DEF InitGenesis, height
<1>2. SubSeq(b, 1, 1) = b
  BY <1>1, WholePrefix
<1>3. ReplayBranch(b).ok
  BY <1>1, ReplayStep, BareCandidateApplies DEF InitGenesis, apply_block
<1>4. tip_cache = Zero /\ blocks = {} /\ canonical = EmptyUtxo
  BY DEF InitGenesis, IInv, CachesCoherent, CanonicalIsAncestry
<1>5. blocks' = {SubSeq(b, 1, n) : n \in 1 .. Len(b)}
  <2>1. blocks' = {b} /\ 1 .. Len(b) = {1}
    BY <1>1, <1>4 DEF InitGenesis, PutBlock
  <2> QED  BY <1>2, <2>1
<1>6. canonical' = build_canonical_chain(b)
  <2>1. canonical' = [h \in {0} |-> b]
    BY <1>1, <1>4 DEF InitGenesis, PutBlock, EmptyUtxo
  <2>2. 0 .. height(b) = {0}
    BY <1>1
  <2>3. build_canonical_chain(b) = [h \in {0} |-> b]
    BY <1>2, <2>2 DEF build_canonical_chain
  <2> QED  BY <2>1, <2>3
<1>7. blocks' \subseteq Block
  BY <1>4 DEF InitGenesis, PutBlock
<1> QED  BY <1>3, <1>4, <1>5, <1>6, <1>7, FreshChain DEF InitGenesis, PutBlock

LEMMA MigrateIInv ==
  ASSUME IInv, NEW b \in Block, MigrateJson(b)
  PROVE  IInv'
<1>1. b \in Path /\ height(b) \in Nat /\ Len(b) = height(b) + 1
  BY BlockIsPath, PathFacts DEF height
<1>2. Range(build_canonical_chain(b)) = {SubSeq(b, 1, h + 1) : h \in 0 .. height(b)}
  BY DEF Range, build_canonical_chain
<1>3. {SubSeq(b, 1, h + 1) : h \in 0 .. height(b)} = {SubSeq(b, 1, n) : n \in 1 .. Len(b)}
  <2>1. \A h \in 0 .. height(b) : h + 1 \in 1 .. Len(b)
    BY <1>1
  <2>2. \A n \in 1 .. Len(b) : n - 1 \in 0 .. height(b) /\ n = (n - 1) + 1
    BY <1>1
  <2> QED  BY <2>1, <2>2
<1>4. /\ blocks' = {SubSeq(b, 1, n) : n \in 1 .. Len(b)}
      /\ canonical' = build_canonical_chain(b)
  BY <1>2, <1>3 DEF MigrateJson
<1>5. blocks' \subseteq Block
  BY <1>2, <1>3, <1>4 DEF MigrateJson, LegacyChain
<1> QED  BY <1>4, <1>5, FreshChain DEF MigrateJson, LegacyChain

\* The batch of a reorganisation leaves exactly the new branch in CF_CANONICAL.
LEMMA ReorgCanonicalIsBranch ==
  ASSUME IInv, NEW b \in Block, tip_cache # Zero
  PROVE  ReorgCanonical(b) = build_canonical_chain(b)
<1>1. b \in Path /\ tip_cache \in Path
  BY BlockIsPath DEF IInv, TypeOK
<1>2. height(b) \in Nat /\ height(tip_cache) \in Nat
  BY <1>1, PathFacts
<1>3. DOMAIN canonical = 0 .. height(tip_cache)
  BY <1>1, ChainFacts DEF IInv, CanonicalIsAncestry
<1>4. DOMAIN NewChain(b) = 0 .. height(b)
  BY <1>1, ChainFacts DEF NewChain
<1>5. (DOMAIN canonical \cup DOMAIN NewChain(b)) \ ((height(b) + 1) .. height(tip_cache))
        = 0 .. height(b)
  BY <1>2, <1>3, <1>4
<1>6. ReorgCanonical(b) = [h \in 0 .. height(b) |-> NewChain(b)[h]]
  BY <1>4, <1>5 DEF ReorgCanonical
<1>7. build_canonical_chain(b) = [h \in 0 .. height(b) |-> build_canonical_chain(b)[h]]
  BY DEF build_canonical_chain
<1> QED  BY <1>6, <1>7 DEF NewChain

\* What submit_block reports as disconnected is a sequence of blocks.
LEMMA DisconnectedType ==
  ASSUME IInv, NEW b \in Block, tip_cache # Zero
  PROVE  Disconnected(b) \in Seq(Block)
<1> DEFINE old == build_canonical_chain(tip_cache)
           common == {h \in DOMAIN old \cap DOMAIN NewChain(b) :
                        \A g \in 0 .. h : old[g] = NewChain(b)[g]}
           fork == ForkIndex(old, NewChain(b))
           n == Len(tip_cache) - fork
<1>1. tip_cache \in Path /\ Len(tip_cache) \in Nat /\ height(tip_cache) \in Nat
      /\ Len(tip_cache) = height(tip_cache) + 1
  BY BlockIsPath, PathFacts DEF IInv, TypeOK, height
<1>2. /\ DOMAIN old = 0 .. height(tip_cache)
      /\ \A h \in 0 .. height(tip_cache) : old[h] = SubSeq(tip_cache, 1, h + 1)
  BY <1>1, ChainFacts
<1>3. \A h \in 0 .. height(tip_cache) : old[h] \in Block
  <2>1. \A h \in 0 .. height(tip_cache) : h + 1 \in 1 .. Len(tip_cache)
    BY <1>1
  <2>2. \A k \in 1 .. Len(tip_cache) : SubSeq(tip_cache, 1, k) \in blocks
    BY DEF IInv, StoreClosed, CachesCoherent
  <2> QED  BY <1>2, <2>1, <2>2 DEF IInv, TypeOK
<1>4. fork \in Nat /\ fork <= Len(tip_cache)
  <2>1. common \in SUBSET (0 .. height(tip_cache)) /\ fork = Cardinality(common)
    BY <1>2 DEF ForkIndex
  <2> HIDE DEF common, fork
  <2>2. common \in SUBSET Nat /\ \A h \in common : h <= height(tip_cache)
    BY <1>1, <2>1
  <2>3. IsFiniteSet(common) /\ Cardinality(common) <= height(tip_cache) + 1
    BY <1>1, <2>2, FS_BoundedSetOfNaturals
  <2> QED  BY <1>1, <2>1, <2>3, FS_CardinalityType
<1>5. Disconnected(b) = [i \in 1 .. n |-> old[fork + i - 1]]
  BY DEF Disconnected
<1> HIDE DEF fork, old
<1>6. n \in Nat /\ \A i \in 1 .. n : fork + i - 1 \in 0 .. height(tip_cache)
  BY <1>1, <1>4
<1> HIDE DEF n
<1>7. \A i \in 1 .. n : old[fork + i - 1] \in Block
  BY <1>3, <1>6
<1> QED  BY <1>5, <1>6, <1>7

LEMMA ReorgIInv ==
  ASSUME IInv, NEW b \in Block, SubmitReorg(b)
  PROVE  IInv'
<1>1. /\ previous_hash(b) \in blocks
      /\ ReplayBranch(b).ok
      /\ blocks' = blocks \cup {b}
      /\ utxo' = ReplayBranch(b).utxo
      /\ meta_tip' = b /\ meta_utxo_tip' = b /\ tip_cache' = b
      /\ interrupted' = interrupted
  BY DEF SubmitReorg, Storable
<1>2. tip_cache # Zero /\ tip_cache \in Block
  BY <1>1, StoredParent
<1>3. canonical' = build_canonical_chain(b) /\ last_disconnected' \in Seq(Block)
  BY <1>2, ReorgCanonicalIsBranch, DisconnectedType DEF SubmitReorg
<1>4. IsUtxoSet(utxo')
  <2>1. ReplayBranch(b).utxo \in Utxos
    BY BlockIsPath, ReplayStep DEF Results
  <2> QED  BY <1>1, <2>1, UtxosAreUtxoSets
<1>5. chain_work(tip_cache) < chain_work(b) /\ chain_work(b) <= chain_work(b)
  BY <1>2, WorkType DEF SubmitReorg, MoreWork
<1>6. blocks' \subseteq Block /\ b \in blocks' /\ blocks \subseteq blocks'
  BY <1>1 DEF IInv, TypeOK
<1>7. StoreClosed'
  BY <1>1, StoreGrowsByOne
<1>8. \A c \in blocks' \ blocks : c = b
  BY <1>1
<1> QED  BY <1>1, <1>3, <1>4, <1>5, <1>6, <1>7, <1>8, Adopt

-----------------------------------------------------------------------------
\* The invariant is inductive

LEMMA NextIInv == IInv /\ [Next]_vars => IInv'
<1> SUFFICES ASSUME IInv, [Next]_vars PROVE IInv'
  OBVIOUS
<1>1. CASE UNCHANGED vars
  <2>1. last_disconnected' \in Seq(Block)
    BY <1>1 DEF vars, IInv, TypeOK
  <2> QED  BY <1>1, <2>1, QuietIInv DEF vars
<1>2. ASSUME NEW b \in Block, InitGenesis(b) PROVE IInv'
  BY <1>2, GenesisIInv
<1>3. ASSUME NEW b \in Block, MineNextBlock(b) PROVE IInv'
  BY <1>3, MineIInv
<1>4. ASSUME NEW b \in Block, MigrateJson(b) PROVE IInv'
  BY <1>4, MigrateIInv
<1>5. ASSUME NEW b \in Block, SubmitBlock(b) PROVE IInv'
  BY <1>1, <1>5, RefusedIInv, SideIInv, ExtendIInv, ExtendInvalidIInv,
     ReorgIInv, ReorgInvalidIInv
     DEF SubmitBlock, SubmitAlreadyKnown, SubmitUnknownParent, SubmitInvalid
<1>6. ASSUME NEW b \in Block, SubmitCrash(b) PROVE IInv'
  BY <1>6, CrashIInv
<1>7. CASE EnsureUtxoSynced
  BY <1>7, EnsureIInv
<1>8. CASE Reopen
  BY <1>8, ReopenIInv
<1> QED  BY <1>1, <1>2, <1>3, <1>4, <1>5, <1>6, <1>7, <1>8 DEF Next

\* Every reachable state of ChainState satisfies the inductive invariant.
THEOREM Invariance == Spec => []IInv
BY InitIInv, NextIInv, PTL DEF Spec

-----------------------------------------------------------------------------
\* What follows

\* Whatever sequence of submissions, mining, migration, restarts and crashes,
\* the database holds what its column families are meant to hold.
THEOREM TypeCorrect == Spec => []TypeOK
BY Invariance, PTL DEF IInv

\* submit_block never stores a block without its whole branch.
THEOREM StoreIsClosed == Spec => []StoreClosed
BY Invariance, PTL DEF IInv

\* CF_CANONICAL is always exactly the branch of the tip, after reorganisations
\* to shorter branches too.
THEOREM CanonicalIndexIsBranch == Spec => []CanonicalIsAncestry
BY Invariance, PTL DEF IInv

\* A restart finds the tip the process had, and the stamp of CF_UTXO never names
\* a block that could be adopted later.
THEOREM RestartIsHarmless == Spec => []CachesCoherent
BY Invariance, PTL DEF IInv

\* The incremental updates of CF_UTXO by the fast path of submit_block and the
\* rebuilds of ensure_utxo_synced agree with a replay from genesis.
THEOREM UtxoIsReplay == Spec => []UtxoMatchesChain
BY Invariance, PTL DEF IInv

\* The rebuild in ensure_utxo_synced cannot fail: every tip the node ever adopts,
\* by the seeded check of the fast path or by its own mining, replays.
THEOREM TipAlwaysReplays == Spec => []TipReplays
BY Invariance, PTL DEF IInv

\* Fork choice: no stored block with a valid branch beats the tip unless a crash
\* came between the two writes of its submit_block.
THEOREM ForkChoice == Spec => []TipHasMostWork
BY Invariance, PTL DEF IInv

\* A step keeps the tip or moves it to a block with more work.
LEMMA TipStep ==
  ASSUME IInv, [Next]_vars
  PROVE  \/ tip_cache' = tip_cache
         \/ tip_cache' \in Block /\ chain_work(tip_cache') > chain_work(tip_cache)
<1>0. chain_work(tip_cache) \in Nat
  BY WorkType DEF IInv, TypeOK
<1>2. ASSUME NEW b \in Block,
             InitGenesis(b) \/ MineNextBlock(b) \/ MigrateJson(b)
             \/ SubmitExtend(b) \/ SubmitReorg(b)
      PROVE  tip_cache' \in Block /\ chain_work(tip_cache') > chain_work(tip_cache)
  <2>1. /\ tip_cache' = b
        /\ \/ tip_cache = Zero
           \/ previous_hash(b) = tip_cache
           \/ chain_work(b) > chain_work(tip_cache)
    BY <1>2 DEF InitGenesis, MineNextBlock, MigrateJson, SubmitExtend, SubmitReorg,
                PutBlock, MoreWork
  <2>2. b \in Path /\ chain_work(b) \in Nat /\ chain_work(Zero) = 0
    BY BlockIsPath, ZeroFacts, WorkType
  <2>3. chain_work(previous_hash(b)) < chain_work(b)
    BY <2>2, WorkStep
  <2>4. chain_work(b) > 0
    BY <2>2, WorkStep
  <2> QED  BY <1>0, <2>1, <2>2, <2>3, <2>4
<1>3. UNCHANGED vars => tip_cache' = tip_cache
  BY DEF vars
<1>4. ASSUME NEW b \in Block,
             SubmitAlreadyKnown(b) \/ SubmitUnknownParent(b) \/ SubmitInvalid(b)
             \/ SubmitSide(b) \/ SubmitExtendInvalid(b) \/ SubmitReorgInvalid(b)
             \/ SubmitCrash(b)
      PROVE  tip_cache' = tip_cache
  BY <1>3, <1>4, ReloadIsTip
     DEF SubmitAlreadyKnown, SubmitUnknownParent, SubmitInvalid, SubmitSide,
         SubmitExtendInvalid, SubmitReorgInvalid, SubmitCrash, Submitted
<1>5. EnsureUtxoSynced \/ Reopen => tip_cache' = tip_cache
  BY ReloadIsTip DEF EnsureUtxoSynced, Reopen
<1> QED  BY <1>2, <1>3, <1>4, <1>5 DEF Next, SubmitBlock

LEMMA WorkStepUp == IInv /\ [Next]_vars => [chain_work(tip_cache') >= chain_work(tip_cache)]_vars
<1> SUFFICES ASSUME IInv, [Next]_vars
             PROVE  chain_work(tip_cache') >= chain_work(tip_cache)
  OBVIOUS
<1>1. chain_work(tip_cache) \in Nat /\ \A b \in Block : chain_work(b) \in Nat
  BY WorkType DEF IInv, TypeOK
<1> QED  BY <1>1, TipStep

\* The node never moves to a chain with less work, restarts after a crash included.
THEOREM WorkIsMonotone == Spec => WorkNeverDecreases
BY Invariance, WorkStepUp, PTL DEF Spec, WorkNeverDecreases

-----------------------------------------------------------------------------
\* The refinement

\* Without a tip nothing is rebuilt, and what submit_block writes back is what it read.
LEMMA FreshStep == IInv /\ FreshIsEmpty /\ [Next]_vars => FreshIsEmpty'
<1> SUFFICES ASSUME IInv, FreshIsEmpty, [Next]_vars, tip_cache' = Zero
             PROVE  utxo' = EmptyUtxo
  BY DEF FreshIsEmpty
<1>1. tip_cache = Zero /\ utxo = EmptyUtxo
  BY TipStep, ZeroFacts DEF FreshIsEmpty
<1>2. SyncedUtxo = utxo /\ ~ UtxoStale
  BY <1>1 DEF SyncedUtxo, UtxoStale
<1>3. ASSUME NEW b \in Block, SubmitExtend(b) \/ SubmitReorg(b)
      PROVE  FALSE
  BY <1>3, ZeroFacts DEF SubmitExtend, SubmitReorg
<1>4. ASSUME NEW b \in Block,
             InitGenesis(b) \/ MineNextBlock(b) \/ MigrateJson(b)
      PROVE  FALSE
  BY <1>4, ZeroFacts DEF InitGenesis, MineNextBlock, MigrateJson, PutBlock
<1>5. ASSUME NEW b \in Block,
             SubmitUnknownParent(b) \/ SubmitInvalid(b) \/ SubmitSide(b)
             \/ SubmitExtendInvalid(b) \/ SubmitReorgInvalid(b) \/ SubmitCrash(b)
      PROVE  utxo' = SyncedUtxo
  BY <1>5 DEF SubmitUnknownParent, SubmitInvalid, SubmitSide, SubmitExtendInvalid,
              SubmitReorgInvalid, SubmitCrash, Submitted
<1>6. ASSUME UNCHANGED vars \/ Reopen \/ \E b \in Block : SubmitAlreadyKnown(b)
      PROVE  utxo' = utxo
  BY <1>6 DEF vars, db, Reopen, SubmitAlreadyKnown
<1> QED  BY <1>1, <1>2, <1>3, <1>4, <1>5, <1>6 DEF Next, SubmitBlock, EnsureUtxoSynced

\* What a handler sees after ensure_utxo_synced are the coins of the tip.
LEMMA CoinsSeen ==
  ASSUME IInv, FreshIsEmpty
  PROVE  SyncedUtxo = CoinsOf(tip_cache)
<1>1. tip_cache = Zero => SyncedUtxo = EmptyUtxo
  BY DEF SyncedUtxo, UtxoStale, FreshIsEmpty
<1> QED  BY <1>1, Synced DEF CoinsOf

LEMMA CoinsSeenNext ==
  ASSUME IInv', FreshIsEmpty'
  PROVE  SyncedUtxo' = CoinsOf(tip_cache')
<1>1. (SyncedUtxo = CoinsOf(tip_cache))'
  BY CoinsSeen, PTL
<1> QED  BY <1>1

LEMMA RefineStep ==
  IInv /\ FreshIsEmpty /\ IInv' /\ FreshIsEmpty' /\ [Next]_vars
    => [BC!Next]_<<tip_cache, SyncedUtxo>>
<1> SUFFICES ASSUME IInv, FreshIsEmpty, IInv', FreshIsEmpty', [Next]_vars
             PROVE  [BC!Next]_<<tip_cache, SyncedUtxo>>
  OBVIOUS
<1>1. SyncedUtxo = CoinsOf(tip_cache) /\ SyncedUtxo' = CoinsOf(tip_cache')
  BY CoinsSeen, CoinsSeenNext
<1>2. CASE tip_cache' = tip_cache
  BY <1>1, <1>2
<1>3. CASE tip_cache' # tip_cache
  <2>1. tip_cache' \in Block /\ chain_work(tip_cache') > chain_work(tip_cache)
    BY <1>3, TipStep
  <2>2. Replays(tip_cache')
    BY <2>1, ZeroFacts DEF IInv, TipReplays, Replays
  <2> QED  BY <1>1, <2>1, <2>2 DEF BC!Next, BC!Adopt
<1> QED  BY <1>2, <1>3

\* Users of the chain state see what BestChain says: the detailed specification, with
\* its store, index, stamp, deltas, crashes and restarts, implements the abstract one.
THEOREM ChainStateImplementsBestChain == Spec => ImplementsBestChain
<1>1. Init => FreshIsEmpty /\ BC!Init
  BY ZeroFacts DEF Init, FreshIsEmpty, BC!Init, SyncedUtxo, UtxoStale, CoinsOf
<1>2. Spec => []FreshIsEmpty
  BY <1>1, Invariance, FreshStep, PTL DEF Spec
<1> QED  BY <1>1, <1>2, Invariance, RefineStep, PTL
         DEF Spec, ImplementsBestChain, BC!Spec
-----------------------------------------------------------------------------
\* Disconnected blocks

\* The fork index splits the old chain: below it are the blocks that the new chain
\* has too, and no others.
LEMMA ForkSplits ==
  ASSUME NEW a \in Path, NEW b \in Path, NEW old, old = build_canonical_chain(a),
         NEW new, new = build_canonical_chain(b), NEW fork, fork = ForkIndex(old, new)
  PROVE  /\ fork \in Nat /\ fork <= Len(a)
         /\ \A h \in 0 .. height(a) : h < fork <=> old[h] \in Range(new)
<1> DEFINE common == {h \in DOMAIN old \cap DOMAIN new : \A g \in 0 .. h : old[g] = new[g]}
<1>1. /\ Len(a) = height(a) + 1 /\ height(a) \in Nat
      /\ Len(b) = height(b) + 1 /\ height(b) \in Nat
  BY PathFacts DEF height
<1>2. /\ DOMAIN old = 0 .. height(a) /\ DOMAIN new = 0 .. height(b)
      /\ \A h \in 0 .. height(a) : old[h] = SubSeq(a, 1, h + 1)
      /\ \A h \in 0 .. height(b) : new[h] = SubSeq(b, 1, h + 1)
  BY ChainFacts
<1>3. common \subseteq 0 .. height(a) /\ \A h \in common : \A g \in 0 .. h : g \in common
  BY <1>1, <1>2
<1>4. fork = Cardinality(common)
  BY DEF ForkIndex
<1>5. /\ Cardinality(common) \in Nat /\ Cardinality(common) <= height(a) + 1
      /\ \A h \in Nat : h \in common <=> h < Cardinality(common)
  <2> HIDE DEF common
  <2> QED  BY <1>1, <1>3, InitialSegment
<1>6. ASSUME NEW h \in 0 .. height(a), old[h] \in Range(new)
      PROVE  h \in common
  <2>1. PICK k \in 0 .. height(b) : old[h] = new[k]
    BY <1>2, <1>6 DEF Range
  <2>2. h + 1 \in 1 .. Len(a) /\ k + 1 \in 1 .. Len(b)
    BY <1>1
  <2>3. Len(old[h]) = h + 1 /\ Len(new[k]) = k + 1
    BY <1>2, <2>2, PrefixFacts
  <2>4. h = k
    BY <2>1, <2>3
  <2>5. \A g \in 0 .. h : g + 1 \in 1 .. h + 1 /\ g \in 0 .. height(a) /\ g \in 0 .. height(b)
    BY <1>1, <2>4
  <2>6. \A g \in 0 .. h : /\ old[g] = SubSeq(old[h], 1, g + 1)
                          /\ new[g] = SubSeq(new[k], 1, g + 1)
    BY <1>2, <2>2, <2>4, <2>5, PrefixFacts
  <2>7. \A g \in 0 .. h : old[g] = new[g]
    BY <2>1, <2>6
  <2>8. h \in DOMAIN old \cap DOMAIN new
    BY <1>2, <2>4
  <2> QED  BY <2>7, <2>8
<1>7. ASSUME NEW h \in common
      PROVE  old[h] \in Range(new)
  <2>1. h \in DOMAIN new /\ h \in 0 .. h
    BY <1>1, <1>2
  <2> QED  BY <2>1 DEF Range
<1> HIDE DEF common
<1> QED  BY <1>1, <1>4, <1>5, <1>6, <1>7

\* What a step takes off the canonical index, and what it then reports.
Gone == Range(canonical) \ Range(canonical')
Reported(d) ==
  /\ Range(d) = Gone
  /\ \A i, j \in DOMAIN d : i < j => height(d[i]) < height(d[j])

LEMMA ReorgReports ==
  ASSUME IInv, NEW b \in Block, SubmitReorg(b)
  PROVE  Reported(last_disconnected')
<1>1. tip_cache # Zero /\ tip_cache \in Path /\ b \in Path
  BY StoredParent, BlockIsPath DEF SubmitReorg, Storable
<1> DEFINE old == build_canonical_chain(tip_cache)
           new == build_canonical_chain(b)
           fork == ForkIndex(old, new)
           n == Len(tip_cache) - fork
           d == last_disconnected'
<1>2. canonical = old /\ canonical' = new
  BY <1>1, ReorgCanonicalIsBranch DEF SubmitReorg, IInv, CanonicalIsAncestry
<1>3. d = [i \in 1 .. n |-> old[fork + i - 1]]
  BY DEF SubmitReorg, Disconnected, NewChain
<1>4. /\ fork \in Nat /\ fork <= Len(tip_cache)
      /\ \A h \in 0 .. height(tip_cache) : h < fork <=> old[h] \in Range(new)
  BY <1>1, ForkSplits
<1>5. /\ DOMAIN old = 0 .. height(tip_cache)
      /\ \A h \in 0 .. height(tip_cache) : height(old[h]) = h
  <2>1. Len(tip_cache) = height(tip_cache) + 1 /\ height(tip_cache) \in Nat
    BY <1>1, PathFacts DEF height
  <2>2. \A h \in 0 .. height(tip_cache) : h + 1 \in 1 .. Len(tip_cache) /\ (h + 1) - 1 = h
    BY <2>1
  <2>3. \A h \in 0 .. height(tip_cache) : old[h] = SubSeq(tip_cache, 1, h + 1)
    BY <1>1, ChainFacts
  <2>4. DOMAIN old = 0 .. height(tip_cache)
    BY <1>1, ChainFacts
  <2>5. \A k \in 1 .. Len(tip_cache) : height(SubSeq(tip_cache, 1, k)) = k - 1
    BY <1>1, PrefixFacts
  <2> HIDE DEF old
  <2> QED  BY <2>2, <2>3, <2>4, <2>5
<1>6. Len(tip_cache) = height(tip_cache) + 1 /\ height(tip_cache) \in Nat
  BY <1>1, PathFacts DEF height
<1> HIDE DEF old, new, fork, d
<1>7. n \in Nat /\ \A i \in 1 .. n : fork + i - 1 \in 0 .. height(tip_cache)
                                  /\ ~ (fork + i - 1 < fork)
  BY <1>4, <1>6
<1>8. DOMAIN d = 1 .. n /\ \A i \in 1 .. n : d[i] = old[fork + i - 1]
  BY <1>3
<1>9. Range(d) = Gone
  <2>1. ASSUME NEW x \in Range(d) PROVE x \in Range(old) /\ x \notin Range(new)
    <3>1. PICK i \in 1 .. n : x = old[fork + i - 1]
      BY <1>8 DEF Range
    <3>2. fork + i - 1 \in 0 .. height(tip_cache) /\ ~ (fork + i - 1 < fork)
      BY <1>7
    <3> QED  BY <1>4, <1>5, <3>1, <3>2 DEF Range
  <2>2. ASSUME NEW x \in Range(old), x \notin Range(new) PROVE x \in Range(d)
    <3>1. PICK h \in 0 .. height(tip_cache) : x = old[h]
      BY <1>5 DEF Range
    <3>2. ~ (h < fork)
      BY <1>4, <2>2, <3>1
    <3>3. (h - fork) + 1 \in 1 .. n /\ fork + ((h - fork) + 1) - 1 = h
      BY <1>4, <1>6, <3>2
    <3>4. d[(h - fork) + 1] = x
      BY <1>8, <3>1, <3>3
    <3> QED  BY <1>8, <3>3, <3>4 DEF Range
  <2> QED  BY <1>2, <2>1, <2>2 DEF Gone
<1>10. \A i, j \in 1 .. n : i < j => height(d[i]) < height(d[j])
  <2>1. \A i \in 1 .. n : height(d[i]) = fork + i - 1
    BY <1>5, <1>7, <1>8
  <2> QED  BY <1>4, <1>7, <2>1
<1> QED  BY <1>8, <1>9, <1>10 DEF Reported, d

\* Only a reorganisation takes a block off the canonical index.
LEMMA ReportStep == IInv /\ [Next]_vars => (Gone # {} => Reported(last_disconnected'))
<1> SUFFICES ASSUME IInv, [Next]_vars, Gone # {} PROVE Reported(last_disconnected')
  OBVIOUS
<1>1. canonical' # canonical
  BY DEF Gone
<1>2. ASSUME NEW b \in Block, InitGenesis(b) \/ MineNextBlock(b) \/ SubmitExtend(b)
      PROVE  FALSE
  <2>1. /\ canonical' = [h \in DOMAIN canonical \cup {height(b)} |->
                        IF h = height(b) THEN b ELSE canonical[h]]
        /\ tip_cache = Zero \/ (tip_cache # Zero /\ previous_hash(b) = tip_cache)
        /\ previous_hash(b) = tip_cache
    BY <1>2 DEF InitGenesis, MineNextBlock, SubmitExtend, PutBlock, ExtendsTip
  <2>2. height(b) \notin DOMAIN canonical
    <3>1. CASE tip_cache = Zero
      BY <3>1 DEF IInv, CanonicalIsAncestry, EmptyUtxo
    <3>2. CASE tip_cache # Zero
      <4>1. b \in Path /\ tip_cache \in Path
        BY <3>2, BlockIsPath DEF IInv, TypeOK
      <4>2. DOMAIN canonical = 0 .. height(tip_cache)
        BY <3>2, <4>1, ChainFacts DEF IInv, CanonicalIsAncestry
      <4>3. height(tip_cache) = height(b) - 1
        BY <2>1, <3>2, <4>1, ParentFacts, ZeroFacts
      <4>4. height(b) \in Nat /\ height(tip_cache) \in Nat
        BY <4>1, PathFacts
      <4> QED  BY <4>2, <4>3, <4>4
    <3> QED  BY <3>1, <3>2
  <2>3. \A h \in DOMAIN canonical : h \in DOMAIN canonical' /\ canonical'[h] = canonical[h]
    BY <2>1, <2>2
  <2>4. Range(canonical) \subseteq Range(canonical')
    BY <2>3 DEF Range
  <2> QED  BY <2>4 DEF Gone
<1>3. ASSUME NEW b \in Block, MigrateJson(b)
      PROVE  FALSE
  <2>1. canonical = EmptyUtxo
    BY <1>3 DEF MigrateJson, IInv, CanonicalIsAncestry
  <2>2. Range(canonical) = {}
    BY <2>1 DEF Range, EmptyUtxo
  <2> QED  BY <2>2 DEF Gone
<1>4. ASSUME NEW b \in Block, SubmitReorg(b)
      PROVE  Reported(last_disconnected')
  BY <1>4, ReorgReports
<1>5. ASSUME NEW b \in Block,
             SubmitAlreadyKnown(b) \/ SubmitUnknownParent(b) \/ SubmitInvalid(b)
             \/ SubmitSide(b) \/ SubmitExtendInvalid(b) \/ SubmitReorgInvalid(b)
             \/ SubmitCrash(b)
      PROVE  FALSE
  BY <1>1, <1>5
     DEF SubmitAlreadyKnown, SubmitUnknownParent, SubmitInvalid, SubmitSide,
         SubmitExtendInvalid, SubmitReorgInvalid, SubmitCrash, Submitted, vars, db
<1>6. EnsureUtxoSynced \/ Reopen \/ UNCHANGED vars => FALSE
  BY <1>1 DEF EnsureUtxoSynced, Reopen, vars, db
<1> QED  BY <1>2, <1>3, <1>4, <1>5, <1>6 DEF Next, SubmitBlock

\* submit_block hands its caller exactly the blocks that a reorganisation took off the
\* canonical index, oldest first, so that no transaction of theirs can be forgotten.
THEOREM ReorgsReported == Spec => DisconnectedReported
<1>1. IInv /\ [Next]_vars =>
        [LET gone == Range(canonical) \ Range(canonical') IN
         gone # {} =>
           /\ Range(last_disconnected') = gone
           /\ \A i, j \in DOMAIN last_disconnected' :
                i < j => height(last_disconnected'[i])
                           < height(last_disconnected'[j])]_vars
  BY ReportStep DEF Gone, Reported
<1> QED  BY <1>1, Invariance, PTL DEF Spec, DisconnectedReported

-----------------------------------------------------------------------------
\* The history of the canonical chain

LEMMA HistoryIsSound == IInv => SoundHistory
<1> SUFFICES ASSUME IInv, NEW h \in DOMAIN canonical, NEW s \in InputSlots(canonical[h]),
                    NEW op, op = SpendAt(canonical[h], s)
             PROVE  /\ \A r \in InputSlots(canonical[h]) :
                          r # s => SpendAt(canonical[h], r) # op
                    /\ \E g \in 0 .. h - 1 :
                         /\ op \in Creates(canonical[g])
                         /\ \A k \in g + 1 .. h - 1 : op \notin Spends(canonical[k])
                         /\ is_coinbase(op[1]) => h >= g + Maturity
  BY DEF SoundHistory
<1> DEFINE b == tip_cache
           n == h + 1
           u == Before(b, n)
<1>1. b # Zero
  BY DEF IInv, CanonicalIsAncestry, EmptyUtxo
<1>2. b \in Path /\ ReplayBranch(b).ok
  BY <1>1, BlockIsPath DEF IInv, TypeOK, TipReplays
<1>3. canonical = build_canonical_chain(b)
  BY <1>1 DEF IInv, CanonicalIsAncestry
<1>4. /\ DOMAIN canonical = 0 .. height(b) /\ height(b) \in Nat /\ Len(b) = height(b) + 1
      /\ \A k \in 0 .. height(b) : canonical[k] = At(b, k + 1)
  BY <1>2, <1>3, ChainFacts, PathFacts DEF At, height
<1> HIDE DEF b
<1>5. n \in 1 .. Len(b) /\ h \in 0 .. height(b) /\ h \in Nat
  BY <1>4
<1>6. canonical[h] = At(b, n) /\ At(b, n) \in Path /\ height(At(b, n)) = h
  BY <1>2, <1>4, <1>5, ReplayOfPrefix
<1>7. ReplayBranch(At(b, n)).ok
  BY <1>2, <1>5, PrefixReplays
<1>8. /\ ApplyOk(u, At(b, n)) /\ u \in Utxos
      /\ n # 1 => ReplayBranch(At(b, n - 1)).ok
  BY <1>2, <1>5, <1>7, ReplaySplits
<1>9. \A r \in InputSlots(canonical[h]) : r # s => SpendAt(canonical[h], r) # op
  BY <1>6, <1>8 DEF ApplyOk
<1>10. op \in DOMAIN u /\ (u[op].coinbase => h >= u[op].created_height + Maturity)
  <2>1. PICK i \in 2 .. Len(Txs(At(b, n))) :
          s \in {i} \X DOMAIN Tx[Txs(At(b, n))[i]].inputs
    BY <1>6 DEF InputSlots
  <2>2. TxOk(u, Txs(At(b, n))[i], h)
    BY <1>6, <1>8 DEF ApplyOk
  <2>3. s[1] = i /\ s[2] \in DOMAIN Tx[Txs(At(b, n))[i]].inputs
    BY <2>1
  <2>4. op = Tx[Txs(At(b, n))[i]].inputs[s[2]]
    BY <1>6, <2>3 DEF SpendAt
  <2> QED  BY <2>2, <2>3, <2>4 DEF TxOk, InputOk
<1>11. n # 1
  BY <1>10, EmptyUtxoType DEF Before
<1>12. n - 1 \in 1 .. Len(b) /\ n - 1 = h
  BY <1>4, <1>5, <1>11
<1>13. u = ReplayBranch(At(b, h)).utxo /\ ReplayBranch(At(b, h)).ok
  BY <1>8, <1>11, <1>12 DEF Before
<1>14. Justified(b, h, u)
  BY <1>2, <1>12, <1>13, ReplayJustified
<1> HIDE DEF u, n
<1> DEFINE g == u[op].created_height
<1>15. /\ g \in 0 .. h - 1 /\ Since(b, h, op, g) /\ u[op].coinbase = is_coinbase(op[1])
  BY <1>10, <1>14 DEF Justified
<1> HIDE DEF g
<1>16. /\ canonical[g] = At(b, g + 1)
       /\ \A k \in g + 1 .. h - 1 : canonical[k] = At(b, k + 1)
  BY <1>4, <1>5, <1>15
<1>17. /\ op \in Creates(canonical[g])
       /\ \A k \in g + 1 .. h - 1 : op \notin Spends(canonical[k])
       /\ is_coinbase(op[1]) => h >= g + Maturity
  BY <1>10, <1>15, <1>16 DEF Since, g
<1> QED  BY <1>9, <1>15, <1>17

\* Every spend on the canonical chain is of an output that an earlier block created, that
\* nobody spent in between and that had matured, although submit_block only ever looks
\* at the stored set of unspent outputs.
THEOREM SpendsAreSound == Spec => []SoundHistory
BY HistoryIsSound, Invariance, PTL

-----------------------------------------------------------------------------
\* No inflation

LEMMA SupplyIsBounded == IInv => SupplyBounded
<1> SUFFICES ASSUME IInv, tip_cache # Zero, ~ UtxoStale
             PROVE  AtomsIn(utxo) <= Supply(height(tip_cache))
  BY DEF SupplyBounded
<1> DEFINE b == tip_cache
<1>1. b \in Path /\ ReplayBranch(b).ok
  BY BlockIsPath DEF IInv, TypeOK, TipReplays
<1>2. utxo = ReplayBranch(b).utxo
  BY DEF IInv, UtxoMatchesChain, UtxoStale
<1>3. Len(b) \in 1 .. Len(b) /\ Len(b) - 1 = height(b) /\ At(b, Len(b)) = b
  BY <1>1, PathFacts, WholePrefix DEF At, height
<1> HIDE DEF b
<1>4. AtomsIn(ReplayBranch(At(b, Len(b))).utxo) <= Supply(Len(b) - 1)
  BY <1>1, <1>3, ReplayBounded
<1> QED  BY <1>2, <1>3, <1>4 DEF b

\* No inflation: whatever blocks arrive in whatever order, and wherever a crash
\* cuts submit_block short, the unspent outputs a synced node holds are never
\* worth more than reward_at_height and the premint released up to its tip.
THEOREM SupplyNeverExceeded == Spec => []SupplyBounded
BY SupplyIsBounded, Invariance, PTL
=============================================================================
