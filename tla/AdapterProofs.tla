---------------------------- MODULE AdapterProofs ----------------------------
(***************************************************************************)
(* Proofs about Adapter: whatever the chain does, and however often the    *)
(* adapter is restarted, the ledger credits a deposit once, holds what was *)
(* scanned, and an exchange that follows the cursor misses none of it.     *)
(***************************************************************************)
EXTENDS Adapter, RecursionProofs

-----------------------------------------------------------------------------
\* Sequences

LEMMA InSet ==
  ASSUME NEW S, NEW q \in Seq(S)
  PROVE  ToSet(q) \subseteq S /\ \A x : x \in ToSet(q) <=> \E i \in 1 .. Len(q) : x = q[i]
<1>1. DOMAIN q = 1 .. Len(q) /\ \A i \in 1 .. Len(q) : q[i] \in S
  OBVIOUS
<1> QED  BY <1>1 DEF ToSet

LEMMA SetAppend ==
  ASSUME NEW S, NEW q \in Seq(S), NEW e \in S
  PROVE  Append(q, e) \in Seq(S) /\ ToSet(Append(q, e)) = ToSet(q) \cup {e}
<1> DEFINE r == Append(q, e)
<1>1. /\ r \in Seq(S) /\ Len(r) = Len(q) + 1 /\ Len(q) \in Nat /\ r[Len(q) + 1] = e
      /\ \A i \in 1 .. Len(q) : r[i] = q[i]
  OBVIOUS
<1> HIDE DEF r
<1>2. /\ \A i \in 1 .. Len(r) : i \in 1 .. Len(q) \/ i = Len(q) + 1
      /\ \A i \in 1 .. Len(q) : i \in 1 .. Len(r)
      /\ Len(q) + 1 \in 1 .. Len(r)
  BY <1>1
<1>3. \A x : x \in ToSet(r) <=> \E i \in 1 .. Len(r) : x = r[i]
  BY <1>1, InSet
<1>4. \A x : x \in ToSet(q) <=> \E i \in 1 .. Len(q) : x = q[i]
  BY InSet
<1>5. \A x : x \in ToSet(r) <=> x \in ToSet(q) \/ x = e
  BY <1>1, <1>2, <1>3, <1>4
<1> QED  BY <1>1, <1>5 DEF r

LEMMA IdsAppend ==
  ASSUME NEW S, NEW q \in Seq(S), NEW e \in S
  PROVE  Ids(Append(q, e)) = Ids(q) \cup {e.id}
<1>1. ToSet(Append(q, e)) = ToSet(q) \cup {e}
  BY SetAppend
<1> QED  BY <1>1 DEF Ids

LEMMA IdsEmpty == ToSet(<< >>) = {} /\ Ids(<< >>) = {}
BY DEF Ids, ToSet

LEMMA IdsMember ==
  ASSUME NEW q, NEW x
  PROVE  x \in Ids(q) <=> \E e \in ToSet(q) : x = e.id
BY DEF Ids

-----------------------------------------------------------------------------
\* Blocks

\* What a block pays is a sequence of outputs.
LEMMA OutputsFacts ==
  ASSUME NEW b \in Block
  PROVE  /\ Len(b) \in Nat \ {0} /\ b \in Seq(Body) /\ Last(b) \in Body
         /\ OutputsOf[Last(b)] \in Seq(Output) /\ OutputsAt(b) \subseteq Output
         /\ height(b) \in Nat /\ b # Zero
<1>1. b \in Seq(Body) /\ b # << >>
  BY AdapterAssumption DEF Zero
<1>2. Len(b) \in Nat \ {0}
  BY <1>1
<1>3. Last(b) \in Body
  BY <1>1, <1>2 DEF Last
<1>4. OutputsOf[Last(b)] \in Seq(Output)
  BY <1>3, AdapterAssumption
<1>5. OutputsAt(b) \subseteq Output
  BY <1>4, InSet DEF OutputsAt
<1> QED  BY <1>1, <1>2, <1>3, <1>4, <1>5 DEF height, Zero

LEMMA ChainIsSeq == ASSUME NEW c \in Block \cup {Zero} PROVE c \in Seq(Body)
<1>1. CASE c \in Block
  BY <1>1, AdapterAssumption
<1>2. CASE c = << >>
  BY <1>2
<1> QED  BY <1>1, <1>2 DEF Zero

\* A block of a chain is a block, at its height, and ends with the body there.
LEMMA PrefixFacts ==
  ASSUME NEW c \in Block \cup {Zero}, NEW n \in 1 .. Len(c)
  PROVE  /\ SubSeq(c, 1, n) \in Block /\ Len(SubSeq(c, 1, n)) = n
         /\ Last(SubSeq(c, 1, n)) = c[n] /\ IsPrefixOf(SubSeq(c, 1, n), c)
         /\ n \in DOMAIN c /\ Len(c) \in Nat
<1>1. c \in Seq(Body) /\ Len(c) \in Nat
  BY AdapterAssumption DEF Zero
<1>2. c \in Block
  BY <1>1 DEF Zero
<1>3. n \in DOMAIN c
  BY <1>1
<1>4. SubSeq(c, 1, n) \in Block
  BY <1>2, <1>3, AdapterAssumption
<1>5. Len(SubSeq(c, 1, n)) = n /\ SubSeq(c, 1, n)[n] = c[n]
  BY <1>1
<1> QED  BY <1>1, <1>3, <1>4, <1>5 DEF Last, IsPrefixOf

\* A prefix of a prefix.
LEMMA PrefixTransitive ==
  ASSUME NEW a \in Seq(Body), NEW b \in Seq(Body), NEW c \in Seq(Body),
         IsPrefixOf(a, b), IsPrefixOf(b, c)
  PROVE  IsPrefixOf(a, c)
<1>1. Len(a) \in Nat /\ Len(b) \in Nat /\ Len(c) \in Nat /\ Len(a) <= Len(b) /\ Len(b) <= Len(c)
  BY DEF IsPrefixOf
<1>2. \A i \in 1 .. Len(b) : c[i] = b[i]
  <2>1. SubSeq(c, 1, Len(b)) = b
    BY DEF IsPrefixOf
  <2>2. \A i \in 1 .. Len(b) : SubSeq(c, 1, Len(b))[i] = c[i]
    BY <1>1
  <2> QED  BY <2>1, <2>2
<1>3. \A i \in 1 .. Len(a) : b[i] = a[i]
  <2>1. SubSeq(b, 1, Len(a)) = a
    BY DEF IsPrefixOf
  <2>2. \A i \in 1 .. Len(a) : SubSeq(b, 1, Len(a))[i] = b[i]
    BY <1>1
  <2> QED  BY <2>1, <2>2
<1>4. \A i \in 1 .. Len(a) : c[i] = a[i]
  BY <1>1, <1>2, <1>3
<1>5. SubSeq(c, 1, Len(a)) = a
  BY <1>1, <1>4
<1> QED  BY <1>1, <1>5 DEF IsPrefixOf

\* The blocks of a chain up to a prefix of it are those of the prefix.
LEMMA PrefixBlocks ==
  ASSUME NEW b \in Seq(Body), NEW c \in Seq(Body), IsPrefixOf(b, c), NEW n \in 1 .. Len(b)
  PROVE  SubSeq(b, 1, n) = SubSeq(c, 1, n) /\ n \in 1 .. Len(c)
<1>1. Len(b) \in Nat /\ Len(c) \in Nat /\ Len(b) <= Len(c)
  BY DEF IsPrefixOf
<1>2. \A i \in 1 .. Len(b) : c[i] = b[i]
  <2>1. SubSeq(c, 1, Len(b)) = b
    BY DEF IsPrefixOf
  <2>2. \A i \in 1 .. Len(b) : SubSeq(c, 1, Len(b))[i] = c[i]
    BY <1>1
  <2> QED  BY <2>1, <2>2
<1>3. SubSeq(b, 1, n) = SubSeq(c, 1, n)
  BY <1>1, <1>2
<1> QED  BY <1>1, <1>3

-----------------------------------------------------------------------------
\* Crediting a block

Book == [entries : Seq(Entry), seen : SUBSET {o.id : o \in Output}]

LEMMA CreditOutputFacts ==
  ASSUME NEW v \in Book, SeenOnce(v), NEW known, NEW o \in Output, NEW b \in Block,
         NEW r, r = CreditOutput(v, known, o, b)
  PROVE  /\ r \in Book /\ SeenOnce(r)
         /\ r.seen = v.seen \cup {x \in {o.id} : o.addr \in known}
         /\ \A e \in ToSet(r.entries) :
              \/ e \in ToSet(v.entries)
              \/ e.block_hash = b /\ e.id = o.id /\ o.addr \in known
         /\ \A e \in ToSet(v.entries) : e \in ToSet(r.entries)
<1>1. CASE o.addr \in known /\ o.id \notin v.seen
  <2> DEFINE e == [id |-> o.id, address |-> o.addr, block_hash |-> b]
             q == v.entries
             a == Append(q, e)
  <2>1. e \in Entry /\ q \in Seq(Entry)
    BY DEF Entry, Book
  <2>2. r = [entries |-> a, seen |-> v.seen \cup {o.id}]
    BY <1>1 DEF CreditOutput
  <2>3. e.id = o.id /\ e.block_hash = b
    OBVIOUS
  <2> HIDE DEF e, q
  <2>4. a \in Seq(Entry) /\ ToSet(a) = ToSet(q) \cup {e} /\ Ids(a) = Ids(q) \cup {e.id}
    BY <2>1, SetAppend, IdsAppend
  <2>5. /\ Len(a) = Len(q) + 1 /\ Len(q) \in Nat /\ a[Len(q) + 1] = e
        /\ \A i \in 1 .. Len(q) : a[i] = q[i]
        /\ DOMAIN a = 1 .. Len(a) /\ DOMAIN q = 1 .. Len(q)
    BY <2>1
  <2>6. v.seen = Ids(q) /\ \A i, j \in DOMAIN q : q[i].id = q[j].id => i = j
    BY DEF SeenOnce, q
  <2>7. \A i \in 1 .. Len(q) : q[i].id \in Ids(q)
    BY <2>1, InSet DEF Ids
  <2>8. \A i \in 1 .. Len(a) : i \in 1 .. Len(q) \/ i = Len(q) + 1
    BY <2>5
  <2> HIDE DEF a
  <2>9. \A i, j \in DOMAIN a : a[i].id = a[j].id => i = j
    BY <1>1, <2>3, <2>5, <2>6, <2>7, <2>8
  <2>10. r.entries = a /\ r.seen = v.seen \cup {o.id}
    BY <2>2
  <2>11. r \in Book
    BY <2>2, <2>4 DEF Book
  <2>12. SeenOnce(r)
    BY <2>3, <2>4, <2>6, <2>9, <2>10 DEF SeenOnce
  <2> QED  BY <1>1, <2>3, <2>4, <2>10, <2>11, <2>12 DEF q
<1>2. CASE ~ (o.addr \in known /\ o.id \notin v.seen)
  BY <1>2 DEF CreditOutput
<1> QED  BY <1>1, <1>2

\* r is l with the outputs of b that pay to a known address booked.
Credited(l, r, known, b) ==
  /\ \A x : x \in r.seen <=> \/ x \in l.seen
                           \/ \E o \in OutputsAt(b) : o.addr \in known /\ x = o.id
  /\ \A e \in ToSet(r.entries) :
       \/ e \in ToSet(l.entries)
       \/ e.block_hash = b /\ \E o \in OutputsAt(b) : e.id = o.id /\ o.addr \in known

\* Crediting a block books, once each, the outputs that pay to a known address.
LEMMA CreditFacts ==
  ASSUME NEW l, l.entries \in Seq(Entry), SeenOnce(l), NEW known, NEW b \in Block,
         NEW r, r = Credit(l, known, b)
  PROVE  r.entries \in Seq(Entry) /\ SeenOnce(r) /\ Credited(l, r, known, b)
<1> DEFINE outs == OutputsOf[Last(b)]
           N == Len(outs)
           v0 == [entries |-> l.entries, seen |-> l.seen]
           V == {v \in Book : SeenOnce(v)}
           F == [p \in (1 .. N) \X V |-> CreditOutput(p[2], known, outs[p[1]], b)]
           after[i \in 0 .. Len(outs)] ==
             IF i = 0 THEN [entries |-> l.entries, seen |-> l.seen]
             ELSE CreditOutput(after[i - 1], known, outs[i], b)
<1>1. outs \in Seq(Output) /\ N \in Nat
  BY OutputsFacts
<1>2. v0 \in V
  <2>1. SeenOnce(v0)
    BY DEF SeenOnce
  <2>2. ASSUME NEW x \in l.seen PROVE x \in {o.id : o \in Output}
    <3>1. PICK e \in ToSet(l.entries) : x = e.id
      BY IdsMember DEF SeenOnce
    <3>2. e \in Entry
      BY InSet
    <3> QED  BY <3>1, <3>2 DEF Entry
  <2>3. v0 \in Book
    BY <2>2 DEF Book
  <2> QED  BY <2>1, <2>3
<1>3. \A i \in 1 .. N : outs[i] \in Output
  BY <1>1
<1>4. ASSUME NEW i \in 1 .. N, NEW v \in V PROVE CreditOutput(v, known, outs[i], b) \in V
  <2>1. v \in Book /\ SeenOnce(v) /\ outs[i] \in Output
    BY <1>3
  <2> QED  BY <2>1, CreditOutputFacts
<1>5. F \in [(1 .. N) \X V -> V]
  <2>1. ASSUME NEW p \in (1 .. N) \X V PROVE CreditOutput(p[2], known, outs[p[1]], b) \in V
    <3>1. p[1] \in 1 .. N /\ p[2] \in V
      OBVIOUS
    <3> HIDE DEF V, N, outs
    <3> QED  BY <1>4, <3>1, Zenon
  <2> HIDE DEF V
  <2> QED  BY <2>1
<1>6. PICK f \in [0 .. N -> V] :
        f = [i \in 0 .. N |-> IF i = 0 THEN v0 ELSE F[<<i, f[i - 1]>>]]
  <2> HIDE DEF N, V, F, v0
  <2>1. \E f : Solves(f, N, V, v0, F)
    BY <1>1, <1>2, <1>5, RecursionSolved
  <2> QED  BY <2>1 DEF Solves
<1>7. f = [i \in 0 .. Len(outs) |->
             IF i = 0 THEN [entries |-> l.entries, seen |-> l.seen]
             ELSE CreditOutput(f[i - 1], known, outs[i], b)]
  <2> DEFINE g == [i \in 0 .. N |-> IF i = 0 THEN v0
                                    ELSE CreditOutput(f[i - 1], known, outs[i], b)]
  <2> HIDE DEF v0, V, outs, N
  <2>1. ASSUME NEW i \in 0 .. N, i # 0
        PROVE  F[<<i, f[i - 1]>>] = CreditOutput(f[i - 1], known, outs[i], b)
    <3>1. i \in 1 .. N /\ i - 1 \in 0 .. N
      BY <1>1, <2>1
    <3>2. f[i - 1] \in V
      BY <1>6, <3>1, Zenon
    <3> QED  BY <3>1, <3>2
  <2>2. \A i \in 0 .. N : f[i] = g[i]
    <3> HIDE DEF F
    <3> QED  BY <1>6, <2>1
  <2>3. f = g
    BY <1>6, <2>2
  <2> QED  BY <2>3, Zenon DEF v0, N
<1>8. after = [i \in 0 .. Len(outs) |->
                 IF i = 0 THEN [entries |-> l.entries, seen |-> l.seen]
                 ELSE CreditOutput(after[i - 1], known, outs[i], b)]
  BY <1>7, Zenon DEF after
<1>9. r = after[N]
  BY DEF Credit
<1> HIDE DEF after, F
<1>10. /\ after[0] = v0
       /\ \A i \in 1 .. N : after[i] = CreditOutput(after[i - 1], known, outs[i], b)
  <2> DEFINE g == [i \in 0 .. Len(outs) |->
                     IF i = 0 THEN [entries |-> l.entries, seen |-> l.seen]
                     ELSE CreditOutput(after[i - 1], known, outs[i], b)]
  <2>1. 0 \in 0 .. Len(outs) /\ \A i \in 1 .. N : i \in 0 .. Len(outs) /\ i # 0
    BY <1>1
  <2>2. g[0] = v0 /\ \A i \in 1 .. N : g[i] = CreditOutput(after[i - 1], known, outs[i], b)
    BY <2>1
  <2>3. after = g
    BY <1>8, Zenon
  <2> QED  BY <2>2, <2>3, Zenon
<1> DEFINE Adds(n, x) == \E i \in 1 .. n : outs[i].addr \in known /\ x = outs[i].id
           Good(n) == /\ after[n] \in V
                      /\ \A x : x \in after[n].seen <=> x \in l.seen \/ Adds(n, x)
                      /\ \A e \in ToSet(after[n].entries) :
                           e \in ToSet(l.entries) \/ (e.block_hash = b /\ Adds(n, e.id))
           Bad == {n \in 0 .. N : ~ Good(n)}
<1>11. Good(0)
  <2>1. after[0] \in V /\ after[0].seen = l.seen /\ after[0].entries = l.entries
    BY <1>2, <1>10
  <2>2. \A x : ~ Adds(0, x)
    <3>1. 1 .. 0 = {}
      OBVIOUS
    <3> QED  BY <3>1, Zenon
  <2> HIDE DEF Adds, V
  <2> QED  BY <2>1, <2>2
<1>12. ASSUME NEW n \in 1 .. N, Good(n - 1) PROVE Good(n)
  <2> DEFINE v == after[n - 1]
             w == after[n]
             o == outs[n]
  <2>1. v \in Book /\ SeenOnce(v) /\ o \in Output
    BY <1>3, <1>12
  <2>2. w = CreditOutput(v, known, o, b)
    BY <1>10
  <2>3. /\ \A x : x \in v.seen <=> x \in l.seen \/ Adds(n - 1, x)
        /\ \A e \in ToSet(v.entries) :
             e \in ToSet(l.entries) \/ (e.block_hash = b /\ Adds(n - 1, e.id))
    BY <1>12
  <2>4. \A x : Adds(n, x) <=> Adds(n - 1, x) \/ (o.addr \in known /\ x = o.id)
    <3>1. \A i : i \in 1 .. n <=> i \in 1 .. n - 1 \/ i = n
      BY <1>12
    <3> HIDE DEF outs
    <3> QED  BY <3>1
  <2> HIDE DEF v, w, o, Adds
  <2>5. /\ w \in Book /\ SeenOnce(w)
        /\ w.seen = v.seen \cup {x \in {o.id} : o.addr \in known}
        /\ \A e \in ToSet(w.entries) :
             \/ e \in ToSet(v.entries)
             \/ e.block_hash = b /\ e.id = o.id /\ o.addr \in known
    BY <2>1, <2>2, CreditOutputFacts
  <2>6. w \in V /\ \A x : x \in w.seen <=> x \in l.seen \/ Adds(n, x)
    BY <2>3, <2>4, <2>5
  <2>7. \A e \in ToSet(w.entries) :
          e \in ToSet(l.entries) \/ (e.block_hash = b /\ Adds(n, e.id))
    BY <2>3, <2>4, <2>5
  <2> QED  BY <2>6, <2>7 DEF w
<1>13. Bad = {}
  <2> SUFFICES ASSUME Bad # {} PROVE FALSE
    OBVIOUS
  <2>1. PICK m \in Bad : \A k \in Bad : m <= k
    <3>1. Bad \subseteq Nat
      BY <1>1
    <3> HIDE DEF Bad
    <3> QED  BY <3>1, LeastElement, Zenon
  <2>2. m \in 0 .. N /\ ~ Good(m)
    BY <2>1
  <2> HIDE DEF Good
  <2>3. m # 0
    BY <1>11, <2>2
  <2>4. m \in 1 .. N /\ m - 1 \in 0 .. N /\ m - 1 \notin Bad
    BY <1>1, <2>1, <2>2, <2>3
  <2>5. Good(m - 1)
    BY <2>4
  <2> QED  BY <1>12, <2>2, <2>4, <2>5
<1>14. Good(N)
  BY <1>1, <1>13
<1>15. \A x : Adds(N, x) <=> \E o \in OutputsAt(b) : o.addr \in known /\ x = o.id
  <2>1. \A o : o \in OutputsAt(b) <=> \E i \in 1 .. N : o = outs[i]
    BY <1>1, InSet DEF OutputsAt
  <2> HIDE DEF outs, N
  <2> QED  BY <2>1
<1>16. r.entries \in Seq(Entry) /\ SeenOnce(r)
  BY <1>9, <1>14 DEF Book
<1> HIDE DEF Adds, N, V
<1> QED  BY <1>9, <1>14, <1>15, <1>16 DEF Credited

-----------------------------------------------------------------------------
\* Ledgers

LEMMA DepositsMember ==
  ASSUME NEW B, NEW x
  PROVE  x \in Deposits(B) <=>
           \E b \in B : \E o \in OutputsAt(b) : o.addr \in Address /\ x = o.id
BY DEF Deposits, OutputsAt

LEMMA ScannedMember ==
  ASSUME NEW l, NEW b
  PROVE  b \in Scanned(l) <=> \E h \in DOMAIN l.heights : b = l.heights[h]
BY DEF Scanned

LEMMA EmptyLedgerFacts ==
  /\ EmptyLedger.entries = << >> /\ DOMAIN EmptyLedger.heights = {} /\ EmptyLedger.seen = {}
  /\ EmptyLedger.last_height = 0
  /\ \A known, given : LedgerOk(EmptyLedger, known, given)
  /\ \A c : OnChain(EmptyLedger, c)
  /\ \A last, ids : Told(EmptyLedger, last, ids)
  /\ Ids(EmptyLedger.entries) = {}
<1>1. /\ EmptyLedger.entries = << >> /\ EmptyLedger.heights = << >> /\ EmptyLedger.seen = {}
      /\ EmptyLedger.last_height = 0
      /\ EmptyLedger = [last_height |-> 0, entries |-> << >>, heights |-> << >>, seen |-> {}]
  BY DEF EmptyLedger
<1>2. DOMAIN EmptyLedger.heights = {} /\ DOMAIN EmptyLedger.entries = {} /\ << >> \in Seq(Entry)
  BY <1>1
<1>3. ToSet(EmptyLedger.entries) = {} /\ Ids(EmptyLedger.entries) = {}
  BY <1>1, IdsEmpty
<1>4. IsLedger(EmptyLedger)
  BY <1>1, <1>2 DEF IsLedger
<1>5. SeenOnce(EmptyLedger)
  BY <1>1, <1>2, <1>3 DEF SeenOnce
<1>6. \A known, given : HoldsScan(EmptyLedger, known, given)
  BY <1>2, <1>3 DEF HoldsScan
<1> QED  BY <1>1, <1>2, <1>3, <1>4, <1>5, <1>6 DEF LedgerOk, OnChain, Told

\* A ledger stays right when keys are lost, and when a key is added that no block pays to.
LEMMA LedgerStays ==
  ASSUME NEW l, NEW known, NEW given, LedgerOk(l, known, given),
         NEW known2, NEW given2, given \subseteq given2,
         known2 \subseteq Address, \A a \in known2 : a \in known \/ a \notin given
  PROVE  LedgerOk(l, known2, given2)
<1>1. ASSUME NEW h \in DOMAIN l.heights
      PROVE  /\ PaysHanded(l.heights[h], given2)
             /\ \A o \in OutputsAt(l.heights[h]) : o.addr \in known2 => o.id \in Ids(l.entries)
  BY DEF LedgerOk, HoldsScan, PaysHanded
<1> QED  BY <1>1 DEF LedgerOk, HoldsScan

\* Loading rebuilds the set of outpoints seen, which is what it was.
LEMMA LoadFacts ==
  ASSUME NEW l, IsLedger(l), SeenOnce(l) PROVE load(l) = l
<1>1. l = [last_height |-> l.last_height, entries |-> l.entries, heights |-> l.heights,
            seen |-> l.seen]
  BY DEF IsLedger
<1>2. l.seen = Ids(l.entries)
  BY DEF SeenOnce
<1>3. [l EXCEPT !.seen = l.seen] = l
  BY <1>1
<1> QED  BY <1>2, <1>3 DEF load

\* m is l with the block at height n of the chain c, and right if l was.
Added(l, m, known, given, c, n, last, ids) ==
  /\ LedgerOk(m, known, given) /\ m.last_height = n /\ DOMAIN m.heights = 0 .. n
  /\ Ids(l.entries) \subseteq Ids(m.entries)
  /\ OnChain(l, c) => OnChain(m, c)
  /\ Told(l, last, ids) /\ ToldOfChain(c, last, known, ids) => Told(m, last, ids)

\* A turn of the scan adds the block at height n of the chain c.
LEMMA ScanFacts ==
  ASSUME NEW l, NEW known, NEW given, LedgerOk(l, known, given), known \subseteq Address,
         NEW c \in Block \cup {Zero}, NEW n \in 0 .. height(c),
         \A k \in DOMAIN c : PaysHanded(SubSeq(c, 1, k), given),
         GoesOn(l, n), NEW b, b = SubSeq(c, 1, n + 1), NEW m, m = AddBlock(l, known, n, b),
         NEW last \in Seq(Body), NEW ids
  PROVE  Added(l, m, known, given, c, n, last, ids)
<1> DEFINE r == Credit(l, known, b)
<1>0. m = [last_height |-> n, entries |-> r.entries,
           heights |-> [h \in DOMAIN l.heights \cup {n} |-> IF h = n THEN b ELSE l.heights[h]],
           seen |-> r.seen]
  BY DEF AddBlock
<1> HIDE DEF r
<1>1. n + 1 \in 1 .. Len(c) /\ n \in Nat
  <2>1. Len(c) \in Nat
    BY AdapterAssumption DEF Zero
  <2> QED  BY <2>1 DEF height
<1>2. b \in Block /\ height(b) = n /\ IsPrefixOf(b, c) /\ n + 1 \in DOMAIN c
  BY <1>1, PrefixFacts DEF height
<1>3. IsLedger(l) /\ SeenOnce(l) /\ HoldsScan(l, known, given)
  BY DEF LedgerOk
<1>4. /\ l.entries \in Seq(Entry) /\ l.last_height \in Nat
      /\ \A h \in DOMAIN l.heights : l.heights[h] \in Block /\ height(l.heights[h]) = h
      /\ DOMAIN l.heights = 0 .. l.last_height \/ DOMAIN l.heights = {}
  BY <1>3, EmptyLedgerFacts DEF IsLedger
<1>5. /\ r.entries \in Seq(Entry) /\ SeenOnce(r)
      /\ \A x : x \in r.seen <=> \/ x \in l.seen
                               \/ \E o \in OutputsAt(b) : o.addr \in known /\ x = o.id
      /\ \A e \in ToSet(r.entries) :
           \/ e \in ToSet(l.entries)
           \/ e.block_hash = b /\ \E o \in OutputsAt(b) : e.id = o.id /\ o.addr \in known
  <2>1. r.entries \in Seq(Entry) /\ SeenOnce(r) /\ Credited(l, r, known, b)
    BY <1>2, <1>3, <1>4, CreditFacts, Zenon DEF r
  <2> QED  BY <2>1 DEF Credited
<1>6. /\ m.last_height = n /\ m.entries = r.entries /\ m.seen = r.seen
      /\ DOMAIN m.heights = DOMAIN l.heights \cup {n}
      /\ \A h \in DOMAIN m.heights : m.heights[h] = IF h = n THEN b ELSE l.heights[h]
  <2> DEFINE H == [h \in DOMAIN l.heights \cup {n} |-> IF h = n THEN b ELSE l.heights[h]]
  <2>1. m = [last_height |-> n, entries |-> r.entries, heights |-> H, seen |-> r.seen]
    BY <1>0
  <2>2. /\ DOMAIN H = DOMAIN l.heights \cup {n}
        /\ \A h \in DOMAIN H : H[h] = IF h = n THEN b ELSE l.heights[h]
    OBVIOUS
  <2> HIDE DEF H
  <2> QED  BY <2>1, <2>2
<1>7. DOMAIN m.heights = 0 .. n
  <2>1. CASE n = l.last_height + 1 /\ DOMAIN l.heights = 0 .. l.last_height
    <3>1. \A h : h \in 0 .. n <=> h \in 0 .. l.last_height \/ h = n
      BY <1>1, <1>4, <2>1
    <3> QED  BY <1>6, <2>1, <3>1
  <2>2. CASE n = 0 /\ l.last_height = 0 /\ l.entries = << >>
    BY <1>4, <1>6, <2>2
  <2> QED  BY <2>1, <2>2 DEF GoesOn
<1>8. l.seen = Ids(l.entries) /\ r.seen = Ids(r.entries)
  BY <1>3, <1>5 DEF SeenOnce
<1>9. SeenOnce(m)
  BY <1>5, <1>6 DEF SeenOnce
<1>10. m = [last_height |-> m.last_height, entries |-> m.entries, heights |-> m.heights,
            seen |-> m.seen]
  BY <1>0
<1>11. \A h \in DOMAIN m.heights :
         (h = n /\ m.heights[h] = b)
           \/ (h # n /\ h \in DOMAIN l.heights /\ m.heights[h] = l.heights[h])
  BY <1>6
<1>12. IsLedger(m)
  BY <1>1, <1>2, <1>4, <1>5, <1>6, <1>7, <1>10, <1>11 DEF IsLedger
<1>13. l.seen # {} => n \notin DOMAIN l.heights
  <2>1. CASE n = l.last_height + 1 /\ DOMAIN l.heights = 0 .. l.last_height
    BY <1>1, <1>4, <2>1
  <2>2. CASE n = 0 /\ l.last_height = 0 /\ l.entries = << >>
    BY <1>8, <2>2, IdsEmpty
  <2> QED  BY <2>1, <2>2 DEF GoesOn
<1>14. Ids(m.entries) \subseteq Deposits(Scanned(m))
  <2>1. b \in Scanned(m)
    BY <1>6, ScannedMember
  <2>2. ASSUME NEW x \in l.seen PROVE x \in Deposits(Scanned(m))
    <3>1. x \in Deposits(Scanned(l))
      BY <1>3, <1>8 DEF HoldsScan
    <3>2. PICK a \in Scanned(l) : \E o \in OutputsAt(a) : o.addr \in Address /\ x = o.id
      BY <3>1, DepositsMember
    <3>3. PICK h \in DOMAIN l.heights : a = l.heights[h]
      BY <3>2, ScannedMember
    <3>4. h # n /\ h \in DOMAIN m.heights /\ m.heights[h] = a
      BY <1>6, <1>13, <3>3
    <3>5. a \in Scanned(m)
      BY <3>4, ScannedMember
    <3> QED  BY <3>2, <3>5, DepositsMember
  <2>3. ASSUME NEW o \in OutputsAt(b), o.addr \in known PROVE o.id \in Deposits(Scanned(m))
    BY <2>1, <2>3, DepositsMember
  <2>4. ASSUME NEW x \in r.seen PROVE x \in Deposits(Scanned(m))
    <3>1. CASE x \in l.seen
      BY <2>2, <3>1
    <3>2. CASE \E o \in OutputsAt(b) : o.addr \in known /\ x = o.id
      BY <2>3, <3>2
    <3> QED  BY <1>5, <2>4, <3>1, <3>2
  <2>5. Ids(m.entries) = r.seen
    BY <1>6, <1>8
  <2> QED  BY <2>4, <2>5
<1>15. ASSUME NEW h \in DOMAIN m.heights
       PROVE  /\ PaysHanded(m.heights[h], given)
              /\ \A o \in OutputsAt(m.heights[h]) : o.addr \in known => o.id \in Ids(m.entries)
  <2>1. CASE h = n
    BY <1>2, <1>5, <1>6, <1>8, <2>1
  <2>2. CASE h # n
    BY <1>3, <1>5, <1>6, <1>8, <1>11, <2>2 DEF HoldsScan
  <2> QED  BY <2>1, <2>2
<1>16. HoldsScan(m, known, given)
  BY <1>14, <1>15 DEF HoldsScan
<1>17. OnChain(l, c) => OnChain(m, c)
  BY <1>2, <1>5, <1>6, <1>11 DEF OnChain
<1>18. ASSUME Told(l, last, ids), ToldOfChain(c, last, known, ids) PROVE Told(m, last, ids)
  <2> SUFFICES ASSUME NEW e \in ToSet(r.entries), last # Zero,
                      height(e.block_hash) <= height(last)
               PROVE  e.id \in ids
    BY <1>6 DEF Told
  <2>1. CASE e \in ToSet(l.entries)
    BY <1>18, <2>1 DEF Told
  <2>2. CASE e.block_hash = b /\ \E o \in OutputsAt(b) : e.id = o.id /\ o.addr \in known
    <3>1. n + 1 \in DOMAIN last
      BY <1>1, <1>2, <2>2 DEF height
    <3> QED  BY <1>18, <2>2, <3>1 DEF ToldOfChain
  <2> QED  BY <1>5, <2>1, <2>2
<1> QED  BY <1>5, <1>6, <1>7, <1>8, <1>9, <1>12, <1>16, <1>17, <1>18 DEF LedgerOk, Added

-----------------------------------------------------------------------------
\* The invariant

\* What was on the chain stays on it when it grows.
LEMMA ChainGrows ==
  ASSUME NEW c \in Seq(Body), NEW d \in Seq(Body), IsPrefixOf(c, d), NEW l, IsLedger(l),
         NEW last \in Seq(Body), NEW known, NEW ids
  PROVE  /\ OnChain(l, c) => OnChain(l, d)
         /\ ToldOfChain(c, last, known, ids) => ToldOfChain(d, last, known, ids)
<1>1. ASSUME NEW b \in Block, IsPrefixOf(b, c) PROVE IsPrefixOf(b, d)
  <2>1. b \in Seq(Body)
    BY AdapterAssumption
  <2> QED  BY <1>1, <2>1, PrefixTransitive
<1>2. \A h \in DOMAIN l.heights : l.heights[h] \in Block
  BY DEF IsLedger
<1>3. \A e \in ToSet(l.entries) : e.block_hash \in Block
  <2>1. ToSet(l.entries) \subseteq Entry
    BY InSet DEF IsLedger
  <2> QED  BY <2>1 DEF Entry
<1>4. OnChain(l, c) => OnChain(l, d)
  BY <1>1, <1>2, <1>3 DEF OnChain
<1>5. ASSUME ToldOfChain(c, last, known, ids) PROVE ToldOfChain(d, last, known, ids)
  <2>1. IsPrefixOf(last, c)
    BY <1>5 DEF ToldOfChain
  <2>2. IsPrefixOf(last, d)
    BY <2>1, PrefixTransitive
  <2>3. ASSUME NEW n \in DOMAIN last PROVE SubSeq(d, 1, n) = SubSeq(c, 1, n)
    <3>1. n \in 1 .. Len(last)
      OBVIOUS
    <3> QED  BY <2>1, <2>2, <3>1, PrefixBlocks
  <2> QED  BY <1>5, <2>2, <2>3 DEF ToldOfChain
<1> QED  BY <1>4, <1>5

LEMMA AdapterInitInv == Init => AdapterInv
<1> SUFFICES ASSUME Init PROVE AdapterInv
  OBVIOUS
<1>1. /\ chain = Zero /\ keys = [memory |-> {}, file |-> {}] /\ ledger = EmptyLedger
      /\ file = EmptyLedger /\ phase = "sleep" /\ tip = 0 /\ next = 0 /\ request = NoRequest
      /\ cursor = Zero /\ listed = {} /\ handed = {} /\ crashes = 0
  BY Zenon DEF Init
<1>2. past = [reorganised |-> FALSE, lost_keys |-> FALSE, ahead |-> FALSE]
  BY Zenon DEF Init
<1>3. past \in [reorganised : BOOLEAN, lost_keys : BOOLEAN, ahead : BOOLEAN]
  BY <1>2
<1>4. DOMAIN chain = {} /\ DOMAIN cursor = {} /\ keys.memory = {} /\ keys.file = {}
  BY <1>1 DEF Zero
<1>5. AdapterTypeOK
  BY <1>1, AdapterAssumption, EmptyLedgerFacts DEF AdapterTypeOK, NoRequest
<1>6. IsRequest(request)
  BY <1>1 DEF IsRequest
<1>7. ToldOfChain(chain, cursor, keys.memory, listed)
  <2>1. IsPrefixOf(cursor, chain)
    BY <1>1 DEF IsPrefixOf, Zero
  <2> QED  BY <1>4, <2>1 DEF ToldOfChain
<1>8. phase # "scan"
  BY <1>1
<1> QED  BY <1>1, <1>3, <1>4, <1>5, <1>6, <1>7, <1>8, EmptyLedgerFacts DEF AdapterInv

LEMMA NodeMovesInv == AdapterInv /\ NodeMoves => AdapterInv'
<1> SUFFICES ASSUME AdapterInv, NodeMoves PROVE AdapterInv'
  OBVIOUS
<1> USE DEF server, exchange
<1>1. PICK b \in Block :
        /\ chain' = b
        /\ \A i \in DOMAIN b : {o.addr : o \in ToSet(OutputsOf[b[i]])} \cap Address
                                 \subseteq handed
  BY DEF NodeMoves
<1>2. UNCHANGED <<keys, ledger, file, phase, tip, next, request, cursor, listed, handed, crashes>>
  BY DEF NodeMoves
<1>3. past' = [past EXCEPT !.reorganised = @ \/ ~ IsPrefixOf(chain, chain')]
  BY DEF NodeMoves
<1>4. past \in [reorganised : BOOLEAN, lost_keys : BOOLEAN, ahead : BOOLEAN]
  BY DEF AdapterInv
<1>5. /\ past' \in [reorganised : BOOLEAN, lost_keys : BOOLEAN, ahead : BOOLEAN]
      /\ past'.lost_keys = past.lost_keys /\ past'.ahead = past.ahead
      /\ ~ past'.reorganised => ~ past.reorganised /\ IsPrefixOf(chain, chain')
  BY <1>3, <1>4
<1>6. AdapterTypeOK'
  BY <1>1, <1>2 DEF AdapterInv, AdapterTypeOK
<1>7. ASSUME NEW n \in DOMAIN b PROVE PaysHanded(SubSeq(b, 1, n), handed)
  <2>1. b \in Seq(Body)
    BY AdapterAssumption
  <2>2. n \in 1 .. Len(b)
    BY <2>1
  <2>3. Last(SubSeq(b, 1, n)) = b[n]
    BY <2>2, PrefixFacts
  <2> QED  BY <1>1, <2>3 DEF PaysHanded, OutputsAt
<1>8. chain \in Seq(Body) /\ chain' \in Seq(Body) /\ cursor \in Seq(Body)
  <2>1. chain \in Block \cup {Zero} /\ chain' \in Block \cup {Zero} /\ cursor \in Block \cup {Zero}
    BY <1>1 DEF AdapterInv, AdapterTypeOK
  <2> QED  BY <2>1, ChainIsSeq
<1>9. IsLedger(ledger) /\ IsLedger(file)
  BY DEF AdapterInv, LedgerOk
<1>10. ASSUME ~ past'.reorganised
       PROVE  OnChain(ledger', chain') /\ OnChain(file', chain')
  BY <1>2, <1>5, <1>8, <1>9, <1>10, ChainGrows DEF AdapterInv
<1>11. ASSUME ~ past'.reorganised, ~ past'.ahead
       PROVE  ToldOfChain(chain', cursor', keys'.memory, listed')
  <2>1. ToldOfChain(chain, cursor, keys.memory, listed) /\ IsPrefixOf(chain, chain')
    BY <1>5, <1>11 DEF AdapterInv
  <2>2. ToldOfChain(chain', cursor, keys.memory, listed)
    BY <1>8, <1>9, <2>1, ChainGrows, Zenon
  <2> QED  BY <1>2, <2>2
<1>12. \A n \in DOMAIN chain' : PaysHanded(SubSeq(chain', 1, n), handed')
  BY <1>1, <1>2, <1>7
<1>13. (phase' = "scan" => GoesOn(ledger', next')) /\ IsRequest(request')
  BY <1>2 DEF AdapterInv
<1> QED  BY <1>2, <1>5, <1>6, <1>10, <1>11, <1>12, <1>13 DEF AdapterInv

LEMMA ScanBeginInv == AdapterInv /\ ScanBegin => AdapterInv'
<1> SUFFICES ASSUME AdapterInv, ScanBegin PROVE AdapterInv'
  OBVIOUS
<1>1. /\ UNCHANGED <<chain, keys, ledger, file, request, cursor, listed, handed, crashes, past>>
      /\ phase' = "scan" /\ tip' = height(chain) /\ next' = start /\ chain # Zero
  BY DEF ScanBegin, exchange
<1>2. IsLedger(ledger)
  BY DEF AdapterInv, LedgerOk
<1>3. /\ ledger.last_height \in Nat
      /\ DOMAIN ledger.heights = 0 .. ledger.last_height
           \/ (ledger.last_height = 0 /\ ledger.entries = << >>)
  BY <1>2, EmptyLedgerFacts DEF IsLedger
<1>4. GoesOn(ledger', next')
  BY <1>1, <1>3 DEF GoesOn, start
<1>5. next' \in Nat /\ tip' \in Nat
  <2>1. height(chain) \in Nat
    BY <1>1, OutputsFacts DEF AdapterInv, AdapterTypeOK
  <2> QED  BY <1>1, <1>3, <2>1 DEF start
<1>6. AdapterTypeOK'
  BY <1>1, <1>5 DEF AdapterInv, AdapterTypeOK
<1> QED  BY <1>1, <1>4, <1>6 DEF AdapterInv

LEMMA ScanBlockInv == AdapterInv /\ ScanBlock => AdapterInv'
<1> SUFFICES ASSUME AdapterInv, ScanBlock PROVE AdapterInv'
  OBVIOUS
<1>1. /\ UNCHANGED <<chain, keys, file, phase, tip, request, cursor, listed, handed, crashes, past>>
      /\ next' = next + 1 /\ next \in 0 .. height(chain)
      /\ phase = "scan"
  BY DEF ScanBlock, exchange, CanFetch
<1>2. ledger' = AddBlock(ledger, keys.memory, next, SubSeq(chain, 1, next + 1))
  BY DEF ScanBlock, Fetch
<1>3. chain \in Block \cup {Zero} /\ cursor \in Seq(Body) /\ keys.memory \subseteq Address
      /\ next \in Nat
  BY ChainIsSeq DEF AdapterInv, AdapterTypeOK
<1>4. /\ LedgerOk(ledger, keys.memory, handed)
      /\ \A k \in DOMAIN chain : PaysHanded(SubSeq(chain, 1, k), handed)
      /\ GoesOn(ledger, next)
  BY <1>1 DEF AdapterInv
<1>5. /\ LedgerOk(ledger', keys.memory, handed)
      /\ ledger'.last_height = next /\ DOMAIN ledger'.heights = 0 .. next
      /\ Ids(ledger.entries) \subseteq Ids(ledger'.entries)
      /\ OnChain(ledger, chain) => OnChain(ledger', chain)
      /\ Told(ledger, cursor, listed) /\ ToldOfChain(chain, cursor, keys.memory, listed)
           => Told(ledger', cursor, listed)
  <2>1. Added(ledger, ledger', keys.memory, handed, chain, next, cursor, listed)
    BY <1>1, <1>2, <1>3, <1>4, ScanFacts, Zenon
  <2> QED  BY <2>1 DEF Added
<1>6. GoesOn(ledger', next')
  BY <1>1, <1>3, <1>5 DEF GoesOn
<1>7. AdapterTypeOK'
  BY <1>1, <1>3, <1>5 DEF AdapterInv, AdapterTypeOK
<1> QED  BY <1>1, <1>5, <1>6, <1>7 DEF AdapterInv

LEMMA SaveInv == AdapterInv /\ Save => AdapterInv'
<1> SUFFICES ASSUME AdapterInv, Save PROVE AdapterInv'
  OBVIOUS
<1>1. /\ UNCHANGED <<chain, keys, ledger, request, cursor, listed, handed, crashes, past>>
      /\ phase' = "sleep" /\ tip' = 0 /\ next' = 0
      /\ file' = ledger \/ file' = file \/ file' = EmptyLedger
  BY DEF Save, exchange, Sleep
<1>2. phase' # "scan"
  BY <1>1
<1>3. file'.last_height \in Nat
  BY <1>1, EmptyLedgerFacts DEF AdapterInv, AdapterTypeOK
<1>4. AdapterTypeOK'
  BY <1>1, <1>3 DEF AdapterInv, AdapterTypeOK
<1> QED  BY <1>1, <1>2, <1>4, EmptyLedgerFacts DEF AdapterInv

LEMMA ScanFailsInv == AdapterInv /\ ScanFails => AdapterInv'
<1> SUFFICES ASSUME AdapterInv, ScanFails PROVE AdapterInv'
  OBVIOUS
<1>1. /\ UNCHANGED <<chain, keys, ledger, file, request, cursor, listed, handed, crashes, past>>
      /\ phase' = "sleep" /\ tip' = 0 /\ next' = 0
  BY DEF ScanFails, exchange, Sleep
<1>2. phase' # "scan"
  BY <1>1
<1>3. AdapterTypeOK'
  BY <1>1 DEF AdapterInv, AdapterTypeOK
<1> QED  BY <1>1, <1>2, <1>3 DEF AdapterInv

\* So does what the exchange was told, when keys are lost or one is added.
LEMMA ToldStays ==
  ASSUME NEW c \in Seq(Body), NEW last \in Seq(Body), NEW known, NEW ids, NEW given,
         ToldOfChain(c, last, known, ids),
         \A n \in DOMAIN c : PaysHanded(SubSeq(c, 1, n), given),
         NEW known2, known2 \subseteq Address, \A a \in known2 : a \in known \/ a \notin given
  PROVE  ToldOfChain(c, last, known2, ids)
<1>1. IsPrefixOf(last, c)
  BY DEF ToldOfChain
<1>2. ASSUME NEW n \in DOMAIN last, NEW o \in OutputsAt(SubSeq(c, 1, n)), o.addr \in known2
      PROVE  o.id \in ids
  <2>1. n \in DOMAIN c
    BY <1>1 DEF IsPrefixOf
  <2>2. o.addr \in given
    BY <1>2, <2>1 DEF PaysHanded
  <2>3. o.addr \in known
    BY <1>2, <2>2
  <2> QED  BY <1>2, <2>3 DEF ToldOfChain
<1> QED  BY <1>1, <1>2 DEF ToldOfChain

LEMMA GetNewAddressInv ==
  ASSUME AdapterInv, NEW a \in Address, GetNewAddress(a) PROVE AdapterInv'
<1>1. /\ UNCHANGED <<chain, ledger, file, phase, tip, next, request, cursor, listed, crashes, past>>
      /\ handed' = handed \cup {a} /\ a \notin handed /\ phase = "sleep"
  BY DEF GetNewAddress
<1>2. /\ keys \in [memory : SUBSET Address, file : SUBSET Address] /\ keys.file \subseteq keys.memory
      /\ keys.memory \subseteq handed /\ handed \subseteq Address
  BY DEF AdapterInv, AdapterTypeOK
<1>3. PICK content \in {keys.file, new_address(a).memory, {}} :
        keys' = [new_address(a) EXCEPT !.file = content]
  BY DEF GetNewAddress
<1>4. /\ keys'.memory = keys.memory \cup {a} /\ keys'.file = content
      /\ content \subseteq keys.memory \cup {a}
      /\ keys' \in [memory : SUBSET Address, file : SUBSET Address]
  BY <1>2, <1>3 DEF new_address
<1>5. \A x \in keys'.memory : x \in keys.memory \/ x \notin handed
  BY <1>1, <1>4
<1>6. keys'.memory \subseteq Address /\ handed \subseteq handed'
  BY <1>1, <1>4
<1>7. LedgerOk(ledger, keys'.memory, handed') /\ LedgerOk(file, keys'.memory, handed')
  <2>1. LedgerOk(ledger, keys.memory, handed) /\ LedgerOk(file, keys.memory, handed)
    BY DEF AdapterInv
  <2> QED  BY <1>5, <1>6, <2>1, LedgerStays
<1>8. \A n \in DOMAIN chain : PaysHanded(SubSeq(chain, 1, n), handed)
  BY DEF AdapterInv
<1>9. \A n \in DOMAIN chain : PaysHanded(SubSeq(chain, 1, n), handed')
  BY <1>6, <1>8 DEF PaysHanded
<1>10. ASSUME ToldOfChain(chain, cursor, keys.memory, listed)
       PROVE  ToldOfChain(chain, cursor, keys'.memory, listed)
  <2>1. chain \in Seq(Body) /\ cursor \in Seq(Body)
    BY ChainIsSeq DEF AdapterInv, AdapterTypeOK
  <2> QED  BY <1>5, <1>6, <1>8, <1>10, <2>1, ToldStays
<1>11. AdapterTypeOK'
  BY <1>1, <1>2, <1>4 DEF AdapterInv, AdapterTypeOK
<1>12. (handed \subseteq keys.memory => handed' \subseteq keys'.memory) /\ keys'.memory \subseteq handed'
       /\ keys'.file \subseteq keys'.memory
  BY <1>1, <1>2, <1>4
<1> QED  BY <1>1, <1>7, <1>9, <1>10, <1>11, <1>12 DEF AdapterInv

LEMMA ListCountInv == AdapterInv /\ ListCount => AdapterInv'
<1> SUFFICES ASSUME AdapterInv, ListCount PROVE AdapterInv'
  OBVIOUS
<1>1. /\ UNCHANGED <<chain, keys, ledger, file, phase, tip, next, cursor, listed, handed, crashes, past>>
      /\ request' = [step |-> "counted", tip |-> height(chain)] /\ chain # Zero
  BY DEF ListCount, server
<1>2. height(chain) \in Nat
  BY <1>1, OutputsFacts DEF AdapterInv, AdapterTypeOK
<1>3. IsRequest(request') /\ request'.step = "counted"
  BY <1>1, <1>2 DEF IsRequest
<1>4. AdapterTypeOK'
  BY <1>1, <1>3 DEF AdapterInv, AdapterTypeOK
<1> QED  BY <1>1, <1>3, <1>4 DEF AdapterInv

LEMMA ListHashInv == AdapterInv /\ ListHash => AdapterInv'
<1> SUFFICES ASSUME AdapterInv, ListHash PROVE AdapterInv'
  OBVIOUS
<1>1. UNCHANGED <<chain, keys, ledger, file, phase, tip, next, cursor, listed, handed, crashes, past>>
  BY DEF ListHash, server
<1>2. IsRequest(request') /\ request'.step \in {"none", "hashed"}
  <2>1. CASE CanFetch(request.tip)
    <3>1. request' = [step |-> "hashed", lastblock |-> Fetch(request.tip)]
      BY <2>1 DEF ListHash
    <3>2. chain \in Block \cup {Zero} /\ Len(chain) \in Nat
      BY ChainIsSeq DEF AdapterInv, AdapterTypeOK
    <3>3. request.tip + 1 \in 1 .. Len(chain)
      BY <2>1, <3>2 DEF CanFetch, height
    <3>4. Fetch(request.tip) \in Block
      BY <3>2, <3>3, PrefixFacts DEF Fetch
    <3> QED  BY <3>1, <3>4 DEF IsRequest
  <2>2. CASE ~ CanFetch(request.tip)
    BY <2>2 DEF ListHash, IsRequest, NoRequest
  <2> QED  BY <2>1, <2>2
<1>3. AdapterTypeOK'
  BY <1>1, <1>2 DEF AdapterInv, AdapterTypeOK
<1> QED  BY <1>1, <1>2, <1>3 DEF AdapterInv

\* An answer tells of all in the ledger that the exchange does not know of yet.
LEMMA AnswerFacts ==
  ASSUME IsLedger(ledger), cursor \in Block \cup {Zero}, Told(ledger, cursor, listed),
         NEW e \in ToSet(ledger.entries), e \notin since_block(cursor)
  PROVE  e.id \in listed
<1>1. PICK h \in DOMAIN ledger.heights :
        ledger.heights[h] = cursor /\ ~ height(e.block_hash) > h
  BY DEF since_block
<1>2. cursor \in Block /\ height(cursor) = h
  BY <1>1 DEF IsLedger
<1>3. cursor # Zero /\ h \in Nat
  BY <1>2, OutputsFacts
<1>4. e \in Entry
  BY InSet DEF IsLedger
<1>5. height(e.block_hash) \in Nat
  BY <1>4, OutputsFacts DEF Entry
<1>6. height(e.block_hash) <= height(cursor)
  BY <1>1, <1>2, <1>3, <1>5
<1> QED  BY <1>3, <1>6 DEF Told

\* The ledger holds what the chain pays up to a block it has scanned.
LEMMA ScannedChain ==
  ASSUME NEW l, NEW known, NEW given, LedgerOk(l, known, given),
         NEW c \in Seq(Body), OnChain(l, c), NEW h \in DOMAIN l.heights,
         NEW ids, Ids(l.entries) \subseteq ids
  PROVE  ToldOfChain(c, l.heights[h], known, ids)
<1>1. IsLedger(l) /\ HoldsScan(l, known, given)
  BY DEF LedgerOk
<1>2. DOMAIN l.heights = 0 .. l.last_height /\ l.last_height \in Nat
  BY <1>1, EmptyLedgerFacts DEF IsLedger
<1>3. \A g \in DOMAIN l.heights : l.heights[g] \in Block /\ height(l.heights[g]) = g
  BY <1>1 DEF IsLedger
<1>4. IsPrefixOf(l.heights[h], c)
  BY DEF OnChain
<1>5. ASSUME NEW n \in DOMAIN l.heights[h], NEW o \in OutputsAt(SubSeq(c, 1, n)),
             o.addr \in known
      PROVE  o.id \in ids
  <2>1. l.heights[h] \in Seq(Body) /\ Len(l.heights[h]) = h + 1
    <3>1. l.heights[h] \in Seq(Body) /\ Len(l.heights[h]) \in Nat /\ h \in Nat
      BY <1>2, <1>3, OutputsFacts
    <3> QED  BY <1>3, <3>1 DEF height
  <2>2. n \in 1 .. h + 1
    BY <2>1
  <2>3. n - 1 \in DOMAIN l.heights
    BY <1>2, <2>2
  <2> DEFINE b == l.heights[n - 1]
  <2>4. b \in Block /\ height(b) = n - 1 /\ IsPrefixOf(b, c)
    BY <1>3, <2>3 DEF OnChain
  <2> HIDE DEF b
  <2>5. Len(b) = n
    <3>1. Len(b) \in Nat
      BY <2>4, OutputsFacts
    <3> QED  BY <2>2, <2>4, <3>1 DEF height
  <2>6. SubSeq(c, 1, n) = b
    BY <2>4, <2>5 DEF IsPrefixOf
  <2>7. o.id \in Ids(l.entries)
    BY <1>1, <1>5, <2>3, <2>6 DEF HoldsScan, b
  <2> QED  BY <2>7
<1> QED  BY <1>4, <1>5 DEF ToldOfChain

LEMMA ListAnswerInv == AdapterInv /\ ListAnswer => AdapterInv'
<1> SUFFICES ASSUME AdapterInv, ListAnswer PROVE AdapterInv'
  OBVIOUS
<1>1. /\ UNCHANGED <<chain, keys, ledger, file, phase, tip, next, handed, crashes>>
      /\ listed' = listed \cup {e.id : e \in since_block(cursor)}
      /\ cursor' = request.lastblock /\ request' = NoRequest /\ request.step = "hashed"
  BY DEF ListAnswer, server
<1>2. past' = [past EXCEPT !.ahead = @ \/ \A h \in DOMAIN ledger.heights :
                                             ledger.heights[h] # request.lastblock]
  BY DEF ListAnswer
<1>3. past \in [reorganised : BOOLEAN, lost_keys : BOOLEAN, ahead : BOOLEAN]
  BY DEF AdapterInv
<1>4. /\ past' \in [reorganised : BOOLEAN, lost_keys : BOOLEAN, ahead : BOOLEAN]
      /\ past'.lost_keys = past.lost_keys /\ past'.reorganised = past.reorganised
      /\ ~ past'.ahead => /\ ~ past.ahead
                          /\ \E h \in DOMAIN ledger.heights : ledger.heights[h] = request.lastblock
  BY <1>2, <1>3
<1>5. cursor' \in Block /\ IsRequest(request') /\ request'.step = "none"
  BY <1>1 DEF AdapterInv, IsRequest, NoRequest
<1>6. AdapterTypeOK'
  BY <1>1, <1>5 DEF AdapterInv, AdapterTypeOK
<1>7. ASSUME ~ past.reorganised, ~ past'.ahead
      PROVE  /\ Told(ledger', cursor', listed') /\ Told(file', cursor', listed')
             /\ ToldOfChain(chain', cursor', keys'.memory, listed')
  <2>1. /\ LedgerOk(ledger, keys.memory, handed) /\ OnChain(ledger, chain)
        /\ Told(ledger, cursor, listed) /\ cursor \in Block \cup {Zero}
        /\ Ids(file.entries) \subseteq Ids(ledger.entries) /\ chain \in Seq(Body)
    BY <1>4, <1>7, ChainIsSeq DEF AdapterInv, AdapterTypeOK
  <2>2. IsLedger(ledger)
    BY <2>1 DEF LedgerOk
  <2>3. ASSUME NEW e \in ToSet(ledger.entries) PROVE e.id \in listed'
    <3>1. CASE e \in since_block(cursor)
      BY <1>1, <3>1
    <3>2. CASE e \notin since_block(cursor)
      BY <1>1, <2>1, <2>2, <3>2, AnswerFacts
    <3> QED  BY <3>1, <3>2
  <2>4. Ids(ledger.entries) \subseteq listed'
    BY <2>3, IdsMember
  <2>5. \A e \in ToSet(ledger.entries) \cup ToSet(file.entries) : e.id \in listed'
    <3>1. \A e \in ToSet(file.entries) : e.id \in Ids(file.entries)
      BY IdsMember
    <3> QED  BY <2>1, <2>3, <2>4, <3>1
  <2>6. PICK h \in DOMAIN ledger.heights : ledger.heights[h] = request.lastblock
    BY <1>4, <1>7
  <2>7. ToldOfChain(chain, ledger.heights[h], keys.memory, listed')
    BY <2>1, <2>4, ScannedChain
  <2>8. Told(ledger', cursor', listed') /\ Told(file', cursor', listed')
    BY <1>1, <2>5 DEF Told
  <2> QED  BY <1>1, <2>6, <2>7, <2>8
<1> QED  BY <1>1, <1>4, <1>5, <1>6, <1>7 DEF AdapterInv

LEMMA RestartInv == AdapterInv /\ Restart => AdapterInv'
<1> SUFFICES ASSUME AdapterInv, Restart PROVE AdapterInv'
  OBVIOUS
<1>1. /\ UNCHANGED <<chain, cursor, listed, handed>> /\ request' = NoRequest
      /\ phase' = "sleep" /\ tip' = 0 /\ next' = 0
      /\ crashes < MaxCrashes /\ crashes' = crashes + 1
  BY DEF Restart, Sleep
<1>2. PICK l \in {file, EmptyLedger} : file' = l /\ ledger' = load(l)
  BY DEF Restart
<1>3. PICK k \in {keys.file, {}} : keys' = [memory |-> k, file |-> k]
  BY DEF Restart
<1>4. past' = [past EXCEPT !.lost_keys = @ \/ ~ handed \subseteq keys'.memory]
  BY DEF Restart
<1>5. past \in [reorganised : BOOLEAN, lost_keys : BOOLEAN, ahead : BOOLEAN]
  BY DEF AdapterInv
<1>6. /\ past' \in [reorganised : BOOLEAN, lost_keys : BOOLEAN, ahead : BOOLEAN]
      /\ past'.ahead = past.ahead /\ past'.reorganised = past.reorganised
      /\ ~ past'.lost_keys => handed \subseteq keys'.memory
  BY <1>4, <1>5
<1>7. /\ keys'.memory = k /\ keys'.file = k /\ k \subseteq keys.memory /\ k \subseteq Address
      /\ k \subseteq handed
      /\ keys' \in [memory : SUBSET Address, file : SUBSET Address]
  BY <1>3 DEF AdapterInv, AdapterTypeOK
<1>8. LedgerOk(l, keys.memory, handed)
  BY <1>2, EmptyLedgerFacts DEF AdapterInv
<1>9. LedgerOk(l, keys'.memory, handed)
  BY <1>7, <1>8, LedgerStays
<1>10. load(l) = l
  BY <1>8, LoadFacts DEF LedgerOk
<1>11. ledger' = l /\ file' = l
  BY <1>2, <1>10
<1>12. l.last_height \in Nat
  BY <1>8 DEF LedgerOk, IsLedger
<1>13. AdapterTypeOK'
  <2>1. crashes' \in 0 .. MaxCrashes
    BY <1>1, AdapterAssumption DEF AdapterInv, AdapterTypeOK
  <2>2. request'.step = "none"
    BY <1>1 DEF NoRequest
  <2> QED  BY <1>1, <1>7, <1>11, <1>12, <2>1, <2>2 DEF AdapterInv, AdapterTypeOK
<1>14. IsRequest(request')
  BY <1>1 DEF IsRequest
<1>15. ASSUME ToldOfChain(chain, cursor, keys.memory, listed)
       PROVE  ToldOfChain(chain, cursor, keys'.memory, listed)
  <2>1. /\ chain \in Seq(Body) /\ cursor \in Seq(Body)
        /\ \A n \in DOMAIN chain : PaysHanded(SubSeq(chain, 1, n), handed)
    BY ChainIsSeq DEF AdapterInv, AdapterTypeOK
  <2> QED  BY <1>7, <1>15, <2>1, ToldStays
<1>16. /\ ~ past.reorganised => OnChain(l, chain)
       /\ ~ past.reorganised /\ ~ past.ahead => Told(l, cursor, listed)
  BY <1>2, EmptyLedgerFacts DEF AdapterInv
<1> QED  BY <1>1, <1>6, <1>7, <1>9, <1>11, <1>13, <1>14, <1>15, <1>16 DEF AdapterInv

-----------------------------------------------------------------------------
\* The theorems

LEMMA AdapterNextInv == AdapterInv /\ [Next]_vars => AdapterInv'
<1> SUFFICES ASSUME AdapterInv, [Next]_vars PROVE AdapterInv'
  OBVIOUS
<1>1. CASE UNCHANGED vars
  BY <1>1 DEF vars, AdapterInv, AdapterTypeOK
<1>2. CASE \E a \in Address : GetNewAddress(a)
  BY <1>2, GetNewAddressInv
<1> QED  BY <1>1, <1>2, NodeMovesInv, ScanBeginInv, ScanBlockInv, SaveInv, ScanFailsInv,
            ListCountInv, ListHashInv, ListAnswerInv, RestartInv DEF Next

\* The inductive invariant holds.
THEOREM AdapterInvariant == Spec => []AdapterInv
BY AdapterInitInv, AdapterNextInv, PTL DEF Spec

\* The types hold in every state of the adapter.
THEOREM AdapterTypeCorrect == Spec => []AdapterTypeOK
<1>1. AdapterInv => AdapterTypeOK
  BY DEF AdapterInv
<1> QED  BY <1>1, AdapterInvariant, PTL

\* Neither a reorganisation that confirms a deposit again nor a restart from an older
\* ledger file or from none makes Ledger::scan credit a deposit twice.
THEOREM DepositsCreditedOnce == Spec => []CreditedOnce
<1>1. AdapterInv => CreditedOnce
  BY DEF AdapterInv, LedgerOk, SeenOnce, CreditedOnce
<1> QED  BY <1>1, AdapterInvariant, PTL

\* Until a key is lost, ledger and file hold exactly the deposits of the blocks they name,
\* and name one for every height they account for.
THEOREM LedgerHoldsScan == Spec => []LedgerIsScan
<1>1. ASSUME AdapterInv, ~ past.lost_keys, NEW l, LedgerOk(l, keys.memory, handed)
      PROVE  /\ l # EmptyLedger => DOMAIN l.heights = 0 .. l.last_height
             /\ Ids(l.entries) = Deposits(Scanned(l))
  <2>1. l # EmptyLedger => DOMAIN l.heights = 0 .. l.last_height
    BY <1>1 DEF LedgerOk, IsLedger
  <2>2. handed \subseteq keys.memory
    BY <1>1 DEF AdapterInv
  <2>3. ASSUME NEW x \in Deposits(Scanned(l)) PROVE x \in Ids(l.entries)
    <3>1. PICK b \in Scanned(l) : \E o \in OutputsAt(b) : o.addr \in Address /\ x = o.id
      BY DepositsMember
    <3>2. PICK h \in DOMAIN l.heights : b = l.heights[h]
      BY <3>1, ScannedMember
    <3>3. PICK o \in OutputsAt(b) : o.addr \in Address /\ x = o.id
      BY <3>1
    <3>4. o.addr \in keys.memory
      BY <1>1, <2>2, <3>2, <3>3 DEF LedgerOk, HoldsScan, PaysHanded
    <3> QED  BY <1>1, <3>2, <3>3, <3>4 DEF LedgerOk, HoldsScan
  <2>4. Ids(l.entries) \subseteq Deposits(Scanned(l))
    BY <1>1 DEF LedgerOk, HoldsScan
  <2> QED  BY <2>1, <2>3, <2>4
<1>2. AdapterInv => LedgerIsScan
  BY <1>1 DEF AdapterInv, LedgerIsScan
<1> QED  BY <1>2, AdapterInvariant, PTL

\* An exchange that polls listsinceblock with the lastblock of the answer before has been
\* told of every deposit up to it, restarts and rescans included, as long as the adapter
\* named no block it had not scanned and the chain was not reorganised.
THEOREM CursorComplete == Spec => []CursorMissesNothing
<1>1. AdapterInv => CursorMissesNothing
  BY DEF AdapterInv, Told, CursorMissesNothing
<1> QED  BY <1>1, AdapterInvariant, PTL
=============================================================================
