----------------------------- MODULE PoolProofs -----------------------------
(***************************************************************************)
(* The mining pool.  Its books balance: a found block is credited with its *)
(* reward, and what is marked as paid is what was sent (Pool).  Its server *)
(* keeps miners on the current job at the difficulty of their session,     *)
(* weighs shares by what they show and submits blocks as they were mined   *)
(* (Stratum).                                                              *)
(***************************************************************************)
EXTENDS Pool, Stratum, RecursionProofs, SequenceTheorems

-----------------------------------------------------------------------------
\* Ledgers

\* The positions of a ledger, what they are worth and their sums.
LEMMA LedgerFacts ==
  ASSUME NEW l \in Seq(Entry)
  PROVE  /\ Len(l) \in Nat /\ DOMAIN l = 1 .. Len(l) /\ IsFiniteSet(DOMAIN l)
         /\ \A i \in DOMAIN l : /\ l[i] \in Entry
                                /\ Nets(l)[i] = l[i].net /\ Nets(l)[i] \in Nat
                                /\ Credits(l)[i] = l[i].net + l[i].fee /\ Credits(l)[i] \in Nat
         /\ \A S \in SUBSET DOMAIN l : /\ IsFiniteSet(S) /\ NetOf(l, S) \in Nat
                                       /\ SumFunctionOnSet(Credits(l), S) \in Nat
<1>1. Len(l) \in Nat /\ DOMAIN l = 1 .. Len(l) /\ IsFiniteSet(DOMAIN l)
  BY FS_Interval
<1>2. ASSUME NEW i \in DOMAIN l
      PROVE  /\ l[i] \in Entry /\ Nets(l)[i] = l[i].net /\ Nets(l)[i] \in Nat
             /\ Credits(l)[i] = l[i].net + l[i].fee /\ Credits(l)[i] \in Nat
  <2>1. l[i] \in Entry
    BY <1>1
  <2>2. l[i].net \in Nat /\ l[i].fee \in Nat
    BY <2>1 DEF Entry
  <2> QED  BY <2>1, <2>2 DEF Nets, Credits
<1>3. ASSUME NEW S \in SUBSET DOMAIN l
      PROVE  /\ IsFiniteSet(S) /\ NetOf(l, S) \in Nat
             /\ SumFunctionOnSet(Credits(l), S) \in Nat
  <2>1. IsFiniteSet(S)
    BY <1>1, FS_Subset
  <2>2. \A i \in S : Nets(l)[i] \in Nat /\ Credits(l)[i] \in Nat
    BY <1>2
  <2> QED  BY <2>1, <2>2, SumOfNat DEF NetOf
<1> QED  BY <1>1, <1>2, <1>3

\* Two ledgers with the same amounts at the same positions.
LEMMA SameNets ==
  ASSUME NEW l \in Seq(Entry), NEW k \in Seq(Entry),
         NEW S \in SUBSET DOMAIN l, S \subseteq DOMAIN k,
         \A i \in S : k[i].net = l[i].net
  PROVE  NetOf(k, S) = NetOf(l, S)
<1>1. IsFiniteSet(S)
  BY LedgerFacts
<1>2. \A i \in S : Nets(l)[i] \in Int /\ Nets(l)[i] = Nets(k)[i]
  BY LedgerFacts
<1> QED  BY <1>1, <1>2, SumAgree DEF NetOf

SameEntries(l, k) ==
  /\ DOMAIN k = DOMAIN l
  /\ \A i \in DOMAIN l : /\ k[i].block = l[i].block /\ k[i].net = l[i].net
                         /\ k[i].fee = l[i].fee /\ k[i].miner = l[i].miner

\* Marking changes no credit.
LEMMA SameCredits ==
  ASSUME NEW l \in Seq(Entry), NEW k \in Seq(Entry), SameEntries(l, k)
  PROVE  BlocksOf(k) = BlocksOf(l) /\ (Rewarded(l) => Rewarded(k))
<1>1. BlocksOf(k) = BlocksOf(l)
  BY DEF BlocksOf, SameEntries
<1>2. ASSUME NEW b PROVE CreditedFor(k, b) = CreditedFor(l, b)
  <2> DEFINE S == {i \in DOMAIN l : l[i].block = b}
  <2>1. S = {i \in DOMAIN k : k[i].block = b}
    BY DEF SameEntries
  <2>2. IsFiniteSet(S)
    BY LedgerFacts
  <2>3. \A i \in S : Credits(l)[i] \in Int /\ Credits(l)[i] = Credits(k)[i]
    BY LedgerFacts DEF SameEntries
  <2>4. SumFunctionOnSet(Credits(l), S) = SumFunctionOnSet(Credits(k), S)
    <3> HIDE DEF S
    <3> QED  BY <2>2, <2>3, SumAgree
  <2> QED  BY <2>1, <2>4 DEF CreditedFor
<1> QED  BY <1>1, <1>2 DEF Rewarded

\* A ledger with entries added: the old ones stay where they are.
LEMMA ExtensionFacts ==
  ASSUME NEW l \in Seq(Entry), NEW x \in Seq(Entry)
  PROVE  /\ l \o x \in Seq(Entry) /\ Len(l \o x) = Len(l) + Len(x)
         /\ DOMAIN l \subseteq DOMAIN (l \o x)
         /\ \A i \in DOMAIN l : (l \o x)[i] = l[i]
         /\ \A i \in DOMAIN (l \o x) \ DOMAIN l :
              i > Len(l) /\ i - Len(l) \in DOMAIN x /\ (l \o x)[i] = x[i - Len(l)]
<1> DEFINE k == l \o x
<1>1. /\ k \in Seq(Entry) /\ Len(k) = Len(l) + Len(x)
      /\ \A i \in 1 .. Len(k) : k[i] = IF i <= Len(l) THEN l[i] ELSE x[i - Len(l)]
  BY ConcatProperties
<1>2. /\ DOMAIN k = 1 .. Len(k) /\ DOMAIN l = 1 .. Len(l) /\ DOMAIN x = 1 .. Len(x)
      /\ Len(l) \in Nat /\ Len(x) \in Nat
  BY <1>1
<1> HIDE DEF k
<1>3. DOMAIN l \subseteq DOMAIN k /\ \A i \in DOMAIN l : k[i] = l[i]
  BY <1>1, <1>2
<1>4. \A i \in DOMAIN k \ DOMAIN l : i > Len(l) /\ i - Len(l) \in DOMAIN x /\ k[i] = x[i - Len(l)]
  BY <1>1, <1>2
<1> QED  BY <1>1, <1>3, <1>4 DEF k

\* With unpaid entries added, what was marked stays as it was ...
LEMMA ExtendedPaid ==
  ASSUME NEW l \in Seq(Entry), NEW x \in Seq(Entry), \A i \in DOMAIN x : ~ x[i].paid, NEW m
  PROVE  NetOf(l \o x, Paid(l \o x, m)) = NetOf(l, Paid(l, m))
<1> DEFINE k == l \o x
<1>1. /\ k \in Seq(Entry) /\ DOMAIN l \subseteq DOMAIN k
      /\ \A i \in DOMAIN l : k[i] = l[i]
      /\ \A i \in DOMAIN k \ DOMAIN l : i - Len(l) \in DOMAIN x /\ k[i] = x[i - Len(l)]
  BY ExtensionFacts
<1> HIDE DEF k
<1>2. Paid(k, m) = Paid(l, m) /\ Paid(l, m) \subseteq DOMAIN l
  BY <1>1 DEF Paid
<1>3. NetOf(k, Paid(l, m)) = NetOf(l, Paid(l, m))
  <2> HIDE DEF Paid
  <2> QED  BY <1>1, <1>2, SameNets
<1> QED  BY <1>2, <1>3 DEF k

\* ... and so do the sums of the oldest unpaid entries.
LEMMA ExtendedUnpaid ==
  ASSUME NEW l \in Seq(Entry), NEW x \in Seq(Entry), NEW m, NEW i \in 1 .. Len(l) + 1
  PROVE  /\ UnpaidBefore(l \o x, m, i) = UnpaidBefore(l, m, i)
         /\ i \in 1 .. Len(l \o x) + 1
<1> DEFINE k == l \o x
           S == {j \in Unpaid(l, m) : j < i}
<1>1. /\ k \in Seq(Entry) /\ DOMAIN l \subseteq DOMAIN k /\ Len(k) = Len(l) + Len(x)
      /\ \A j \in DOMAIN l : k[j] = l[j]
      /\ \A j \in DOMAIN k \ DOMAIN l : j > Len(l)
  BY ExtensionFacts
<1>2. Len(l) \in Nat /\ Len(x) \in Nat /\ DOMAIN k = 1 .. Len(k)
  BY <1>1
<1> HIDE DEF k
<1>3. \A j \in DOMAIN k : j < i => j \in DOMAIN l
  BY <1>1, <1>2
<1>4. S = {j \in Unpaid(k, m) : j < i} /\ S \subseteq DOMAIN l
  BY <1>1, <1>3 DEF Unpaid
<1>5. NetOf(k, S) = NetOf(l, S)
  <2> HIDE DEF S
  <2> QED  BY <1>1, <1>4, SameNets
<1>6. i \in 1 .. Len(k) + 1
  BY <1>1, <1>2
<1> QED  BY <1>4, <1>5, <1>6 DEF UnpaidBefore, k

-----------------------------------------------------------------------------
\* Payments

\* The sums of the oldest unpaid entries.
LEMMA UnpaidFacts ==
  ASSUME NEW l \in Seq(Entry), NEW m
  PROVE  /\ UnpaidBefore(l, m, 1) = 0
         /\ \A i \in 1 .. Len(l) + 1 : UnpaidBefore(l, m, i) \in Nat
         /\ pending_atoms(l, m) \in Nat
<1>1. ASSUME NEW i \in 1 .. Len(l) + 1 PROVE UnpaidBefore(l, m, i) \in Nat
  <2>1. {j \in Unpaid(l, m) : j < i} \in SUBSET DOMAIN l
    BY DEF Unpaid
  <2> QED  BY <2>1, LedgerFacts DEF UnpaidBefore
<1>2. UnpaidBefore(l, m, 1) = 0
  <2>1. {j \in Unpaid(l, m) : j < 1} = {}
    BY DEF Unpaid
  <2> QED  BY <2>1, SumOfNone DEF UnpaidBefore, NetOf
<1>3. Unpaid(l, m) \in SUBSET DOMAIN l
  BY DEF Unpaid
<1> QED  BY <1>1, <1>2, <1>3, LedgerFacts DEF pending_atoms

\* A payment is for whole entries and not more than the wallet has.
LEMMA PayableIsWhole ==
  ASSUME NEW l \in Seq(Entry), NEW m, NEW max \in Nat
  PROVE  /\ payable_atoms_up_to(l, m, max) \in 0 .. max
         /\ \E i \in 1 .. Len(l) + 1 : payable_atoms_up_to(l, m, max) = UnpaidBefore(l, m, i)
<1> DEFINE all == {UnpaidBefore(l, m, i) : i \in 1 .. Len(l) + 1}
           fits == all \cap 0 .. max
<1>1. 0 \in fits
  <2>1. 1 \in 1 .. Len(l) + 1
    BY LedgerFacts
  <2> QED  BY <2>1, UnpaidFacts
<1>2. \E n \in fits : \A k \in fits : k <= n
  <2> DEFINE low == {max - n : n \in fits}
  <2>1. low \subseteq Nat /\ low # {}
    BY <1>1
  <2>2. PICK d \in low : \A c \in low : d <= c
    <3> HIDE DEF low
    <3> QED  BY <2>1, LeastElement, Zenon
  <2>3. PICK n \in fits : d = max - n
    BY <2>2
  <2>4. ASSUME NEW k \in fits PROVE k <= n
    <3>1. max - k \in low /\ k \in Nat /\ n \in Nat
      BY <2>3
    <3>2. d <= max - k
      BY <2>2, <3>1
    <3> QED  BY <2>3, <3>1, <3>2
  <2> QED  BY <2>3, <2>4
<1>3. payable_atoms_up_to(l, m, max) = CHOOSE n \in fits : \A k \in fits : k <= n
  BY DEF payable_atoms_up_to
<1> HIDE DEF fits
<1>4. payable_atoms_up_to(l, m, max) \in fits
  BY <1>2, <1>3
<1> QED  BY <1>4 DEF fits

\* The entries that mark_paid_up_to marks.
Marked(l, m, amount) == {i \in Unpaid(l, m) : UnpaidBefore(l, m, i) < amount}

\* When the amount is the sum of the oldest unpaid entries, exactly entries of that
\* worth are marked: an entry too many or too few would be worth nothing.
LEMMA MarkedIsWhole ==
  ASSUME NEW l \in Seq(Entry), NEW m, NEW k \in 1 .. Len(l) + 1
  PROVE  NetOf(l, Marked(l, m, UnpaidBefore(l, m, k))) = UnpaidBefore(l, m, k)
<1> DEFINE A == UnpaidBefore(l, m, k)
           U == Unpaid(l, m)
           Before(i) == {j \in U : j < i}
           M == Marked(l, m, A)
           f == Nets(l)
<1>1. /\ Len(l) \in Nat /\ DOMAIN l = 1 .. Len(l) /\ U \subseteq DOMAIN l /\ IsFiniteSet(U)
      /\ \A i \in U : f[i] \in Nat
  BY LedgerFacts DEF Unpaid
<1>2. A \in Nat /\ A = SumFunctionOnSet(f, Before(k))
  BY UnpaidFacts DEF UnpaidBefore, NetOf
<1>3. ASSUME NEW i \in U
      PROVE  UnpaidBefore(l, m, i) = SumFunctionOnSet(f, Before(i)) /\ UnpaidBefore(l, m, i) \in Nat
  <2>1. i \in 1 .. Len(l) + 1
    BY <1>1
  <2> QED  BY <2>1, UnpaidFacts DEF UnpaidBefore, NetOf
<1>4. M \subseteq Before(k)
  <2> SUFFICES ASSUME NEW i \in M, ~ (i < k) PROVE FALSE
    BY DEF Marked
  <2>1. i \in U /\ UnpaidBefore(l, m, i) < A
    BY DEF Marked
  <2>2. Before(k) \subseteq Before(i) /\ IsFiniteSet(Before(i)) /\ \A j \in Before(i) : f[j] \in Nat
    BY <1>1, <2>1, FS_Subset
  <2>3. SumFunctionOnSet(f, Before(k)) <= SumFunctionOnSet(f, Before(i))
    <3> HIDE DEF Before, f
    <3> QED  BY <2>2, SumSubset
  <2> QED  BY <1>2, <1>3, <2>1, <2>3
<1>5. ASSUME NEW j \in Before(k) \ M PROVE f[j] = 0
  <2>1. j \in U /\ j < k /\ UnpaidBefore(l, m, j) >= A
    <3>1. j \in U /\ j < k /\ ~ (UnpaidBefore(l, m, j) < A)
      BY DEF Marked
    <3>2. UnpaidBefore(l, m, j) \in Nat
      BY <1>3, <3>1
    <3> HIDE DEF A
    <3> QED  BY <1>2, <3>1, <3>2
  <2> DEFINE B == Before(j) \cup {j}
  <2>2. /\ B \subseteq Before(k) /\ B \ {j} = Before(j) /\ j \in B
        /\ IsFiniteSet(Before(k)) /\ IsFiniteSet(B)
        /\ \A i \in Before(k) : f[i] \in Nat
    <3>1. B \subseteq Before(k) /\ B \ {j} = Before(j) /\ j \in B
      BY <1>1, <2>1
    <3>2. B \subseteq U /\ Before(k) \subseteq U
      BY <2>1
    <3>3. IsFiniteSet(Before(k)) /\ IsFiniteSet(B)
      <4> HIDE DEF B, Before
      <4> QED  BY <1>1, <3>2, FS_Subset
    <3> QED  BY <1>1, <3>1, <3>2, <3>3
  <2>3. \A i \in B : f[i] \in Int
    BY <2>2
  <2> HIDE DEF B, Before, f
  <2>4. SumFunctionOnSet(f, B) <= SumFunctionOnSet(f, Before(k))
    BY <2>2, SumSubset
  <2>5. SumFunctionOnSet(f, B) = f[j] + SumFunctionOnSet(f, Before(j))
    BY <2>2, <2>3, SumRemove
  <2>6. f[j] \in Nat
    BY <1>1, <2>1
  <2> QED  BY <1>2, <1>3, <2>1, <2>4, <2>5, <2>6
<1>6. IsFiniteSet(Before(k)) /\ (\A i \in Before(k) : f[i] \in Nat) /\ IsFiniteSet(Before(k) \ M)
  BY <1>1, FS_Subset
<1>7. SumFunctionOnSet(f, Before(k) \ M) = 0
  <2> HIDE DEF Before, M, f
  <2> QED  BY <1>5, <1>6, SumOfZeros
<1>8. /\ SumFunctionOnSet(f, Before(k)) = SumFunctionOnSet(f, M) + SumFunctionOnSet(f, Before(k) \ M)
      /\ SumFunctionOnSet(f, M) \in Nat
  <2> HIDE DEF Before, M, f
  <2> QED  BY <1>4, <1>6, SumSubset
<1>9. SumFunctionOnSet(f, M) = A
  <2> HIDE DEF Before, M, f, A
  <2> QED  BY <1>2, <1>7, <1>8
<1> QED  BY <1>9 DEF NetOf

\* Marking leaves an entry as it is but for the mark.
LEMMA MarkedEntry ==
  ASSUME NEW e \in Entry
  PROVE  /\ [e EXCEPT !.paid = TRUE] \in Entry /\ [e EXCEPT !.paid = TRUE].paid
         /\ [e EXCEPT !.paid = TRUE].block = e.block /\ [e EXCEPT !.paid = TRUE].net = e.net
         /\ [e EXCEPT !.paid = TRUE].fee = e.fee /\ [e EXCEPT !.paid = TRUE].miner = e.miner
BY DEF Entry

\* A marked ledger: the entries at the positions M are paid, the others as before.
MarksOnly(l, k, M) ==
  /\ k = [i \in DOMAIN l |-> IF i \in M THEN [l[i] EXCEPT !.paid = TRUE] ELSE l[i]]
  /\ M \subseteq DOMAIN l

LEMMA MarkedLedger ==
  ASSUME NEW l \in Seq(Entry), NEW k, NEW M, MarksOnly(l, k, M)
  PROVE  /\ k \in Seq(Entry) /\ Len(k) = Len(l) /\ SameEntries(l, k)
         /\ \A i \in M : k[i].paid
         /\ \A i \in DOMAIN l \ M : k[i] = l[i]
<1>1. Len(l) \in Nat /\ DOMAIN l = 1 .. Len(l) /\ \A i \in DOMAIN l : l[i] \in Entry
  BY LedgerFacts
<1>2. \A i \in DOMAIN l : k[i] = IF i \in M THEN [l[i] EXCEPT !.paid = TRUE] ELSE l[i]
  BY DEF MarksOnly
<1>3. \A i \in DOMAIN l : k[i] \in Entry
  BY <1>1, <1>2, MarkedEntry
<1>4. k \in [1 .. Len(l) -> Entry]
  BY <1>1, <1>3 DEF MarksOnly
<1>5. k \in Seq(Entry) /\ Len(k) = Len(l)
  BY <1>1, <1>4
<1>6. DOMAIN k = DOMAIN l
  BY <1>1, <1>4
<1>7. SameEntries(l, k)
  BY <1>1, <1>2, <1>6, MarkedEntry DEF SameEntries
<1>8. \A i \in M : k[i].paid
  BY <1>1, <1>2, MarkedEntry DEF MarksOnly
<1> QED  BY <1>2, <1>5, <1>7, <1>8

LEMMA MarkPaidUpToFacts ==
  ASSUME NEW l \in Seq(Entry), NEW m, NEW amount
  PROVE  MarksOnly(l, mark_paid_up_to(l, m, amount), Marked(l, m, amount))
<1>1. Marked(l, m, amount) \subseteq DOMAIN l
  BY DEF Marked, Unpaid
<1>2. \A i \in DOMAIN l : i \in Marked(l, m, amount)
                          <=> i \in Unpaid(l, m) /\ UnpaidBefore(l, m, i) < amount
  BY DEF Marked
<1> HIDE DEF Marked
<1> QED  BY <1>1, <1>2 DEF MarksOnly, mark_paid_up_to

LEMMA MarkPaidFacts ==
  ASSUME NEW l \in Seq(Entry), NEW m
  PROVE  MarksOnly(l, mark_paid(l, m), {i \in DOMAIN l : l[i].miner = m})
BY DEF MarksOnly, mark_paid

\* Marking a payment for whole entries raises what is marked as paid to its miner
\* by its amount, and to nobody else.
LEMMA MarkingIsExact ==
  ASSUME NEW l \in Seq(Entry), NEW m, NEW k \in 1 .. Len(l) + 1, NEW n
  PROVE  LET A == UnpaidBefore(l, m, k)
             r == mark_paid_up_to(l, m, A)
         IN  NetOf(r, Paid(r, n)) = NetOf(l, Paid(l, n)) + (IF n = m THEN A ELSE 0)
<1> DEFINE A == UnpaidBefore(l, m, k)
           r == mark_paid_up_to(l, m, A)
           M == Marked(l, m, A)
<1>1. MarksOnly(l, r, M)
  BY MarkPaidUpToFacts
<1>2. M \subseteq DOMAIN l /\ \A i \in M : ~ l[i].paid /\ l[i].miner = m
  BY DEF Marked, Unpaid
<1>3. A \in Nat /\ NetOf(l, M) = A
  BY UnpaidFacts, MarkedIsWhole
<1> SUFFICES NetOf(r, Paid(r, n)) = NetOf(l, Paid(l, n)) + (IF n = m THEN A ELSE 0)
  OBVIOUS
<1> HIDE DEF A, r, M
<1>4. /\ r \in Seq(Entry) /\ Len(r) = Len(l) /\ SameEntries(l, r)
      /\ \A i \in M : r[i].paid
      /\ \A i \in DOMAIN l \ M : r[i] = l[i]
  BY <1>1, MarkedLedger
<1>5. DOMAIN r = DOMAIN l /\ \A i \in DOMAIN l : r[i].miner = l[i].miner /\ r[i].net = l[i].net
  BY <1>4 DEF SameEntries
<1>6. \A S \in SUBSET DOMAIN l : NetOf(r, S) = NetOf(l, S)
  BY <1>4, <1>5, SameNets
<1>7. Paid(l, n) \in SUBSET DOMAIN l /\ Paid(r, n) \in SUBSET DOMAIN l
  BY <1>5 DEF Paid
<1>8. NetOf(l, Paid(l, n)) \in Nat
  BY <1>7, LedgerFacts
<1>9. CASE n # m
  <2>1. Paid(r, n) = Paid(l, n)
    BY <1>2, <1>4, <1>5, <1>9 DEF Paid
  <2> QED  BY <1>6, <1>7, <1>8, <1>9, <2>1
<1>10. CASE n = m
  <2> DEFINE P == Paid(l, n)
  <2>1. Paid(r, n) = P \cup M /\ P \cap M = {}
    BY <1>2, <1>4, <1>5, <1>10 DEF Paid
  <2> HIDE DEF P
  <2>2. NetOf(l, P \cup M) = NetOf(l, P) + NetOf(l, M)
    <3>1. IsFiniteSet(P) /\ IsFiniteSet(M)
      BY <1>2, <1>7, LedgerFacts DEF P
    <3>2. \A i \in P \cup M : Nets(l)[i] \in Int
      BY <1>2, <1>7, LedgerFacts DEF P
    <3> QED  BY <2>1, <3>1, <3>2, SumUnion DEF NetOf
  <2>3. P \cup M \in SUBSET DOMAIN l
    BY <1>2, <1>7 DEF P
  <2> QED  BY <1>3, <1>6, <1>10, <2>1, <2>2, <2>3 DEF P
<1> QED  BY <1>9, <1>10

-----------------------------------------------------------------------------
\* Rewards

\* The weight of a share is a power of two, and never zero.
LEMMA WeightPositive == \A n \in 0 .. 63 : Pow2[n] \in Nat \ {0}
<1> DEFINE V == Nat \ {0}
           F == [p \in (1 .. 63) \X V |-> 2 * p[2]]
<1>1. PICK f : Solves(f, 63, V, 1, F)
  <2>1. F \in [(1 .. 63) \X V -> V] /\ 1 \in V /\ 63 \in Nat
    OBVIOUS
  <2> HIDE DEF V, F
  <2> QED  BY <2>1, RecursionSolved
<1>2. f \in [0 .. 63 -> V] /\ f = [i \in 0 .. 63 |-> IF i = 0 THEN 1 ELSE F[<<i, f[i - 1]>>]]
  BY <1>1 DEF Solves
<1>3. \A i \in 1 .. 63 : F[<<i, f[i - 1]>>] = 2 * f[i - 1]
  <2> SUFFICES ASSUME NEW i \in 1 .. 63 PROVE F[<<i, f[i - 1]>>] = 2 * f[i - 1]
    OBVIOUS
  <2>1. f[i - 1] \in V
    <3>1. i - 1 \in 0 .. 63  OBVIOUS
    <3> QED  BY <1>2, <3>1
  <2>2. <<i, f[i - 1]>> \in (1 .. 63) \X V
    BY <2>1
  <2> QED  BY <2>2
<1>4. f = [n \in 0 .. 63 |-> IF n = 0 THEN 1 ELSE 2 * f[n - 1]]
  <2> HIDE DEF F, V
  <2> DEFINE g == [n \in 0 .. 63 |-> IF n = 0 THEN 1 ELSE 2 * f[n - 1]]
  <2>1. \A n \in 0 .. 63 : n # 0 => n \in 1 .. 63  OBVIOUS
  <2>2. \A n \in 0 .. 63 : f[n] = g[n]  BY <1>2, <1>3, <2>1
  <2> QED  BY <1>2, <2>2
<1>5. Pow2 = [n \in 0 .. 63 |-> IF n = 0 THEN 1 ELSE 2 * Pow2[n - 1]]
  BY <1>4, Zenon DEF Pow2
<1> HIDE DEF Pow2
<1>6. SameSteps(Pow2, f, 63)
  <2> HIDE DEF F, V
  <2>1. \A n \in 1 .. 63 : n \in 0 .. 63 /\ n # 0  OBVIOUS
  <2> QED  BY <1>4, <1>5, <2>1 DEF SameSteps
<1>7. Agree(Pow2, f, 63)
  BY <1>6, RecursionUnique
<1> QED  BY <1>2, <1>7 DEF Agree

\* The weights of the miners add up to the weight of the window.
LEMMA WindowFacts ==
  ASSUME NEW w \in Seq(Share), w # << >>
  PROVE  /\ total_weight(w) \in Nat \ {0} /\ \A m \in Miner : WeightOf(w, m) \in Nat
         /\ SumFunctionOnSet([m \in Miner |-> WeightOf(w, m)], Miner) = total_weight(w)
         /\ Miner # {}
<1> DEFINE S == DOMAIN w
           f == Weights(w)
           e == [m \in Miner |-> WeightOf(w, m)]
           c == [i \in S |-> w[i].miner]
           k == [m \in Miner |-> {i \in S : c[i] = m}]
<1>1. Len(w) \in Nat \ {0} /\ S = 1 .. Len(w) /\ IsFiniteSet(S) /\ \A i \in S : w[i] \in Share
  BY FS_Interval
<1>2. \A i \in S : f[i] \in Nat \ {0} /\ c[i] \in Miner
  <2> SUFFICES ASSUME NEW i \in S PROVE f[i] \in Nat \ {0} /\ c[i] \in Miner
    OBVIOUS
  <2>1. w[i].bits \in 0 .. 63 /\ w[i].miner \in Miner
    BY <1>1, PoolAssumption DEF Share
  <2> QED  BY <2>1, WeightPositive DEF Weights, weight
<1>3. \A m \in Miner : k[m] = {i \in S : c[i] = m} /\ e[m] = SumFunctionOnSet(f, k[m])
  <2> SUFFICES ASSUME NEW m \in Miner
               PROVE  k[m] = {i \in S : c[i] = m} /\ e[m] = SumFunctionOnSet(f, k[m])
    OBVIOUS
  <2>1. {i \in S : c[i] = m} = {i \in DOMAIN w : w[i].miner = m}
    OBVIOUS
  <2> QED  BY <2>1 DEF WeightOf
<1>4. IsFiniteSet(Miner)
  BY PoolAssumption
<1>5. (\A m \in Miner : e[m] \in Nat) /\ SumFunctionOnSet(e, Miner) = SumFunctionOnSet(f, S)
  <2> HIDE DEF S, f, e, c, k
  <2>1. \A i \in S : f[i] \in Nat /\ c[i] \in Miner
    BY <1>2
  <2>2. Classes(S, Miner, f, e, c, k)
    BY <1>3, <2>1 DEF Classes
  <2> QED  BY <1>1, <1>4, <2>2, SumPartition
<1>6. SumFunctionOnSet(f, S) \in Nat \ {0}
  <2>1. 1 \in S /\ \A i \in S : f[i] \in Nat
    BY <1>1, <1>2
  <2> HIDE DEF S, f
  <2>2. SumFunctionOnSet(f, S) \in Nat /\ f[1] <= SumFunctionOnSet(f, S)
    BY <1>1, <2>1, SumOfNat
  <2> QED  BY <1>2, <2>1, <2>2
<1>7. Miner # {}
  BY <1>1, <1>2
<1> QED  BY <1>5, <1>6, <1>7 DEF total_weight

\* The parts of a reward are the reward but for less than an atom per miner.
LEMMA PartsAreReward ==
  ASSUME NEW w \in Seq(Share), w # << >>, NEW gross \in Nat
  PROVE  LET p == [m \in Miner |-> Part(w, m, gross)]
         IN  /\ p \in [Miner -> Nat] /\ SumFunctionOnSet(p, Miner) \in Nat
             /\ gross - SumFunctionOnSet(p, Miner) \in 0 .. Cardinality(Miner) - 1
<1> DEFINE p == [m \in Miner |-> Part(w, m, gross)]
           v == [m \in Miner |-> WeightOf(w, m)]
           T == total_weight(w)
           P == SumFunctionOnSet(p, Miner)
           N == Cardinality(Miner)
<1>1. T \in Nat \ {0} /\ (\A m \in Miner : v[m] \in Nat) /\ SumFunctionOnSet(v, Miner) = T
  BY WindowFacts
<1>2. IsFiniteSet(Miner) /\ N \in Nat \ {0}
  BY WindowFacts, PoolAssumption, FS_CardinalityType, FS_EmptySet
<1>3. ASSUME NEW a \in Nat, NEW t \in Nat \ {0}
      PROVE  a \div t \in Nat /\ t * (a \div t) <= a /\ a <= t * (a \div t) + t - 1
  OBVIOUS
<1>4. ASSUME NEW m \in Miner
      PROVE  /\ p[m] \in Nat
             /\ T * p[m] <= gross * v[m] /\ gross * v[m] <= T * p[m] + T - 1
  <2>1. p[m] = (gross * v[m]) \div T
    BY DEF Part
  <2>2. gross * v[m] \in Nat
    BY <1>1
  <2> HIDE DEF p, v, T
  <2> QED  BY <1>1, <1>3, <2>1, <2>2
<1>5. P \in Nat /\ T * P <= gross * T /\ gross * T <= T * P + N * (T - 1)
  <2>1. \A m \in Miner : /\ p[m] \in Nat /\ v[m] \in Nat
                         /\ T * p[m] <= gross * v[m] /\ gross * v[m] <= T * p[m] + T - 1
    BY <1>1, <1>4
  <2> HIDE DEF p, v, T
  <2>2. /\ SumFunctionOnSet(p, Miner) \in Nat
        /\ T * SumFunctionOnSet(p, Miner) <= gross * SumFunctionOnSet(v, Miner)
        /\ gross * SumFunctionOnSet(v, Miner)
             <= T * SumFunctionOnSet(p, Miner) + Cardinality(Miner) * (T - 1)
    BY <1>1, <1>2, <2>1, SumOfQuotients
  <2> QED  BY <1>1, <2>2
<1>6. ASSUME NEW g \in Nat, NEW q \in Nat, NEW t \in Nat \ {0}, NEW n \in Nat \ {0},
             t * q <= g * t, g * t <= t * q + n * (t - 1)
      PROVE  g - q \in 0 .. n - 1
  <2>1. q <= g
    BY <1>6
  <2>2. g - q < n
    <3> SUFFICES ASSUME g - q >= n PROVE FALSE
      OBVIOUS
    <3>1. t * (g - q) >= t * n
      OBVIOUS
    <3>2. t * (g - q) = g * t - t * q /\ n * (t - 1) = t * n - n
      OBVIOUS
    <3>3. t * n \in Int /\ g * t \in Int /\ t * q \in Int
      OBVIOUS
    <3> QED  BY <1>6, <3>1, <3>2, <3>3
  <2> QED  BY <2>1, <2>2
<1>7. gross - P \in 0 .. N - 1
  <2> HIDE DEF P, N, T
  <2> QED  BY <1>1, <1>2, <1>5, <1>6
<1>8. p \in [Miner -> Nat]
  BY <1>4
<1> QED  BY <1>5, <1>7, <1>8

\* The fee and the net amount of an entry are its gross amount.
LEMMA NewEntryFacts ==
  ASSUME NEW b \in Found, NEW m \in Payee, NEW gross \in Nat, NEW finder \in Payee
  PROVE  LET e == NewEntry(b, m, gross, finder)
         IN  /\ e \in Entry /\ ~ e.paid /\ e.block = b /\ e.miner = m /\ e.gross = gross
             /\ e.net + e.fee = gross
<1> DEFINE f == (gross * FeeBps) \div FeeBase
<1>1. ASSUME NEW a \in Nat, NEW p \in Nat, NEW q \in Nat \ {0}, p <= q
      PROVE  (a * p) \div q \in 0 .. a
  <2>1. a * p \in Nat /\ a * p <= a * q /\ a * q \in Nat
    BY <1>1
  <2>2. \A x \in Nat : \A t \in Nat \ {0} : x \div t \in Nat /\ t * (x \div t) <= x
    OBVIOUS
  <2>3. (a * p) \div q \in Nat /\ q * ((a * p) \div q) <= a * q
    BY <2>1, <2>2
  <2>4. \A x \in Nat : q * x <= a * q => x <= a
    OBVIOUS
  <2> QED  BY <2>3, <2>4
<1>2. f \in 0 .. gross
  BY <1>1, PoolAssumption
<1> HIDE DEF f
<1>3. f \in Nat /\ gross - f \in Nat /\ (gross - f) + f = gross
  BY <1>2
<1> QED  BY <1>3 DEF NewEntry, Entry, f

\* s credits block b with its reward.
Reward(s, b) ==
  /\ s \in Seq(Entry)
  /\ \A i \in DOMAIN s : ~ s[i].paid /\ s[i].block = b
  /\ Gross[b] - SumFunctionOnSet(Credits(s), DOMAIN s) \in 0 .. Cardinality(Miner) - 1

\* One entry with the whole reward.
LEMMA WholeReward ==
  ASSUME NEW b \in Found, NEW m \in Payee, NEW finder \in Payee, Miner # {}
  PROVE  Reward(<<NewEntry(b, m, Gross[b], finder)>>, b)
<1> DEFINE e == NewEntry(b, m, Gross[b], finder)
           s == <<e>>
           f == Credits(s)
<1>1. Gross[b] \in Nat
  BY PoolAssumption
<1>2. e \in Entry /\ ~ e.paid /\ e.block = b /\ e.net + e.fee = Gross[b]
  BY <1>1, NewEntryFacts
<1> HIDE DEF e
<1>3. s \in Seq(Entry) /\ DOMAIN s = {1} /\ s[1] = e
  BY <1>2
<1>4. f[1] = Gross[b]
  BY <1>2, <1>3 DEF Credits
<1>5. SumFunctionOnSet(f, {1}) = Gross[b]
  <2> HIDE DEF f
  <2>1. IsFiniteSet({1}) /\ (\A i \in {1} : f[i] \in Int) /\ 1 \in {1} /\ {1} \ {1} = {}
    BY <1>1, <1>4, FS_Singleton
  <2>2. SumFunctionOnSet(f, {1}) = f[1] + SumFunctionOnSet(f, {1} \ {1})
    BY <2>1, SumRemove
  <2>3. SumFunctionOnSet(f, {1} \ {1}) = 0
    BY <2>1, SumOfNone
  <2> QED  BY <1>1, <1>4, <2>2, <2>3
<1>6. Cardinality(Miner) \in Nat \ {0}
  BY PoolAssumption, FS_CardinalityType, FS_EmptySet
<1> HIDE DEF f
<1>7. Gross[b] - SumFunctionOnSet(f, DOMAIN s) \in 0 .. Cardinality(Miner) - 1
  BY <1>1, <1>3, <1>5, <1>6
<1>8. \A i \in DOMAIN s : ~ s[i].paid /\ s[i].block = b
  BY <1>2, <1>3
<1> QED  BY <1>3, <1>7, <1>8 DEF Reward, e, f

\* An order of a finite set takes every element once.
LEMMA OrderFacts ==
  ASSUME NEW S, IsFiniteSet(S), NEW s \in SetToSeqs(S)
  PROVE  /\ s \in [1 .. Cardinality(S) -> S] /\ s \in Seq(S)
         /\ DOMAIN s = 1 .. Cardinality(S) /\ IsFiniteSet(DOMAIN s)
         /\ \A i, j \in DOMAIN s : s[i] = s[j] => i = j
         /\ Values(s, DOMAIN s) = S
<1> DEFINE n == Cardinality(S)
           D == 1 .. n
<1>1. n \in Nat
  BY FS_CardinalityType
<1>2. s \in [D -> S] /\ \A i, j \in D : i # j => s[i] # s[j]
  BY DEF SetToSeqs
<1> HIDE DEF n
<1>3. DOMAIN s = D /\ s \in Seq(S) /\ IsFiniteSet(D) /\ Cardinality(D) = n
  <2>1. Cardinality(D) = IF 1 > n THEN 0 ELSE n - 1 + 1
    BY <1>1, FS_Interval
  <2> QED  BY <1>1, <1>2, <2>1, FS_Interval
<1>4. s \in Injection(D, S)
  BY <1>2 DEF Injection, IsInjective
<1>5. s \in Surjection(D, S)
  <2> HIDE DEF D
  <2> QED  BY <1>3, <1>4, FS_Injection DEF n
<1>6. \A y \in S : \E i \in D : s[i] = y
  BY <1>5 DEF Surjection
<1>7. Values(s, D) = S
  BY <1>2, <1>6 DEF Values
<1> QED  BY <1>2, <1>3, <1>7 DEF n

\* The reward is split over a window that is not empty.
LEMMA SplitReward ==
  ASSUME NEW b \in Found, NEW w \in Seq(Share), w # << >>, NEW finder,
         NEW s \in pplns_split(w, b, finder)
  PROVE  Reward(s, b)
<1> DEFINE p == [m \in Miner |-> Part(w, m, Gross[b])]
           Q == {m \in Miner : p[m] > 0}
           E == [m \in Q |-> NewEntry(b, m, p[m], Nobody)]
           parts == Values(E, Q)
           worth == [e \in parts |-> e.gross]
           D == DOMAIN s
           f == Credits(s)
           N == Cardinality(Miner)
<1>1. /\ Gross[b] \in Nat /\ p \in [Miner -> Nat] /\ SumFunctionOnSet(p, Miner) \in Nat
      /\ Gross[b] - SumFunctionOnSet(p, Miner) \in 0 .. N - 1
  <2>1. Gross[b] \in Nat
    BY PoolAssumption
  <2> QED  BY <2>1, PartsAreReward
<1>2. parts = {NewEntry(b, m, Part(w, m, Gross[b]), Nobody) :
                 m \in {n \in Miner : Part(w, n, Gross[b]) > 0}}
  BY DEF Values
<1>3. s \in SetToSeqs(parts)
  BY <1>2 DEF pplns_split
<1> HIDE DEF p
<1>4. \A m \in Q : /\ E[m] \in Entry /\ ~ E[m].paid /\ E[m].block = b /\ E[m].miner = m
                   /\ E[m].gross = p[m] /\ E[m].net + E[m].fee = p[m] /\ p[m] \in Nat
  <2> SUFFICES ASSUME NEW m \in Q
               PROVE  /\ E[m] \in Entry /\ ~ E[m].paid /\ E[m].block = b /\ E[m].miner = m
                      /\ E[m].gross = p[m] /\ E[m].net + E[m].fee = p[m] /\ p[m] \in Nat
    OBVIOUS
  <2>1. m \in Payee /\ Nobody \in Payee /\ p[m] \in Nat
    BY <1>1 DEF Payee
  <2> QED  BY <2>1, NewEntryFacts
<1>5. \A e \in parts : /\ e \in Entry /\ ~ e.paid /\ e.block = b /\ e.net + e.fee = e.gross
                       /\ e.gross \in Nat
  <2> HIDE DEF E, Q
  <2> SUFFICES ASSUME NEW e \in parts
               PROVE  /\ e \in Entry /\ ~ e.paid /\ e.block = b /\ e.net + e.fee = e.gross
                      /\ e.gross \in Nat
    OBVIOUS
  <2>1. PICK m \in Q : e = E[m]
    BY DEF Values
  <2> QED  BY <1>4, <2>1
<1>6. IsFiniteSet(Miner) /\ Q \subseteq Miner /\ IsFiniteSet(Q)
  BY PoolAssumption, FS_Subset
<1> HIDE DEF E, Q
<1>7. IsFiniteSet(parts) /\ SumFunctionOnSet(worth, parts) = SumFunctionOnSet(p, Q)
  <2>1. PullsBack(p, worth, E, Q)
    BY <1>4 DEF PullsBack, Values
  <2> HIDE DEF worth
  <2> QED  BY <1>6, <2>1, SumImage
<1> HIDE DEF parts
<1>8. /\ s \in Seq(parts) /\ D = 1 .. Cardinality(parts) /\ IsFiniteSet(D)
      /\ \A i \in D : s[i] \in parts
      /\ \A i, j \in D : s[i] = s[j] => i = j
      /\ Values(s, D) = parts
  <2>1. /\ s \in [1 .. Cardinality(parts) -> parts] /\ s \in Seq(parts)
        /\ DOMAIN s = 1 .. Cardinality(parts) /\ IsFiniteSet(DOMAIN s)
        /\ \A i, j \in DOMAIN s : s[i] = s[j] => i = j
        /\ Values(s, DOMAIN s) = parts
    BY <1>3, <1>7, OrderFacts
  <2> QED  BY <2>1
<1>9. s \in Seq(Entry)
  <2>1. parts \subseteq Entry
    BY <1>5
  <2> QED  BY <1>8, <2>1, SeqMonotonic
<1>10. SumFunctionOnSet(worth, parts) = SumFunctionOnSet(f, D)
  <2>1. PullsBack(f, worth, s, D)
    BY <1>5, <1>8 DEF PullsBack, Credits
  <2> HIDE DEF worth, f, D
  <2>2. SumFunctionOnSet(worth, Values(s, D)) = SumFunctionOnSet(f, D)
    BY <1>8, <2>1, SumImage
  <2> QED  BY <1>8, <2>2
<1>11. SumFunctionOnSet(p, Miner) = SumFunctionOnSet(p, Q)
  <2>1. \A m \in Miner : p[m] \in Nat
    BY <1>1
  <2>2. \A m \in Miner \ Q : p[m] = 0
    BY <1>1 DEF Q
  <2>3. IsFiniteSet(Miner \ Q)
    BY <1>6, FS_Subset
  <2>4. SumFunctionOnSet(p, Miner \ Q) = 0
    BY <2>2, <2>3, SumOfZeros
  <2>5. /\ SumFunctionOnSet(p, Miner) = SumFunctionOnSet(p, Q) + SumFunctionOnSet(p, Miner \ Q)
        /\ SumFunctionOnSet(p, Q) \in Nat
    BY <1>6, <2>1, SumSubset
  <2> QED  BY <2>4, <2>5
<1>12. Gross[b] - SumFunctionOnSet(f, D) \in 0 .. N - 1
  <2> HIDE DEF f, D, N, worth
  <2> QED  BY <1>1, <1>7, <1>10, <1>11
<1>13. \A i \in DOMAIN s : ~ s[i].paid /\ s[i].block = b
  BY <1>5, <1>8
<1> QED  BY <1>9, <1>12, <1>13 DEF Reward

\* Crediting a block that is not credited yet keeps every credited block's reward.
LEMMA RewardAdded ==
  ASSUME NEW l \in Seq(Entry), NEW b \in Found, NEW s, Reward(s, b), b \notin BlocksOf(l)
  PROVE  Rewarded(l) => Rewarded(l \o s)
<1> DEFINE k == l \o s
           At(c) == {i \in DOMAIN k : k[i].block = c}
           up == [i \in DOMAIN s |-> Len(l) + i]
           R == 0 .. Cardinality(Miner) - 1
<1>1. s \in Seq(Entry) /\ \A i \in DOMAIN s : s[i].block = b
  BY DEF Reward
<1>2. /\ k \in Seq(Entry) /\ Len(k) = Len(l) + Len(s)
      /\ \A i \in 1 .. Len(k) : k[i] = IF i <= Len(l) THEN l[i] ELSE s[i - Len(l)]
  BY <1>1, ConcatProperties
<1>3. /\ DOMAIN k = 1 .. Len(k) /\ DOMAIN l = 1 .. Len(l) /\ DOMAIN s = 1 .. Len(s)
      /\ Len(l) \in Nat /\ Len(s) \in Nat
  BY <1>1, <1>2
<1> HIDE DEF k
<1>4. /\ DOMAIN l \subseteq DOMAIN k /\ \A i \in DOMAIN l : k[i] = l[i]
  BY <1>2, <1>3
<1>5. \A i \in DOMAIN s : up[i] \in DOMAIN k /\ up[i] \notin DOMAIN l /\ k[up[i]] = s[i]
  BY <1>2, <1>3
<1>6. \A j \in DOMAIN k : j \notin DOMAIN l => \E i \in DOMAIN s : j = up[i]
  <2> SUFFICES ASSUME NEW j \in DOMAIN k, j \notin DOMAIN l PROVE \E i \in DOMAIN s : j = up[i]
    OBVIOUS
  <2>1. j - Len(l) \in DOMAIN s /\ j = up[j - Len(l)]
    BY <1>2, <1>3
  <2> QED  BY <2>1
<1>7. /\ \A i \in DOMAIN k : Credits(k)[i] = k[i].net + k[i].fee /\ Credits(k)[i] \in Nat
      /\ \A i \in DOMAIN l : Credits(l)[i] = l[i].net + l[i].fee /\ Credits(l)[i] \in Nat
      /\ \A i \in DOMAIN s : Credits(s)[i] = s[i].net + s[i].fee /\ Credits(s)[i] \in Nat
      /\ IsFiniteSet(DOMAIN l) /\ IsFiniteSet(DOMAIN s)
  BY <1>1, <1>2, LedgerFacts
<1>8. CreditedFor(k, b) = SumFunctionOnSet(Credits(s), DOMAIN s)
  <2>1. At(b) = Values(up, DOMAIN s)
    BY <1>1, <1>4, <1>5, <1>6 DEF Values, BlocksOf
  <2>2. PullsBack(Credits(s), Credits(k), up, DOMAIN s)
    BY <1>3, <1>5, <1>7 DEF PullsBack
  <2> HIDE DEF up
  <2>3. SumFunctionOnSet(Credits(k), Values(up, DOMAIN s)) = SumFunctionOnSet(Credits(s), DOMAIN s)
    BY <1>7, <2>2, SumImage
  <2> QED  BY <2>1, <2>3 DEF CreditedFor
<1>9. ASSUME NEW c, c # b PROVE CreditedFor(k, c) = CreditedFor(l, c)
  <2> DEFINE S == {i \in DOMAIN l : l[i].block = c}
  <2>1. At(c) = S
    BY <1>1, <1>4, <1>5, <1>6, <1>9
  <2>2. IsFiniteSet(S) /\ \A i \in S : Credits(k)[i] \in Int /\ Credits(k)[i] = Credits(l)[i]
    <3>1. IsFiniteSet(S)
      BY <1>7, FS_Subset
    <3> QED  BY <1>4, <1>7, <3>1
  <2>3. SumFunctionOnSet(Credits(k), S) = SumFunctionOnSet(Credits(l), S)
    <3> HIDE DEF S
    <3> QED  BY <2>2, SumAgree
  <2> QED  BY <2>1, <2>3 DEF CreditedFor
<1>10. ASSUME Rewarded(l), NEW c \in BlocksOf(k) PROVE Gross[c] - CreditedFor(k, c) \in R
  <2>1. CASE c = b
    BY <1>8, <2>1 DEF Reward
  <2>2. CASE c # b
    <3>1. c \in BlocksOf(l)
      BY <1>1, <1>4, <1>5, <1>6, <2>2 DEF BlocksOf
    <3> QED  BY <1>9, <1>10, <2>2, <3>1 DEF Rewarded
  <2> QED  BY <2>1, <2>2
<1> QED  BY <1>10 DEF Rewarded, k

-----------------------------------------------------------------------------
\* Types

\* The ledger becomes l and w, and the file this, what it was or nothing.
LEMMA CommitFacts ==
  ASSUME PoolTypeOK, NEW l, NEW w, Commit(l, w), IsBooks(l, w)
  PROVE  /\ entries' = l /\ window' = w
         /\ file'.entries \in {l, file.entries, << >>}
         /\ IsBooks(entries, window)' /\ IsBooks(file'.entries, file'.window)
         /\ file' = [entries |-> file'.entries, window |-> file'.window]
<1>1. CASE file' = file
  BY <1>1 DEF Commit, PoolTypeOK, IsBooks
<1>2. CASE file' = [entries |-> l, window |-> w]
  BY <1>2 DEF Commit, IsBooks
<1>3. CASE file' = EmptyLedger
  BY <1>3, PoolAssumption DEF Commit, EmptyLedger, IsBooks
<1> QED  BY <1>1, <1>2, <1>3 DEF Commit

LEMMA PushShareFacts ==
  ASSUME NEW w \in Seq(Share), Len(w) <= WindowSize, NEW s \in Share
  PROVE  PushShare(w, s) \in Seq(Share) /\ Len(PushShare(w, s)) <= WindowSize
         /\ PushShare(w, s) # << >>
<1>1. WindowSize \in Nat \ {0} /\ Len(w) \in Nat
  BY PoolAssumption
<1>2. CASE Len(w) >= WindowSize
  <2>1. w # << >>
    BY <1>1, <1>2
  <2>2. Tail(w) \in Seq(Share) /\ Len(Tail(w)) = Len(w) - 1
    BY <2>1, HeadTailProperties
  <2>3. PushShare(w, s) = Append(Tail(w), s)
    BY <1>2 DEF PushShare
  <2> QED  BY <1>1, <1>2, <2>2, <2>3, AppendProperties
<1>3. CASE ~ (Len(w) >= WindowSize)
  <2>1. PushShare(w, s) = Append(w, s)
    BY <1>3 DEF PushShare
  <2> QED  BY <1>1, <1>3, <2>1, AppendProperties
<1> QED  BY <1>2, <1>3

\* What RecordHttp and RecordStratum add to the ledger.
LEMMA RecordHttpFacts ==
  ASSUME PoolTypeOK, NEW h \in Handler, RecordHttp(h)
  PROVE  \E s : /\ Reward(s, handler[h].block)
                /\ Commit(entries \o s, window) /\ IsBooks(entries \o s, window)
<1> DEFINE t == handler[h]
           e == NewEntry(t.block, last_miner_for_height[HeightOf[t.block]],
                         Gross[t.block], t.miner)
<1>1. t.pc = "accepted" /\ Commit(Append(entries, e), window)
  BY DEF RecordHttp
<1>2. t.block \in Found /\ t.miner \in Miner
  BY <1>1 DEF PoolTypeOK, Idle
<1>3. last_miner_for_height[HeightOf[t.block]] \in Payee /\ t.miner \in Payee /\ Miner # {}
  BY <1>2 DEF PoolTypeOK, Height, Payee
<1>4. Reward(<<e>>, t.block)
  BY <1>2, <1>3, WholeReward
<1>5. Gross[t.block] \in Nat
  BY <1>2, PoolAssumption
<1>6. e \in Entry
  BY <1>2, <1>3, <1>5, NewEntryFacts
<1> HIDE DEF e
<1>7. entries \in Seq(Entry) /\ window \in Seq(Share) /\ Len(window) <= WindowSize
  BY DEF PoolTypeOK, IsBooks
<1>8. Append(entries, e) = entries \o <<e>>
  BY <1>6, <1>7, AppendIsConcat
<1>9. entries \o <<e>> \in Seq(Entry)
  BY <1>6, <1>7
<1> QED  BY <1>1, <1>4, <1>7, <1>8, <1>9 DEF IsBooks

LEMMA RecordStratumFacts ==
  ASSUME PoolTypeOK, NEW h \in Handler, RecordStratum(h)
  PROVE  \E s, w : /\ Reward(s, handler[h].block)
                   /\ Commit(entries \o s, w) /\ IsBooks(entries \o s, w)
<1> DEFINE t == handler[h]
           x == [miner |-> t.miner, bits |-> t.bits]
           w == PushShare(window, x)
<1>1. PICK s \in pplns_split(w, t.block, t.miner) : Commit(entries \o s, w)
  BY DEF RecordStratum
<1>2. t.block \in Found /\ t.miner \in Miner /\ t.bits \in ShareBits
  BY DEF PoolTypeOK, Idle, RecordStratum
<1>3. x \in Share
  BY <1>2 DEF Share
<1>4. entries \in Seq(Entry) /\ window \in Seq(Share) /\ Len(window) <= WindowSize
  BY DEF PoolTypeOK, IsBooks
<1> HIDE DEF x
<1>5. w \in Seq(Share) /\ Len(w) <= WindowSize /\ w # << >>
  BY <1>3, <1>4, PushShareFacts
<1> HIDE DEF w
<1>6. Reward(s, t.block)
  BY <1>1, <1>2, <1>5, SplitReward
<1>7. entries \o s \in Seq(Entry)
  BY <1>4, <1>6 DEF Reward
<1> QED  BY <1>1, <1>5, <1>6, <1>7 DEF IsBooks

\* What a set of payments takes, and without one of them.
Costs(M) == [p \in M |-> p.amount + RelayFee]

LEMMA CostsFacts ==
  ASSUME NEW M, IsFiniteSet(M), \A p \in M : p.amount \in Nat
  PROVE  /\ SumFunctionOnSet(Costs(M), M) \in Nat
         /\ \A q \in M : /\ SumFunctionOnSet(Costs(M \ {q}), M \ {q}) \in Nat
                         /\ SumFunctionOnSet(Costs(M), M)
                              = q.amount + RelayFee + SumFunctionOnSet(Costs(M \ {q}), M \ {q})
<1>0. RelayFee \in Nat
  BY PoolAssumption
<1>1. \A p \in M : Costs(M)[p] = p.amount + RelayFee /\ Costs(M)[p] \in Nat
  BY <1>0 DEF Costs
<1>2. SumFunctionOnSet(Costs(M), M) \in Nat
  BY <1>1, SumOfNat
<1>3. ASSUME NEW q \in M
      PROVE  /\ SumFunctionOnSet(Costs(M \ {q}), M \ {q}) \in Nat
             /\ SumFunctionOnSet(Costs(M), M)
                  = q.amount + RelayFee + SumFunctionOnSet(Costs(M \ {q}), M \ {q})
  <2> DEFINE R == M \ {q}
  <2>1. IsFiniteSet(R) /\ \A p \in R : Costs(M)[p] \in Int /\ Costs(M)[p] = Costs(R)[p]
                                       /\ Costs(R)[p] \in Nat
    BY <1>1, SmallerSubset DEF Costs
  <2>2. \A p \in M : Costs(M)[p] \in Int
    BY <1>1
  <2>3. SumFunctionOnSet(Costs(M), M) = Costs(M)[q] + SumFunctionOnSet(Costs(M), R)
    BY <2>2, SumRemove
  <2> HIDE DEF R
  <2>4. SumFunctionOnSet(Costs(M), R) = SumFunctionOnSet(Costs(R), R)
    BY <2>1, SumAgree
  <2>5. SumFunctionOnSet(Costs(R), R) \in Nat
    BY <2>1, SumOfNat
  <2> QED  BY <1>1, <2>3, <2>4, <2>5 DEF R
<1> QED  BY <1>2, <1>3

LEMMA InFlightFacts == ASSUME PoolTypeOK PROVE /\ IsFiniteSet(mempool) /\ \A p \in mempool : p.amount \in Nat
                                             /\ InFlight = SumFunctionOnSet(Costs(mempool), mempool)
                                             /\ InFlight \in Nat
<1>1. IsFiniteSet(mempool) /\ \A p \in mempool : p.amount \in Nat
  BY DEF PoolTypeOK
<1>2. InFlight = SumFunctionOnSet(Costs(mempool), mempool)
  BY DEF InFlight, Costs
<1> QED  BY <1>1, <1>2, CostsFacts

\* The scheduler's record.
LEMMA PayerFacts ==
  ASSUME PoolTypeOK
  PROVE  /\ payer.due \subseteq Payee /\ payer.spendable \in Nat
         /\ payer.pc \in {"sleep", "cycle", "pay", "mark"}
         /\ payer.pc \in {"pay", "mark"} => payer.miner \in Payee /\ payer.amount \in Nat
         /\ payer.pc = "mark" => payer.miner \in Miner
         /\ Skip.pc = "cycle"
         /\ Skip \in [pc : {"sleep", "cycle"}, due : SUBSET Payee, spendable : Nat]
BY DEF PoolTypeOK, Payee, Skip

\* The types are kept.
LEMMA TypeStep ==
  ASSUME PoolTypeOK, Solvent, [Next]_vars
  PROVE  PoolTypeOK'
<1> USE DEF ledger_vars, world_vars, count_vars, history_vars, http_vars
<1>1. ASSUME NEW m \in Miner, NEW h \in Height, GetTemplate(m, h) PROVE PoolTypeOK'
  BY <1>1 DEF GetTemplate, PoolTypeOK, IsBooks, Payee
<1>2. ASSUME NEW m \in Miner, NEW b \in ShareBits, AcceptShare(m, b) PROVE PoolTypeOK'
  <2>1. [miner |-> m, bits |-> b] \in Share
    BY DEF Share
  <2>2. IsBooks(entries', window')
    BY <1>2, <2>1, PushShareFacts DEF AcceptShare, PoolTypeOK, IsBooks
  <2>3. shares' \in Nat
    BY <1>2 DEF AcceptShare, PoolTypeOK
  <2> QED  BY <1>2, <2>2, <2>3 DEF AcceptShare, PoolTypeOK
<1>3. ASSUME NEW h \in Handler, NEW m \in Miner, NEW b \in Found, NEW n \in ShareBits,
             NEW via \in {"http", "stratum"}, SubmitBlock(h, m, b, n, via)
      PROVE  PoolTypeOK'
  <2>1. again' \in BOOLEAN
    BY <1>3, Zenon DEF SubmitBlock
  <2> QED  BY <1>3, <2>1 DEF SubmitBlock, PoolTypeOK
<1>4. ASSUME NEW b \in Found, AnswerLost(b) PROVE PoolTypeOK'
  <2>1. again' \in BOOLEAN
    BY <1>4, Zenon DEF AnswerLost
  <2> QED  BY <1>4, <2>1 DEF AnswerLost, PoolTypeOK
<1>5. ASSUME NEW h \in Handler, RecordHttp(h) PROVE PoolTypeOK'
  <2>1. PICK s : Commit(entries \o s, window) /\ IsBooks(entries \o s, window)
    BY <1>5, RecordHttpFacts
  <2>2. /\ IsBooks(entries', window') /\ IsBooks(file'.entries, file'.window)
        /\ file' = [entries |-> file'.entries, window |-> file'.window]
    BY <2>1, CommitFacts
  <2>3. handler' = [handler EXCEPT ![h] = Idle]
    BY <1>5 DEF RecordHttp
  <2> QED  BY <1>5, <2>2, <2>3 DEF RecordHttp, PoolTypeOK
<1>6. ASSUME NEW h \in Handler, RecordStratum(h) PROVE PoolTypeOK'
  <2>1. PICK s, w : Commit(entries \o s, w) /\ IsBooks(entries \o s, w)
    BY <1>6, RecordStratumFacts
  <2>2. /\ IsBooks(entries', window') /\ IsBooks(file'.entries, file'.window)
        /\ file' = [entries |-> file'.entries, window |-> file'.window]
    BY <2>1, CommitFacts
  <2>3. handler' = [handler EXCEPT ![h] = Idle]
    BY <1>6 DEF RecordStratum
  <2>4. UNCHANGED <<http_vars, payer, world_vars, count_vars, history_vars>>
    BY <1>6 DEF RecordStratum
  <2> QED  BY <2>2, <2>3, <2>4 DEF PoolTypeOK
<1>7. CASE CycleStart
  <2>1. payer' \in [pc : {"sleep", "cycle"}, due : SUBSET Payee, spendable : Nat]
    BY <1>7 DEF CycleStart, Due, PoolTypeOK
  <2> QED  BY <1>7, <2>1 DEF CycleStart, PoolTypeOK
<1>8. ASSUME NEW m \in Payee, NextMiner(m) PROVE PoolTypeOK'
  <2> DEFINE amount == payable_atoms_up_to(entries, m, Remaining(payer.spendable))
  <2>1. Remaining(payer.spendable) \in Nat
    BY PayerFacts, PoolAssumption DEF Remaining
  <2>2. amount \in Nat
    <3>1. entries \in Seq(Entry)
      BY DEF PoolTypeOK, IsBooks
    <3>2. amount \in 0 .. Remaining(payer.spendable)
      BY <2>1, <3>1, PayableIsWhole
    <3> QED  BY <2>1, <3>2
  <2>3. payer.pc = "cycle" /\ payer \in [pc : {"sleep", "cycle"}, due : SUBSET Payee, spendable : Nat]
    BY <1>8 DEF NextMiner, PoolTypeOK
  <2>4. payer' = IF amount = 0 THEN [payer EXCEPT !.due = @ \ {m}]
                 ELSE [pc |-> "pay", due |-> [payer EXCEPT !.due = @ \ {m}].due,
                       spendable |-> payer.spendable, miner |-> m, amount |-> amount]
    BY <1>8 DEF NextMiner
  <2> HIDE DEF amount
  <2>5. [payer EXCEPT !.due = @ \ {m}] \in
          [pc : {"sleep", "cycle"}, due : SUBSET Payee, spendable : Nat]
    BY <2>3
  <2>6. \/ payer' \in [pc : {"sleep", "cycle"}, due : SUBSET Payee, spendable : Nat]
        \/ payer' \in [pc : {"pay"}, due : SUBSET Payee, spendable : Nat,
                       miner : Payee, amount : Nat]
    <3>1. [payer EXCEPT !.due = @ \ {m}].due \in SUBSET Payee
      BY <2>5
    <3> QED  BY <2>2, <2>3, <2>4, <2>5, <3>1
  <2> QED  BY <1>8, <2>6 DEF NextMiner, PoolTypeOK
<1>9. CASE CycleEnd
  BY <1>9 DEF CycleEnd, Asleep, PoolTypeOK
<1>10. CASE Broadcast
  <2>1. payer \in [pc : {"pay"}, due : SUBSET Payee, spendable : Nat, miner : Payee, amount : Nat]
        /\ payer.miner \in Miner /\ payer.amount \in Nat
    BY <1>10 DEF Broadcast, PoolTypeOK
  <2>2. Payment \in [miner : Miner, amount : Nat]
    BY <2>1 DEF Payment
  <2>3. mempool' = mempool \cup {Payment}
    BY <1>10 DEF Broadcast
  <2>4. IsFiniteSet(mempool') /\ mempool' \subseteq [miner : Miner, amount : Nat]
    BY <2>2, <2>3, FS_AddElement DEF PoolTypeOK
  <2>5. sent' \in [Miner -> Nat]
    BY <1>10, <2>1 DEF Broadcast, PoolTypeOK
  <2>6. payer' \in [pc : {"sleep", "cycle"}, due : SUBSET Payee, spendable : Nat] \cup
                   [pc : {"mark"}, due : SUBSET Payee, spendable : Nat, miner : Miner, amount : Nat]
    BY <1>10, <2>1, PayerFacts DEF Broadcast
  <2>7. disturbed' \in BOOLEAN
    BY <1>10, Zenon DEF Broadcast, PoolTypeOK
  <2>8. UNCHANGED <<ledger_vars, http_vars, handler, known, wallet, count_vars, again, conflicted>>
    BY <1>10 DEF Broadcast
  <2> QED  BY <2>4, <2>5, <2>6, <2>7, <2>8 DEF PoolTypeOK
<1>11. CASE AlreadyInMempool
  <2>1. payer' \in [pc : {"mark"}, due : SUBSET Payee, spendable : Nat, miner : Miner, amount : Nat]
    BY <1>11 DEF AlreadyInMempool, PoolTypeOK
  <2> QED  BY <1>11, <2>1 DEF AlreadyInMempool, PoolTypeOK
<1>12. CASE PayFails
  BY <1>12, PayerFacts DEF PayFails, PoolTypeOK
<1>13. CASE MarkPaid
  <2> DEFINE l == mark_paid_up_to(entries, payer.miner, payer.amount)
  <2>1. entries \in Seq(Entry) /\ window \in Seq(Share) /\ Len(window) <= WindowSize
    BY DEF PoolTypeOK, IsBooks
  <2>2. l \in Seq(Entry) /\ Commit(l, window)
    BY <1>13, <2>1, MarkPaidUpToFacts, MarkedLedger DEF MarkPaid
  <2>3. /\ IsBooks(entries', window') /\ IsBooks(file'.entries, file'.window)
        /\ file' = [entries |-> file'.entries, window |-> file'.window]
    <3> HIDE DEF l
    <3>1. IsBooks(l, window)
      BY <2>1, <2>2 DEF IsBooks
    <3> QED  BY <2>2, <3>1, CommitFacts
  <2>4. payer' \in [pc : {"sleep", "cycle"}, due : SUBSET Payee, spendable : Nat]
    <3>1. payer.amount \in Nat /\ RelayFee \in Nat
      BY <1>13, PayerFacts, PoolAssumption DEF MarkPaid
    <3> QED  BY <1>13, <3>1, PayerFacts DEF MarkPaid, Skip
  <2>5. UNCHANGED <<http_vars, handler, world_vars, count_vars, history_vars>>
    BY <1>13 DEF MarkPaid
  <2> QED  BY <2>3, <2>4, <2>5 DEF PoolTypeOK
<1>14. ASSUME NEW p \in mempool, Confirm(p) PROVE PoolTypeOK'
  <2>1. IsFiniteSet(mempool') /\ mempool' \subseteq [miner : Miner, amount : Nat]
    BY <1>14, InFlightFacts, SmallerSubset DEF Confirm, PoolTypeOK
  <2>2. wallet' \in Nat
    <3>1. /\ SumFunctionOnSet(Costs(mempool \ {p}), mempool \ {p}) \in Nat
          /\ InFlight = p.amount + RelayFee + SumFunctionOnSet(Costs(mempool \ {p}), mempool \ {p})
      BY InFlightFacts, CostsFacts
    <3>2. InFlight <= wallet /\ wallet \in Nat /\ p.amount \in Nat /\ RelayFee \in Nat
      BY InFlightFacts, PoolAssumption DEF Solvent, PoolTypeOK
    <3>3. wallet' = wallet - p.amount - RelayFee
      BY <1>14 DEF Confirm
    <3> QED  BY <3>1, <3>2, <3>3
  <2> QED  BY <1>14, <2>1, <2>2 DEF Confirm, PoolTypeOK
<1>15. ASSUME NEW m \in Miner, MarkPaidByHand(m) PROVE PoolTypeOK'
  <2> DEFINE l == mark_paid(file.entries, m)
  <2>1. file.entries \in Seq(Entry) /\ file = [entries |-> file.entries, window |-> file.window]
    BY DEF PoolTypeOK, IsBooks
  <2>2. l \in Seq(Entry)
    BY <2>1, MarkPaidFacts, MarkedLedger
  <2>3. file' = [entries |-> l, window |-> file.window]
    BY <1>15, <2>1 DEF MarkPaidByHand
  <2>4. pending_atoms(file.entries, m) \in Nat
    BY <2>1, UnpaidFacts
  <2>5. sent' \in [Miner -> Nat]
    BY <1>15, <2>4 DEF MarkPaidByHand, PoolTypeOK
  <2>6. IsBooks(file'.entries, file'.window) /\ file' = [entries |-> file'.entries, window |-> file'.window]
    <3> HIDE DEF l
    <3> QED  BY <2>2, <2>3 DEF PoolTypeOK, IsBooks
  <2>7. manual' \in Nat /\ disturbed' = TRUE
    BY <1>15 DEF MarkPaidByHand, PoolTypeOK
  <2>8. UNCHANGED <<entries, window, http_vars, handler, payer, world_vars,
                    shares, crashes, again, conflicted>>
    BY <1>15 DEF MarkPaidByHand
  <2> QED  BY <2>5, <2>6, <2>7, <2>8 DEF PoolTypeOK
<1>16. CASE Restart
  <2>1. file' \in {file, EmptyLedger}
    BY <1>16 DEF Restart
  <2>2. IsBooks(file'.entries, file'.window) /\ file' = [entries |-> file'.entries, window |-> file'.window]
    <3>1. CASE file' = file
      BY <3>1 DEF PoolTypeOK
    <3>2. CASE file' = EmptyLedger
      BY <3>2, PoolAssumption DEF EmptyLedger, IsBooks
    <3> QED  BY <2>1, <3>1, <3>2
  <2>3. IsBooks(entries', window')
    BY <1>16, <2>2 DEF Restart
  <2>4. /\ last_miner_for_height' \in [Height -> Payee]
        /\ handler' = [h \in Handler |-> Idle] /\ payer' = Asleep
        /\ crashes' \in Nat /\ disturbed' = TRUE
        /\ UNCHANGED <<asked, world_vars, shares, manual, sent, again, conflicted>>
    BY <1>16 DEF Restart, Payee, PoolTypeOK
  <2> QED  BY <2>2, <2>3, <2>4 DEF PoolTypeOK, Asleep
<1>17. CASE UNCHANGED vars
  BY <1>17 DEF vars, PoolTypeOK, IsBooks
<1> QED  BY <1>1, <1>2, <1>3, <1>4, <1>5, <1>6, <1>7, <1>8, <1>9, <1>10, <1>11, <1>12,
            <1>13, <1>14, <1>15, <1>16, <1>17 DEF Next

-----------------------------------------------------------------------------
\* Payments and the books

\* The wallet covers what is in flight: the node refuses a payment it does not cover.
LEMMA SolventStep ==
  ASSUME PoolTypeOK, Solvent, [Next]_vars
  PROVE  Solvent'
<1> USE DEF ledger_vars, world_vars, count_vars, history_vars, http_vars
<1>0. RelayFee \in Nat /\ wallet \in Nat
  BY PoolAssumption DEF PoolTypeOK
<1>1. CASE UNCHANGED <<wallet, mempool>>
  BY <1>1 DEF Solvent, InFlight
<1>2. CASE Broadcast
  <2> DEFINE M == mempool \cup {Payment}
  <2>1. /\ Payment \notin mempool /\ M \ {Payment} = mempool /\ Payment \in M
        /\ wallet >= payer.amount + RelayFee + InFlight /\ mempool' = M /\ wallet' = wallet
    BY <1>2 DEF Broadcast
  <2>2. Payment.amount = payer.amount /\ payer.amount \in Nat
    BY <1>2, PayerFacts DEF Broadcast, Payment
  <2>3. IsFiniteSet(M) /\ \A p \in M : p.amount \in Nat
    BY <2>2, InFlightFacts, FS_AddElement
  <2>4. SumFunctionOnSet(Costs(M), M) = payer.amount + RelayFee + InFlight
    <3> HIDE DEF M
    <3>1. SumFunctionOnSet(Costs(M), M) = Payment.amount + RelayFee +
            SumFunctionOnSet(Costs(M \ {Payment}), M \ {Payment})
      BY <2>1, <2>3, CostsFacts
    <3> QED  BY <2>1, <2>2, <3>1, InFlightFacts
  <2>5. InFlight' = SumFunctionOnSet(Costs(M), M)
    BY <2>1 DEF InFlight, Costs
  <2> QED  BY <2>1, <2>4, <2>5 DEF Solvent
<1>3. ASSUME NEW p \in mempool, Confirm(p) PROVE Solvent'
  <2> DEFINE M == mempool \ {p}
  <2>1. mempool' = M /\ wallet' = wallet - p.amount - RelayFee
    BY <1>3 DEF Confirm
  <2>2. /\ SumFunctionOnSet(Costs(M), M) \in Nat
        /\ InFlight = p.amount + RelayFee + SumFunctionOnSet(Costs(M), M)
        /\ p.amount \in Nat
    BY InFlightFacts, CostsFacts
  <2>3. InFlight' = SumFunctionOnSet(Costs(M), M)
    BY <2>1 DEF InFlight, Costs
  <2> QED  BY <1>0, <2>1, <2>2, <2>3 DEF Solvent
<1>4. CASE \E m \in Miner, h \in Height : GetTemplate(m, h)
  BY <1>1, <1>4 DEF GetTemplate
<1>5. CASE \E m \in Miner, b \in ShareBits : AcceptShare(m, b)
  BY <1>1, <1>5 DEF AcceptShare
<1>6. CASE \E h \in Handler, m \in Miner, b \in Found, n \in ShareBits,
             via \in {"http", "stratum"} : SubmitBlock(h, m, b, n, via)
  BY <1>1, <1>6 DEF SubmitBlock
<1>7. CASE \E b \in Found : AnswerLost(b)
  BY <1>1, <1>7 DEF AnswerLost
<1>8. CASE \E h \in Handler : RecordHttp(h)
  BY <1>1, <1>8 DEF RecordHttp
<1>9. CASE \E h \in Handler : RecordStratum(h)
  BY <1>1, <1>9 DEF RecordStratum
<1>10. CASE CycleStart \/ CycleEnd \/ AlreadyInMempool \/ PayFails \/ MarkPaid
  BY <1>1, <1>10 DEF CycleStart, CycleEnd, AlreadyInMempool, PayFails, MarkPaid
<1>11. CASE \E m \in Payee : NextMiner(m)
  BY <1>1, <1>11 DEF NextMiner
<1>12. CASE \E m \in Miner : MarkPaidByHand(m)
  BY <1>1, <1>12 DEF MarkPaidByHand
<1>13. CASE Restart \/ UNCHANGED vars
  BY <1>1, <1>13 DEF Restart, vars
<1> QED  BY <1>2, <1>3, <1>4, <1>5, <1>6, <1>7, <1>8, <1>9, <1>10, <1>11, <1>12, <1>13 DEF Next

\* What the recording of a block does to the books: unpaid entries are added.
Recorded(s) ==
  /\ s \in Seq(Entry) /\ \A i \in DOMAIN s : ~ s[i].paid
  /\ entries' = entries \o s
  /\ UNCHANGED <<payer, sent, conflicted, disturbed>>

LEMMA RecordedFacts ==
  ASSUME PoolTypeOK, NEW h \in Handler, RecordHttp(h) \/ RecordStratum(h)
  PROVE  \E s : /\ Recorded(s) /\ Reward(s, handler[h].block)
                /\ file'.entries \in {entries \o s, file.entries, << >>}
                /\ handler[h].pc = "accepted" /\ handler' = [handler EXCEPT ![h] = Idle]
                /\ UNCHANGED <<known, again>>
<1> USE DEF world_vars, history_vars
<1>1. CASE RecordHttp(h)
  <2>1. PICK s : /\ Reward(s, handler[h].block)
                 /\ Commit(entries \o s, window) /\ IsBooks(entries \o s, window)
    BY <1>1, RecordHttpFacts
  <2>2. entries' = entries \o s /\ file'.entries \in {entries \o s, file.entries, << >>}
    BY <2>1, CommitFacts
  <2>3. /\ UNCHANGED <<payer, sent, conflicted, disturbed, known, again>>
        /\ handler[h].pc = "accepted" /\ handler' = [handler EXCEPT ![h] = Idle]
    BY <1>1 DEF RecordHttp
  <2> QED  BY <2>1, <2>2, <2>3 DEF Recorded, Reward
<1>2. CASE RecordStratum(h)
  <2>1. PICK s, w : /\ Reward(s, handler[h].block)
                    /\ Commit(entries \o s, w) /\ IsBooks(entries \o s, w)
    BY <1>2, RecordStratumFacts
  <2>2. entries' = entries \o s /\ file'.entries \in {entries \o s, file.entries, << >>}
    BY <2>1, CommitFacts
  <2>3. /\ UNCHANGED <<payer, sent, conflicted, disturbed, known, again>>
        /\ handler[h].pc = "accepted" /\ handler' = [handler EXCEPT ![h] = Idle]
    BY <1>2 DEF RecordStratum
  <2> QED  BY <2>1, <2>2, <2>3 DEF Recorded, Reward
<1> QED  BY <1>1, <1>2

\* A payment stays one for whole entries while blocks are credited.
LEMMA WholeStep ==
  ASSUME PoolTypeOK, PaymentIsWhole, [Next]_vars
  PROVE  PaymentIsWhole'
<1> USE DEF ledger_vars, world_vars, count_vars, history_vars, http_vars
<1>0. entries \in Seq(Entry)
  BY DEF PoolTypeOK, IsBooks
<1>1. CASE UNCHANGED <<entries, payer>>
  BY <1>1 DEF PaymentIsWhole
<1>2. CASE payer'.pc \in {"sleep", "cycle"}
  BY <1>2 DEF PaymentIsWhole
<1>3. CASE payer.pc = "pay" /\ payer' = [payer EXCEPT !.pc = "mark"] /\ entries' = entries
  <2>1. payer'.miner = payer.miner /\ payer'.amount = payer.amount
    BY <1>3 DEF PoolTypeOK
  <2> QED  BY <1>3, <2>1 DEF PaymentIsWhole
<1>4. ASSUME NEW h \in Handler, RecordHttp(h) \/ RecordStratum(h) PROVE PaymentIsWhole'
  <2>1. PICK s : Recorded(s)
    BY <1>4, RecordedFacts
  <2> SUFFICES ASSUME payer.pc \in {"pay", "mark"}
               PROVE  \E i \in 1 .. Len(entries') + 1 :
                        payer.amount = UnpaidBefore(entries', payer.miner, i)
    BY <2>1 DEF PaymentIsWhole, Recorded
  <2>2. PICK i \in 1 .. Len(entries) + 1 : payer.amount = UnpaidBefore(entries, payer.miner, i)
    BY DEF PaymentIsWhole
  <2>3. s \in Seq(Entry) /\ entries' = entries \o s
    BY <2>1 DEF Recorded
  <2>4. /\ UnpaidBefore(entries \o s, payer.miner, i) = UnpaidBefore(entries, payer.miner, i)
        /\ i \in 1 .. Len(entries \o s) + 1
    BY <1>0, <2>3, ExtendedUnpaid
  <2> QED  BY <2>2, <2>3, <2>4
<1>5. ASSUME NEW m \in Payee, NextMiner(m) PROVE PaymentIsWhole'
  <2> DEFINE amount == payable_atoms_up_to(entries, m, Remaining(payer.spendable))
  <2>1. Remaining(payer.spendable) \in Nat
    BY PayerFacts, PoolAssumption DEF Remaining
  <2>2. \E i \in 1 .. Len(entries) + 1 : amount = UnpaidBefore(entries, m, i)
    BY <1>0, <2>1, PayableIsWhole
  <2> HIDE DEF amount
  <2>3. CASE amount = 0
    <3>1. payer.pc = "cycle" /\ payer' = [payer EXCEPT !.due = @ \ {m}]
      BY <1>5, <2>3 DEF NextMiner, amount
    <3>2. payer'.pc = "cycle"
      BY <3>1 DEF PoolTypeOK
    <3> QED  BY <1>2, <3>2
  <2>4. CASE amount # 0
    <3>1. payer'.miner = m /\ payer'.amount = amount /\ entries' = entries
      BY <1>5, <2>4 DEF NextMiner, amount
    <3> QED  BY <2>2, <3>1 DEF PaymentIsWhole
  <2> QED  BY <2>3, <2>4
<1>6. CASE \E m \in Miner, h \in Height : GetTemplate(m, h)
  BY <1>1, <1>6 DEF GetTemplate
<1>7. CASE \E m \in Miner, b \in ShareBits : AcceptShare(m, b)
  BY <1>1, <1>7 DEF AcceptShare
<1>8. CASE \E h \in Handler, m \in Miner, b \in Found, n \in ShareBits,
             via \in {"http", "stratum"} : SubmitBlock(h, m, b, n, via)
  BY <1>1, <1>8 DEF SubmitBlock
<1>9. CASE \E b \in Found : AnswerLost(b)
  BY <1>1, <1>9 DEF AnswerLost
<1>10. CASE CycleStart \/ CycleEnd \/ PayFails \/ MarkPaid
  <2>1. payer'.pc \in {"sleep", "cycle"}
    BY <1>10 DEF CycleStart, CycleEnd, PayFails, MarkPaid, Asleep, Skip
  <2> QED  BY <1>2, <2>1
<1>11. CASE Broadcast
  <2>1. CASE payer' = Skip
    BY <1>2, <2>1 DEF Skip
  <2> QED  BY <1>3, <1>11, <2>1 DEF Broadcast
<1>12. CASE AlreadyInMempool
  BY <1>3, <1>12 DEF AlreadyInMempool
<1>13. CASE \E p \in mempool : Confirm(p)
  BY <1>1, <1>13 DEF Confirm
<1>14. CASE \E m \in Miner : MarkPaidByHand(m)
  BY <1>1, <1>14 DEF MarkPaidByHand
<1>15. CASE Restart
  BY <1>2, <1>15 DEF Restart, Asleep
<1>16. CASE UNCHANGED vars
  BY <1>1, <1>16 DEF vars
<1> QED  BY <1>4, <1>5, <1>6, <1>7, <1>8, <1>9, <1>10, <1>11, <1>12, <1>13, <1>14, <1>15,
            <1>16 DEF Next

\* What is sent is what is marked and what is about to be.
LEMMA BalanceStep ==
  ASSUME PoolTypeOK, PaymentIsWhole, BooksBalance, [Next]_vars
  PROVE  BooksBalance'
<1> USE DEF ledger_vars, world_vars, count_vars, history_vars, http_vars
<1>0. entries \in Seq(Entry)
  BY DEF PoolTypeOK, IsBooks
<1>1. CASE disturbed' \/ conflicted'
  BY <1>1 DEF BooksBalance
<1>2. CASE /\ UNCHANGED <<entries, sent, conflicted, disturbed>>
           /\ payer.pc # "mark" /\ payer'.pc # "mark"
  <2>1. \A m \in Miner : PaidTo(m)' = PaidTo(m) /\ AboutToMark(m)' = 0 /\ AboutToMark(m) = 0
    BY <1>2 DEF PaidTo, AboutToMark
  <2> QED  BY <1>2, <2>1 DEF BooksBalance
<1>3. CASE UNCHANGED <<entries, payer, sent, conflicted, disturbed>>
  BY <1>3 DEF BooksBalance, PaidTo, AboutToMark
<1>4. ASSUME NEW h \in Handler, RecordHttp(h) \/ RecordStratum(h) PROVE BooksBalance'
  <2>1. PICK s : Recorded(s)
    BY <1>4, RecordedFacts
  <2>2. ASSUME NEW m \in Miner PROVE PaidTo(m)' = PaidTo(m) /\ AboutToMark(m)' = AboutToMark(m)
    <3>1. NetOf(entries', Paid(entries', m)) = NetOf(entries, Paid(entries, m))
      BY <1>0, <2>1, ExtendedPaid DEF Recorded
    <3> QED  BY <2>1, <3>1 DEF PaidTo, AboutToMark, Recorded
  <2> QED  BY <2>1, <2>2 DEF BooksBalance, Recorded
<1>5. CASE Broadcast
  <2>1. CASE disturbed' = TRUE
    BY <1>1, <2>1
  <2>2. CASE payer' = [payer EXCEPT !.pc = "mark"] /\ UNCHANGED disturbed
    <3>1. /\ payer.pc = "pay" /\ payer'.pc = "mark" /\ payer'.miner = payer.miner
          /\ payer'.amount = payer.amount /\ payer.amount \in Nat /\ payer.miner \in Miner
          /\ entries' = entries /\ sent' = [sent EXCEPT ![payer.miner] = @ + payer.amount]
          /\ UNCHANGED <<conflicted, disturbed>>
      BY <1>5, <2>2 DEF Broadcast, PoolTypeOK
    <3>2. ASSUME NEW m \in Miner, PaidTo(m) + AboutToMark(m) = sent[m]
          PROVE  PaidTo(m)' + AboutToMark(m)' = sent'[m]
      <4>1. PaidTo(m)' = PaidTo(m) /\ PaidTo(m) \in Nat
        <5>1. Paid(entries, m) \in SUBSET DOMAIN entries
          BY DEF Paid
        <5> QED  BY <1>0, <3>1, <5>1, LedgerFacts DEF PaidTo
      <4>2. AboutToMark(m) = 0 /\ sent[m] = PaidTo(m)
        BY <3>1, <3>2, <4>1 DEF AboutToMark
      <4>3. AboutToMark(m)' = IF m = payer.miner THEN payer.amount ELSE 0
        BY <3>1 DEF AboutToMark
      <4>4. sent'[m] = IF m = payer.miner THEN sent[m] + payer.amount ELSE sent[m]
        BY <3>1 DEF PoolTypeOK
      <4> QED  BY <3>1, <4>1, <4>2, <4>3, <4>4
    <3> QED  BY <3>1, <3>2 DEF BooksBalance
  <2> QED  BY <1>5, <2>1, <2>2 DEF Broadcast
<1>6. CASE MarkPaid
  <2>1. /\ payer.pc = "mark" /\ payer.miner \in Miner /\ payer.amount \in Nat
        /\ payer'.pc = "cycle" /\ entries' = mark_paid_up_to(entries, payer.miner, payer.amount)
        /\ UNCHANGED <<sent, conflicted, disturbed>>
    BY <1>6, PayerFacts DEF MarkPaid, Skip, Commit
  <2>2. PICK k \in 1 .. Len(entries) + 1 : payer.amount = UnpaidBefore(entries, payer.miner, k)
    BY <2>1 DEF PaymentIsWhole
  <2>3. ASSUME NEW m \in Miner, PaidTo(m) + AboutToMark(m) = sent[m]
        PROVE  PaidTo(m)' + AboutToMark(m)' = sent[m]
    <3>1. NetOf(entries', Paid(entries', m)) =
            NetOf(entries, Paid(entries, m)) + (IF m = payer.miner THEN payer.amount ELSE 0)
      BY <1>0, <2>1, <2>2, MarkingIsExact
    <3>2. AboutToMark(m)' = 0 /\ AboutToMark(m) = (IF m = payer.miner THEN payer.amount ELSE 0)
      BY <2>1 DEF AboutToMark
    <3>3. NetOf(entries, Paid(entries, m)) \in Nat
      <4>1. Paid(entries, m) \in SUBSET DOMAIN entries
        BY DEF Paid
      <4> QED  BY <1>0, <4>1, LedgerFacts
    <3> QED  BY <2>1, <2>3, <3>1, <3>2, <3>3 DEF PaidTo
  <2> QED  BY <2>1, <2>3 DEF BooksBalance
<1>7. CASE \E m \in Miner, h \in Height : GetTemplate(m, h)
  BY <1>3, <1>7 DEF GetTemplate
<1>8. CASE \E m \in Miner, b \in ShareBits : AcceptShare(m, b)
  BY <1>3, <1>8 DEF AcceptShare
<1>9. CASE \E h \in Handler, m \in Miner, b \in Found, n \in ShareBits,
             via \in {"http", "stratum"} : SubmitBlock(h, m, b, n, via)
  BY <1>3, <1>9 DEF SubmitBlock
<1>10. CASE \E b \in Found : AnswerLost(b)
  BY <1>3, <1>10 DEF AnswerLost
<1>11. CASE CycleStart \/ CycleEnd \/ PayFails
  BY <1>2, <1>11 DEF CycleStart, CycleEnd, PayFails, Asleep, Skip
<1>12. ASSUME NEW m \in Payee, NextMiner(m) PROVE BooksBalance'
  <2>1. payer.pc = "cycle" /\ UNCHANGED <<entries, sent, conflicted, disturbed>>
    BY <1>12 DEF NextMiner
  <2>2. payer \in [pc : {"sleep", "cycle"}, due : SUBSET Payee, spendable : Nat]
    BY <2>1 DEF PoolTypeOK
  <2>3. [payer EXCEPT !.due = @ \ {m}].pc = "cycle"
    BY <2>1, <2>2
  <2>4. payer'.pc # "mark"
    BY <1>12, <2>3 DEF NextMiner
  <2> QED  BY <1>2, <2>1, <2>4
<1>13. CASE AlreadyInMempool
  BY <1>1, <1>13 DEF AlreadyInMempool
<1>14. CASE \E p \in mempool : Confirm(p)
  BY <1>3, <1>14 DEF Confirm
<1>15. CASE \E m \in Miner : MarkPaidByHand(m)
  BY <1>1, <1>15 DEF MarkPaidByHand
<1>16. CASE Restart
  BY <1>1, <1>16 DEF Restart
<1>17. CASE UNCHANGED vars
  BY <1>3, <1>17 DEF vars
<1> QED  BY <1>4, <1>5, <1>6, <1>7, <1>8, <1>9, <1>10, <1>11, <1>12, <1>13, <1>14, <1>15,
            <1>16, <1>17 DEF Next

-----------------------------------------------------------------------------
\* Credits

\* Crediting adds the block alone.
LEMMA BlocksAdded ==
  ASSUME NEW l \in Seq(Entry), NEW s, NEW b, Reward(s, b)
  PROVE  BlocksOf(l \o s) \subseteq BlocksOf(l) \cup {b}
<1>1. s \in Seq(Entry) /\ \A i \in DOMAIN s : s[i].block = b
  BY DEF Reward
<1>2. /\ l \o s \in Seq(Entry) /\ Len(l \o s) = Len(l) + Len(s)
      /\ \A i \in 1 .. Len(l \o s) : (l \o s)[i] = IF i <= Len(l) THEN l[i] ELSE s[i - Len(l)]
  BY <1>1, ConcatProperties
<1> SUFFICES ASSUME NEW i \in DOMAIN (l \o s)
             PROVE  (l \o s)[i].block \in BlocksOf(l) \cup {b}
  BY DEF BlocksOf
<1>3. i \in 1 .. Len(l) + Len(s) /\ Len(l) \in Nat /\ Len(s) \in Nat
      /\ DOMAIN l = 1 .. Len(l) /\ DOMAIN s = 1 .. Len(s)
  BY <1>1, <1>2
<1>4. CASE i <= Len(l)
  BY <1>2, <1>3, <1>4 DEF BlocksOf
<1>5. CASE ~ (i <= Len(l))
  <2>1. i - Len(l) \in DOMAIN s
    BY <1>3, <1>5
  <2> QED  BY <1>1, <1>2, <1>3, <1>5, <2>1
<1> QED  BY <1>4, <1>5

\* A block is credited once, with its reward.
LEMMA CreditStep ==
  ASSUME PoolTypeOK, CreditedOnce, [Next]_vars
  PROVE  CreditedOnce'
<1> USE DEF ledger_vars, world_vars, count_vars, history_vars, http_vars
<1>0. entries \in Seq(Entry) /\ file.entries \in Seq(Entry)
  BY DEF PoolTypeOK, IsBooks
<1> DEFINE none == << >>
<1>15. BlocksOf(none) = {} /\ Rewarded(none)
  BY DEF BlocksOf, Rewarded
<1>1. CASE UNCHANGED <<entries, file, handler, known, again>>
  BY <1>1 DEF CreditedOnce, Accepted
\* The same blocks and rewards, or those of another ledger of the two.
<1>2. ASSUME UNCHANGED <<known, again>>, Accepted' \subseteq Accepted,
             \A h \in Accepted' : handler'[h] = handler[h],
             BlocksOf(entries') \subseteq BlocksOf(entries) \cup BlocksOf(file.entries),
             BlocksOf(file'.entries) \subseteq BlocksOf(entries) \cup BlocksOf(file.entries),
             Rewarded(entries) /\ Rewarded(file.entries) => Rewarded(entries') /\ Rewarded(file'.entries)
      PROVE  CreditedOnce'
  <2>1. /\ BlocksOf(entries') \cup BlocksOf(file'.entries) \subseteq known'
        /\ \A h \in Accepted' : handler'[h].block \in known'
    BY <1>2 DEF CreditedOnce
  <2>2. ASSUME ~ again'
        PROVE  /\ Rewarded(entries') /\ Rewarded(file'.entries)
               /\ \A h \in Accepted' :
                    handler'[h].block \notin BlocksOf(entries') \cup BlocksOf(file'.entries)
               /\ \A g, h \in Accepted' : handler'[g].block = handler'[h].block => g = h
    BY <1>2, <2>2 DEF CreditedOnce
  <2> QED  BY <2>1, <2>2 DEF CreditedOnce
<1>3. ASSUME NEW h \in Handler, NEW m \in Miner, NEW b \in Found, NEW n \in ShareBits,
             NEW via \in {"http", "stratum"}, SubmitBlock(h, m, b, n, via)
      PROVE  CreditedOnce'
  <2>1. /\ UNCHANGED <<entries, file>> /\ known' = known \cup {b}
        /\ Accepted' = Accepted \cup {h} /\ handler'[h].block = b /\ h \notin Accepted
        /\ \A g \in Accepted : handler'[g] = handler[g]
    BY <1>3 DEF SubmitBlock, Accepted, PoolTypeOK
  <2>2. ~ again' => ~ again /\ b \notin known
    BY <1>3, Zenon DEF SubmitBlock
  <2>3. \A g \in Accepted : handler[g].block \in known
    BY DEF CreditedOnce
  <2>4. BlocksOf(entries) \cup BlocksOf(file.entries) \subseteq known
    BY DEF CreditedOnce
  <2>5. ASSUME ~ again'
        PROVE  /\ Rewarded(entries) /\ Rewarded(file.entries)
               /\ \A g \in Accepted' :
                    handler'[g].block \notin BlocksOf(entries) \cup BlocksOf(file.entries)
               /\ \A f, g \in Accepted' : handler'[f].block = handler'[g].block => f = g
    <3>1. ~ again /\ b \notin known
      BY <2>2, <2>5
    <3>2. /\ Rewarded(entries) /\ Rewarded(file.entries)
          /\ \A g \in Accepted : handler[g].block \notin BlocksOf(entries) \cup BlocksOf(file.entries)
          /\ \A f, g \in Accepted : handler[f].block = handler[g].block => f = g
      BY <3>1 DEF CreditedOnce
    <3>3. \A g \in Accepted' : handler'[g].block \notin BlocksOf(entries) \cup BlocksOf(file.entries)
      BY <2>1, <2>4, <3>1, <3>2
    <3>4. \A f, g \in Accepted' : handler'[f].block = handler'[g].block => f = g
      BY <2>1, <2>3, <3>1, <3>2
    <3> QED  BY <3>2, <3>3, <3>4
  <2>6. /\ BlocksOf(entries) \cup BlocksOf(file.entries) \subseteq known'
        /\ \A g \in Accepted' : handler'[g].block \in known'
    BY <2>1, <2>3, <2>4
  <2> QED  BY <2>1, <2>5, <2>6 DEF CreditedOnce
<1>4. ASSUME NEW b \in Found, AnswerLost(b) PROVE CreditedOnce'
  <2>1. UNCHANGED <<entries, file, handler>> /\ known \subseteq known' /\ Accepted' = Accepted
    BY <1>4 DEF AnswerLost, Accepted
  <2>2. ~ again' => ~ again
    BY <1>4, Zenon DEF AnswerLost
  <2> QED  BY <2>1, <2>2 DEF CreditedOnce
<1>5. ASSUME NEW h \in Handler, RecordHttp(h) \/ RecordStratum(h) PROVE CreditedOnce'
  <2> DEFINE b == handler[h].block
  <2>1. PICK s : /\ Recorded(s) /\ Reward(s, b)
                 /\ file'.entries \in {entries \o s, file.entries, << >>}
                 /\ handler[h].pc = "accepted" /\ handler' = [handler EXCEPT ![h] = Idle]
                 /\ UNCHANGED <<known, again>>
    BY <1>5, RecordedFacts
  <2>2. /\ h \in Accepted /\ b \in Found /\ Accepted' = Accepted \ {h}
        /\ \A g \in Accepted' : handler'[g] = handler[g]
    BY <2>1 DEF Accepted, PoolTypeOK, Idle
  <2>3. entries' = entries \o s
    BY <2>1 DEF Recorded
  <2> DEFINE old == BlocksOf(entries) \cup BlocksOf(file.entries)
  <2>4. BlocksOf(entries') \cup BlocksOf(file'.entries) \subseteq old \cup {b}
    <3>1. BlocksOf(entries \o s) \subseteq BlocksOf(entries) \cup {b}
      BY <1>0, <2>1, BlocksAdded
    <3> QED  BY <1>15, <2>1, <2>3, <3>1
  <2>5. b \in known /\ old \subseteq known /\ \A g \in Accepted : handler[g].block \in known
    BY <2>2 DEF CreditedOnce
  <2>6. ASSUME ~ again'
        PROVE  /\ Rewarded(entries') /\ Rewarded(file'.entries)
               /\ \A g \in Accepted' :
                    handler'[g].block \notin BlocksOf(entries') \cup BlocksOf(file'.entries)
               /\ \A f, g \in Accepted' : handler'[f].block = handler'[g].block => f = g
    <3>1. /\ Rewarded(entries) /\ Rewarded(file.entries)
          /\ \A g \in Accepted : handler[g].block \notin old
          /\ \A f, g \in Accepted : handler[f].block = handler[g].block => f = g
      BY <2>1, <2>6 DEF CreditedOnce
    <3>2. Rewarded(entries \o s)
      <4>1. b \notin BlocksOf(entries)
        BY <2>2, <3>1
      <4> QED  BY <1>0, <2>1, <2>2, <3>1, <4>1, RewardAdded
    <3>3. Rewarded(entries') /\ Rewarded(file'.entries)
      BY <1>15, <2>1, <2>3, <3>1, <3>2
    <3>4. \A g \in Accepted' : handler'[g].block \notin old \cup {b}
      BY <2>2, <3>1
    <3>5. \A f, g \in Accepted' : handler'[f].block = handler'[g].block => f = g
      BY <2>2, <3>1
    <3> QED  BY <2>4, <3>3, <3>4, <3>5
  <2>7. /\ BlocksOf(entries') \cup BlocksOf(file'.entries) \subseteq known'
        /\ \A g \in Accepted' : handler'[g].block \in known'
    BY <2>1, <2>2, <2>4, <2>5
  <2> QED  BY <2>6, <2>7 DEF CreditedOnce
<1>6. CASE MarkPaid
  <2> DEFINE l == mark_paid_up_to(entries, payer.miner, payer.amount)
  <2>1. l \in Seq(Entry) /\ SameEntries(entries, l)
    BY <1>0, MarkPaidUpToFacts, MarkedLedger
  <2>2. /\ entries' = l /\ file'.entries \in {l, file.entries, << >>} /\ Accepted' = Accepted
        /\ UNCHANGED <<handler, known, again>>
    BY <1>6 DEF MarkPaid, Commit, Accepted, EmptyLedger
  <2> HIDE DEF l
  <2>3. BlocksOf(l) = BlocksOf(entries) /\ (Rewarded(entries) => Rewarded(l))
    BY <1>0, <2>1, SameCredits
  <2> QED  BY <1>2, <1>15, <2>2, <2>3
<1>7. ASSUME NEW m \in Miner, MarkPaidByHand(m) PROVE CreditedOnce'
  <2> DEFINE l == mark_paid(file.entries, m)
  <2>1. l \in Seq(Entry) /\ SameEntries(file.entries, l)
    BY <1>0, MarkPaidFacts, MarkedLedger
  <2>2. file'.entries = l /\ Accepted' = Accepted /\ UNCHANGED <<entries, handler, known, again>>
    BY <1>7 DEF MarkPaidByHand, Accepted, PoolTypeOK
  <2> HIDE DEF l
  <2>3. BlocksOf(l) = BlocksOf(file.entries) /\ (Rewarded(file.entries) => Rewarded(l))
    BY <1>0, <2>1, SameCredits
  <2> QED  BY <1>2, <2>2, <2>3
<1>8. CASE Restart
  <2>1. /\ file' \in {file, EmptyLedger} /\ entries' = file'.entries /\ Accepted' = {}
        /\ UNCHANGED <<known, again>>
    BY <1>8 DEF Restart, Accepted, Idle
  <2>2. BlocksOf(EmptyLedger.entries) = {} /\ Rewarded(EmptyLedger.entries)
    BY DEF EmptyLedger, BlocksOf, Rewarded
  <2> QED  BY <1>2, <2>1, <2>2
<1>9. CASE \E m \in Miner, h \in Height : GetTemplate(m, h)
  BY <1>1, <1>9 DEF GetTemplate
<1>10. CASE \E m \in Miner, b \in ShareBits : AcceptShare(m, b)
  BY <1>1, <1>10 DEF AcceptShare
<1>11. CASE CycleStart \/ CycleEnd \/ Broadcast \/ AlreadyInMempool \/ PayFails
  BY <1>1, <1>11 DEF CycleStart, CycleEnd, Broadcast, AlreadyInMempool, PayFails
<1>12. CASE \E m \in Payee : NextMiner(m)
  BY <1>1, <1>12 DEF NextMiner
<1>13. CASE \E p \in mempool : Confirm(p)
  BY <1>1, <1>13 DEF Confirm
<1>14. CASE UNCHANGED vars
  BY <1>1, <1>14 DEF vars
<1> QED  BY <1>3, <1>4, <1>5, <1>6, <1>7, <1>8, <1>9, <1>10, <1>11, <1>12, <1>13, <1>14 DEF Next

-----------------------------------------------------------------------------
\* Theorems

\* The pool's invariant holds: the types, the wallet covers its payments, a payment
\* is for whole entries, the books balance, and a block is credited once.
THEOREM PoolInvariant == Spec => []PoolInv
<1>1. Init => PoolInv
  <2> SUFFICES ASSUME Init PROVE PoolInv
    OBVIOUS
  <2>1. PoolTypeOK
    <3>1. IsBooks(entries, window) /\ IsBooks(file.entries, file.window)
          /\ file = [entries |-> file.entries, window |-> file.window]
      BY PoolAssumption DEF Init, IsBooks, EmptyLedger
    <3>2. last_miner_for_height \in [Height -> Payee] /\ asked \subseteq Miner \X Height
          /\ handler = [h \in Handler |-> Idle]
      BY DEF Init, Payee
    <3>3. payer \in [pc : {"sleep", "cycle"}, due : SUBSET Payee, spendable : Nat]
      BY DEF Init, Asleep
    <3>4. /\ known \subseteq Found /\ wallet \in Nat /\ mempool = {}
          /\ {shares, crashes, manual} \subseteq Nat /\ sent \in [Miner -> Nat]
      BY PoolAssumption DEF Init
    <3>5. {again, conflicted, disturbed} \subseteq BOOLEAN
      BY Zenon DEF Init
    <3> QED  BY <3>1, <3>2, <3>3, <3>4, <3>5, FS_EmptySet DEF PoolTypeOK
  <2>2. Solvent
    <3>1. InFlight = 0
      BY SumOfNone DEF Init, InFlight
    <3> QED  BY <3>1, PoolAssumption DEF Init, Solvent
  <2>3. PaymentIsWhole
    BY DEF Init, PaymentIsWhole, Asleep
  <2>4. BooksBalance
    <3>1. ASSUME NEW m \in Miner PROVE PaidTo(m) = 0 /\ AboutToMark(m) = 0 /\ sent[m] = 0
      <4>1. Paid(entries, m) = {}
        BY DEF Init, Paid
      <4> QED  BY <4>1, SumOfNone DEF PaidTo, NetOf, AboutToMark, Init, Asleep
    <3> QED  BY <3>1 DEF BooksBalance
  <2>5. CreditedOnce
    BY DEF Init, CreditedOnce, BlocksOf, Rewarded, Accepted, EmptyLedger, Idle
  <2> QED  BY <2>1, <2>2, <2>3, <2>4, <2>5 DEF PoolInv
<1>2. PoolInv /\ [Next]_vars => PoolInv'
  BY TypeStep, SolventStep, WholeStep, BalanceStep, CreditStep DEF PoolInv
<1> QED  BY <1>1, <1>2, PTL DEF Spec

\* What the entries of a block credit is its reward, but for less than an atom per
\* miner and never more, unless a block is submitted twice.
THEOREM RewardsAreCredited == Spec => []CreditsAreReward
<1>1. PoolInv => CreditsAreReward
  BY DEF PoolInv, CreditedOnce, CreditsAreReward, Rewarded, BlocksOf
<1> QED  BY <1>1, PoolInvariant, PTL

\* Outside a payout the entries marked as paid to a miner are worth what was sent
\* to it, unless payments overlapped or a crash, a lost answer or the operator came
\* in between.
THEOREM BooksAreExact == Spec => []BooksMatchPayments
<1>1. PoolInv => BooksMatchPayments
  <2> SUFFICES ASSUME PoolInv, ~ disturbed, ~ conflicted, payer.pc # "mark", NEW m \in Miner
               PROVE  PaidTo(m) = sent[m]
    BY DEF BooksMatchPayments
  <2>1. PaidTo(m) + AboutToMark(m) = sent[m] /\ AboutToMark(m) = 0
    BY DEF PoolInv, BooksBalance, AboutToMark
  <2>2. PaidTo(m) \in Nat
    <3>1. entries \in Seq(Entry) /\ Paid(entries, m) \in SUBSET DOMAIN entries
      BY DEF PoolInv, PoolTypeOK, IsBooks, Paid
    <3> QED  BY <3>1, LedgerFacts DEF PaidTo
  <2> QED  BY <2>1, <2>2
<1> QED  BY <1>1, PoolInvariant, PTL


-----------------------------------------------------------------------------
\* The server (Stratum): whatever the node, the poller, the threads and the miners do,
\* and for any number of connections.

-----------------------------------------------------------------------------
\* Messages

LEMMA JobFacts ==
  ASSUME NEW j \in Job
  PROVE  j # NoJob /\ j.id \in Nat \ {0} /\ j.tip \in Tip
BY DEF Job, NoJob

\* The last notice decides.
LEMMA WorkIs ==
  ASSUME NEW msgs \in Seq(Message), NEW w, NEW n \in Notices(msgs),
         \A j \in Notices(msgs) : j <= n
  PROVE  WorkAfter(msgs, w) = [job |-> msgs[n].job, bits |-> msgs[n].bits]
<1> DEFINE i == CHOOSE i \in Notices(msgs) : \A j \in Notices(msgs) : j <= i
<1>1. i \in Notices(msgs) /\ \A j \in Notices(msgs) : j <= i
  OBVIOUS
<1>2. i <= n /\ n <= i
  BY <1>1
<1>3. i \in Nat /\ n \in Nat
  BY <1>1 DEF Notices
<1>4. i = n
  <2> HIDE DEF i
  <2> QED  BY <1>2, <1>3
<1>5. WorkAfter(msgs, w) = [job |-> msgs[i].job, bits |-> msgs[i].bits]
  BY DEF WorkAfter
<1> QED  BY <1>4, <1>5

LEMMA ConcatType ==
  ASSUME NEW S, NEW s \in Seq(S), NEW t \in Seq(S), NEW r, r = s \o t
  PROVE  r \in Seq(S)
OBVIOUS

LEMMA SendFacts ==
  ASSUME NEW msgs \in Seq(Message), NEW new \in Seq(Message), Len(new) > 0,
         new[Len(new)].method = "notify", NEW r, r = msgs \o new, NEW w
  PROVE  /\ r \in Seq(Message)
         /\ WorkAfter(r, w) = [job |-> new[Len(new)].job, bits |-> new[Len(new)].bits]
<1> DEFINE n == Len(r)
<1>1. r \in Seq(Message) /\ n = Len(msgs) + Len(new) /\ r[n] = new[Len(new)] /\ n > 0 /\ n \in Nat
  OBVIOUS
<1>2. DOMAIN r = 1 .. n
  BY <1>1
<1> HIDE DEF n
<1>3. n \in Notices(r) /\ \A j \in Notices(r) : j <= n
  BY <1>1, <1>2 DEF Notices
<1>4. WorkAfter(r, w) = [job |-> r[n].job, bits |-> r[n].bits]
  BY <1>1, <1>3, WorkIs
<1> QED  BY <1>1, <1>4

NoNotice(msgs) == Notices(msgs) = {}

LEMMA QuietFacts ==
  ASSUME NEW msgs \in Seq(Message), NoNotice(msgs), NEW new \in Seq(Message), NoNotice(new),
         NEW r, r = msgs \o new
  PROVE  NoNotice(r)
<1>1. /\ r \in Seq(Message) /\ Len(r) = Len(msgs) + Len(new)
      /\ Len(msgs) \in Nat /\ Len(new) \in Nat
      /\ \A i \in 1 .. Len(msgs) : r[i] = msgs[i]
      /\ \A i \in 1 .. Len(new) : r[Len(msgs) + i] = new[i]
  OBVIOUS
<1>2. /\ \A i \in 1 .. Len(msgs) : msgs[i].method # "notify"
      /\ \A i \in 1 .. Len(new) : new[i].method # "notify"
  BY DEF NoNotice, Notices
<1>3. ASSUME NEW i \in DOMAIN r PROVE r[i].method # "notify"
  <2>1. CASE i \in 1 .. Len(msgs)
    BY <1>1, <1>2, <2>1
  <2>2. CASE i \notin 1 .. Len(msgs)
    <3> DEFINE k == i - Len(msgs)
    <3>1. k \in 1 .. Len(new) /\ i = Len(msgs) + k
      BY <1>1, <2>2
    <3> QED  BY <1>1, <1>2, <3>1
  <2> QED  BY <2>1, <2>2
<1> QED  BY <1>3 DEF Notices, NoNotice

\* The messages of a new difficulty: the job goes with it.
NewWork(r, j, bits, msgs, w) ==
  /\ r \in Seq(Message)
  /\ j # NoJob => WorkAfter(r, w) = [job |-> j, bits |-> bits]
  /\ j = NoJob /\ Notices(msgs) = {} => Notices(r) = {} /\ WorkAfter(r, w) = w

LEMMA ChangeFacts ==
  ASSUME NEW msgs \in Seq(Message), NEW j \in Job \cup {NoJob}, NEW bits \in Nat, NEW w,
         NEW r, r = msgs \o (<<set_difficulty(bits)>> \o NotifyIfAny(j, bits))
  PROVE  NewWork(r, j, bits, msgs, w)
<1> DEFINE a == set_difficulty(bits)
<1>1. a \in Message /\ a.method = "set_difficulty"
  BY DEF set_difficulty, Message
<1>2. r = msgs \o (<<a>> \o NotifyIfAny(j, bits))
  OBVIOUS
<1> HIDE DEF a
<1>3. CASE j = NoJob
  <2>1. <<a>> \o NotifyIfAny(j, bits) = <<a>>
    BY <1>1, <1>3 DEF NotifyIfAny
  <2> DEFINE new == <<a>>
  <2>2. r = msgs \o new
    BY <1>2, <2>1
  <2>3. r \in Seq(Message)
    <3>1. new \in Seq(Message)
      BY <1>1
    <3> QED  BY <2>2, <3>1, ConcatType, Zenon
  <2>4. ASSUME Notices(msgs) = {} PROVE Notices(r) = {} /\ WorkAfter(r, w) = w
    <3>1. new \in Seq(Message) /\ NoNotice(new)
      <4>1. new \in Seq(Message) /\ DOMAIN new = {1} /\ new[1] = a
        BY <1>1
      <4> QED  BY <1>1, <4>1 DEF NoNotice, Notices
    <3> HIDE DEF new
    <3>2. NoNotice(msgs)
      BY <2>4 DEF NoNotice
    <3>3. NoNotice(r)
      BY <2>2, <3>1, <3>2, QuietFacts, Zenon
    <3> QED  BY <3>3 DEF NoNotice, WorkAfter
  <2> QED  BY <1>3, <2>3, <2>4 DEF NewWork
<1>4. CASE j # NoJob
  <2> DEFINE m == notify_msg(j, bits)
             new == <<a>> \o <<m>>
  <2>1. m \in Message /\ m.method = "notify" /\ m.job = j /\ m.bits = bits
    BY DEF notify_msg, Message
  <2>2. r = msgs \o new
    BY <1>2, <1>4 DEF NotifyIfAny
  <2> HIDE DEF m
  <2>3. new \in Seq(Message) /\ Len(new) = 2 /\ new[2] = m
    BY <1>1, <2>1
  <2> HIDE DEF new
  <2>4. Len(new) > 0 /\ new[Len(new)] = m
    BY <2>3
  <2>5. r \in Seq(Message) /\ WorkAfter(r, w) = [job |-> new[Len(new)].job,
                                                 bits |-> new[Len(new)].bits]
    BY <2>1, <2>2, <2>3, <2>4, SendFacts, Zenon
  <2> QED  BY <1>4, <2>1, <2>4, <2>5 DEF NewWork
<1> QED  BY <1>3, <1>4

\* The waiting jobs, as they are sent.
LEMMA DrainFacts ==
  ASSUME NEW rx \in Seq(Job), rx # << >>, NEW bits \in Nat, NEW msgs \in Seq(Message), NEW w,
         NEW r, r = msgs \o [i \in DOMAIN rx |-> notify_msg(rx[i], bits)]
  PROVE  r \in Seq(Message) /\ WorkAfter(r, w) = [job |-> Last(rx), bits |-> bits]
<1> DEFINE new == [i \in DOMAIN rx |-> notify_msg(rx[i], bits)]
           n == Len(rx)
<1>1. n \in Nat /\ n > 0 /\ DOMAIN rx = 1 .. n /\ \A i \in 1 .. n : rx[i] \in Job
  OBVIOUS
<1>2. \A i \in 1 .. n : notify_msg(rx[i], bits) \in Message
  BY <1>1 DEF notify_msg, Message
<1>3. new \in Seq(Message) /\ Len(new) = n /\ new[n] = notify_msg(rx[n], bits)
  BY <1>1, <1>2
<1>4. r = msgs \o new
  OBVIOUS
<1> HIDE DEF new
<1>5. new[n].method = "notify" /\ new[n].job = rx[n] /\ new[n].bits = bits
  BY <1>3 DEF notify_msg
<1> HIDE DEF n
<1>6. r \in Seq(Message) /\ WorkAfter(r, w) = [job |-> new[n].job, bits |-> new[n].bits]
  BY <1>1, <1>3, <1>4, <1>5, SendFacts
<1> QED  BY <1>5, <1>6 DEF Last, n

\* Reading a message does not change what a miner will end on.
LEMMA ReceiveFacts ==
  ASSUME NEW msgs \in Seq(Message), msgs # << >>, NEW w, NEW v,
         v = IF Head(msgs).method = "notify"
             THEN [job |-> Head(msgs).job, bits |-> Head(msgs).bits] ELSE w
  PROVE  /\ Tail(msgs) \in Seq(Message) /\ WorkAfter(Tail(msgs), v) = WorkAfter(msgs, w)
         /\ Notices(msgs) = {} => Notices(Tail(msgs)) = {} /\ v = w
<1> DEFINE t == Tail(msgs)
           n == Len(msgs)
<1>1. /\ t \in Seq(Message) /\ n \in Nat \ {0} /\ Len(t) = n - 1 /\ Head(msgs) = msgs[1]
      /\ \A i \in 1 .. n - 1 : t[i] = msgs[i + 1]
  OBVIOUS
<1>2. DOMAIN t = 1 .. n - 1 /\ DOMAIN msgs = 1 .. n
  BY <1>1
<1> HIDE DEF t, n
<1>3. \A i : i \in Notices(t) <=> i \in 1 .. n - 1 /\ i + 1 \in Notices(msgs)
  BY <1>1, <1>2 DEF Notices
<1>4. 1 \in Notices(msgs) <=> Head(msgs).method = "notify"
  BY <1>1, <1>2 DEF Notices
<1>5. Notices(msgs) \subseteq 1 .. n
  BY <1>2 DEF Notices
<1>6. CASE Notices(t) = {}
  <2>1. Notices(msgs) \subseteq {1}
    <3> SUFFICES ASSUME NEW i \in Notices(msgs), i # 1 PROVE FALSE
      OBVIOUS
    <3>1. i - 1 \in 1 .. n - 1 /\ (i - 1) + 1 = i
      BY <1>1, <1>5
    <3> QED  BY <1>3, <1>6, <3>1
  <2>2. WorkAfter(t, v) = v
    BY <1>6 DEF WorkAfter
  <2>3. CASE Notices(msgs) = {}
    BY <1>1, <1>4, <1>6, <2>2, <2>3 DEF WorkAfter, t
  <2>4. CASE Notices(msgs) # {}
    <3>1. 1 \in Notices(msgs) /\ \A j \in Notices(msgs) : j <= 1
      BY <2>1, <2>4
    <3>2. WorkAfter(msgs, w) = [job |-> msgs[1].job, bits |-> msgs[1].bits]
      BY <3>1, WorkIs
    <3>3. v = [job |-> msgs[1].job, bits |-> msgs[1].bits]
      BY <1>1, <1>4, <3>1
    <3> QED  BY <1>1, <2>2, <2>4, <3>2, <3>3 DEF t
  <2> QED  BY <2>3, <2>4
<1>7. CASE Notices(t) # {}
  <2> DEFINE T == {n - i : i \in Notices(t)}
  <2>1. Notices(t) \subseteq 1 .. n - 1
    BY <1>3
  <2>2. T \subseteq Nat /\ T # {}
    BY <1>1, <1>7, <2>1
  <2>3. PICK m \in T : \A k \in T : m <= k
    <3> HIDE DEF T
    <3> QED  BY <2>2, LeastElement
  <2>4. PICK i \in Notices(t) : m = n - i
    BY <2>3
  <2>5. \A j \in Notices(t) : j <= i
    <3> SUFFICES ASSUME NEW j \in Notices(t) PROVE j <= i
      OBVIOUS
    <3>1. m <= n - j
      BY <2>3
    <3> QED  BY <1>1, <2>1, <2>4, <3>1
  <2>6. WorkAfter(t, v) = [job |-> t[i].job, bits |-> t[i].bits]
    BY <1>1, <2>5, WorkIs
  <2>7. i \in 1 .. n - 1 /\ i + 1 \in Notices(msgs) /\ t[i] = msgs[i + 1]
    BY <1>1, <1>3
  <2>8. \A j \in Notices(msgs) : j <= i + 1
    <3> SUFFICES ASSUME NEW j \in Notices(msgs), j # 1 PROVE j <= i + 1
      BY <2>7
    <3>1. j - 1 \in 1 .. n - 1 /\ (j - 1) + 1 = j
      BY <1>1, <1>5
    <3>2. j - 1 <= i
      BY <1>3, <2>5, <3>1
    <3> QED  BY <2>7, <3>1, <3>2
  <2>9. WorkAfter(msgs, w) = [job |-> msgs[i + 1].job, bits |-> msgs[i + 1].bits]
    BY <2>7, <2>8, WorkIs
  <2> QED  BY <1>1, <2>6, <2>7, <2>9 DEF t
<1> QED  BY <1>6, <1>7

-----------------------------------------------------------------------------
\* Connections

Row(c) == Follows(current_job, conn[c], hand[c], job_rx[c], to_miner[c], miner[c])

LEMMA RowFacts ==
  ASSUME StratumInv, NEW c \in Conn
  PROVE  /\ Row(c) /\ conn[c] \in Session /\ hand[c] \in InHand /\ job_rx[c] \in Seq(Job)
         /\ to_miner[c] \in Seq(Message) /\ to_pool[c] \in Seq(FoundShare) /\ miner[c] \in Working
         /\ current_job \in Job \cup {NoJob} /\ StratumTypeOK /\ WeightEarned
BY DEF StratumInv, StratumTypeOK, Row

\* A step of one connection leaves the others alone.
SameElse(c) ==
  /\ current_job' = current_job
  /\ \A d \in Conn \ {c} :
       /\ conn'[d] = conn[d] /\ hand'[d] = hand[d] /\ job_rx'[d] = job_rx[d]
       /\ to_miner'[d] = to_miner[d] /\ miner'[d] = miner[d]

LEMMA Rows ==
  ASSUME StratumInv, NEW c \in Conn, SameElse(c), StratumTypeOK', WeightEarned',
         Follows(current_job, conn'[c], hand'[c], job_rx'[c], to_miner'[c], miner'[c])
  PROVE  StratumInv'
<1>1. ASSUME NEW d \in Conn PROVE Row(d)'
  <2>1. CASE d = c
    BY <2>1 DEF Row, SameElse
  <2>2. CASE d # c
    <3>1. Row(d)
      BY RowFacts
    <3>2. /\ conn'[d] = conn[d] /\ hand'[d] = hand[d] /\ job_rx'[d] = job_rx[d]
          /\ to_miner'[d] = to_miner[d] /\ miner'[d] = miner[d] /\ current_job' = current_job
      BY <2>2 DEF SameElse
    <3> QED  BY <3>1, <3>2 DEF Row
  <2> QED  BY <2>1, <2>2
<1> QED  BY <1>1 DEF StratumInv, Row

\* Nothing that Row looks at changes.
LEMMA RowsUnchanged ==
  ASSUME StratumInv, UNCHANGED <<current_job, conn, hand, job_rx, to_miner, miner>>,
         StratumTypeOK', WeightEarned'
  PROVE  StratumInv'
BY DEF StratumInv

LEMMA PcChange ==
  ASSUME NEW j, NEW k \in Session, NEW h, NEW rx, NEW ms, NEW w, Follows(j, k, h, rx, ms, w),
         NEW p \in {"read", "line", "count"}, NEW r, r = [k EXCEPT !.pc = p]
  PROVE  r \in Session /\ Follows(j, r, h, rx, ms, w)
<1>1. /\ r \in Session /\ r.pc = p /\ r.authorized = k.authorized /\ r.bits = k.bits
  BY DEF Session
<1>2. p # "closed" /\ p # "found" /\ p # "submit"
  OBVIOUS
<1> QED  BY <1>1, <1>2, Zenon DEF Follows

\* A step that sets the pc of a connection.
LEMMA PcStep ==
  ASSUME StratumInv, NEW c \in Conn, NEW p \in {"read", "line", "count"},
         conn' = [conn EXCEPT ![c].pc = p],
         UNCHANGED <<tip, poller_vars, hand, job_rx, to_miner, miner>>,
         to_pool' \in [Conn -> Seq(FoundShare)], WeightEarned'
  PROVE  StratumInv'
<1>1. /\ Row(c) /\ conn[c] \in Session /\ conn \in [Conn -> Session]
  BY RowFacts DEF StratumTypeOK
<1>2. conn'[c] = [conn[c] EXCEPT !.pc = p] /\ \A d \in Conn \ {c} : conn'[d] = conn[d]
  BY <1>1
<1>3. /\ conn'[c] \in Session
      /\ Follows(current_job, conn'[c], hand[c], job_rx[c], to_miner[c], miner[c])
  BY <1>1, <1>2, PcChange, Zenon DEF Row
<1>4. conn' \in [Conn -> Session]
  BY <1>1, <1>2, <1>3
<1>5. StratumTypeOK'
  BY <1>4, RowFacts DEF StratumTypeOK, poller_vars
<1>6. SameElse(c)
  BY <1>2 DEF SameElse, poller_vars
<1>7. Follows(current_job, conn'[c], hand'[c], job_rx'[c], to_miner'[c], miner'[c])
  BY <1>3
<1> QED  BY <1>5, <1>6, <1>7, Rows

-----------------------------------------------------------------------------
\* The node and the poller

LEMMA StratumInitInv == StratumInit => StratumInv
<1> SUFFICES ASSUME StratumInit PROVE StratumInv
  OBVIOUS
<1>1. /\ Closed \in Session /\ NoShare \in InHand /\ Resting \in Working
      /\ << >> \in Seq(Job) /\ << >> \in Seq(Message) /\ << >> \in Seq(FoundShare)
  BY DEF Closed, Session, NoShare, InHand, Resting, Working
<1>2. StratumTypeOK
  BY <1>1 DEF StratumInit, StratumTypeOK
<1>3. WeightEarned
  BY DEF StratumInit, WeightEarned
<1>4. ASSUME NEW c \in Conn PROVE Follows(NoJob, Closed, NoShare, << >>, << >>, Resting)
  <2>1. Notices(<< >>) = {}
    BY DEF Notices
  <2>2. WorkAfter(<< >>, Resting) = Resting /\ Resting.job = NoJob
    BY <2>1 DEF WorkAfter, Resting
  <2>3. NoShare.zeros >= NoShare.bits /\ Closed.pc = "closed"
    BY DEF NoShare, Closed
  <2> QED  BY <2>1, <2>2, <2>3 DEF Follows
<1> QED  BY <1>2, <1>3, <1>4 DEF StratumInit, StratumInv

LEMMA NodeMovesInv == StratumInv /\ NodeMoves => StratumInv'
<1> SUFFICES ASSUME StratumInv, NodeMoves PROVE StratumInv'
  OBVIOUS
<1>1. /\ UNCHANGED <<current_job, conn, hand, job_rx, to_miner, miner>>
      /\ UNCHANGED <<fetched, last_height, job_template_cache, to_pool, credited>> /\ tip' \in Tip
  BY DEF NodeMoves, poller_vars, miner_vars
<1>2. StratumTypeOK' /\ WeightEarned'
  BY <1>1 DEF StratumInv, StratumTypeOK, WeightEarned
<1> QED  BY <1>1, <1>2, RowsUnchanged

LEMMA PollFetchInv ==
  ASSUME StratumInv, NEW p \in Poller, PollFetch(p)
  PROVE  StratumInv'
<1>1. /\ UNCHANGED <<current_job, conn, hand, job_rx, to_miner, miner>>
      /\ UNCHANGED <<tip, last_height, job_template_cache, to_pool, credited>>
      /\ fetched' = [fetched EXCEPT ![p] = tip]
  BY DEF PollFetch, miner_vars
<1>2. StratumTypeOK' /\ WeightEarned'
  BY <1>1 DEF StratumInv, StratumTypeOK, WeightEarned
<1> QED  BY <1>1, <1>2, RowsUnchanged

LEMMA PollNothingNewInv ==
  ASSUME StratumInv, NEW p \in Poller, PollNothingNew(p)
  PROVE  StratumInv'
<1>1. /\ UNCHANGED <<current_job, conn, hand, job_rx, to_miner, miner>>
      /\ UNCHANGED <<tip, last_height, job_template_cache, to_pool, credited>>
      /\ fetched' = [fetched EXCEPT ![p] = NoTip]
  BY DEF PollNothingNew, miner_vars
<1>2. StratumTypeOK' /\ WeightEarned'
  BY <1>1 DEF StratumInv, StratumTypeOK, WeightEarned
<1> QED  BY <1>1, <1>2, RowsUnchanged

LEMMA PublishFacts ==
  ASSUME NEW j, NEW k \in Session, NEW h, NEW rx \in Seq(Job), NEW ms, NEW w,
         Follows(j, k, h, rx, ms, w), NEW job \in Job, NEW r,
         r = IF k.pc = "closed" THEN rx ELSE Append(rx, job)
  PROVE  r \in Seq(Job) /\ Follows(job, k, h, r, ms, w)
<1>1. r \in Seq(Job) /\ job # NoJob
  BY JobFacts
<1>2. /\ h.zeros >= h.bits /\ (k.pc = "found" => h.named = h.job)
      /\ (k.pc = "submit" => h.raw \in {h.job, NoJob})
      /\ (k.pc = "closed" => k = Closed /\ rx = << >>)
  BY DEF Follows
<1>3. CASE k.pc = "closed"
  <2>1. k = Closed /\ r = << >> /\ ~ k.authorized
    BY <1>2, <1>3 DEF Closed
  <2> QED  BY <1>1, <1>2, <2>1 DEF Follows
<1>4. CASE k.pc # "closed"
  <2>1. r # << >> /\ Last(r) = job
    BY <1>4 DEF Last
  <2> QED  BY <1>1, <1>2, <1>4, <2>1 DEF Follows
<1> QED  BY <1>3, <1>4

LEMMA PollPublishInv ==
  ASSUME StratumInv, NEW p \in Poller, PollPublish(p)
  PROVE  StratumInv'
<1> DEFINE job == [id |-> current_job.id + 1, tip |-> fetched[p]]
<1>1. /\ current_job' = job /\ last_height' = [last_height EXCEPT ![p] = JobHeight(job)]
      /\ fetched' = [fetched EXCEPT ![p] = NoTip]
      /\ job_template_cache' = KeptTemplates \cup {job}
      /\ job_rx' = [c \in Conn |-> IF conn[c].pc = "closed" THEN job_rx[c]
                                   ELSE Append(job_rx[c], job)]
      /\ UNCHANGED <<tip, conn, to_miner, miner, to_pool, hand, credited>>
      /\ fetched[p] \in Tip
  BY DEF StratumInv, StratumTypeOK, PollPublish, miner_vars
<1>2. job \in Job
  <2>1. current_job.id \in Nat
    BY DEF StratumInv, StratumTypeOK, Job, NoJob
  <2> QED  BY <1>1, <2>1 DEF Job
<1>3. JobHeight(job) \in Nat /\ KeptTemplates \subseteq Job
  <2>1. TipHeight[fetched[p]] \in Nat
    BY <1>1, StratumAssumption
  <2> QED  BY <2>1 DEF JobHeight, KeptTemplates, StratumInv, StratumTypeOK
<1> HIDE DEF job
<1>4. ASSUME NEW c \in Conn PROVE job_rx'[c] \in Seq(Job) /\ Row(c)'
  <2>1. job_rx'[c] = IF conn[c].pc = "closed" THEN job_rx[c] ELSE Append(job_rx[c], job)
    BY <1>1
  <2>2. /\ Follows(current_job, conn[c], hand[c], job_rx[c], to_miner[c], miner[c])
        /\ conn[c] \in Session /\ job_rx[c] \in Seq(Job)
    BY RowFacts DEF Row
  <2>3. /\ job_rx'[c] \in Seq(Job)
        /\ Follows(job, conn[c], hand[c], job_rx'[c], to_miner[c], miner[c])
    BY <1>2, <2>1, <2>2, PublishFacts, Zenon
  <2> QED  BY <1>1, <2>3 DEF Row
<1>5. job_rx' \in [Conn -> Seq(Job)]
  BY <1>1, <1>4
<1>6. StratumTypeOK' /\ WeightEarned'
  BY <1>1, <1>2, <1>3, <1>5 DEF StratumInv, StratumTypeOK, WeightEarned
<1> QED  BY <1>4, <1>6 DEF StratumInv, Row

-----------------------------------------------------------------------------
\* Threads

LEMMA CreditStays ==
  ASSUME StratumInv, UNCHANGED credited
  PROVE  WeightEarned'
BY DEF StratumInv, WeightEarned

LEMMA AcceptInv == ASSUME StratumInv, NEW c \in Conn, Accept(c) PROVE StratumInv'
<1>1. /\ conn' = [conn EXCEPT ![c].pc = "read"]
      /\ UNCHANGED <<tip, poller_vars, hand, job_rx, to_miner, miner>>
      /\ to_pool' = to_pool /\ credited' = credited
  BY DEF Accept, miner_vars
<1>2. to_pool' \in [Conn -> Seq(FoundShare)] /\ WeightEarned'
  BY <1>1, CreditStays DEF StratumInv, StratumTypeOK
<1> QED  BY <1>1, <1>2, PcStep

LEMMA NoLineInv == ASSUME StratumInv, NEW c \in Conn, NoLine(c) PROVE StratumInv'
<1>1. /\ conn' = [conn EXCEPT ![c].pc = "read"]
      /\ UNCHANGED <<tip, poller_vars, hand, job_rx, to_miner, miner>>
      /\ to_pool' = to_pool /\ credited' = credited
  BY DEF NoLine, miner_vars
<1>2. to_pool' \in [Conn -> Seq(FoundShare)] /\ WeightEarned'
  BY <1>1, CreditStays DEF StratumInv, StratumTypeOK
<1> QED  BY <1>1, <1>2, PcStep

LEMMA TailType ==
  ASSUME StratumInv, NEW c \in Conn, to_pool[c] # << >>, to_pool' = [to_pool EXCEPT ![c] = Tail(@)]
  PROVE  to_pool' \in [Conn -> Seq(FoundShare)]
<1>1. Tail(to_pool[c]) \in Seq(FoundShare)
  BY RowFacts
<1> QED  BY <1>1 DEF StratumInv, StratumTypeOK

LEMMA LineTornInv == ASSUME StratumInv, NEW c \in Conn, LineTorn(c) PROVE StratumInv'
<1>1. /\ conn' = [conn EXCEPT ![c].pc = "read"]
      /\ UNCHANGED <<tip, poller_vars, hand, job_rx, to_miner, miner>>
      /\ to_pool[c] # << >> /\ to_pool' = [to_pool EXCEPT ![c] = Tail(@)] /\ credited' = credited
  BY DEF LineTorn
<1>2. to_pool' \in [Conn -> Seq(FoundShare)] /\ WeightEarned'
  BY <1>1, CreditStays, TailType
<1> QED  BY <1>1, <1>2, PcStep

LEMMA RejectInv == ASSUME StratumInv, NEW c \in Conn, Reject(c) PROVE StratumInv'
<1>1. /\ conn' = [conn EXCEPT ![c].pc = "read"]
      /\ UNCHANGED <<tip, poller_vars, hand, job_rx, to_miner, miner>>
      /\ to_pool[c] # << >> /\ to_pool' = [to_pool EXCEPT ![c] = Tail(@)] /\ credited' = credited
  BY DEF Reject, Takes
<1>2. to_pool' \in [Conn -> Seq(FoundShare)] /\ WeightEarned'
  BY <1>1, CreditStays, TailType
<1> QED  BY <1>1, <1>2, PcStep

LEMMA SubmitFoundInv == ASSUME StratumInv, NEW c \in Conn, SubmitFound(c) PROVE StratumInv'
<1>1. /\ conn' = [conn EXCEPT ![c].pc = "count"]
      /\ UNCHANGED <<tip, poller_vars, hand, job_rx, to_miner, miner>>
      /\ to_pool' = to_pool /\ (credited' = credited \/ credited' = credited \cup {hand[c]})
  BY DEF SubmitFound, miner_vars
<1>2. hand[c].zeros >= hand[c].bits
  BY RowFacts DEF Row, Follows
<1>3. to_pool' \in [Conn -> Seq(FoundShare)] /\ WeightEarned'
  BY <1>1, <1>2 DEF StratumInv, StratumTypeOK, WeightEarned
<1> QED  BY <1>1, <1>3, PcStep

\* Fields of a connection that a step may replace.
LEMMA SetRow ==
  ASSUME StratumInv, NEW c \in Conn, NEW k \in Session, NEW h \in InHand, NEW rx \in Seq(Job),
         NEW ms \in Seq(Message), NEW w \in Working,
         conn' = [conn EXCEPT ![c] = k], hand' = [hand EXCEPT ![c] = h],
         job_rx' = [job_rx EXCEPT ![c] = rx], to_miner' = [to_miner EXCEPT ![c] = ms],
         miner' = [miner EXCEPT ![c] = w], UNCHANGED <<tip, poller_vars>>,
         to_pool' \in [Conn -> Seq(FoundShare)], WeightEarned',
         Follows(current_job, k, h, rx, ms, w)
  PROVE  StratumInv'
<1>1. /\ conn \in [Conn -> Session] /\ hand \in [Conn -> InHand] /\ job_rx \in [Conn -> Seq(Job)]
      /\ to_miner \in [Conn -> Seq(Message)] /\ miner \in [Conn -> Working]
  BY DEF StratumInv, StratumTypeOK
<1>2. /\ conn'[c] = k /\ hand'[c] = h /\ job_rx'[c] = rx /\ to_miner'[c] = ms /\ miner'[c] = w
      /\ SameElse(c)
  BY <1>1 DEF SameElse, poller_vars
<1>3. /\ conn' \in [Conn -> Session] /\ hand' \in [Conn -> InHand] /\ job_rx' \in [Conn -> Seq(Job)]
      /\ to_miner' \in [Conn -> Seq(Message)] /\ miner' \in [Conn -> Working]
  BY <1>1
<1>4. StratumTypeOK'
  BY <1>3 DEF StratumInv, StratumTypeOK, poller_vars
<1>5. Follows(current_job, conn'[c], hand'[c], job_rx'[c], to_miner'[c], miner'[c])
  BY <1>2
<1> QED  BY <1>2, <1>4, <1>5, Rows

LEMMA SameRow ==
  ASSUME StratumInv, NEW c \in Conn
  PROVE  /\ UNCHANGED hand => hand' = [hand EXCEPT ![c] = hand[c]]
         /\ UNCHANGED job_rx => job_rx' = [job_rx EXCEPT ![c] = job_rx[c]]
         /\ UNCHANGED to_miner => to_miner' = [to_miner EXCEPT ![c] = to_miner[c]]
         /\ UNCHANGED miner => miner' = [miner EXCEPT ![c] = miner[c]]
         /\ UNCHANGED conn => conn' = [conn EXCEPT ![c] = conn[c]]
         /\ UNCHANGED to_pool => to_pool' \in [Conn -> Seq(FoundShare)]
BY DEF StratumInv, StratumTypeOK

LEMMA DrainInv == ASSUME StratumInv, NEW c \in Conn, Drain(c) PROVE StratumInv'
<1> DEFINE k == conn[c]
           rx == job_rx[c]
           ms == to_miner[c]
           new == [i \in DOMAIN rx |-> notify_msg(rx[i], k.bits)]
<1>1. /\ Follows(current_job, k, hand[c], rx, ms, miner[c]) /\ k \in Session
      /\ hand[c] \in InHand /\ rx \in Seq(Job) /\ ms \in Seq(Message) /\ miner[c] \in Working
      /\ conn \in [Conn -> Session]
  BY RowFacts DEF Row, StratumTypeOK
<1>2. /\ job_rx' = [job_rx EXCEPT ![c] = << >>] /\ UNCHANGED <<tip, poller_vars>>
      /\ hand' = [hand EXCEPT ![c] = hand[c]] /\ miner' = [miner EXCEPT ![c] = miner[c]]
      /\ to_pool' \in [Conn -> Seq(FoundShare)] /\ WeightEarned' /\ << >> \in Seq(Job)
  <2>1. /\ job_rx' = [job_rx EXCEPT ![c] = << >>] /\ UNCHANGED <<tip, poller_vars>>
        /\ UNCHANGED hand /\ UNCHANGED miner /\ UNCHANGED to_pool /\ UNCHANGED credited
    BY DEF Drain, miner_vars
  <2>2. WeightEarned'
    BY <2>1, CreditStays
  <2>3. << >> \in Seq(Job)
    OBVIOUS
  <2> QED  BY <2>1, <2>2, <2>3, SameRow, Zenon
<1>3. CASE k.authorized /\ rx # << >>
  <2> DEFINE n == [k EXCEPT !.last_job = Last(rx), !.pc = "line"]
             r == ms \o new
  <2>1. conn' = [conn EXCEPT ![c] = n] /\ to_miner' = [to_miner EXCEPT ![c] = r]
    BY <1>1, <1>3 DEF Drain, Send
  <2>2. Last(rx) \in Job /\ k.bits \in Nat
    BY <1>1, <1>3 DEF Last, Session
  <2>3. n \in Session /\ n.pc = "line" /\ n.bits = k.bits /\ n.authorized = k.authorized
    BY <1>1, <2>2 DEF Session
  <2>4. r \in Seq(Message) /\ WorkAfter(r, miner[c]) = [job |-> Last(rx), bits |-> k.bits]
    <3> HIDE DEF k, rx, ms
    <3> QED  BY <1>1, <1>3, <2>2, DrainFacts
  <2>5. /\ Last(rx) = current_job /\ current_job # NoJob /\ hand[c].zeros >= hand[c].bits
    BY <1>1, <1>3, <2>2, JobFacts DEF Follows
  <2> HIDE DEF n, r
  <2>6. Follows(current_job, n, hand[c], << >>, r, miner[c])
    BY <2>3, <2>4, <2>5 DEF Follows
  <2> QED  BY <1>1, <1>2, <2>1, <2>3, <2>4, <2>6, SetRow
<1>4. CASE ~ (k.authorized /\ rx # << >>)
  <2> DEFINE n == [k EXCEPT !.pc = "line"]
  <2>1. conn' = [conn EXCEPT ![c] = n] /\ to_miner' = [to_miner EXCEPT ![c] = ms]
    BY <1>1, <1>4, SameRow DEF Drain
  <2>2. n \in Session /\ Follows(current_job, n, hand[c], rx, ms, miner[c])
    BY <1>1, PcChange
  <2>3. n.authorized = k.authorized /\ n.pc = "line"
    BY <1>1 DEF Session
  <2> HIDE DEF n
  <2>4. Follows(current_job, n, hand[c], << >>, ms, miner[c])
    BY <1>4, <2>2, <2>3, Zenon DEF Follows
  <2> QED  BY <1>1, <1>2, <2>1, <2>2, <2>4, SetRow
<1> QED  BY <1>3, <1>4

LEMMA AuthorizeInv == ASSUME StratumInv, NEW c \in Conn, Authorize(c) PROVE StratumInv'
<1> DEFINE j == current_job
           ms == to_miner[c]
           r == ms \o (<<set_difficulty(InitialBits)>> \o NotifyIfAny(j, InitialBits))
           n == [pc |-> "read", authorized |-> TRUE, bits |-> InitialBits,
                 last_job |-> IF j = NoJob THEN conn[c].last_job ELSE j]
<1>1. /\ Follows(j, conn[c], hand[c], job_rx[c], ms, miner[c]) /\ conn[c] \in Session
      /\ hand[c] \in InHand /\ job_rx[c] \in Seq(Job) /\ ms \in Seq(Message)
      /\ miner[c] \in Working /\ conn \in [Conn -> Session] /\ j \in Job \cup {NoJob}
  BY RowFacts DEF Row, StratumTypeOK
<1>2. /\ conn' = [conn EXCEPT ![c] = n] /\ to_miner' = [to_miner EXCEPT ![c] = r]
      /\ UNCHANGED <<tip, poller_vars>>
      /\ hand' = [hand EXCEPT ![c] = hand[c]] /\ miner' = [miner EXCEPT ![c] = miner[c]]
      /\ job_rx' = [job_rx EXCEPT ![c] = job_rx[c]]
      /\ to_pool' \in [Conn -> Seq(FoundShare)] /\ WeightEarned'
  BY <1>1, SameRow, CreditStays DEF Authorize, Send, miner_vars
<1>3. InitialBits \in Nat
  BY StratumAssumption
<1>4. n \in Session /\ n.pc = "read" /\ n.bits = InitialBits
  BY <1>1, <1>3 DEF Session
<1>5. NewWork(r, j, InitialBits, ms, miner[c])
  <2> HIDE DEF j, ms
  <2> QED  BY <1>1, <1>3, ChangeFacts
<1>6. /\ r \in Seq(Message)
      /\ j # NoJob => WorkAfter(r, miner[c]) = [job |-> j, bits |-> InitialBits]
      /\ j = NoJob /\ Notices(ms) = {} => Notices(r) = {} /\ WorkAfter(r, miner[c]) = miner[c]
  BY <1>5 DEF NewWork
<1> HIDE DEF r, n, j
<1>7. /\ job_rx[c] # << >> => Last(job_rx[c]) = j
      /\ j = NoJob => miner[c].job = NoJob /\ Notices(ms) = {}
      /\ hand[c].zeros >= hand[c].bits
  BY <1>1 DEF Follows
<1>8. Follows(j, n, hand[c], job_rx[c], r, miner[c])
  BY <1>4, <1>6, <1>7 DEF Follows
<1> QED  BY <1>1, <1>2, <1>4, <1>6, <1>8, SetRow DEF j

LEMMA DisconnectInv == ASSUME StratumInv, NEW c \in Conn, Disconnect(c) PROVE StratumInv'
<1>1. /\ Follows(current_job, conn[c], hand[c], job_rx[c], to_miner[c], miner[c])
      /\ hand[c] \in InHand /\ to_pool[c] \in Seq(FoundShare) /\ miner[c] \in Working
      /\ to_pool \in [Conn -> Seq(FoundShare)]
  BY RowFacts DEF Row, StratumTypeOK
<1>2. /\ conn' = [conn EXCEPT ![c] = Closed] /\ to_miner' = [to_miner EXCEPT ![c] = << >>]
      /\ UNCHANGED <<tip, poller_vars>>
      /\ hand' = [hand EXCEPT ![c] = hand[c]] /\ miner' = [miner EXCEPT ![c] = miner[c]]
      /\ job_rx' = [job_rx EXCEPT ![c] = << >>] /\ WeightEarned'
  BY SameRow, CreditStays DEF Disconnect
<1>3. PICK gone \in 0 .. Len(to_pool[c]) :
        to_pool' = [to_pool EXCEPT ![c] = SubSeq(@, gone + 1, Len(@))]
  BY DEF Disconnect
<1>4. SubSeq(to_pool[c], gone + 1, Len(to_pool[c])) \in Seq(FoundShare)
  BY <1>1
<1>5. to_pool' \in [Conn -> Seq(FoundShare)]
  BY <1>1, <1>3, <1>4
<1>6. Closed \in Session /\ ~ Closed.authorized /\ Closed.pc = "closed"
  BY DEF Closed, Session
<1>7. Notices(<< >>) = {} /\ << >> \in Seq(Job) /\ << >> \in Seq(Message)
  BY DEF Notices
<1>8. Follows(current_job, Closed, hand[c], << >>, << >>, miner[c])
  BY <1>1, <1>6, <1>7 DEF Follows
<1> QED  BY <1>1, <1>2, <1>5, <1>6, <1>7, <1>8, SetRow

\* A share that counts shows the difficulty it is checked with, and a block is a
\* share of the job it is checked against.
LEMMA JudgeInv == ASSUME StratumInv, NEW c \in Conn, Judge(c) PROVE StratumInv'
<1> DEFINE s == Submission(c)
           p == IF is_block(s) THEN "found" ELSE "count"
           n == [conn[c] EXCEPT !.pc = p]
           h == [job |-> current_job, named |-> s.job, zeros |-> ZerosOf(s),
                 bits |-> conn[c].bits, raw |-> NoJob]
<1>1. /\ Follows(current_job, conn[c], hand[c], job_rx[c], to_miner[c], miner[c])
      /\ conn[c] \in Session /\ job_rx[c] \in Seq(Job) /\ to_miner[c] \in Seq(Message)
      /\ miner[c] \in Working /\ conn \in [Conn -> Session] /\ to_pool[c] \in Seq(FoundShare)
      /\ current_job \in Job \cup {NoJob} /\ hand \in [Conn -> InHand]
  BY RowFacts DEF Row, StratumTypeOK
<1>2. /\ conn' = [conn EXCEPT ![c] = n] /\ hand' = [hand EXCEPT ![c] = h]
      /\ UNCHANGED <<tip, poller_vars>> /\ miner' = [miner EXCEPT ![c] = miner[c]]
      /\ to_miner' = [to_miner EXCEPT ![c] = to_miner[c]]
      /\ job_rx' = [job_rx EXCEPT ![c] = job_rx[c]]
      /\ WeightEarned'
  <2>1. conn' = [conn EXCEPT ![c] = n]
    BY <1>1 DEF Judge
  <2>2. hand' = [hand EXCEPT ![c] = h]
    BY DEF Judge
  <2> HIDE DEF n, h
  <2> QED  BY <2>1, <2>2, SameRow, CreditStays DEF Judge, Takes
<1>3. to_pool[c] # << >> /\ to_pool' \in [Conn -> Seq(FoundShare)]
  <2>1. to_pool[c] # << >> /\ to_pool' = [to_pool EXCEPT ![c] = Tail(@)]
    BY DEF Judge, Takes
  <2> QED  BY <2>1, TailType
<1>4. s \in FoundShare
  BY <1>1, <1>3 DEF Submission
<1>5. current_job \in Job /\ ZerosOf(s) >= conn[c].bits
  BY <1>1 DEF Judge, Refuses, is_share
<1> HIDE DEF s
<1>6. ZerosOf(s) \in Nat /\ s.job \in Job
  BY <1>4 DEF ZerosOf, FoundShare
<1>7. ASSUME is_block(s) PROVE s.job = current_job
  <2>1. Bits[current_job.tip] \in Nat \ {0}
    BY <1>5, JobFacts, StratumAssumption
  <2>2. ZerosOf(s) >= Bits[current_job.tip]
    BY <1>7 DEF is_block, difficulty_bits
  <2>3. ZerosOf(s) # 0
    BY <1>6, <2>1, <2>2
  <2> QED  BY <2>3 DEF ZerosOf
<1>8. n \in Session /\ n.pc = p /\ n.authorized = conn[c].authorized /\ n.bits = conn[c].bits
      /\ p \in {"found", "count"}
  BY <1>1 DEF Session
<1>9. h \in InHand /\ h.zeros >= h.bits /\ (p = "found" => h.named = h.job)
  <2>1. conn[c].bits \in Nat
    BY <1>1 DEF Session
  <2>2. h \in InHand /\ h.zeros = ZerosOf(s) /\ h.bits = conn[c].bits /\ h.named = s.job
        /\ h.job = current_job
    BY <1>5, <1>6, <2>1 DEF InHand
  <2>3. p = "found" => is_block(s)
    OBVIOUS
  <2> HIDE DEF h, p
  <2> QED  BY <1>5, <1>7, <2>2, <2>3
<1> HIDE DEF n, h, p
<1>10. Follows(current_job, n, h, job_rx[c], to_miner[c], miner[c])
  <2>1. n.pc # "closed" /\ n.pc # "submit"
    BY <1>8
  <2> QED  BY <1>1, <1>8, <1>9, <2>1, Zenon DEF Follows
<1> QED  BY <1>1, <1>2, <1>3, <1>8, <1>9, <1>10, SetRow

LEMMA LookUpInv == ASSUME StratumInv, NEW c \in Conn, LookUp(c) PROVE StratumInv'
<1> DEFINE n == [conn[c] EXCEPT !.pc = "submit"]
           h == [hand[c] EXCEPT !.raw = Template(c)]
<1>1. /\ Follows(current_job, conn[c], hand[c], job_rx[c], to_miner[c], miner[c])
      /\ conn[c] \in Session /\ job_rx[c] \in Seq(Job) /\ to_miner[c] \in Seq(Message)
      /\ miner[c] \in Working /\ conn \in [Conn -> Session] /\ hand[c] \in InHand
      /\ hand \in [Conn -> InHand]
  BY RowFacts DEF Row, StratumTypeOK
<1>2. /\ conn' = [conn EXCEPT ![c] = n] /\ hand' = [hand EXCEPT ![c] = h]
      /\ UNCHANGED <<tip, poller_vars>> /\ miner' = [miner EXCEPT ![c] = miner[c]]
      /\ to_miner' = [to_miner EXCEPT ![c] = to_miner[c]]
      /\ job_rx' = [job_rx EXCEPT ![c] = job_rx[c]]
      /\ to_pool' \in [Conn -> Seq(FoundShare)] /\ WeightEarned'
  <2>1. conn' = [conn EXCEPT ![c] = n] /\ hand' = [hand EXCEPT ![c] = h]
    BY <1>1 DEF LookUp
  <2> HIDE DEF n, h
  <2> QED  BY <2>1, SameRow, CreditStays DEF LookUp, miner_vars
<1>3. hand[c].named = hand[c].job /\ hand[c].zeros >= hand[c].bits /\ conn[c].pc = "found"
  BY <1>1 DEF LookUp, Follows
<1>4. Template(c) \in {hand[c].job, NoJob}
  BY <1>3 DEF Template
<1>5. /\ h \in InHand /\ h.raw \in {h.job, NoJob} /\ h.zeros >= h.bits
  BY <1>1, <1>3, <1>4 DEF InHand
<1>6. n \in Session /\ n.pc = "submit" /\ n.authorized = conn[c].authorized /\ n.bits = conn[c].bits
  BY <1>1 DEF Session
<1> HIDE DEF n, h
<1>7. Follows(current_job, n, h, job_rx[c], to_miner[c], miner[c])
  <2>1. n.pc # "closed" /\ n.pc # "found"
    BY <1>6
  <2> QED  BY <1>1, <1>5, <1>6, <2>1, Zenon DEF Follows
<1> QED  BY <1>1, <1>2, <1>5, <1>6, <1>7, SetRow

LEMMA CountInv == ASSUME StratumInv, NEW c \in Conn, Count(c) PROVE StratumInv'
<1> DEFINE j == current_job
           k == conn[c]
           rx == job_rx[c]
           ms == to_miner[c]
           w == miner[c]
<1>1. /\ Follows(j, k, hand[c], rx, ms, w) /\ k \in Session /\ rx \in Seq(Job)
      /\ ms \in Seq(Message) /\ w \in Working /\ conn \in [Conn -> Session]
      /\ hand[c] \in InHand /\ j \in Job \cup {NoJob} /\ k.bits \in Nat
  BY RowFacts DEF Row, StratumTypeOK, Session
<1>2. PICK bits \in NextBits(k.bits) :
        /\ conn' = [conn EXCEPT ![c].pc = "read", ![c].bits = bits]
        /\ credited' = IF hand[c].zeros < difficulty_bits(hand[c].job)
                       THEN credited \cup {hand[c]} ELSE credited
        /\ IF bits # k.bits THEN Send(c, ChangeMsgs(bits)) ELSE UNCHANGED to_miner
  BY DEF Count, Weighed
<1>3. bits \in Nat
  BY <1>1, StratumAssumption DEF NextBits
<1> DEFINE n == [k EXCEPT !.pc = "read", !.bits = bits]
           r == IF bits # k.bits THEN ms \o (<<set_difficulty(bits)>> \o NotifyIfAny(j, bits)) ELSE ms
<1>4. conn' = [conn EXCEPT ![c] = n]
  BY <1>1, <1>2
<1>5. to_miner' = [to_miner EXCEPT ![c] = r]
  BY <1>1, <1>2, SameRow DEF Send, ChangeMsgs
<1>6. hand[c].zeros >= hand[c].bits /\ WeightEarned'
  BY <1>1, <1>2 DEF Follows, StratumInv, WeightEarned
<1>7. /\ hand' = [hand EXCEPT ![c] = NoShare] /\ UNCHANGED <<tip, poller_vars>>
      /\ job_rx' = [job_rx EXCEPT ![c] = rx] /\ miner' = [miner EXCEPT ![c] = w]
      /\ to_pool' \in [Conn -> Seq(FoundShare)]
  BY SameRow DEF Count, miner_vars
<1>8. NoShare \in InHand /\ NoShare.zeros >= NoShare.bits
  BY DEF NoShare, InHand
<1>9. n \in Session /\ n.pc = "read" /\ n.authorized = k.authorized /\ n.bits = bits
  BY <1>1, <1>3 DEF Session
<1> HIDE DEF n
<1>10. CASE bits = k.bits
  <2>1. r = ms
    BY <1>10
  <2> HIDE DEF r, j, k, rx, ms, w
  <2>2. Follows(j, n, NoShare, rx, r, w)
    <3>1. n.pc # "closed" /\ n.pc # "found" /\ n.pc # "submit" /\ n.bits = k.bits
      BY <1>9, <1>10
    <3> QED  BY <1>1, <1>8, <1>9, <2>1, <3>1, Zenon DEF Follows
  <2> QED  BY <1>1, <1>4, <1>5, <1>6, <1>7, <1>8, <1>9, <2>1, <2>2, SetRow DEF j
<1>11. CASE bits # k.bits
  <2>1. r = ms \o (<<set_difficulty(bits)>> \o NotifyIfAny(j, bits))
    BY <1>11
  <2> HIDE DEF r, j, k, rx, ms, w
  <2>2. NewWork(r, j, bits, ms, w)
    BY <1>1, <1>3, <2>1, ChangeFacts
  <2>3. /\ r \in Seq(Message)
        /\ j # NoJob => WorkAfter(r, w) = [job |-> j, bits |-> bits]
        /\ j = NoJob /\ Notices(ms) = {} => Notices(r) = {} /\ WorkAfter(r, w) = w
    BY <2>2 DEF NewWork
  <2>4. /\ rx # << >> => Last(rx) = j
        /\ j = NoJob => w.job = NoJob /\ Notices(ms) = {}
    BY <1>1 DEF Follows
  <2>5. Follows(j, n, NoShare, rx, r, w)
    BY <1>8, <1>9, <2>3, <2>4 DEF Follows
  <2> QED  BY <1>1, <1>4, <1>5, <1>6, <1>7, <1>8, <1>9, <2>3, <2>5, SetRow DEF j
<1> QED  BY <1>10, <1>11

-----------------------------------------------------------------------------
\* Miners

LEMMA ReceiveInv == ASSUME StratumInv, NEW c \in Conn, Receive(c) PROVE StratumInv'
<1> DEFINE ms == to_miner[c]
           w == miner[c]
           t == Tail(ms)
           v == IF Head(ms).method = "notify"
                THEN [job |-> Head(ms).job, bits |-> Head(ms).bits] ELSE w
<1>1. /\ Follows(current_job, conn[c], hand[c], job_rx[c], ms, w) /\ conn[c] \in Session
      /\ hand[c] \in InHand /\ job_rx[c] \in Seq(Job) /\ ms \in Seq(Message)
      /\ w \in Working
  BY RowFacts DEF Row
<1>2. /\ conn' = [conn EXCEPT ![c] = conn[c]] /\ hand' = [hand EXCEPT ![c] = hand[c]]
      /\ job_rx' = [job_rx EXCEPT ![c] = job_rx[c]] /\ UNCHANGED <<tip, poller_vars>>
      /\ to_pool' \in [Conn -> Seq(FoundShare)] /\ WeightEarned' /\ ms # << >>
  BY SameRow, CreditStays DEF Receive
<1>3. to_miner' = [to_miner EXCEPT ![c] = t] /\ miner' = [miner EXCEPT ![c] = v]
  BY DEF Receive
<1>4. Head(ms) \in Message
  BY <1>1, <1>2
<1>5. v \in Working
  BY <1>1, <1>4 DEF Message, Working
<1>6. /\ t \in Seq(Message) /\ WorkAfter(t, v) = WorkAfter(ms, w)
      /\ Notices(ms) = {} => Notices(t) = {} /\ v = w
  <2> HIDE DEF ms, w
  <2> QED  BY <1>1, <1>2, ReceiveFacts
<1> HIDE DEF ms, w, t, v
<1>7. Follows(current_job, conn[c], hand[c], job_rx[c], t, v)
  BY <1>1, <1>6, Zenon DEF Follows
<1> QED  BY <1>1, <1>2, <1>3, <1>5, <1>6, <1>7, SetRow

LEMMA FindShareInv ==
  ASSUME StratumInv, NEW c \in Conn, NEW z \in Zeros, FindShare(c, z)
  PROVE  StratumInv'
<1>1. /\ UNCHANGED <<current_job, conn, hand, job_rx, to_miner, miner>>
      /\ UNCHANGED <<tip, fetched, last_height, job_template_cache, credited>>
      /\ to_pool' = [to_pool EXCEPT ![c] = Append(@, [job |-> miner[c].job, zeros |-> z])]
      /\ miner[c].job # NoJob
  BY DEF FindShare, poller_vars
<1>2. miner[c].job \in Job /\ z \in Nat
  BY <1>1, RowFacts, StratumAssumption DEF Working
<1>3. Append(to_pool[c], [job |-> miner[c].job, zeros |-> z]) \in Seq(FoundShare)
  <2>1. [job |-> miner[c].job, zeros |-> z] \in FoundShare
    BY <1>2 DEF FoundShare
  <2> QED  BY <2>1, RowFacts
<1>4. to_pool' \in [Conn -> Seq(FoundShare)]
  BY <1>1, <1>3 DEF StratumInv, StratumTypeOK
<1>5. StratumTypeOK' /\ WeightEarned'
  BY <1>1, <1>4 DEF StratumInv, StratumTypeOK, WeightEarned
<1> QED  BY <1>1, <1>5, RowsUnchanged

-----------------------------------------------------------------------------
\* Theorems

LEMMA StratumNextInv == StratumInv /\ [StratumNext]_stratum_vars => StratumInv'
<1> SUFFICES ASSUME StratumInv, [StratumNext]_stratum_vars PROVE StratumInv'
  OBVIOUS
<1>1. CASE UNCHANGED stratum_vars
  BY <1>1 DEF stratum_vars, StratumInv, StratumTypeOK, WeightEarned
<1>2. CASE StratumNext
  BY <1>2, NodeMovesInv, PollFetchInv, PollPublishInv, PollNothingNewInv, AcceptInv, DrainInv,
     NoLineInv, AuthorizeInv, DisconnectInv, RejectInv, JudgeInv, LookUpInv, SubmitFoundInv,
     CountInv, ReceiveInv, FindShareInv, LineTornInv DEF StratumNext
<1> QED  BY <1>1, <1>2

\* The inductive invariant holds in every reachable state.
THEOREM StratumInvariant == StratumSpec => []StratumInv
BY StratumInitInv, StratumNextInv, PTL DEF StratumSpec

\* The server, its channels and its miners keep their types, for any number of
\* connections.
THEOREM StratumTypeCorrect == StratumSpec => []StratumTypeOK
<1>1. StratumInv => StratumTypeOK
  BY DEF StratumInv
<1> QED  BY <1>1, StratumInvariant, PTL

\* A block is submitted with the template its nonce was checked against, or with
\* none, although the job may change between the check and the lookup
\* (mining.submit).
THEOREM BlocksSubmittedAsMined == StratumSpec => []SubmittedAsMined
<1>1. StratumInv => SubmittedAsMined
  BY DEF StratumInv, Follows, SubmittedAsMined
<1> QED  BY <1>1, StratumInvariant, PTL

\* Every share in the payout window shows the difficulty it is weighed with
\* (mining.submit and its vardiff).
THEOREM SharesEarnWeight == StratumSpec => []WeightEarned
<1>1. StratumInv => WeightEarned
  BY DEF StratumInv
<1> QED  BY <1>1, StratumInvariant, PTL

\* When everything under way has arrived an authorised miner works on the current
\* job, however the channel, mining.authorize and vardiff interleave
\* (handle_stratum_conn).
THEOREM MinersEndOnCurrent == StratumSpec => []EndsOnCurrent
<1>1. StratumInv => EndsOnCurrent
  <2> SUFFICES ASSUME StratumInv, NEW c \in Conn, conn[c].authorized
               PROVE  current_job = IF job_rx[c] # << >> THEN Last(job_rx[c])
                                    ELSE WorkAfter(to_miner[c], miner[c]).job
    BY DEF EndsOnCurrent
  <2>1. Row(c)
    BY RowFacts
  <2> QED  BY <2>1 DEF Row, Follows
<1> QED  BY <1>1, StratumInvariant, PTL

\* When everything under way has arrived, the miner's difficulty is its session's
\* (handle_stratum_conn).
THEOREM DifficultiesAgree == StratumSpec => []DifficultyAgreed
<1>1. StratumInv => DifficultyAgreed
  <2> SUFFICES ASSUME StratumInv, NEW c \in Conn,
                      conn[c].authorized /\ current_job # NoJob /\ job_rx[c] = << >>
               PROVE  conn[c].bits = WorkAfter(to_miner[c], miner[c]).bits
    BY DEF DifficultyAgreed
  <2>1. Row(c)
    BY RowFacts
  <2> QED  BY <2>1 DEF Row, Follows
<1> QED  BY <1>1, StratumInvariant, PTL
=============================================================================
