---------------------------- MODULE WalletProofs ----------------------------
(***************************************************************************)
(* Proofs about Wallet, for every ledger the wallets may start from: what  *)
(* the commands build is balanced and signed so that the node refuses it   *)
(* only when it was overtaken, a confirmed sale pays and delivers what was *)
(* agreed, and no interruption loses a key.                                *)
(*                                                                         *)
(* The inductive invariant is WalletInv.  Coins are never forgotten, so    *)
(* what was Sound when it was built stays Sound (lemma SoundStays), and a  *)
(* command is a lemma about the transaction it builds.                     *)
(***************************************************************************)
EXTENDS Wallet, RecursionProofs, SequenceTheorems

-----------------------------------------------------------------------------
\* Wallet files

\* One wallet's file changes, into one that is still all right.
LEMMA KeyChange ==
  ASSUME KeysInv, NEW p \in Address, NEW k \in KeyType, KeyOK(k), key' = [key EXCEPT ![p] = k]
  PROVE  KeysInv'
<1>1. key \in [Address -> KeyType] /\ \A q \in Address : KeyOK(key[q])
  BY DEF KeysInv
<1>2. key' \in [Address -> KeyType]
  BY <1>1
<1>3. ASSUME NEW q \in Address PROVE KeyOK(key'[q])
  <2>1. CASE q = p
    BY <1>1, <2>1
  <2>2. CASE q # p
    BY <1>1, <2>2
  <2> QED  BY <2>1, <2>2
<1> QED  BY <1>2, <1>3 DEF KeysInv

LEMMA KeysKept ==
  ASSUME KeysInv, KeyCommands
  PROVE  KeysInv'
<1>1. key \in [Address -> KeyType] /\ \A q \in Address : KeyOK(key[q])
  BY DEF KeysInv
<1>2. PICK p \in Address :
        \/ \E pass \in Pass : KeyCreate(p, pass) \/ RekeyBackup(p, pass)
        \/ RekeyTruncate(p) \/ KeyWritten(p) \/ KeyCrash(p)
  BY DEF KeyCommands
<1> DEFINE k == key[p]
<1>3. k \in KeyType /\ KeyOK(k)
  BY <1>1
<1>4. ASSUME NEW pass \in Pass, KeyCreate(p, pass) PROVE KeysInv'
  <2> DEFINE n == [k EXCEPT !.file = "torn", !.doing = <<"writing", pass>>]
  <2>1. key' = [key EXCEPT ![p] = n] /\ k.file = "absent"
    BY <1>4 DEF KeyCreate, KeyStep
  <2>2. n \in KeyType /\ KeyOK(n)
    BY <1>3, <2>1 DEF KeyType, KeyOK, Readable, Pass
  <2> QED  BY <2>1, <2>2, KeyChange
<1>5. ASSUME NEW pass \in Pass, RekeyBackup(p, pass) PROVE KeysInv'
  <2>1. PICK kept \in {k.backups, {}} :
          key' = [key EXCEPT ![p] = [k EXCEPT !.backups = kept \cup {k.file},
                                              !.doing = <<"backed up", pass>>]]
    BY <1>5 DEF RekeyBackup, KeyStep
  <2> DEFINE n == [k EXCEPT !.backups = kept \cup {k.file}, !.doing = <<"backed up", pass>>]
  <2>2. k.file \in Pass
    BY <1>5 DEF RekeyBackup, Readable
  <2>3. n \in KeyType /\ KeyOK(n)
    BY <1>3, <2>2 DEF KeyType, KeyOK
  <2> QED  BY <2>1, <2>3, KeyChange
<1>6. CASE RekeyTruncate(p)
  <2> DEFINE n == [k EXCEPT !.file = "torn", !.doing = <<"writing", @[2]>>]
  <2>1. key' = [key EXCEPT ![p] = n] /\ k.doing[1] = "backed up"
    BY <1>6 DEF RekeyTruncate, KeyStep
  <2>2. k.doing \in {"backed up", "writing"} \X Pass
    <3>1. k.doing \in {Idle} \cup ({"backed up", "writing"} \X Pass)
      BY <1>3 DEF KeyType
    <3>2. Idle[1] = "idle"
      BY DEF Idle
    <3> QED  BY <2>1, <3>1, <3>2
  <2>3. k.doing[2] \in Pass
    BY <2>2
  <2>4. k.backups # {}
    BY <1>3, <2>1 DEF KeyOK
  <2>5. n \in KeyType /\ n.backups # {}
    <3>1. <<"writing", k.doing[2]>> \in {Idle} \cup ({"backed up", "writing"} \X Pass)
      BY <2>3
    <3> QED  BY <1>3, <2>4, <3>1 DEF KeyType
  <2>6. KeyOK(n)
    BY <2>5 DEF KeyOK
  <2> QED  BY <2>1, <2>5, <2>6, KeyChange
<1>7. CASE KeyWritten(p)
  <2> DEFINE n == [k EXCEPT !.file = k.doing[2], !.doing = Idle, !.shown = TRUE]
  <2>1. key' = [key EXCEPT ![p] = n] /\ k.doing[1] = "writing"
    BY <1>7 DEF KeyWritten, KeyStep
  <2>2. k.doing[2] \in Pass
    <3>1. k.doing \in {Idle} \cup ({"backed up", "writing"} \X Pass)
      BY <1>3 DEF KeyType
    <3>2. Idle[1] = "idle"
      BY DEF Idle
    <3> QED  BY <2>1, <3>1, <3>2
  <2>3. n \in KeyType /\ KeyOK(n)
    BY <1>3, <2>2 DEF KeyType, KeyOK, Readable, Idle
  <2> QED  BY <2>1, <2>3, KeyChange
<1>8. CASE KeyCrash(p)
  <2> DEFINE n == [k EXCEPT !.doing = Idle]
  <2>1. key' = [key EXCEPT ![p] = n]
    BY <1>8 DEF KeyCrash, KeyStep
  <2>2. n \in KeyType /\ KeyOK(n)
    BY <1>3 DEF KeyType, KeyOK, Idle
  <2> QED  BY <2>1, <2>2, KeyChange
<1> QED  BY <1>2, <1>4, <1>5, <1>6, <1>7, <1>8

LEMMA KeysReadable ==
  ASSUME KeysInv
  PROVE  KeyRecoverable
<1> SUFFICES ASSUME NEW p \in Address, key[p].shown
             PROVE  \E content \in key[p].backups \cup {key[p].file} : Readable(content)
  BY DEF KeyRecoverable
<1>1. key[p] \in KeyType /\ KeyOK(key[p])
  BY DEF KeysInv
<1>2. key[p].backups \subseteq Pass
  BY <1>1 DEF KeyType
<1> QED  BY <1>1, <1>2, Zenon DEF KeyOK, Readable

-----------------------------------------------------------------------------
\* Sums along sequences

\* e lists the m numbers of f and then the n numbers of g.
Joins(e, f, m, g, n) ==
  /\ \A i \in 1 .. m : f[i] \in Nat
  /\ \A i \in 1 .. n : g[i] \in Nat
  /\ \A i \in 1 .. m + n : e[i] = IF i <= m THEN f[i] ELSE g[i - m]

LEMMA ConcatSum ==
  ASSUME NEW m \in Nat, NEW n \in Nat, NEW e, NEW f, NEW g, Joins(e, f, m, g, n)
  PROVE  /\ SumFunctionOnSet(e, 1 .. m + n)
              = SumFunctionOnSet(f, 1 .. m) + SumFunctionOnSet(g, 1 .. n)
         /\ SumFunctionOnSet(f, 1 .. m) \in Nat /\ SumFunctionOnSet(g, 1 .. n) \in Nat
<1> DEFINE A == 1 .. m
           B == m + 1 .. m + n
           D == 1 .. n
           shift == [i \in D |-> i + m]
<1> USE DEF Joins
<1>1. IsFiniteSet(A) /\ IsFiniteSet(B) /\ IsFiniteSet(D)
  BY FS_Interval
<1>2. A \cap B = {} /\ A \cup B = 1 .. m + n
  OBVIOUS
<1>3. \A i \in A : e[i] = f[i] /\ f[i] \in Nat
  OBVIOUS
<1>4. \A i \in D : shift[i] \in B /\ shift[i] = i + m /\ e[i + m] = g[i] /\ g[i] \in Nat
  <2> SUFFICES ASSUME NEW i \in D PROVE i + m \in B /\ e[i + m] = g[i] /\ g[i] \in Nat
    OBVIOUS
  <2>1. i + m \in 1 .. m + n /\ ~ (i + m <= m) /\ (i + m) - m = i
    OBVIOUS
  <2> QED  BY <2>1
<1>5. Values(shift, D) = B
  <2>1. \A j \in B : j - m \in D /\ shift[j - m] = j
    OBVIOUS
  <2> HIDE DEF shift
  <2> QED  BY <1>4, <2>1 DEF Values
<1>6. PullsBack(g, e, shift, D)
  <2>1. \A i, j \in D : shift[i] = shift[j] => i = j
    OBVIOUS
  <2> HIDE DEF shift
  <2> QED  BY <1>4, <2>1 DEF PullsBack
<1>7. \A i \in B : e[i] \in Nat
  <2> SUFFICES ASSUME NEW i \in B PROVE e[i] \in Nat
    OBVIOUS
  <2>1. i \in 1 .. m + n /\ ~ (i <= m) /\ i - m \in 1 .. n
    OBVIOUS
  <2> QED  BY <2>1
<1> HIDE DEF A, B, D, shift
<1>8. SumFunctionOnSet(e, B) = SumFunctionOnSet(g, D) /\ SumFunctionOnSet(e, B) \in Nat
  BY <1>1, <1>5, <1>6, SumImage
<1>9. SumFunctionOnSet(e, A) = SumFunctionOnSet(f, A)
  <2>1. \A i \in A : e[i] \in Int /\ e[i] = f[i]
    BY <1>3
  <2> QED  BY <1>1, <2>1, SumAgree
<1>10. SumFunctionOnSet(f, A) \in Nat
  BY <1>1, <1>3, SumOfNat
<1>11. SumFunctionOnSet(e, A \cup B) = SumFunctionOnSet(e, A) + SumFunctionOnSet(e, B)
  <2>1. \A i \in A \cup B : e[i] \in Int
    BY <1>3, <1>7
  <2> QED  BY <1>1, <1>2, <2>1, SumUnion
<1> QED  BY <1>2, <1>8, <1>9, <1>10, <1>11 DEF A, D

LEMMA SumOfOne ==
  ASSUME NEW x, NEW f, f[x] \in Int
  PROVE  SumFunctionOnSet(f, {x}) = f[x]
<1>1. IsFiniteSet({x}) /\ {x} \ {x} = {}
  BY FS_Singleton
<1>2. SumFunctionOnSet(f, {x}) = f[x] + SumFunctionOnSet(f, {x} \ {x})
  BY <1>1, SumRemove
<1> QED  BY <1>1, <1>2, SumOfNone

\* A sum of equal terms.
LEMMA SumOfEqual ==
  ASSUME NEW S, IsFiniteSet(S), NEW c \in Nat, NEW f, \A x \in S : f[x] = c
  PROVE  SumFunctionOnSet(f, S) = Cardinality(S) * c
<1> DEFINE G == {s \in SUBSET S : SumFunctionOnSet(f, s) = Cardinality(s) * c}
<1>1. {} \in G
  <2>1. Cardinality({}) = 0
    BY FS_EmptySet
  <2> QED  BY <2>1, SumOfNone
<1>2. ASSUME NEW s \in SUBSET S, NEW x \in s, s \ {x} \in G PROVE s \in G
  <2>1. IsFiniteSet(s) /\ \A y \in s : f[y] \in Int
    BY FS_Subset
  <2>2. SumFunctionOnSet(f, s) = f[x] + SumFunctionOnSet(f, s \ {x})
    BY <2>1, SumRemove
  <2>3. Cardinality(s) \in Nat \ {0} /\ Cardinality(s \ {x}) = Cardinality(s) - 1
    BY <2>1, SmallerSubset
  <2>4. f[x] = c /\ SumFunctionOnSet(f, s \ {x}) = Cardinality(s \ {x}) * c
    BY <1>2
  <2>5. ASSUME NEW k \in Nat PROVE c + (k - 1) * c = k * c
    OBVIOUS
  <2>6. c + (Cardinality(s) - 1) * c = Cardinality(s) * c
    BY <2>3, <2>5
  <2> QED  BY <2>2, <2>3, <2>4, <2>6
<1>3. \A s \in SUBSET S : s \in G
  <2> HIDE DEF G
  <2> QED  BY <1>1, <1>2, SubsetInduction
<1> QED  BY <1>3

-----------------------------------------------------------------------------
\* Outputs

\* What outs pay to a.
Paid(a, outs) ==
  SumFunction([i \in DOMAIN outs |-> IF outs[i].lock = P2pkh(a) THEN outs[i].value ELSE 0])

LEMMA OutputsFacts ==
  ASSUME NEW outs, AreOutputs(outs), NEW a
  PROVE  /\ Len(outs) \in Nat /\ DOMAIN outs = 1 .. Len(outs) /\ IsFiniteSet(DOMAIN outs)
         /\ \A i \in DOMAIN outs : outs[i].value \in Nat
         /\ Total(outs) \in Nat /\ Paid(a, outs) \in Nat
<1>1. Len(outs) \in Nat /\ DOMAIN outs = 1 .. Len(outs) /\ IsFiniteSet(DOMAIN outs)
  BY FS_Interval DEF AreOutputs
<1>2. \A i \in DOMAIN outs : outs[i].value \in Nat
  BY DEF AreOutputs, IsOutput
<1> DEFINE f == [i \in DOMAIN outs |-> outs[i].value]
           g == [i \in DOMAIN outs |-> IF outs[i].lock = P2pkh(a) THEN outs[i].value ELSE 0]
<1>3. DOMAIN f = DOMAIN outs /\ DOMAIN g = DOMAIN outs
  OBVIOUS
<1>4. \A i \in DOMAIN outs : f[i] \in Nat /\ g[i] \in Nat
  BY <1>2
<1>5. Total(outs) = SumFunctionOnSet(f, DOMAIN outs)
  BY <1>3 DEF Total, SumFunction
<1>6. Paid(a, outs) = SumFunctionOnSet(g, DOMAIN outs)
  BY <1>3 DEF Paid, SumFunction
<1> HIDE DEF f, g
<1>7. SumFunctionOnSet(f, DOMAIN outs) \in Nat /\ SumFunctionOnSet(g, DOMAIN outs) \in Nat
  BY <1>1, <1>4, SumOfNat
<1> QED  BY <1>1, <1>2, <1>5, <1>6, <1>7

LEMMA OutputsConcat ==
  ASSUME NEW s, NEW t, AreOutputs(s), AreOutputs(t), NEW a
  PROVE  /\ AreOutputs(s \o t) /\ Len(s \o t) = Len(s) + Len(t)
         /\ \A i \in 1 .. Len(s) + Len(t) :
              (s \o t)[i] = IF i <= Len(s) THEN s[i] ELSE t[i - Len(s)]
         /\ Total(s \o t) = Total(s) + Total(t)
         /\ Paid(a, s \o t) = Paid(a, s) + Paid(a, t)
<1> DEFINE m == Len(s)
           n == Len(t)
           st == s \o t
<1>1. m \in Nat /\ n \in Nat /\ DOMAIN s = 1 .. m /\ DOMAIN t = 1 .. n
  BY OutputsFacts
<1>2. st \in Seq(ToSet(s) \cup ToSet(t)) /\ Len(st) = m + n
      /\ \A i \in 1 .. m + n : st[i] = IF i <= m THEN s[i] ELSE t[i - m]
  <2>1. s \in Seq(ToSet(s) \cup ToSet(t)) /\ t \in Seq(ToSet(s) \cup ToSet(t))
    BY DEF AreOutputs
  <2> QED  BY <2>1, ConcatProperties
<1>3. DOMAIN st = 1 .. m + n
  BY <1>2
<1>4. \A i \in 1 .. m + n : i <= m => i \in DOMAIN s
  BY <1>1
<1>5. \A i \in 1 .. m + n : ~ (i <= m) => i - m \in DOMAIN t
  BY <1>1
<1> HIDE DEF st, m, n
<1>6. AreOutputs(st)
  <2>1. \A i \in DOMAIN st : IsOutput(st[i])
    BY <1>2, <1>3, <1>4, <1>5 DEF AreOutputs
  <2>2. st \in Seq(ToSet(st))
    <3>1. st = [i \in 1 .. m + n |-> st[i]] /\ \A i \in 1 .. m + n : st[i] \in ToSet(st)
      BY <1>2, <1>3 DEF ToSet
    <3> HIDE DEF ToSet
    <3>2. m + n \in Nat
      BY <1>1
    <3> QED  BY <3>1, <3>2
  <2> QED  BY <2>1, <2>2 DEF AreOutputs
<1>7. Total(st) = Total(s) + Total(t)
  <2> DEFINE f == [i \in DOMAIN s |-> s[i].value]
             g == [i \in DOMAIN t |-> t[i].value]
             e == [i \in DOMAIN st |-> st[i].value]
  <2>1. (\A i \in 1 .. m : f[i] \in Nat) /\ (\A i \in 1 .. n : g[i] \in Nat)
    BY <1>1, OutputsFacts
  <2>2. \A i \in 1 .. m + n : e[i] = IF i <= m THEN f[i] ELSE g[i - m]
    BY <1>2, <1>3, <1>4, <1>5
  <2>3. DOMAIN f = 1 .. m /\ DOMAIN g = 1 .. n /\ DOMAIN e = 1 .. m + n
    BY <1>1, <1>3
  <2>4. Total(s) = SumFunction(f) /\ Total(t) = SumFunction(g) /\ Total(st) = SumFunction(e)
    BY DEF Total
  <2> HIDE DEF f, g, e
  <2>6. Joins(e, f, m, g, n)
    BY <2>1, <2>2 DEF Joins
  <2>5. SumFunctionOnSet(e, 1 .. m + n)
          = SumFunctionOnSet(f, 1 .. m) + SumFunctionOnSet(g, 1 .. n)
    BY <1>1, <2>6, ConcatSum
  <2> QED  BY <2>3, <2>4, <2>5 DEF SumFunction
<1>8. Paid(a, st) = Paid(a, s) + Paid(a, t)
  <2> DEFINE to == P2pkh(a)
             f == [i \in DOMAIN s |-> IF s[i].lock = to THEN s[i].value ELSE 0]
             g == [i \in DOMAIN t |-> IF t[i].lock = to THEN t[i].value ELSE 0]
             e == [i \in DOMAIN st |-> IF st[i].lock = to THEN st[i].value ELSE 0]
  <2>4. Paid(a, s) = SumFunction(f) /\ Paid(a, t) = SumFunction(g) /\ Paid(a, st) = SumFunction(e)
    BY DEF Paid
  <2> HIDE DEF to
  <2>1. (\A i \in 1 .. m : f[i] \in Nat) /\ (\A i \in 1 .. n : g[i] \in Nat)
    BY <1>1, OutputsFacts
  <2>2. \A i \in 1 .. m + n : e[i] = IF i <= m THEN f[i] ELSE g[i - m]
    BY <1>2, <1>3, <1>4, <1>5
  <2>3. DOMAIN f = 1 .. m /\ DOMAIN g = 1 .. n /\ DOMAIN e = 1 .. m + n
    BY <1>1, <1>3
  <2> HIDE DEF f, g, e
  <2>6. Joins(e, f, m, g, n)
    BY <2>1, <2>2 DEF Joins
  <2>5. SumFunctionOnSet(e, 1 .. m + n)
          = SumFunctionOnSet(f, 1 .. m) + SumFunctionOnSet(g, 1 .. n)
    BY <1>1, <2>6, ConcatSum
  <2> QED  BY <2>3, <2>4, <2>5 DEF SumFunction
<1> QED  BY <1>2, <1>6, <1>7, <1>8 DEF st, m, n

\* A single output.
LEMMA OneOutput ==
  ASSUME NEW o, IsOutput(o), NEW a
  PROVE  /\ AreOutputs(<<o>>) /\ Total(<<o>>) = o.value
         /\ Paid(a, <<o>>) = IF o.lock = P2pkh(a) THEN o.value ELSE 0
<1> DEFINE s == <<o>>
           to == P2pkh(a)
           f == [i \in DOMAIN s |-> s[i].value]
           g == [i \in DOMAIN s |-> IF s[i].lock = to THEN s[i].value ELSE 0]
<1>1. DOMAIN s = {1} /\ s[1] = o /\ o.value \in Nat
  BY DEF IsOutput
<1>2. AreOutputs(s)
  BY <1>1 DEF AreOutputs, ToSet
<1>3. Total(s) = SumFunction(f) /\ Paid(a, s) = SumFunction(g)
  BY DEF Total, Paid
<1> HIDE DEF to
<1>4. /\ DOMAIN f = {1} /\ DOMAIN g = {1} /\ f[1] = o.value
      /\ g[1] = IF o.lock = to THEN o.value ELSE 0
  BY <1>1
<1> HIDE DEF f, g
<1>5. SumFunction(f) = f[1] /\ SumFunction(g) = g[1]
  <2>1. f[1] \in Int /\ g[1] \in Int
    BY <1>1, <1>4
  <2> QED  BY <1>4, <2>1, SumOfOne DEF SumFunction
<1> QED  BY <1>2, <1>3, <1>4, <1>5 DEF to

LEMMA NoOutput ==
  ASSUME NEW a
  PROVE  AreOutputs(<< >>) /\ Total(<< >>) = 0 /\ Paid(a, << >>) = 0
<1> DEFINE s == << >>
           f == [i \in DOMAIN s |-> s[i].value]
           g == [i \in DOMAIN s |-> IF s[i].lock = P2pkh(a) THEN s[i].value ELSE 0]
<1>1. DOMAIN s = {} /\ DOMAIN f = {} /\ DOMAIN g = {}
  OBVIOUS
<1>2. AreOutputs(s)
  BY <1>1 DEF AreOutputs
<1>3. Total(s) = SumFunction(f) /\ Paid(a, s) = SumFunction(g)
  BY DEF Total, Paid
<1> HIDE DEF f, g
<1> QED  BY <1>1, <1>2, <1>3, SumOfNone DEF SumFunction

LEMMA PayFacts ==
  ASSUME NEW b, NEW v \in Nat, NEW a
  PROVE  /\ AreOutputs(<<Pay(b, v)>>) /\ Total(<<Pay(b, v)>>) = v
         /\ Paid(a, <<Pay(b, v)>>) = IF a = b THEN v ELSE 0
<1>1. /\ Pay(b, v).value = v /\ Pay(b, v).lock = P2pkh(b) /\ IsOp(Pay(b, v).op)
  BY DEF Pay, IsOp
<1>2. IsLock(P2pkh(b)) /\ (P2pkh(b) = P2pkh(a) <=> a = b)
  BY DEF IsLock, P2pkh
<1>3. IsOutput(Pay(b, v))
  BY <1>1, <1>2 DEF IsOutput
<1> HIDE DEF Pay, P2pkh
<1> QED  BY <1>1, <1>2, <1>3, OneOutput

LEMMA PayIfAnyFacts ==
  ASSUME NEW b, NEW v \in Nat, NEW a
  PROVE  /\ AreOutputs(PayIfAny(b, v)) /\ Total(PayIfAny(b, v)) = v
         /\ Paid(a, PayIfAny(b, v)) = IF a = b THEN v ELSE 0
<1>1. CASE v > 0
  BY <1>1, PayFacts DEF PayIfAny
<1>2. CASE ~ (v > 0)
  BY <1>2, NoOutput DEF PayIfAny
<1> QED  BY <1>1, <1>2

LEMMA DataFacts ==
  ASSUME NEW op, IsOp(op), NEW a
  PROVE  /\ AreOutputs(<<Data(op)>>) /\ Total(<<Data(op)>>) = 0 /\ Paid(a, <<Data(op)>>) = 0
<1>1. Data(op).value = 0 /\ Data(op).lock = DataLock /\ Data(op).op = op
  BY DEF Data
<1>2. IsLock(DataLock) /\ DataLock # P2pkh(a)
  BY DEF IsLock, DataLock, P2pkh
<1>3. IsOutput(Data(op))
  BY <1>1, <1>2 DEF IsOutput
<1> HIDE DEF Data
<1> QED  BY <1>1, <1>2, <1>3, OneOutput

-----------------------------------------------------------------------------
\* Inputs

LEMMA Chosen ==
  ASSUME NEW S, IsFiniteSet(S)
  PROVE  /\ SetToSeq(S) \in Seq(S) /\ IsInjective(SetToSeq(S)) /\ ToSet(SetToSeq(S)) = S
         /\ IsFiniteSet(DOMAIN SetToSeq(S))
<1> DEFINE n == Cardinality(S)
           D == 1 .. n
           s == SetToSeq(S)
<1>1. n \in Nat /\ ExistsBijection(D, S)
  BY FS_CardinalityType
<1>2. \E f \in [D -> S] : IsInjective(f)
  BY <1>1 DEF ExistsBijection, Bijection, Injection
<1>3. s \in [D -> S] /\ IsInjective(s)
  BY <1>2, Zenon DEF SetToSeq
<1> HIDE DEF n, s
<1>4. IsFiniteSet(D) /\ Cardinality(D) = n
  BY <1>1, FS_Interval
<1>5. s \in Injection(D, S)
  BY <1>3 DEF Injection
<1>6. s \in Surjection(D, S)
  <2> HIDE DEF D
  <2> QED  BY <1>4, <1>5, FS_Injection DEF n
<1>7. ToSet(s) = S
  BY <1>3, <1>6 DEF Surjection, ToSet
<1>8. s \in Seq(S)
  BY <1>1, <1>3
<1> QED  BY <1>3, <1>4, <1>7, <1>8 DEF s

\* The value of the coins ins, by position.
Worth(ins) == SumFunction([i \in DOMAIN ins |-> coins[ins[i]].value])

LEMMA CoinFacts ==
  ASSUME LedgerInv
  PROVE  /\ height \in Nat /\ IsFiniteSet(DOMAIN coins)
         /\ \A o \in DOMAIN coins : /\ coins[o].value \in Nat /\ coins[o].height \in 0 .. height
                                    /\ IsLock(coins[o].lock) /\ o \in (0 .. height) \X Nat
BY DEF LedgerInv, IsLedger

LEMMA ChosenCoins ==
  ASSUME LedgerInv, NEW S \in SUBSET DOMAIN coins
  PROVE  /\ SetToSeq(S) \in Seq(DOMAIN coins) /\ ToSet(SetToSeq(S)) = S
         /\ IsInjective(SetToSeq(S))
         /\ Worth(SetToSeq(S)) = ValueOf(S) /\ ValueOf(S) \in Nat
<1> DEFINE s == SetToSeq(S)
           D == DOMAIN s
           f == [o \in S |-> coins[o].value]
           g == [i \in D |-> coins[s[i]].value]
<1>1. IsFiniteSet(S)
  BY CoinFacts, FS_Subset
<1>2. s \in Seq(S) /\ IsInjective(s) /\ ToSet(s) = S /\ IsFiniteSet(D)
  BY <1>1, Chosen
<1>3. Values(s, D) = S
  BY <1>2 DEF ToSet, Values
<1>4. \A i \in D : s[i] \in S
  BY <1>2
<1>5. \A o \in S : coins[o].value \in Nat
  BY CoinFacts
<1>6. PullsBack(g, f, s, D)
  BY <1>2, <1>4, <1>5 DEF PullsBack, IsInjective
<1>7. ValueOf(S) = SumFunctionOnSet(f, S) /\ Worth(s) = SumFunctionOnSet(g, D)
  <2>1. DOMAIN f = S /\ DOMAIN g = D
    OBVIOUS
  <2> QED  BY <2>1 DEF ValueOf, Worth, SumFunction
<1> HIDE DEF f, g
<1>8. SumFunctionOnSet(f, S) = SumFunctionOnSet(g, D) /\ SumFunctionOnSet(f, S) \in Nat
  <2> HIDE DEF s, D
  <2> QED  BY <1>2, <1>3, <1>6, SumImage
<1>9. s \in Seq(DOMAIN coins)
  BY <1>2
<1> QED  BY <1>2, <1>7, <1>8, <1>9

LEMMA WorthOfConcat ==
  ASSUME LedgerInv, NEW c \in DOMAIN coins, NEW s \in Seq(DOMAIN coins)
  PROVE  /\ Worth(<<c>> \o s) = coins[c].value + Worth(s)
         /\ <<c>> \o s \in Seq(DOMAIN coins) /\ (<<c>> \o s)[1] = c /\ <<c>> \o s # << >>
         /\ \A i \in DOMAIN (<<c>> \o s) \ {1} : i - 1 \in DOMAIN s /\ (<<c>> \o s)[i] = s[i - 1]
<1> DEFINE n == Len(s)
           cs == <<c>> \o s
           f == [i \in 1 .. 1 |-> coins[c].value]
           g == [i \in DOMAIN s |-> coins[s[i]].value]
           e == [i \in DOMAIN cs |-> coins[cs[i]].value]
<1>1. n \in Nat /\ DOMAIN s = 1 .. n /\ \A i \in 1 .. n : s[i] \in DOMAIN coins
  OBVIOUS
<1>2. <<c>> \in Seq(DOMAIN coins) /\ Len(<<c>>) = 1 /\ <<c>>[1] = c
  OBVIOUS
<1>3. /\ cs \in Seq(DOMAIN coins) /\ Len(cs) = 1 + n
      /\ \A i \in 1 .. 1 + n : cs[i] = IF i <= 1 THEN <<c>>[i] ELSE s[i - 1]
  BY <1>2, ConcatProperties
<1>4. DOMAIN cs = 1 .. 1 + n
  BY <1>3
<1> HIDE DEF cs, n
<1>5. cs[1] = c /\ \A i \in 1 .. 1 + n : i # 1 => i - 1 \in 1 .. n /\ cs[i] = s[i - 1]
  BY <1>1, <1>2, <1>3
<1>6. Joins(e, f, 1, g, n)
  <2>1. \A i \in 1 .. 1 : f[i] \in Nat
    BY CoinFacts
  <2>2. \A i \in 1 .. n : g[i] \in Nat
    BY <1>1, CoinFacts
  <2>3. ASSUME NEW i \in 1 .. 1 + n PROVE e[i] = IF i <= 1 THEN f[i] ELSE g[i - 1]
    <3>1. CASE i = 1
      BY <1>4, <1>5, <3>1
    <3>2. CASE i # 1
      BY <1>1, <1>4, <1>5, <3>2
    <3> QED  BY <3>1, <3>2
  <2> HIDE DEF e, f, g
  <2> QED  BY <2>1, <2>2, <2>3 DEF Joins
<1>7. Worth(cs) = SumFunctionOnSet(e, 1 .. 1 + n) /\ Worth(s) = SumFunctionOnSet(g, 1 .. n)
  <2>1. DOMAIN e = 1 .. 1 + n /\ DOMAIN g = 1 .. n
    BY <1>1, <1>4
  <2> QED  BY <2>1 DEF Worth, SumFunction
<1>8. SumFunctionOnSet(f, 1 .. 1) = coins[c].value
  <2>1. f[1] = coins[c].value /\ f[1] \in Int /\ 1 .. 1 = {1}
    BY CoinFacts
  <2> HIDE DEF f
  <2> QED  BY <2>1, SumOfOne
<1> HIDE DEF e, f, g
<1>9. SumFunctionOnSet(e, 1 .. 1 + n)
        = SumFunctionOnSet(f, 1 .. 1) + SumFunctionOnSet(g, 1 .. n)
  <2>1. ASSUME NEW m \in Nat, m = 1
        PROVE  SumFunctionOnSet(e, 1 .. m + n)
                 = SumFunctionOnSet(f, 1 .. m) + SumFunctionOnSet(g, 1 .. n)
    <3>1. Joins(e, f, m, g, n) /\ n \in Nat
      BY <1>1, <1>6, <2>1
    <3> QED  BY <3>1, ConcatSum
  <2> QED  BY <2>1
<1>10. cs # << >>
  BY <1>1, <1>4
<1> QED  BY <1>1, <1>3, <1>4, <1>5, <1>7, <1>8, <1>9, <1>10 DEF cs

\* What a selection of coins of a lock is good for.
LEMMA Selected ==
  ASSUME LedgerInv, NEW h \in 0 .. height, NEW lock, NEW need,
         NEW S \in Selections(UtxosAt(h, lock), need)
  PROVE  /\ S \in SUBSET DOMAIN coins /\ ValueOf(S) \in Nat /\ ValueOf(S) >= need /\ S # {}
         /\ \A o \in S : coins[o].lock = lock /\ Mature(o, height)
<1>1. S \subseteq UtxosAt(h, lock) /\ ValueOf(S) >= need /\ S # {}
  BY DEF Selections
<1>2. ASSUME NEW o \in S
      PROVE  o \in DOMAIN coins /\ coins[o].lock = lock /\ Mature(o, height)
  <2>1. o \in DOMAIN coins /\ coins[o].lock = lock /\ Mature(o, h)
    BY <1>1 DEF UtxosAt, Unspent
  <2>2. coins[o].height \in Nat /\ height \in Nat /\ Maturity \in Nat
    BY <2>1, CoinFacts, WalletAssumption
  <2> QED  BY <2>1, <2>2 DEF Mature
<1> QED  BY <1>1, <1>2, ChosenCoins

-----------------------------------------------------------------------------
\* Building and signing

Ripe(S) == \A o \in S : o \in DOMAIN coins /\ Mature(o, height)

LEMMA PaymentFields ==
  ASSUME NEW ins, NEW outs, NEW fee, NEW terms
  PROVE  LET t == payment(ins, outs, fee, terms)
         IN  /\ t.inputs = ins /\ t.outputs = outs /\ t.fee = fee /\ t.terms = terms
             /\ t.unlock = [i \in DOMAIN ins |-> Unsigned] /\ DOMAIN t.unlock = DOMAIN ins
             /\ t = [inputs |-> t.inputs, unlock |-> t.unlock, outputs |-> t.outputs,
                     fee |-> t.fee, terms |-> t.terms]
             /\ InSum(t) = Worth(ins) /\ OutSum(t) = Total(outs)
BY DEF payment, InSum, OutSum, Worth

\* Sound, and no settlement.
PlainSound(t) == Sound(t) /\ t.terms = NoTerms

\* Any payment of mature coins that balances.
LEMMA InputsSound ==
  ASSUME LedgerInv, NEW ins \in Seq(DOMAIN coins), Ripe(ToSet(ins)),
         NEW outs, AreOutputs(outs), NEW fee \in Nat, Worth(ins) = Total(outs) + fee
  PROVE  LET t == payment(ins, outs, fee, NoTerms)
         IN  Sound(t) /\ t.terms = NoTerms /\ t.inputs = ins
<1> DEFINE t == payment(ins, outs, fee, NoTerms)
<1>1. /\ t.inputs = ins /\ t.outputs = outs /\ t.fee = fee /\ t.terms = NoTerms
      /\ t.unlock = [i \in DOMAIN ins |-> Unsigned] /\ DOMAIN t.unlock = DOMAIN ins
      /\ t = [inputs |-> t.inputs, unlock |-> t.unlock, outputs |-> t.outputs,
              fee |-> t.fee, terms |-> t.terms]
      /\ InSum(t) = Worth(ins) /\ OutSum(t) = Total(outs)
  BY PaymentFields
<1> HIDE DEF t
<1>2. WellFormed(t)
  BY <1>1 DEF WellFormed
<1>3. Signed(t)
  <2> SUFFICES ASSUME NEW i \in DOMAIN t.inputs
               PROVE  Mature(t.inputs[i], height) /\ t.unlock[i] = Unsigned
    BY DEF Signed
  <2> QED  BY <1>1 DEF Ripe, ToSet
<1>4. Settles(t)
  BY <1>1 DEF Settles
<1> QED  BY <1>1, <1>2, <1>3, <1>4 DEF Sound, t

LEMMA PaymentSound ==
  ASSUME LedgerInv, NEW S, Ripe(S), NEW outs, AreOutputs(outs), NEW fee \in Nat,
         ValueOf(S) = Total(outs) + fee
  PROVE  LET t == payment(SetToSeq(S), outs, fee, NoTerms)
         IN  Sound(t) /\ t.terms = NoTerms /\ t.inputs = SetToSeq(S) /\ ToSet(t.inputs) = S
<1> DEFINE ins == SetToSeq(S)
<1>1. S \in SUBSET DOMAIN coins
  BY DEF Ripe
<1>2. ins \in Seq(DOMAIN coins) /\ ToSet(ins) = S /\ Worth(ins) = ValueOf(S)
  BY <1>1, ChosenCoins
<1> HIDE DEF ins
<1> QED  BY <1>2, InputsSound DEF ins

\* w are right unlocking scripts for t, where there are any.
Unlocks(w, t) ==
  /\ DOMAIN w = DOMAIN t.inputs
  /\ \A i \in DOMAIN w : w[i] = Unsigned \/ Fits(coins[t.inputs[i]].lock, w[i], t)

\* Signing changes nothing that is signed.
LEMMA SignedSound ==
  ASSUME NEW t, Sound(t), NEW w, Unlocks(w, t)
  PROVE  LET u == [t EXCEPT !.unlock = w]
         IN  /\ Sound(u) /\ u.inputs = t.inputs /\ u.outputs = t.outputs /\ u.fee = t.fee
             /\ u.terms = t.terms /\ u.unlock = w
<1> DEFINE u == [t EXCEPT !.unlock = w]
<1>1. t = [inputs |-> t.inputs, unlock |-> t.unlock, outputs |-> t.outputs,
           fee |-> t.fee, terms |-> t.terms]
  BY DEF Sound, WellFormed
<1>2. u = [inputs |-> t.inputs, unlock |-> w, outputs |-> t.outputs,
           fee |-> t.fee, terms |-> t.terms]
  BY <1>1
<1> HIDE DEF u
<1>3. /\ u.inputs = t.inputs /\ u.outputs = t.outputs /\ u.fee = t.fee
      /\ u.terms = t.terms /\ u.unlock = w
  BY <1>2
<1>4. /\ u = [inputs |-> u.inputs, unlock |-> u.unlock, outputs |-> u.outputs,
              fee |-> u.fee, terms |-> u.terms]
  BY <1>2, <1>3
<1>5. InSum(u) = InSum(t) /\ OutSum(u) = OutSum(t) /\ signature_hash(u) = signature_hash(t)
  BY <1>3 DEF InSum, OutSum, signature_hash
<1>6. WellFormed(u)
  BY <1>3, <1>4 DEF Sound, WellFormed, Unlocks
<1>7. Signed(u)
  <2>1. \A l, v : Fits(l, v, t) => Fits(l, v, u)
    BY <1>5 DEF Fits
  <2> QED  BY <1>3, <2>1 DEF Sound, Signed, Unlocks
<1>8. Settles(u)
  BY <1>3, <1>5 DEF Sound, Settles
<1> QED  BY <1>3, <1>5, <1>6, <1>7, <1>8 DEF Sound, u

\* Every coin of t is locked to the key k.
LockedTo(t, k) ==
  \A i \in DOMAIN t.inputs :
    LET l == coins[t.inputs[i]].lock IN l[1] \in {"p2pkh", "cltv"} /\ l[2][1] = k

LEMMA KeySigned ==
  ASSUME NEW t, Sound(t), NEW k, LockedTo(t, k)
  PROVE  /\ Sound(sign_transaction(t, k))
         /\ sign_transaction(t, k).terms = t.terms /\ sign_transaction(t, k).fee = t.fee
         /\ sign_transaction(t, k).inputs = t.inputs
<1> DEFINE v == p2pkh_script_sig(t, k)
           w == [i \in DOMAIN t.inputs |-> v]
<1>1. v.kind = "p2pkh" /\ v.sigs = <<<<k, signature_hash(t)>>>>
  BY DEF p2pkh_script_sig, sign_hash
<1>2. Unlocks(w, t)
  <2> HIDE DEF v
  <2>1. ASSUME NEW i \in DOMAIN t.inputs PROVE Fits(coins[t.inputs[i]].lock, v, t)
    <3>1. coins[t.inputs[i]].lock[1] \in {"p2pkh", "cltv"} /\ coins[t.inputs[i]].lock[2][1] = k
      BY DEF LockedTo
    <3> QED  BY <1>1, <3>1 DEF Fits
  <2> QED  BY <2>1 DEF Unlocks
<1>3. sign_transaction(t, k) = [t EXCEPT !.unlock = w]
  BY DEF sign_transaction, Stamp
<1> HIDE DEF w
<1> QED  BY <1>2, <1>3, SignedSound

LEMMA P2pkhLock == ASSUME NEW a PROVE P2pkh(a)[1] = "p2pkh" /\ P2pkh(a)[2][1] = a
BY DEF P2pkh

\* Coins of a wallet's own address, spent by its key.
LEMMA OwnPayment ==
  ASSUME LedgerInv, NEW h \in 0 .. height, NEW p, NEW need,
         NEW S \in Selections(UtxosAt(h, P2pkh(p)), need),
         NEW outs, AreOutputs(outs), NEW fee \in Nat, ValueOf(S) = Total(outs) + fee
  PROVE  PlainSound(sign_transaction(payment(SetToSeq(S), outs, fee, NoTerms), p))
<1> DEFINE t == payment(SetToSeq(S), outs, fee, NoTerms)
<1>1. Ripe(S) /\ \A o \in S : coins[o].lock = P2pkh(p)
  BY Selected DEF Ripe
<1>2. Sound(t) /\ ToSet(t.inputs) = S /\ t.terms = NoTerms
  BY <1>1, PaymentSound
<1> HIDE DEF t
<1>3. LockedTo(t, p)
  <2> SUFFICES ASSUME NEW i \in DOMAIN t.inputs
               PROVE  LET l == coins[t.inputs[i]].lock
                      IN  l[1] \in {"p2pkh", "cltv"} /\ l[2][1] = p
    BY DEF LockedTo
  <2>1. coins[t.inputs[i]].lock = P2pkh(p)
    BY <1>1, <1>2 DEF ToSet
  <2> QED  BY <2>1, P2pkhLock
<1> QED  BY <1>2, <1>3, KeySigned DEF t, PlainSound

\* The outputs spend v but for the fee.
Spends(outs, v, fee) == AreOutputs(outs) /\ v = Total(outs) + fee

\* One amount and the change.
LEMMA AmountAndChange ==
  ASSUME NEW to, NEW amount \in Nat, NEW rest, NEW v \in Nat, NEW fee \in Nat, v >= amount + fee
  PROVE  Spends(<<Pay(to, amount)>> \o PayIfAny(rest, v - amount - fee), v, fee)
<1>1. v - amount - fee \in Nat
  OBVIOUS
<1>2. /\ AreOutputs(<<Pay(to, amount)>>) /\ Total(<<Pay(to, amount)>>) = amount
      /\ AreOutputs(PayIfAny(rest, v - amount - fee))
      /\ Total(PayIfAny(rest, v - amount - fee)) = v - amount - fee
  BY <1>1, PayFacts, PayIfAnyFacts
<1> DEFINE A == <<Pay(to, amount)>>
           B == PayIfAny(rest, v - amount - fee)
<1> HIDE DEF A, B
<1>3. AreOutputs(A \o B) /\ Total(A \o B) = Total(A) + Total(B)
  BY <1>2, OutputsConcat DEF A, B
<1> QED  BY <1>1, <1>2, <1>3 DEF A, B, Spends

LEMMA PaymentTxSound ==
  ASSUME LedgerInv, NEW h \in 0 .. height, NEW p, NEW to, NEW amount \in Nat, NEW fee \in Nat,
         NEW S \in Selections(UtxosAt(h, P2pkh(p)), amount + fee)
  PROVE  PlainSound(PaymentTx(p, S, to, amount, fee))
<1> DEFINE outs == <<Pay(to, amount)>> \o PayIfAny(p, ValueOf(S) - amount - fee)
<1>1. ValueOf(S) \in Nat /\ ValueOf(S) >= amount + fee
  BY Selected
<1>2. Spends(outs, ValueOf(S), fee)
  BY <1>1, AmountAndChange
<1>3. PaymentTx(p, S, to, amount, fee)
        = sign_transaction(payment(SetToSeq(S), outs, fee, NoTerms), p)
  BY DEF PaymentTx
<1> HIDE DEF outs
<1>4. amount + fee \in Nat
  OBVIOUS
<1> QED  BY <1>2, <1>3, <1>4, OwnPayment DEF Spends

\* The adapter's withdrawal: every coin is signed with the key of its own address.
LEMMA WithdrawalSound ==
  ASSUME LedgerInv, NEW to, NEW amount \in Nat, NEW fee \in Nat,
         NEW S \in Selections(UNION {getutxos(P2pkh(a)) : a \in Managed}, amount + fee)
  PROVE  LET t == payment(SetToSeq(S),
                    <<Pay(to, amount)>> \o PayIfAny(ChangeAddr, ValueOf(S) - amount - fee),
                    fee, NoTerms)
         IN  PlainSound([t EXCEPT !.unlock = [i \in DOMAIN t.inputs |->
                p2pkh_script_sig(t, extract_address(coins[t.inputs[i]]))]])
<1> DEFINE outs == <<Pay(to, amount)>> \o PayIfAny(ChangeAddr, ValueOf(S) - amount - fee)
           t == payment(SetToSeq(S), outs, fee, NoTerms)
           w == [i \in DOMAIN t.inputs |->
                   p2pkh_script_sig(t, extract_address(coins[t.inputs[i]]))]
<1> SUFFICES PlainSound([t EXCEPT !.unlock = w])
  OBVIOUS
<1>1. S \subseteq UNION {getutxos(P2pkh(a)) : a \in Managed} /\ ValueOf(S) >= amount + fee
  BY DEF Selections
<1>2. ASSUME NEW o \in S
      PROVE  /\ o \in DOMAIN coins /\ Mature(o, height)
             /\ \E a \in Managed : coins[o].lock = P2pkh(a)
  <2>1. PICK a \in Managed : o \in getutxos(P2pkh(a))
    BY <1>1
  <2> QED  BY <2>1 DEF getutxos, UtxosAt, Unspent
<1>3. Ripe(S) /\ S \in SUBSET DOMAIN coins
  BY <1>2 DEF Ripe
<1>4. ValueOf(S) \in Nat
  BY <1>3, ChosenCoins
<1>5. Spends(outs, ValueOf(S), fee)
  BY <1>1, <1>4, AmountAndChange
<1> HIDE DEF outs
<1>6. Sound(t) /\ ToSet(t.inputs) = S /\ t.terms = NoTerms
  BY <1>3, <1>5, PaymentSound DEF Spends
<1> HIDE DEF t
<1>7. Unlocks(w, t)
  <2> SUFFICES ASSUME NEW i \in DOMAIN t.inputs
               PROVE  Fits(coins[t.inputs[i]].lock, w[i], t)
    BY DEF Unlocks
  <2> DEFINE c == coins[t.inputs[i]]
             v == p2pkh_script_sig(t, extract_address(c))
  <2>1. t.inputs[i] \in S
    BY <1>6 DEF ToSet
  <2>2. PICK a \in Managed : c.lock = P2pkh(a)
    BY <1>2, <2>1
  <2>3. c.lock[1] = "p2pkh" /\ c.lock[2][1] = a
    BY <2>2, P2pkhLock
  <2>4. extract_address(c) = a
    <3> HIDE DEF c
    <3> QED  BY <2>3 DEF extract_address
  <2>5. v.kind = "p2pkh" /\ v.sigs = <<<<a, signature_hash(t)>>>>
    BY <2>4 DEF p2pkh_script_sig, sign_hash
  <2>6. w[i] = v
    OBVIOUS
  <2> HIDE DEF w, v, c
  <2>7. Fits(c.lock, v, t)
    BY <2>3, <2>5 DEF Fits
  <2> QED  BY <2>6, <2>7 DEF c
<1> HIDE DEF w
<1> QED  BY <1>6, <1>7, SignedSound DEF PlainSound

\* Issues, mints and transfers.
IsDest(dest) == dest = << >> \/ \E to : dest = <<to>>

LEMMA AssetOutputs ==
  ASSUME NEW op, IsOp(op), NEW dest, IsDest(dest), NEW p,
         NEW v \in Nat, v >= AssetNeed(dest)
  PROVE  Spends(build_outputs(op, dest, p, v, MinFee), v, MinFee)
<1>1. MinFee \in Nat /\ Carrier \in Nat
  BY WalletAssumption, SettlementAssumption
<1> DEFINE c == IF dest = << >> THEN 0 ELSE Carrier
           A == [i \in DOMAIN dest |-> Pay(dest[i], Carrier)]
           B == <<Data(op)>>
           C == PayIfAny(p, v - (c + MinFee))
<1>2. build_outputs(op, dest, p, v, MinFee) = (A \o B) \o C
  BY DEF build_outputs
<1>3. c \in Nat /\ v - (c + MinFee) \in Nat
  BY <1>1 DEF AssetNeed
<1>4. AreOutputs(A) /\ Total(A) = c
  <2>1. CASE dest = << >>
    <3>1. A = << >>
      BY <2>1
    <3> QED  BY <2>1, <3>1, NoOutput
  <2>2. ASSUME NEW to, dest = <<to>> PROVE AreOutputs(A) /\ Total(A) = c
    <3>1. A = <<Pay(to, Carrier)>> /\ c = Carrier
      BY <2>2
    <3> QED  BY <1>1, <3>1, PayFacts
  <2> QED  BY <2>1, <2>2 DEF IsDest
<1>5. AreOutputs(B) /\ Total(B) = 0
  BY DataFacts
<1>6. AreOutputs(C) /\ Total(C) = v - (c + MinFee)
  BY <1>3, PayIfAnyFacts
<1> HIDE DEF A, B, C, c
<1>7. AreOutputs(A \o B) /\ Total(A \o B) = c + 0
  BY <1>4, <1>5, OutputsConcat
<1>8. AreOutputs((A \o B) \o C) /\ Total((A \o B) \o C) = (c + 0) + (v - (c + MinFee))
  BY <1>6, <1>7, OutputsConcat
<1> QED  BY <1>1, <1>2, <1>3, <1>8 DEF Spends

LEMMA AssetTxSound ==
  ASSUME LedgerInv, NEW p, NEW op, IsOp(op),
         NEW dest, IsDest(dest), NEW S \in Selections(getutxos(P2pkh(p)), AssetNeed(dest))
  PROVE  PlainSound(sign_transaction(AssetTx(p, op, dest, S), p))
<1> DEFINE outs == build_outputs(op, dest, p, ValueOf(S), MinFee)
           need == AssetNeed(dest)
<1>1. height \in 0 .. height /\ S \in Selections(UtxosAt(height, P2pkh(p)), need)
  BY CoinFacts DEF getutxos
<1> HIDE DEF need
<1>2. ValueOf(S) \in Nat /\ ValueOf(S) >= need
  BY <1>1, Selected
<1>3. Spends(outs, ValueOf(S), MinFee)
  BY <1>2, AssetOutputs DEF need
<1>4. AssetTx(p, op, dest, S) = payment(SetToSeq(S), outs, MinFee, NoTerms)
  BY DEF AssetTx
<1>5. MinFee \in Nat
  BY WalletAssumption
<1> HIDE DEF outs
<1> QED  BY <1>1, <1>3, <1>4, <1>5, OwnPayment DEF Spends

\* A multisig spend; the change keeps the script.
LEMMA MultisigSound ==
  ASSUME LedgerInv, NEW lock, IsLock(lock), NEW to, NEW amount \in Nat,
         NEW S \in Selections(getutxos(lock), amount + MinFee)
  PROVE  PlainSound(build_unsigned_multisig_tx(lock, to, amount, S))
<1> DEFINE change == ValueOf(S) - amount - MinFee
           rest == [lock |-> lock, value |-> change, op |-> NoOp]
           A == <<Pay(to, amount)>>
           B == IF change > 0 THEN <<rest>> ELSE << >>
           t == payment(SetToSeq(S), A \o B, MinFee, NoTerms)
<1>1. build_unsigned_multisig_tx(lock, to, amount, S) = t
  BY DEF build_unsigned_multisig_tx
<1>2. height \in 0 .. height /\ S \in Selections(UtxosAt(height, lock), amount + MinFee)
  BY CoinFacts DEF getutxos
<1>3. MinFee \in Nat /\ amount + MinFee \in Nat
  BY WalletAssumption
<1>4. /\ ValueOf(S) \in Nat /\ ValueOf(S) >= amount + MinFee /\ Ripe(S)
      /\ \A o \in S : coins[o].lock = lock
  BY <1>2, <1>3, Selected DEF Ripe
<1>5. change \in Nat
  BY <1>3, <1>4
<1>6. AreOutputs(A) /\ Total(A) = amount
  BY PayFacts
<1>7. AreOutputs(B) /\ Total(B) = change
  <2>1. rest.value = change /\ rest.lock = lock /\ IsOp(rest.op)
    BY DEF IsOp
  <2> HIDE DEF rest, change
  <2>2. IsOutput(rest)
    BY <1>5, <2>1 DEF IsOutput
  <2> QED  BY <1>5, <2>1, <2>2, OneOutput, NoOutput
<1> HIDE DEF A, B
<1>8. AreOutputs(A \o B) /\ Total(A \o B) = amount + change
  BY <1>6, <1>7, OutputsConcat
<1>9. ValueOf(S) = Total(A \o B) + MinFee
  BY <1>3, <1>4, <1>8
<1> DEFINE outs == A \o B
<1> HIDE DEF outs
<1>10. AreOutputs(outs) /\ ValueOf(S) = Total(outs) + MinFee
  BY <1>8, <1>9 DEF outs
<1>11. Sound(payment(SetToSeq(S), outs, MinFee, NoTerms))
       /\ payment(SetToSeq(S), outs, MinFee, NoTerms).terms = NoTerms
  BY <1>3, <1>4, <1>10, PaymentSound
<1>12. PlainSound(t)
  BY <1>11 DEF PlainSound, outs
<1> HIDE DEF t
<1> QED  BY <1>1, <1>12

\* Combining signatures that were made for the transaction in the file.
LEMMA CombineSound ==
  ASSUME SigsInv, NEW f \in DOMAIN file, PlainSound(file[f]), NEW kind \in CombineKind,
         NEW n \in Nat, NEW who \in [1 .. n -> Address],
         \A i \in DOMAIN who : SignedThis(f, who[i])
  PROVE  PlainSound(Stamp(file[f], [kind |-> kind,
                                    sigs |-> [i \in DOMAIN who |-> sigs[<<f, who[i]>>].sig]]))
<1> DEFINE t == file[f]
           v == [kind |-> kind, sigs |-> [i \in DOMAIN who |-> sigs[<<f, who[i]>>].sig]]
           w == [i \in DOMAIN t.inputs |-> v]
<1> SUFFICES PlainSound(Stamp(t, v))
  OBVIOUS
<1>1. ASSUME NEW i \in 1 .. n
      PROVE  sigs[<<f, who[i]>>].sig \in Address \X {signature_hash(t)}
  <2> DEFINE k == <<f, who[i]>>
  <2>1. k \in DOMAIN sigs /\ sigs[k].unsigned_txid = transaction_id(t) /\ k[2] = who[i]
    BY DEF SignedThis
  <2>2. sigs[k].sig = <<k[2], <<sigs[k].unsigned_txid[1], sigs[k].unsigned_txid[3]>>>>
    BY <2>1 DEF SigsInv
  <2>3. /\ sigs[k].unsigned_txid[1] = t.inputs /\ sigs[k].unsigned_txid[3] = t.outputs
    BY <2>1 DEF transaction_id
  <2> QED  BY <2>1, <2>2, <2>3 DEF signature_hash
<1>2. v.kind \in CombineKind /\ v.sigs \in Seq(Address \X {signature_hash(t)})
  BY <1>1
<1>4. Stamp(t, v) = [t EXCEPT !.unlock = w]
  BY DEF Stamp
<1> HIDE DEF t, v
<1>5. Unlocks(w, t)
  BY <1>2 DEF Unlocks, Fits
<1> HIDE DEF w
<1>6. Sound(t) /\ t.terms = NoTerms
  BY DEF t, PlainSound
<1> QED  BY <1>4, <1>5, <1>6, SignedSound DEF PlainSound

\* One coin of a script, whole but for the fee.
LEMMA ScriptSpendSound ==
  ASSUME LedgerInv, NEW o \in DOMAIN coins, Mature(o, height), coins[o].value > MinFee, NEW to
  PROVE  /\ Sound(ScriptSpend(o, to)) /\ ScriptSpend(o, to).inputs = <<o>>
         /\ ScriptSpend(o, to).terms = NoTerms
<1> DEFINE outs == <<Pay(to, coins[o].value - MinFee)>>
           ins == <<o>>
           f == [i \in DOMAIN ins |-> coins[ins[i]].value]
<1>1. MinFee \in Nat /\ coins[o].value \in Nat /\ coins[o].value - MinFee \in Nat
  BY WalletAssumption, CoinFacts
<1>2. AreOutputs(outs) /\ Total(outs) = coins[o].value - MinFee
  BY <1>1, PayFacts
<1>3. DOMAIN f = {1} /\ f[1] = coins[o].value /\ Worth(ins) = SumFunction(f)
  BY DEF Worth
<1>4. Worth(ins) = coins[o].value
  <2> HIDE DEF f
  <2> QED  BY <1>1, <1>3, SumOfOne DEF SumFunction
<1>5. ins \in Seq(DOMAIN coins) /\ Ripe(ToSet(ins))
  BY DEF Ripe, ToSet
<1>6. ScriptSpend(o, to) = payment(ins, outs, MinFee, NoTerms)
  BY DEF ScriptSpend
<1>7. Worth(ins) = Total(outs) + MinFee
  BY <1>1, <1>2, <1>4
<1> HIDE DEF outs, ins
<1>8. Sound(payment(ins, outs, MinFee, NoTerms))
      /\ payment(ins, outs, MinFee, NoTerms).inputs = ins
      /\ payment(ins, outs, MinFee, NoTerms).terms = NoTerms
  BY <1>1, <1>2, <1>5, <1>7, InputsSound
<1> QED  BY <1>6, <1>8 DEF ins

LEMMA HtlcSound ==
  ASSUME LedgerInv, NEW o \in DOMAIN coins, Mature(o, height), coins[o].value > MinFee,
         NEW p \in Address, NEW to, NEW kind \in HtlcKind
  PROVE  LET t == ScriptSpend(o, to)
         IN  PlainSound(Stamp(t, [kind |-> kind, sigs |-> <<sign_hash(t, p)>>]))
<1> DEFINE t == ScriptSpend(o, to)
           v == [kind |-> kind, sigs |-> <<sign_hash(t, p)>>]
           w == [i \in DOMAIN t.inputs |-> v]
<1>1. Sound(t) /\ t.inputs = <<o>> /\ t.terms = NoTerms
  BY ScriptSpendSound
<1>2. v.kind \in HtlcKind /\ v.sigs = <<<<p, signature_hash(t)>>>>
  BY DEF sign_hash
<1>3. Stamp(t, v) = [t EXCEPT !.unlock = w]
  BY DEF Stamp
<1> HIDE DEF t, v
<1>4. Fits(coins[o].lock, v, t)
  BY <1>2 DEF Fits
<1>5. Unlocks(w, t)
  BY <1>1, <1>4 DEF Unlocks
<1> HIDE DEF w
<1>6. Sound([t EXCEPT !.unlock = w]) /\ [t EXCEPT !.unlock = w].terms = t.terms
  BY <1>1, <1>5, SignedSound
<1>7. PlainSound(Stamp(t, v))
  BY <1>1, <1>3, <1>6 DEF PlainSound
<1> QED  BY <1>7 DEF t, v

\* What one key opens is locked to it.
LEMMA KeyOpens ==
  ASSUME NEW l, NEW u, NEW t, NEW h, NEW k, Opens(l, u, t, h), u.kind = "p2pkh",
         u.sigs = <<<<k, signature_hash(t)>>>>
  PROVE  l[1] \in {"p2pkh", "cltv"} /\ l[2][1] = k
<1>1. CASE l[1] = "p2pkh"
  BY <1>1 DEF Opens
<1>2. CASE l[1] = "cltv"
  BY <1>2 DEF Opens
<1>3. CASE l[1] \in {"multisig", "p2sh"}
  BY <1>3 DEF Opens
<1>4. CASE l[1] = "htlc"
  BY <1>4 DEF Opens
<1>5. CASE l[1] \notin {"p2pkh", "cltv", "multisig", "p2sh", "htlc"}
  BY <1>5 DEF Opens
<1> QED  BY <1>1, <1>2, <1>3, <1>4, <1>5

LEMMA VestedSound ==
  ASSUME LedgerInv, NEW o \in DOMAIN coins, Mature(o, height), coins[o].value > MinFee,
         NEW p, NEW to, Accepts(sign_transaction(ScriptSpend(o, to), p))
  PROVE  PlainSound(sign_transaction(ScriptSpend(o, to), p))
<1> DEFINE t == ScriptSpend(o, to)
           u == sign_transaction(t, p)
           v == p2pkh_script_sig(t, p)
<1>1. Sound(t) /\ t.inputs = <<o>> /\ t.terms = NoTerms
  BY ScriptSpendSound
<1>2. /\ u.inputs = t.inputs /\ u.outputs = t.outputs /\ u.unlock = [i \in DOMAIN t.inputs |-> v]
  <2>1. t = [inputs |-> t.inputs, unlock |-> t.unlock, outputs |-> t.outputs,
             fee |-> t.fee, terms |-> t.terms]
    BY <1>1 DEF Sound, WellFormed
  <2> HIDE DEF t, v
  <2>2. u = [t EXCEPT !.unlock = [i \in DOMAIN t.inputs |-> v]]
    BY DEF sign_transaction, Stamp, v
  <2> HIDE DEF u
  <2> QED  BY <2>1, <2>2
<1>3. v.kind = "p2pkh" /\ v.sigs = <<<<p, signature_hash(t)>>>>
  BY DEF p2pkh_script_sig, sign_hash
<1>4. Accepts(u)
  OBVIOUS
<1> HIDE DEF t, u, v
<1>5. signature_hash(u) = signature_hash(t)
  BY <1>2 DEF signature_hash
<1>6. Opens(coins[o].lock, v, u, height)
  <2>1. 1 \in DOMAIN u.inputs /\ u.inputs[1] = o /\ u.unlock[1] = v
    BY <1>1, <1>2
  <2> QED  BY <1>4, <2>1 DEF Accepts
<1>7. coins[o].lock[1] \in {"p2pkh", "cltv"} /\ coins[o].lock[2][1] = p
  BY <1>3, <1>5, <1>6, KeyOpens
<1>8. LockedTo(t, p)
  BY <1>1, <1>7 DEF LockedTo
<1> QED  BY <1>1, <1>8, KeySigned DEF t, u, PlainSound

\* The tranches of a vesting lock are what is vested, however it divides.
LEMMA TrancheSum ==
  ASSUME NEW v \in Nat, NEW n \in Nat \ {0}
  PROVE  /\ \A i \in 1 .. n : TrancheAmounts(v, n)[i] \in Nat
         /\ SumFunctionOnSet(TrancheAmounts(v, n), 1 .. n) = v
<1> DEFINE q == v \div n
           f == TrancheAmounts(v, n)
           D == 1 .. n
           E == D \ {n}
<1>1. q \in Nat /\ q * n <= v
  OBVIOUS
<1> HIDE DEF q
<1>2. v - q * (n - 1) \in Nat
  <2>1. q * (n - 1) \in Nat /\ q * (n - 1) = q * n - q
    BY <1>1
  <2> QED  BY <1>1, <2>1
<1>3. \A i \in D : f[i] = IF i = n THEN v - q * (n - 1) ELSE q
  BY DEF TrancheAmounts, q
<1> HIDE DEF f
<1>4. \A i \in D : f[i] \in Nat
  BY <1>1, <1>2, <1>3
<1>5. n \in D /\ IsFiniteSet(D) /\ IsFiniteSet(E) /\ Cardinality(E) = n - 1
  <2>1. n \in D /\ E = 1 .. n - 1 /\ n - 1 \in Nat
    OBVIOUS
  <2>3. IsFiniteSet(D) /\ IsFiniteSet(1 .. n - 1)
    BY <2>1, FS_Interval
  <2>4. Cardinality(1 .. n - 1) = n - 1
    <3>1. ASSUME NEW m \in Nat PROVE Cardinality(1 .. m) = m
      BY FS_Interval
    <3> QED  BY <2>1, <3>1
  <2>2. IsFiniteSet(E) /\ Cardinality(E) = n - 1
    BY <2>1, <2>3, <2>4
  <2> QED  BY <2>1, <2>2, <2>3
<1>6. \A i \in E : f[i] = q
  BY <1>3
<1>7. SumFunctionOnSet(f, D) = f[n] + SumFunctionOnSet(f, E)
  <2>1. \A i \in D : f[i] \in Int
    BY <1>4
  <2> HIDE DEF D
  <2> QED  BY <1>5, <2>1, SumRemove
<1>8. SumFunctionOnSet(f, E) = (n - 1) * q
  <2> HIDE DEF E
  <2> QED  BY <1>1, <1>5, <1>6, SumOfEqual
<1>9. (n - 1) * q = q * (n - 1) /\ q * (n - 1) \in Nat
  BY <1>1
<1>10. f[n] = v - q * (n - 1)
  BY <1>3, <1>5
<1> QED  BY <1>4, <1>7, <1>8, <1>9, <1>10 DEF f

LEMMA VestingSound ==
  ASSUME LedgerInv, NEW p, NEW to, NEW total \in Nat, NEW bps \in 0 .. BpsBase,
         NEW n \in Nat \ {0}, NEW start,
         NEW S \in Selections(getutxos(P2pkh(p)), total + MinFee)
  PROVE  PlainSound(build_signed_vesting(p, VestingOutputs(to, total, bps, n, start), total, S))
<1> DEFINE liquid == (total * bps) \div BpsBase
           vested == total - liquid
           T == TrancheAmounts(vested, n)
           lock == [i \in 1 .. n |-> <<"cltv", <<to>>, 0, start + i - 1>>]
           A == PayIfAny(to, liquid)
           B == [i \in 1 .. n |-> [lock |-> lock[i], value |-> T[i], op |-> NoOp]]
           C == PayIfAny(p, ValueOf(S) - total - MinFee)
           V == ValueOf(S)
<1>1. MinFee \in Nat /\ total + MinFee \in Nat /\ BpsBase \in Nat \ {0}
  BY WalletAssumption, SettlementAssumption
<1>2. liquid \in Nat /\ vested \in Nat
  <2>1. total * bps \in Nat /\ total * bps <= total * BpsBase /\ total * BpsBase \in Nat
    BY <1>1
  <2>2. liquid \in Nat /\ liquid * BpsBase <= total * bps
    BY <1>1, <2>1
  <2>3. liquid * BpsBase <= total * BpsBase
    BY <1>1, <2>1, <2>2
  <2>4. liquid <= total
    <3> HIDE DEF liquid
    <3> QED  BY <1>1, <2>2, <2>3
  <2> QED  BY <2>2, <2>4
<1> HIDE DEF liquid
<1>3. AreOutputs(A) /\ Total(A) = liquid
  BY <1>2, PayIfAnyFacts
<1> HIDE DEF vested
<1>4. (\A i \in 1 .. n : T[i] \in Nat) /\ SumFunctionOnSet(T, 1 .. n) = vested
  BY <1>2, TrancheSum
<1>5. AreOutputs(B) /\ Total(B) = vested
  <2>1. \A i \in 1 .. n : IsLock(lock[i])
    BY DEF IsLock
  <2> HIDE DEF lock, T
  <2>2. DOMAIN B = 1 .. n
    OBVIOUS
  <2>3. \A i \in 1 .. n : IsOutput(B[i]) /\ B[i].value = T[i]
    BY <1>4, <2>1 DEF IsOutput, IsOp
  <2>4. B \in Seq(ToSet(B))
    <3> HIDE DEF B
    <3>1. \A i \in 1 .. n : B[i] \in ToSet(B)
      BY <2>2 DEF ToSet
    <3>2. B = [i \in 1 .. n |-> B[i]]
      BY <2>2 DEF B
    <3> QED  BY <3>1, <3>2
  <2>5. AreOutputs(B)
    BY <2>2, <2>3, <2>4 DEF AreOutputs
  <2> HIDE DEF B
  <2> DEFINE f == [i \in DOMAIN B |-> B[i].value]
  <2>6. Total(B) = SumFunctionOnSet(f, 1 .. n)
    BY <2>2 DEF Total, SumFunction
  <2>7. \A i \in 1 .. n : f[i] \in Int /\ f[i] = T[i]
    BY <1>4, <2>2, <2>3
  <2>8. SumFunctionOnSet(f, 1 .. n) = SumFunctionOnSet(T, 1 .. n)
    <3>1. IsFiniteSet(1 .. n)
      BY FS_Interval
    <3> HIDE DEF f
    <3> QED  BY <2>7, <3>1, SumAgree
  <2> QED  BY <1>4, <2>5, <2>6, <2>8
<1>6. height \in 0 .. height /\ S \in Selections(UtxosAt(height, P2pkh(p)), total + MinFee)
  BY CoinFacts DEF getutxos
<1>7. V \in Nat /\ V >= total + MinFee
  BY <1>1, <1>6, Selected
<1>8. AreOutputs(C) /\ Total(C) = V - total - MinFee
  <2>1. V - total - MinFee \in Nat
    BY <1>1, <1>7
  <2> HIDE DEF V
  <2> QED  BY <2>1, PayIfAnyFacts DEF V
<1>9. VestingOutputs(to, total, bps, n, start) = A \o B
  BY DEF VestingOutputs, liquid, vested
<1>10. build_signed_vesting(p, A \o B, total, S)
         = sign_transaction(payment(SetToSeq(S), (A \o B) \o C, MinFee, NoTerms), p)
  BY DEF build_signed_vesting
<1> HIDE DEF A, B, C
<1>11. AreOutputs(A \o B) /\ Total(A \o B) = liquid + vested
  BY <1>3, <1>5, OutputsConcat
<1>12. AreOutputs((A \o B) \o C)
       /\ Total((A \o B) \o C) = (liquid + vested) + (V - total - MinFee)
  BY <1>8, <1>11, OutputsConcat
<1>13. V = Total((A \o B) \o C) + MinFee
  BY <1>1, <1>2, <1>7, <1>12 DEF vested
<1> QED  BY <1>1, <1>6, <1>9, <1>10, <1>12, <1>13, OwnPayment

-----------------------------------------------------------------------------
\* Settlements

Part(is, v) == IF is THEN v ELSE 0
PlatformFee(m) == fee_split(m).platform
Royalty(m) == fee_split(m).royalty

LEMMA SplitFacts ==
  ASSUME NEW m, TermsOK(m)
  PROVE  PlatformFee(m) \in Nat /\ Royalty(m) \in Nat
<1>1. m.price \in Nat /\ m.royalty_bps \in Nat /\ BpsBase \in Nat \ {0} /\ FeeBps \in Nat
  BY SettlementAssumption DEF TermsOK
<1>2. /\ PlatformFee(m) = (m.price * FeeBps) \div BpsBase
      /\ Royalty(m) = IF m.royalty_bps = 0 \/ m.seller = m.royalty_addr THEN 0
                      ELSE (m.price * m.royalty_bps) \div BpsBase
  BY DEF PlatformFee, Royalty, fee_split
<1>3. m.price * FeeBps \in Nat /\ m.price * m.royalty_bps \in Nat
  BY <1>1
<1>4. (m.price * FeeBps) \div BpsBase \in Nat /\ (m.price * m.royalty_bps) \div BpsBase \in Nat
  BY <1>1, <1>3
<1> QED  BY <1>2, <1>4

\* The second output is worth nothing.
DataSecond(outs) == AreOutputs(outs) /\ Len(outs) >= 2 /\ outs[2].value = 0

LEMMA DataStaysSecond ==
  ASSUME NEW s, DataSecond(s), NEW t, AreOutputs(t)
  PROVE  DataSecond(s \o t)
<1>1. /\ AreOutputs(s \o t) /\ Len(s \o t) = Len(s) + Len(t)
      /\ \A i \in 1 .. Len(s) + Len(t) :
           (s \o t)[i] = IF i <= Len(s) THEN s[i] ELSE t[i - Len(s)]
  BY OutputsConcat DEF DataSecond
<1>2. Len(s) \in Nat /\ Len(t) \in Nat /\ Len(s) >= 2 /\ s[2].value = 0
  BY OutputsFacts DEF DataSecond
<1>3. 2 \in 1 .. Len(s) + Len(t) /\ 2 <= Len(s)
  BY <1>2
<1>4. (s \o t)[2] = s[2]
  BY <1>1, <1>3
<1> QED  BY <1>1, <1>2, <1>4 DEF DataSecond

\* What the outputs of a settlement pay, and to whom.
LEMMA SettlementOutputs ==
  ASSUME NEW m, TermsOK(m), NEW v \in Nat, NEW b \in Nat, Affordable(m, b), NEW a
  PROVE  /\ DataSecond(settlement_outputs(m, v, b))
         /\ Total(settlement_outputs(m, v, b)) = v + b - m.miner_fee
         /\ Paid(a, settlement_outputs(m, v, b)) =
              Part(a = m.buyer, b - m.price - m.miner_fee)
                + Part(a = m.seller, v + m.price - PlatformFee(m) - Royalty(m))
                + Part(a = Platform, PlatformFee(m)) + Part(a = m.royalty_addr, Royalty(m))
<1> DEFINE op == TransferOp(m.asset, m.amount, 0)
           pf == PlatformFee(m)
           rf == Royalty(m)
           A == <<Pay(m.buyer, Carrier)>>
           B == <<Data(op)>>
           w == v + m.price - pf - rf
           C == <<Pay(m.seller, w)>>
           H == <<Pay(m.buyer, Carrier), Data(op), Pay(m.seller, w)>>
           P == PayIfAny(Platform, pf)
           R == PayIfAny(m.royalty_addr, rf)
           c == b - m.price - Carrier - m.miner_fee
           E == PayIfAny(m.buyer, c)
<1>1. pf \in Nat /\ rf \in Nat
  BY SplitFacts
<1>2. m.price \in Nat /\ m.miner_fee \in Nat /\ Carrier \in Nat
  BY SettlementAssumption DEF TermsOK
<1>3. pf + rf <= m.price /\ b >= m.price + Carrier + m.miner_fee
  BY DEF Affordable, PlatformFee, Royalty
<1>4. settlement_outputs(m, v, b) = ((H \o P) \o R) \o E
  BY DEF settlement_outputs, PlatformFee, Royalty
<1> HIDE DEF pf, rf
<1>5. w \in Nat /\ c \in Nat
  BY <1>1, <1>2, <1>3
<1> HIDE DEF w, c
<1>6. IsOp(op)
  BY DEF TransferOp, IsOp
<1> HIDE DEF op
<1>7. AreOutputs(A) /\ Total(A) = Carrier /\ Paid(a, A) = Part(a = m.buyer, Carrier)
  BY <1>2, PayFacts DEF Part
<1>8. AreOutputs(B) /\ Total(B) = 0 /\ Paid(a, B) = 0
  BY <1>6, DataFacts
<1>9. AreOutputs(C) /\ Total(C) = w /\ Paid(a, C) = Part(a = m.seller, w)
  BY <1>5, PayFacts DEF Part
<1>10. AreOutputs(P) /\ Total(P) = pf /\ Paid(a, P) = Part(a = Platform, pf)
  BY <1>1, PayIfAnyFacts DEF Part
<1>11. AreOutputs(R) /\ Total(R) = rf /\ Paid(a, R) = Part(a = m.royalty_addr, rf)
  BY <1>1, PayIfAnyFacts DEF Part
<1>12. AreOutputs(E) /\ Total(E) = c /\ Paid(a, E) = Part(a = m.buyer, c)
  BY <1>5, PayIfAnyFacts DEF Part
<1>14. H = (A \o B) \o C
  OBVIOUS
<1>15. H[2].value = 0 /\ Len(H) = 3
  BY DEF Data
<1> HIDE DEF A, B, C, H, P, R, E
<1>16. AreOutputs(A \o B) /\ Total(A \o B) = Carrier + 0
       /\ Paid(a, A \o B) = Part(a = m.buyer, Carrier) + 0
  BY <1>7, <1>8, OutputsConcat
<1>17. AreOutputs(H) /\ Total(H) = (Carrier + 0) + w
       /\ Paid(a, H) = (Part(a = m.buyer, Carrier) + 0) + Part(a = m.seller, w)
  BY <1>9, <1>14, <1>16, OutputsConcat
<1>18. AreOutputs(H \o P) /\ Total(H \o P) = ((Carrier + 0) + w) + pf
       /\ Paid(a, H \o P) = ((Part(a = m.buyer, Carrier) + 0) + Part(a = m.seller, w))
                              + Part(a = Platform, pf)
  BY <1>10, <1>17, OutputsConcat
<1>19. AreOutputs((H \o P) \o R) /\ Total((H \o P) \o R) = (((Carrier + 0) + w) + pf) + rf
       /\ Paid(a, (H \o P) \o R) = (((Part(a = m.buyer, Carrier) + 0) + Part(a = m.seller, w))
                                     + Part(a = Platform, pf)) + Part(a = m.royalty_addr, rf)
  BY <1>11, <1>18, OutputsConcat
<1> DEFINE O == ((H \o P) \o R) \o E
<1>20. AreOutputs(O) /\ Total(O) = ((((Carrier + 0) + w) + pf) + rf) + c
       /\ Paid(a, O) = ((((Part(a = m.buyer, Carrier) + 0) + Part(a = m.seller, w))
                          + Part(a = Platform, pf)) + Part(a = m.royalty_addr, rf))
                       + Part(a = m.buyer, c)
  BY <1>12, <1>19, OutputsConcat
<1>21. DataSecond(O)
  <2>1. DataSecond(H)
    BY <1>15, <1>17 DEF DataSecond
  <2>2. DataSecond(H \o P)
    BY <1>10, <2>1, DataStaysSecond
  <2>3. DataSecond((H \o P) \o R)
    BY <1>11, <2>2, DataStaysSecond
  <2> QED  BY <1>12, <2>3, DataStaysSecond
<1> HIDE DEF O
<1>22. Total(O) = v + b - m.miner_fee
  BY <1>1, <1>2, <1>5, <1>20 DEF w, c
<1>23. Paid(a, O) = Part(a = m.buyer, b - m.price - m.miner_fee)
                      + Part(a = m.seller, v + m.price - pf - rf)
                      + Part(a = Platform, pf) + Part(a = m.royalty_addr, rf)
  <2>1. Part(a = m.buyer, Carrier) + Part(a = m.buyer, c)
          = Part(a = m.buyer, b - m.price - m.miner_fee)
    BY <1>2 DEF Part, c
  <2>2. /\ Part(a = m.buyer, Carrier) \in Int /\ Part(a = m.buyer, c) \in Int
        /\ Part(a = m.seller, w) \in Int /\ Part(a = Platform, pf) \in Int
        /\ Part(a = m.royalty_addr, rf) \in Int
    BY <1>1, <1>2, <1>5 DEF Part
  <2> QED  BY <1>20, <2>1, <2>2 DEF w
<1> QED  BY <1>4, <1>21, <1>22, <1>23 DEF O, pf, rf

\* One output is replaced.
LEMMA Replaced ==
  ASSUME NEW outs, AreOutputs(outs), NEW i \in DOMAIN outs, NEW x, IsOutput(x)
  PROVE  /\ AreOutputs([outs EXCEPT ![i] = x])
         /\ Total([outs EXCEPT ![i] = x]) = Total(outs) - outs[i].value + x.value
<1> DEFINE r == [outs EXCEPT ![i] = x]
           D == DOMAIN outs
           n == Len(outs)
           f == [j \in D |-> outs[j].value]
           e == [j \in D |-> r[j].value]
<1>1. DOMAIN r = D /\ r[i] = x /\ \A j \in D \ {i} : r[j] = outs[j]
  OBVIOUS
<1>2. n \in Nat /\ D = 1 .. n /\ IsFiniteSet(D) /\ \A j \in D : outs[j].value \in Nat
  BY OutputsFacts
<1>8. r = [j \in D |-> r[j]]
  OBVIOUS
<1> HIDE DEF r
<1>3. \A j \in D : IsOutput(r[j])
  BY <1>1 DEF AreOutputs
<1>4. AreOutputs(r)
  <2>1. r \in Seq(ToSet(r))
    <3>1. r = [j \in 1 .. n |-> r[j]] /\ \A j \in 1 .. n : r[j] \in ToSet(r)
      BY <1>1, <1>2, <1>8 DEF ToSet
    <3> HIDE DEF ToSet
    <3> QED  BY <1>2, <3>1
  <2> QED  BY <1>1, <1>3, <2>1 DEF AreOutputs
<1>5. Total(outs) = SumFunctionOnSet(f, D) /\ Total(r) = SumFunctionOnSet(e, D)
  <2>1. DOMAIN f = D /\ DOMAIN e = D
    OBVIOUS
  <2> QED  BY <1>1, <2>1 DEF Total, SumFunction
<1>6. /\ f[i] = outs[i].value /\ e[i] = x.value
      /\ \A j \in D : f[j] \in Int /\ e[j] \in Int
      /\ \A j \in D \ {i} : f[j] = e[j]
  BY <1>1, <1>2, <1>3 DEF IsOutput
<1> HIDE DEF f, e, D
<1>7. SumFunctionOnSet(e, D) = SumFunctionOnSet(f, D) - f[i] + e[i]
  <2>2. i \in D /\ IsFiniteSet(D)
    BY <1>2 DEF D
  <2>3. DifferAt(f, e, i, D)
    BY <1>6 DEF DifferAt
  <2> QED  BY <2>2, <2>3, SumChangeAt
<1> QED  BY <1>4, <1>5, <1>6, <1>7 DEF r

LEMMA DivertedFacts ==
  ASSUME NEW outs, AreOutputs(outs), NEW i \in DOMAIN outs, NEW part \in Nat, NEW to
  PROVE  /\ AreOutputs(Diverted(outs, i, part, to))
         /\ Total(Diverted(outs, i, part, to)) = Total(outs)
<1> DEFINE v == IF part <= outs[i].value THEN part ELSE 0
           x == [lock |-> outs[i].lock, value |-> outs[i].value - v, op |-> outs[i].op]
           A == [outs EXCEPT ![i] = x]
           B == PayIfAny(to, v)
<1>1. Diverted(outs, i, part, to) = A \o B
  BY DEF Diverted
<1>2. IsOutput(outs[i]) /\ outs[i].value \in Nat /\ Total(outs) \in Nat
  BY OutputsFacts DEF AreOutputs
<1>3. v \in Nat /\ outs[i].value - v \in Nat
  BY <1>2
<1> HIDE DEF v
<1>4. IsOutput(x) /\ x.value = outs[i].value - v
  BY <1>2, <1>3 DEF IsOutput
<1> HIDE DEF x
<1>5. AreOutputs(A) /\ Total(A) = Total(outs) - outs[i].value + x.value
  BY <1>4, Replaced
<1>6. AreOutputs(B) /\ Total(B) = v
  BY <1>3, PayIfAnyFacts
<1> HIDE DEF A, B
<1>7. AreOutputs(A \o B) /\ Total(A \o B) = Total(A) + Total(B)
  BY <1>5, <1>6, OutputsConcat
<1> QED  BY <1>1, <1>2, <1>3, <1>4, <1>5, <1>6, <1>7

\* However the outputs of a settlement are altered, they spend the same.
LEMMA AlteredFacts ==
  ASSUME NEW outs, DataSecond(outs), NEW m, NEW r \in Altered(m, outs)
  PROVE  AreOutputs(r) /\ Total(r) = Total(outs)
<1>1. /\ AreOutputs(outs) /\ 2 \in DOMAIN outs /\ outs[2].value = 0 /\ Total(outs) \in Nat
  BY OutputsFacts DEF DataSecond
<1>2. CASE \E i \in DOMAIN outs, d \in Amount : r = Diverted(outs, i, d, m.buyer)
  <2>1. PICK i \in DOMAIN outs, d \in Amount : r = Diverted(outs, i, d, m.buyer)
    BY <1>2
  <2>2. d \in Nat
    BY WalletAssumption
  <2> QED  BY <1>1, <2>1, <2>2, DivertedFacts
<1>3. CASE \E n \in Amount : r = [outs EXCEPT ![2] = Data(TransferOp(m.asset, n, 0))]
  <2>1. PICK n \in Amount : r = [outs EXCEPT ![2] = Data(TransferOp(m.asset, n, 0))]
    BY <1>3
  <2> DEFINE op == TransferOp(m.asset, n, 0)
             x == Data(op)
  <2>2. IsOp(op)
    BY DEF TransferOp, IsOp
  <2> HIDE DEF op
  <2>3. IsOutput(x) /\ x.value = 0
    BY <2>2 DEF Data, IsOutput, IsLock, DataLock
  <2>4. r = [outs EXCEPT ![2] = x]
    BY <2>1 DEF op
  <2> HIDE DEF x
  <2>5. AreOutputs(r) /\ Total(r) = Total(outs) - outs[2].value + x.value
    BY <1>1, <2>3, <2>4, Replaced
  <2> QED  BY <1>1, <2>3, <2>5
<1> QED  BY <1>2, <1>3 DEF Altered

\* The terms of an order, at its price and royalty or others.
LEMMA TermsFacts ==
  ASSUME OrdersInv, NEW o \in orders, NEW p \in Address, NEW m, m.price \in Nat,
         m.royalty_bps \in Nat, m.amount = o.amount, m.seller = o.seller, m.buyer = p,
         m.miner_fee = MinFee
  PROVE  TermsOK(m) /\ m # NoTerms
<1>1. o.amount \in Nat /\ o.seller \in Address /\ MinFee \in Nat
  BY WalletAssumption DEF OrdersInv
<1>2. NoTerms.price = -1
  BY DEF NoTerms
<1>3. m # NoTerms
  BY <1>2
<1>4. TermsOK(m)
  BY <1>1 DEF TermsOK
<1> QED  BY <1>3, <1>4

\* What an order and the record of its asset say in numbers.
LEMMA OrderNumbers ==
  ASSUME LedgerInv, OrdersInv, NEW o \in orders, o.asset \in DOMAIN assets.assets
  PROVE  o.price \in Nat /\ assets.assets[o.asset].royalty_bps \in Nat
<1>1. o.price \in Nat
  BY DEF OrdersInv
<1>2. assets.assets[o.asset].royalty_bps \in Nat
  BY DEF LedgerInv, IsLedger
<1> QED  BY <1>1, <1>2

\* One coin of a lock.
LEMMA ScriptCoin ==
  ASSUME NEW lock, NEW o \in getutxos(lock)
  PROVE  o \in DOMAIN coins /\ Mature(o, height) /\ coins[o].lock = lock
BY DEF getutxos, UtxosAt, Unspent

\* A settlement, as the buyer leaves it, whatever its terms and outputs and whichever coin
\* is the first: its own coins signed, the first not.
LEMMA OfferSound ==
  ASSUME LedgerInv, NEW p \in Address, NEW m, TermsOK(m), m # NoTerms, m.buyer = p,
         NEW c \in DOMAIN coins, Mature(c, height), NEW S \in SUBSET getutxos(P2pkh(p)),
         NEW outs, AreOutputs(outs), Total(outs) = coins[c].value + ValueOf(S) - m.miner_fee
  PROVE  LET t == SignBuyer(payment(<<c>> \o SetToSeq(S), outs, m.miner_fee, m), p)
         IN  Sound(t) /\ t.terms # NoTerms
<1> DEFINE v == coins[c].value
           b == ValueOf(S)
           s == SetToSeq(S)
           ins == <<c>> \o s
           t == payment(ins, outs, m.miner_fee, m)
           w == [i \in DOMAIN t.inputs |->
                   IF i = 1 THEN t.unlock[i] ELSE p2pkh_script_sig(t, p)]
<1>2. SignBuyer(t, p) = [t EXCEPT !.unlock = w]
  BY DEF SignBuyer
<1> SUFFICES Sound([t EXCEPT !.unlock = w]) /\ [t EXCEPT !.unlock = w].terms # NoTerms
  BY <1>2
<1>4. m.miner_fee \in Nat
  BY DEF TermsOK
<1>6. \A x \in S : x \in DOMAIN coins /\ coins[x].lock = P2pkh(p) /\ Mature(x, height)
  BY ScriptCoin
<1>7. s \in Seq(DOMAIN coins) /\ ToSet(s) = S /\ Worth(s) = b /\ b \in Nat
  <2>1. S \in SUBSET DOMAIN coins
    BY <1>6
  <2> QED  BY <2>1, ChosenCoins
<1>8. v \in Nat
  BY CoinFacts
<1>10. Total(outs) = v + b - m.miner_fee
  OBVIOUS
<1> HIDE DEF s, b
<1>9. /\ Worth(ins) = v + b /\ ins \in Seq(DOMAIN coins) /\ ins[1] = c /\ ins # << >>
      /\ \A i \in DOMAIN ins \ {1} : i - 1 \in DOMAIN s /\ ins[i] = s[i - 1]
  BY <1>7, WorthOfConcat
<1>11. ASSUME NEW i \in DOMAIN ins
       PROVE  /\ i # 1 => coins[ins[i]].lock = P2pkh(p)
              /\ Mature(ins[i], height)
  <2>1. CASE i = 1
    BY <1>9, <2>1
  <2>2. CASE i # 1
    <3>1. ins[i] \in S
      BY <1>7, <1>9, <2>2 DEF ToSet
    <3> QED  BY <1>6, <2>2, <3>1
  <2> QED  BY <2>1, <2>2
<1> HIDE DEF ins
<1>12. /\ t.inputs = ins /\ t.outputs = outs /\ t.fee = m.miner_fee /\ t.terms = m
       /\ t.unlock = [i \in DOMAIN ins |-> Unsigned] /\ DOMAIN t.unlock = DOMAIN ins
       /\ t = [inputs |-> t.inputs, unlock |-> t.unlock, outputs |-> t.outputs,
               fee |-> t.fee, terms |-> t.terms]
       /\ InSum(t) = Worth(ins) /\ OutSum(t) = Total(outs)
  BY PaymentFields
<1> HIDE DEF t, v
<1>14. WellFormed(t)
  BY <1>4, <1>9, <1>12 DEF WellFormed
<1>15. Signed(t)
  BY <1>11, <1>12 DEF Signed
<1>16. Settles(t)
  BY <1>9, <1>11, <1>12 DEF Settles
<1>17. InSum(t) = OutSum(t) + t.fee
  BY <1>4, <1>7, <1>8, <1>9, <1>10, <1>12
<1>18. Sound(t)
  BY <1>14, <1>15, <1>16, <1>17 DEF Sound
<1>19. Unlocks(w, t)
  <2> SUFFICES ASSUME NEW i \in DOMAIN t.inputs
               PROVE  w[i] = Unsigned \/ Fits(coins[t.inputs[i]].lock, w[i], t)
    BY DEF Unlocks
  <2>1. CASE i = 1
    BY <1>12, <2>1
  <2>2. CASE i # 1
    <3> DEFINE u == p2pkh_script_sig(t, p)
    <3>1. w[i] = u /\ coins[t.inputs[i]].lock = P2pkh(p)
      BY <1>11, <1>12, <2>2
    <3>2. u.kind = "p2pkh" /\ u.sigs = <<<<p, signature_hash(t)>>>>
      BY DEF p2pkh_script_sig, sign_hash
    <3> HIDE DEF u, w
    <3>3. Fits(P2pkh(p), u, t)
      BY <3>2, P2pkhLock DEF Fits
    <3> QED  BY <3>1, <3>3
  <2> QED  BY <2>1, <2>2
<1> HIDE DEF w
<1> QED  BY <1>12, <1>18, <1>19, SignedSound

\* The seller has verified it, and the first coin is locked to his key.
Agreed(t) ==
  t.terms # NoTerms =>
    LET l == coins[t.inputs[1]].lock
    IN  /\ verify_settlement(t.outputs, t.terms)
        /\ l[1] \in {"p2pkh", "cltv"} /\ l[2][1] = t.terms.seller

\* The seller adds its signature, and the node takes it.
LEMMA AcceptSound ==
  ASSUME NEW t, Sound(t), t.terms # NoTerms, verify_settlement(t.outputs, t.terms),
         Accepts(sign_input(t, 1, t.terms.seller))
  PROVE  Sound(sign_input(t, 1, t.terms.seller)) /\ Agreed(sign_input(t, 1, t.terms.seller))
<1> DEFINE p == t.terms.seller
           v == p2pkh_script_sig(t, p)
           w == [t.unlock EXCEPT ![1] = v]
           u == [t EXCEPT !.unlock = w]
<1>1. sign_input(t, 1, p) = u
  BY DEF sign_input
<1>2. /\ t.inputs \in Seq(DOMAIN coins) /\ t.inputs # << >> /\ DOMAIN t.unlock = DOMAIN t.inputs
      /\ \A i \in DOMAIN t.inputs :
           t.unlock[i] = Unsigned \/ Fits(coins[t.inputs[i]].lock, t.unlock[i], t)
  BY DEF Sound, WellFormed, Signed, Settles
<1>3. 1 \in DOMAIN t.inputs
  BY <1>2
<1>5. v.kind = "p2pkh" /\ v.sigs = <<<<p, signature_hash(t)>>>>
  BY DEF p2pkh_script_sig, sign_hash
<1> HIDE DEF v
<1>8. DOMAIN w = DOMAIN t.inputs /\ \A i \in DOMAIN w : w[i] = IF i = 1 THEN v ELSE t.unlock[i]
  BY <1>2
<1>9. /\ u.inputs = t.inputs /\ u.outputs = t.outputs /\ u.terms = t.terms /\ u.unlock = w
  <2>1. t = [inputs |-> t.inputs, unlock |-> t.unlock, outputs |-> t.outputs,
             fee |-> t.fee, terms |-> t.terms]
    BY DEF Sound, WellFormed
  <2> HIDE DEF w
  <2> QED  BY <2>1
<1>10. Accepts(u)
  BY <1>1
<1> HIDE DEF w, u
<1>4. coins[t.inputs[1]].lock[1] \in {"p2pkh", "cltv"} /\ coins[t.inputs[1]].lock[2][1] = p
  <2>1. Opens(coins[t.inputs[1]].lock, v, u, height)
    BY <1>3, <1>8, <1>9, <1>10 DEF Accepts
  <2>2. signature_hash(u) = signature_hash(t)
    BY <1>9 DEF signature_hash
  <2> HIDE DEF p
  <2> QED  BY <1>5, <2>1, <2>2, KeyOpens
<1>6. Fits(coins[t.inputs[1]].lock, v, t)
  BY <1>4, <1>5 DEF Fits
<1>7. Unlocks(w, t)
  BY <1>2, <1>6, <1>8 DEF Unlocks
<1>11. Sound(u)
  BY <1>7, SignedSound DEF u
<1>12. Agreed(u)
  BY <1>4, <1>9 DEF Agreed
<1> QED  BY <1>1, <1>11, <1>12

-----------------------------------------------------------------------------
\* What was right stays right

\* The chain may grow, and no coin changes.
Grows ==
  /\ height \in Nat /\ height' \in Nat /\ height <= height'
  /\ \A o \in DOMAIN coins : o \in DOMAIN coins' /\ coins'[o] = coins[o]

LEMMA StaysMature ==
  ASSUME LedgerInv, Grows, NEW o \in DOMAIN coins, Mature(o, height)
  PROVE  o \in DOMAIN coins' /\ coins'[o] = coins[o] /\ Mature(o, height)'
<1>1. coins[o].height \in Nat /\ Maturity \in Nat
  BY CoinFacts, WalletAssumption
<1> QED  BY <1>1 DEF Grows, Mature

LEMMA SoundStays ==
  ASSUME LedgerInv, Grows, NEW t, Sound(t)
  PROVE  Sound(t)'
<1>1. t.inputs \in Seq(DOMAIN coins) /\ \A i \in DOMAIN t.inputs : t.inputs[i] \in DOMAIN coins
  BY DEF Sound, WellFormed
<1>2. \A i \in DOMAIN t.inputs : /\ Mature(t.inputs[i], height)'
                                 /\ t.inputs[i] \in DOMAIN coins'
                                 /\ coins'[t.inputs[i]] = coins[t.inputs[i]]
  BY <1>1, StaysMature DEF Sound, Signed
<1>3. InSum(t)' = InSum(t)
  <2>1. [i \in DOMAIN t.inputs |-> coins'[t.inputs[i]].value]
          = [i \in DOMAIN t.inputs |-> coins[t.inputs[i]].value]
    BY <1>2
  <2> QED  BY <2>1 DEF InSum
<1>4. WellFormed(t)'
  <2>1. t.inputs \in Seq(DOMAIN coins')
    BY <1>1, <1>2
  <2> QED  BY <2>1 DEF Sound, WellFormed
<1>5. Signed(t)'
  BY <1>2 DEF Sound, Signed
<1>6. Settles(t)'
  BY <1>2 DEF Sound, Settles
<1> QED  BY <1>3, <1>4, <1>5, <1>6 DEF Sound, OutSum

LEMMA AgreedStays ==
  ASSUME Grows, NEW t, Sound(t), Agreed(t)
  PROVE  Agreed(t)'
<1> SUFFICES ASSUME t.terms # NoTerms PROVE Agreed(t)'
  BY DEF Agreed
<1>1. t.inputs \in Seq(DOMAIN coins) /\ t.inputs # << >>
  BY DEF Sound, WellFormed, Settles
<1>2. t.inputs[1] \in DOMAIN coins
  BY <1>1
<1>3. coins'[t.inputs[1]] = coins[t.inputs[1]]
  BY <1>2 DEF Grows
<1> QED  BY <1>3 DEF Agreed

LEMMA AcceptedStays ==
  ASSUME BuiltInv, AcceptedInv, Grows, pending' \subseteq pending
  PROVE  AcceptedInv'
<1>1. \A t \in pending : Sound(t) /\ Agreed(t)
  BY DEF BuiltInv, Built, AcceptedInv, Agreed
<1>2. \A t \in pending' : Agreed(t)'
  BY <1>1, AgreedStays
<1> QED  BY <1>2 DEF AcceptedInv, Agreed

LEMMA OrdersStay ==
  ASSUME LedgerInv, OrdersInv, Grows, orders' = orders
  PROVE  OrdersInv'
<1> SUFFICES ASSUME NEW o \in orders
             PROVE  /\ {o.price, o.amount} \subseteq Nat /\ o.seller \in Address
                    /\ o.anchor \in DOMAIN coins' /\ coins'[o.anchor].lock = P2pkh(o.seller)
                    /\ Mature(o.anchor, height)'
  BY DEF OrdersInv
<1>1. o.anchor \in DOMAIN coins /\ Mature(o.anchor, height)
  BY DEF OrdersInv
<1>2. /\ o.anchor \in DOMAIN coins' /\ coins'[o.anchor] = coins[o.anchor]
      /\ Mature(o.anchor, height)'
  BY <1>1, StaysMature
<1> QED  BY <1>2 DEF OrdersInv

LEMMA ChainStays ==
  ASSUME LedgerInv, UNCHANGED chain
  PROVE  LedgerInv' /\ Grows
<1>1. height' = height /\ coins' = coins /\ spent' = spent /\ assets' = assets
  BY DEF chain
<1>2. height \in Nat
  BY CoinFacts
<1> QED  BY <1>1, <1>2 DEF LedgerInv, Grows

-----------------------------------------------------------------------------
\* Steps

\* A transaction is written to a file.
LEMMA WriteStep ==
  ASSUME WalletInv, NEW f, NEW t, PlainSound(t), file' = Put(file, f, t),
         UNCHANGED <<chain, pending, sigs, orders, offers, key>>
  PROVE  WalletInv'
<1> USE DEF WalletInv
<1>1. /\ height' = height /\ coins' = coins /\ spent' = spent /\ pending' = pending
      /\ sigs' = sigs /\ orders' = orders /\ offers' = offers /\ key' = key /\ UNCHANGED chain
  BY DEF chain
<1>2. LedgerInv' /\ Grows
  BY <1>1, ChainStays
<1>3. DOMAIN file' = DOMAIN file \cup {f} /\ file'[f] = t
      /\ \A g \in DOMAIN file : g # f => file'[g] = file[g]
  BY DEF Put
<1>4. BuiltInv'
  <2>1. \A u \in Built' : u = t \/ u \in Built
    BY <1>1, <1>3 DEF Built
  <2>2. \A u \in Built : Sound(u)'
    BY <1>2, SoundStays DEF BuiltInv
  <2>3. Sound(t)'
    BY <1>2, SoundStays DEF PlainSound
  <2> QED  BY <2>1, <2>2, <2>3 DEF BuiltInv
<1>5. PendingInv' /\ SigsInv' /\ OffersInv' /\ KeysInv'
  BY <1>1 DEF PendingInv, SigsInv, OffersInv, KeysInv
<1>6. FilesInv'
  BY <1>3 DEF FilesInv, PlainSound
<1>7. OrdersInv' /\ AcceptedInv'
  BY <1>1, <1>2, OrdersStay, AcceptedStays
<1> QED  BY <1>2, <1>4, <1>5, <1>6, <1>7

\* The node takes a transaction.
LEMMA PostStep ==
  ASSUME WalletInv, NEW t, Sound(t), Agreed(t), Post(t),
         UNCHANGED <<chain, file, sigs, orders, offers, key>>
  PROVE  WalletInv'
<1> USE DEF WalletInv
<1>1. /\ height' = height /\ coins' = coins /\ spent' = spent /\ file' = file
      /\ sigs' = sigs /\ orders' = orders /\ offers' = offers /\ key' = key /\ UNCHANGED chain
  BY DEF chain
<1>2. LedgerInv' /\ Grows
  BY <1>1, ChainStays
<1>3. pending' = pending \cup {t} /\ Accepts(t)
  BY DEF Post
<1>4. BuiltInv'
  <2>1. \A u \in Built' : u = t \/ u \in Built
    BY <1>1, <1>3 DEF Built
  <2>2. \A u \in Built : Sound(u)'
    BY <1>2, SoundStays DEF BuiltInv
  <2>3. Sound(t)'
    BY <1>2, SoundStays
  <2> QED  BY <2>1, <2>2, <2>3 DEF BuiltInv
<1>5. SigsInv' /\ OffersInv' /\ KeysInv' /\ FilesInv'
  BY <1>1 DEF SigsInv, OffersInv, KeysInv, FilesInv
<1>6. OrdersInv'
  BY <1>1, <1>2, OrdersStay
<1>7. ToSet(t.inputs) \cap DOMAIN spent = {}
  <2>1. ASSUME NEW i \in DOMAIN t.inputs PROVE t.inputs[i] \notin DOMAIN spent
    <3>1. t.inputs[i] \in DOMAIN spent => spent[t.inputs[i]] > height
      BY <1>3 DEF Accepts, Unspent
    <3>2. \A o \in DOMAIN spent : spent[o] \in 0 .. height
      BY DEF LedgerInv
    <3>3. height \in Nat
      BY CoinFacts
    <3> QED  BY <3>1, <3>2, <3>3
  <2> QED  BY <2>1 DEF ToSet
<1>8. IsInjective(t.inputs) /\ \A p \in pending : ToSet(p.inputs) \cap ToSet(t.inputs) = {}
  BY <1>3 DEF Accepts, Conflicts
<1>9. PendingInv'
  <2> HIDE DEF ToSet
  <2> QED  BY <1>1, <1>3, <1>7, <1>8 DEF PendingInv
<1>10. AcceptedInv'
  <2>1. \A u \in pending' : Sound(u) /\ Agreed(u)
    BY <1>3 DEF BuiltInv, Built, AcceptedInv, Agreed
  <2>2. \A u \in pending' : Agreed(u)'
    BY <1>2, <2>1, AgreedStays
  <2> QED  BY <2>2 DEF AcceptedInv, Agreed
<1> QED  BY <1>2, <1>4, <1>5, <1>6, <1>9, <1>10

LEMMA PlainPost ==
  ASSUME WalletInv, NEW t, PlainSound(t), Post(t),
         UNCHANGED <<chain, file, sigs, orders, offers, key>>
  PROVE  WalletInv'
<1>1. Sound(t) /\ Agreed(t)
  BY DEF PlainSound, Agreed
<1> QED  BY <1>1, PostStep

\* An offer is handed over.
LEMMA OfferStep ==
  ASSUME WalletInv, NEW t, Sound(t), t.terms # NoTerms, offers' = offers \cup {t},
         UNCHANGED <<chain, pending, file, sigs, orders, key>>
  PROVE  WalletInv'
<1> USE DEF WalletInv
<1>1. /\ height' = height /\ coins' = coins /\ spent' = spent /\ file' = file /\ pending' = pending
      /\ sigs' = sigs /\ orders' = orders /\ key' = key /\ UNCHANGED chain
  BY DEF chain
<1>2. LedgerInv' /\ Grows
  BY <1>1, ChainStays
<1>3. BuiltInv'
  <2>1. \A u \in Built' : u = t \/ u \in Built
    BY <1>1 DEF Built
  <2>2. \A u \in Built : Sound(u)'
    BY <1>2, SoundStays DEF BuiltInv
  <2>3. Sound(t)'
    BY <1>2, SoundStays
  <2> QED  BY <2>1, <2>2, <2>3 DEF BuiltInv
<1>4. PendingInv' /\ SigsInv' /\ OffersInv' /\ KeysInv' /\ FilesInv'
  BY <1>1 DEF PendingInv, SigsInv, OffersInv, KeysInv, FilesInv
<1>5. OrdersInv' /\ AcceptedInv'
  BY <1>1, <1>2, OrdersStay, AcceptedStays
<1> QED  BY <1>2, <1>3, <1>4, <1>5

\* Nothing that was built changes.
LEMMA BuiltStays ==
  ASSUME WalletInv, UNCHANGED <<chain, pending, file, offers>>
  PROVE  LedgerInv' /\ Grows /\ BuiltInv' /\ PendingInv' /\ AcceptedInv' /\ FilesInv' /\ OffersInv'
<1> USE DEF WalletInv
<1>1. /\ spent' = spent /\ file' = file /\ pending' = pending /\ offers' = offers /\ UNCHANGED chain
  BY DEF chain
<1>2. LedgerInv' /\ Grows
  BY <1>1, ChainStays
<1>3. BuiltInv'
  <2>1. Built' = Built
    BY <1>1 DEF Built
  <2>2. \A u \in Built : Sound(u)'
    BY <1>2, SoundStays DEF BuiltInv
  <2> QED  BY <2>1, <2>2 DEF BuiltInv
<1>4. PendingInv' /\ OffersInv' /\ FilesInv'
  BY <1>1 DEF PendingInv, OffersInv, FilesInv
<1>5. AcceptedInv'
  BY <1>1, <1>2, AcceptedStays
<1> QED  BY <1>2, <1>3, <1>4, <1>5

\* The asset state keeps its shape, and royalties stay numbers.
AssetsShape(as) ==
  /\ as = [assets |-> as.assets, ft_balances |-> as.ft_balances, nft_owner |-> as.nft_owner]
  /\ \A id \in DOMAIN as.assets : as.assets[id].royalty_bps \in Nat

LEMMA AppliedShape ==
  ASSUME NEW s, AssetsShape(s), NEW t, NEW h, NEW source, NEW dest, NEW op,
         op.op \in {"issue", "nft_mint", "transfer"}, op.op = "nft_mint" => op.royalty \in Nat
  PROVE  AssetsShape(AS!Applied(s, t, h, source, dest, op))
<1> DEFINE r == AS!Applied(s, t, h, source, dest, op)
<1>0. s = [assets |-> s.assets, ft_balances |-> s.ft_balances, nft_owner |-> s.nft_owner]
      /\ \A id \in DOMAIN s.assets : s.assets[id].royalty_bps \in Nat
  BY DEF AssetsShape
<1>1. CASE op.op = "issue"
  <2> DEFINE n == [kind |-> "ft", supply |-> op.supply, issuer |-> source, mint_height |-> h,
                   royalty_bps |-> 0, royalty_addr |-> AS!NoAddr]
             A == AS!Put(s.assets, t, n)
             B == AS!Put(s.ft_balances, <<source, t>>, AS!ft_balance(s, source, t) + op.supply)
  <2>1. r = [s EXCEPT !.assets = A, !.ft_balances = B]
    BY <1>1 DEF AS!Applied
  <2>2. r = [assets |-> A, ft_balances |-> B, nft_owner |-> s.nft_owner]
    <3> HIDE DEF A, B, r
    <3> QED  BY <1>0, <2>1
  <2>3. \A id \in DOMAIN A : A[id].royalty_bps \in Nat
    BY <1>0 DEF AS!Put
  <2> HIDE DEF A, B, r
  <2> QED  BY <2>2, <2>3 DEF AssetsShape, r
<1>2. CASE op.op = "nft_mint"
  <2> DEFINE n == [kind |-> "nft", supply |-> 1, issuer |-> source, mint_height |-> h,
                   royalty_bps |-> op.royalty, royalty_addr |-> op.royalty_addr]
             A == AS!Put(s.assets, t, n)
             B == AS!Put(s.nft_owner, t, source)
  <2>1. r = [s EXCEPT !.assets = A, !.nft_owner = B]
    BY <1>2 DEF AS!Applied
  <2>2. r = [assets |-> A, ft_balances |-> s.ft_balances, nft_owner |-> B]
    <3> HIDE DEF A, B, r
    <3> QED  BY <1>0, <2>1
  <2>3. \A id \in DOMAIN A : A[id].royalty_bps \in Nat
    BY <1>0, <1>2 DEF AS!Put
  <2> HIDE DEF A, B, r
  <2> QED  BY <2>2, <2>3 DEF AssetsShape, r
<1>3. CASE op.op = "transfer"
  <2> DEFINE M == AS!MoveBalance(s, source, dest, op)
             N == AS!Put(s.nft_owner, op.asset, dest)
  <2>1. \/ r = [s EXCEPT !.ft_balances = M]
        \/ r = [s EXCEPT !.nft_owner = N]
    BY <1>3 DEF AS!Applied
  <2> HIDE DEF M, N, r
  <2>2. \/ r = [assets |-> s.assets, ft_balances |-> M, nft_owner |-> s.nft_owner]
        \/ r = [assets |-> s.assets, ft_balances |-> s.ft_balances, nft_owner |-> N]
    BY <1>0, <2>1
  <2> QED  BY <1>0, <2>2 DEF AssetsShape, r
<1> QED  BY <1>1, <1>2, <1>3

LEMMA AssetsAfterShape ==
  ASSUME AssetsShape(assets), NEW t, AreOutputs(t.outputs)
  PROVE  AssetsShape(AssetsAfter(t))
<1> DEFINE op == first_op(t.outputs)
           dest == IF op.op = "transfer" /\ op.dest + 1 \in DOMAIN t.outputs
                   THEN extract_address(t.outputs[op.dest + 1]) ELSE NoAddress
           src == resolve_source(t)
<1>1. AssetsAfter(t) = IF op # NoOp /\ src # NoAddress
                          /\ AS!Applies(assets, height + 1, src, dest, op)
                       THEN AS!Applied(assets, height + 1, height + 1, src, dest, op) ELSE assets
  BY DEF AssetsAfter
<1>2. op = NoOp \/ \E i \in DOMAIN t.outputs : op = t.outputs[i].op
  <2> DEFINE carry == {i \in DOMAIN t.outputs : t.outputs[i].op # NoOp}
  <2>1. Len(t.outputs) \in Nat /\ DOMAIN t.outputs = 1 .. Len(t.outputs)
    BY OutputsFacts
  <2>2. carry \subseteq Nat
    BY <2>1
  <2>3. CASE carry = {}
    BY <2>3 DEF first_op
  <2>4. CASE carry # {}
    <3>1. \E i \in carry : \A j \in carry : i <= j
      <4> HIDE DEF carry
      <4> QED  BY <2>2, <2>4, LeastElement
    <3>2. (CHOOSE i \in carry : \A j \in carry : i <= j) \in carry
      <4> HIDE DEF carry
      <4> QED  BY <3>1
    <3>3. op = t.outputs[CHOOSE i \in carry : \A j \in carry : i <= j].op
      BY <2>4 DEF first_op
    <3> QED  BY <3>2, <3>3
  <2> QED  BY <2>3, <2>4
<1> HIDE DEF op, dest, src
<1>3. CASE op # NoOp /\ src # NoAddress /\ AS!Applies(assets, height + 1, src, dest, op)
  <2>1. PICK i \in DOMAIN t.outputs : op = t.outputs[i].op
    BY <1>2, <1>3
  <2>2. /\ op.op \in {"issue", "nft_mint", "transfer"}
        /\ op.op = "nft_mint" => op.royalty \in Nat
    BY <1>3, <2>1 DEF AreOutputs, IsOutput, IsOp
  <2> QED  BY <1>1, <1>3, <2>2, AppliedShape
<1>4. CASE ~ (op # NoOp /\ src # NoAddress /\ AS!Applies(assets, height + 1, src, dest, op))
  BY <1>1, <1>4
<1> QED  BY <1>3, <1>4

\* A block: new coins at new outpoints, and the coins that are there stay.
LEMMA MinedCoins ==
  ASSUME LedgerInv, NEW t, AreOutputs(t.outputs), Mine(t)
  PROVE  /\ Grows /\ height' = height + 1 /\ IsFiniteSet(DOMAIN coins')
         /\ DOMAIN coins' = DOMAIN coins \cup DOMAIN NewCoins(t)
         /\ DOMAIN coins \cap DOMAIN NewCoins(t) = {} /\ IsFiniteSet(DOMAIN NewCoins(t))
         /\ \A o \in DOMAIN NewCoins(t) :
              /\ o[1] = height + 1 /\ o[2] \in DOMAIN t.outputs /\ o = <<height + 1, o[2]>>
              /\ coins'[o] = [lock |-> t.outputs[o[2]].lock, value |-> t.outputs[o[2]].value,
                              height |-> height + 1, coinbase |-> FALSE]
              /\ t.outputs[o[2]].lock # DataLock
<1> DEFINE made == {j \in DOMAIN t.outputs : t.outputs[j].lock # DataLock}
           new == DOMAIN NewCoins(t)
           g == [i \in made |-> <<height + 1, i>>]
<1>1. height \in Nat /\ IsFiniteSet(DOMAIN coins) /\ \A o \in DOMAIN coins : o \in (0 .. height) \X Nat
  BY CoinFacts
<1>2. new = {<<height + 1, i>> : i \in made}
  BY DEF NewCoins
<1>3. height' = height + 1
      /\ coins' = [o \in new \cup DOMAIN coins |->
                     IF o \in new THEN NewCoins(t)[o] ELSE coins[o]]
  BY DEF Mine
<1>4. \A o \in new : NewCoins(t)[o] = [lock |-> t.outputs[o[2]].lock, value |-> t.outputs[o[2]].value,
                                       height |-> height + 1, coinbase |-> FALSE]
  BY DEF NewCoins
<1> HIDE DEF new
<1>5. \A o \in new : o[1] = height + 1 /\ o[2] \in made /\ o = <<height + 1, o[2]>>
  BY <1>2
<1>6. DOMAIN coins \cap new = {}
  <2>1. ASSUME NEW o \in DOMAIN coins, o \in new PROVE FALSE
    <3>1. o[1] \in 0 .. height
      BY <1>1
    <3>2. o[1] = height + 1
      BY <1>5, <2>1
    <3> QED  BY <1>1, <3>1, <3>2
  <2> QED  BY <2>1
<1>7. IsFiniteSet(new)
  <2>1. IsFiniteSet(made)
    BY OutputsFacts, FS_Subset
  <2>2. g \in Surjection(made, new)
    BY <1>2 DEF Surjection
  <2> HIDE DEF g, made
  <2> QED  BY <2>1, <2>2, FS_Surjection
<1>8. DOMAIN coins' = DOMAIN coins \cup new /\ IsFiniteSet(DOMAIN coins')
  <2>1. DOMAIN coins' = DOMAIN coins \cup new
    BY <1>3
  <2> QED  BY <1>1, <1>7, <2>1, FS_Union
<1>9. \A o \in DOMAIN coins : o \in DOMAIN coins' /\ coins'[o] = coins[o]
  BY <1>3, <1>6
<1>10. \A o \in new : coins'[o] = NewCoins(t)[o]
  BY <1>3
<1>11. Grows
  BY <1>1, <1>3, <1>9 DEF Grows
<1> QED  BY <1>3, <1>4, <1>5, <1>6, <1>7, <1>8, <1>10, <1>11 DEF new

LEMMA MineStep ==
  ASSUME WalletInv, NEW t \in pending, Mine(t)
  PROVE  WalletInv'
<1> USE DEF WalletInv
<1>1. Sound(t) /\ AreOutputs(t.outputs)
  BY DEF BuiltInv, Built, Sound, WellFormed
<1>2. /\ assets' = AssetsAfter(t) /\ file' = file /\ sigs' = sigs /\ orders' = orders
      /\ offers' = offers /\ key' = key
      /\ pending' = {p \in pending : ToSet(p.inputs) \cap ToSet(t.inputs) = {}}
      /\ spent' = [o \in ToSet(t.inputs) \cup DOMAIN spent |->
                     IF o \in ToSet(t.inputs) THEN height + 1 ELSE spent[o]]
  BY DEF Mine
<1>3. Grows /\ height' = height + 1 /\ height \in Nat
  BY <1>1, MinedCoins, CoinFacts
<1>4. LedgerInv'
  <2>1. AssetsShape(assets')
    BY <1>1, <1>2, AssetsAfterShape DEF LedgerInv, IsLedger, AssetsShape
  <2>2. ASSUME NEW o \in DOMAIN spent'
        PROVE  o \in DOMAIN coins' /\ spent'[o] \in 0 .. height'
    <3>1. ToSet(t.inputs) \subseteq DOMAIN coins
      BY <1>1 DEF Sound, WellFormed, ToSet
    <3>2. \A q \in DOMAIN spent : q \in DOMAIN coins /\ spent[q] \in 0 .. height
      BY DEF LedgerInv
    <3>3. DOMAIN coins \subseteq DOMAIN coins'
      BY <1>3 DEF Grows
    <3> HIDE DEF ToSet
    <3> QED  BY <1>2, <1>3, <3>1, <3>2, <3>3
  <2>3. IsFiniteSet(DOMAIN coins')
    BY <1>1, MinedCoins
  <2>4. ASSUME NEW o \in DOMAIN coins'
        PROVE  /\ o \in (0 .. height') \X Nat /\ IsLock(coins'[o].lock)
               /\ coins'[o].value \in Nat /\ coins'[o].height \in 0 .. height'
    <3>1. CASE o \in DOMAIN coins
      <4>1. coins'[o] = coins[o]
        BY <1>3, <3>1 DEF Grows
      <4> QED  BY <1>3, <3>1, <4>1, CoinFacts
    <3>2. CASE o \in DOMAIN NewCoins(t)
      <4>1. /\ o[2] \in DOMAIN t.outputs /\ o = <<height + 1, o[2]>>
            /\ coins'[o].lock = t.outputs[o[2]].lock /\ coins'[o].value = t.outputs[o[2]].value
            /\ coins'[o].height = height + 1
        <5>1. \A q \in DOMAIN NewCoins(t) :
                /\ q[2] \in DOMAIN t.outputs /\ q = <<height + 1, q[2]>>
                /\ coins'[q] = [lock |-> t.outputs[q[2]].lock, value |-> t.outputs[q[2]].value,
                                height |-> height + 1, coinbase |-> FALSE]
          BY <1>1, MinedCoins
        <5> HIDE DEF WalletInv
        <5>2. /\ o[2] \in DOMAIN t.outputs /\ o = <<height + 1, o[2]>>
              /\ coins'[o] = [lock |-> t.outputs[o[2]].lock, value |-> t.outputs[o[2]].value,
                              height |-> height + 1, coinbase |-> FALSE]
          BY <3>2, <5>1
        <5> QED  BY <5>2
      <4>2. o[2] \in Nat
        BY <1>1, <4>1, OutputsFacts
      <4>3. IsOutput(t.outputs[o[2]])
        BY <1>1, <4>1 DEF AreOutputs
      <4> QED  BY <1>3, <4>1, <4>2, <4>3 DEF IsOutput
    <3> QED  BY <1>1, <3>1, <3>2, MinedCoins
  <2>5. height' \in Nat
    BY <1>3
  <2> QED  BY <2>1, <2>2, <2>3, <2>4, <2>5 DEF LedgerInv, IsLedger, AssetsShape
<1>5. BuiltInv'
  <2>1. Built' \subseteq Built
    BY <1>2 DEF Built
  <2>2. \A u \in Built : Sound(u)'
    BY <1>3, SoundStays DEF BuiltInv
  <2> QED  BY <2>1, <2>2 DEF BuiltInv
<1>6. PendingInv'
  <2>1. DOMAIN spent' = ToSet(t.inputs) \cup DOMAIN spent
    BY <1>2
  <2> HIDE DEF ToSet
  <2> QED  BY <1>2, <2>1 DEF PendingInv
<1>7. SigsInv' /\ OffersInv' /\ KeysInv' /\ FilesInv'
  BY <1>2 DEF SigsInv, OffersInv, KeysInv, FilesInv
<1>8. OrdersInv' /\ AcceptedInv'
  BY <1>2, <1>3, OrdersStay, AcceptedStays
<1> QED  BY <1>4, <1>5, <1>6, <1>7, <1>8

LEMMA MineEmptyStep ==
  ASSUME WalletInv, MineEmpty
  PROVE  WalletInv'
<1> USE DEF WalletInv
<1>1. /\ height' = height + 1 /\ coins' = coins /\ spent' = spent /\ assets' = assets
      /\ pending' = pending /\ file' = file /\ sigs' = sigs /\ orders' = orders
      /\ offers' = offers /\ key' = key
  BY DEF MineEmpty
<1>2. Grows /\ height \in Nat
  BY <1>1, CoinFacts DEF Grows
<1>3. LedgerInv'
  <2>1. \A o \in DOMAIN coins : o \in (0 .. height) \X Nat => o \in (0 .. height + 1) \X Nat
    BY <1>2
  <2>2. \A o \in DOMAIN coins :
          coins[o].height \in 0 .. height => coins[o].height \in 0 .. height + 1
    BY <1>2
  <2>3. \A o \in DOMAIN spent : spent[o] \in 0 .. height => spent[o] \in 0 .. height + 1
    BY <1>2
  <2>4. height + 1 \in Nat
    BY <1>2
  <2> QED  BY <1>1, <2>1, <2>2, <2>3, <2>4 DEF LedgerInv, IsLedger
<1>4. BuiltInv'
  <2>1. Built' = Built
    BY <1>1 DEF Built
  <2>2. \A u \in Built : Sound(u)'
    BY <1>2, SoundStays DEF BuiltInv
  <2> QED  BY <2>1, <2>2 DEF BuiltInv
<1>5. PendingInv' /\ SigsInv' /\ OffersInv' /\ KeysInv' /\ FilesInv'
  BY <1>1 DEF PendingInv, SigsInv, OffersInv, KeysInv, FilesInv
<1>6. OrdersInv' /\ AcceptedInv'
  BY <1>1, <1>2, OrdersStay, AcceptedStays
<1> QED  BY <1>3, <1>4, <1>5, <1>6
-----------------------------------------------------------------------------
\* Commands

LEMMA PaymentsStep ==
  ASSUME WalletInv, Payments
  PROVE  WalletInv'
<1>1. LedgerInv /\ height \in Nat
  BY CoinFacts DEF WalletInv
<1>2. PICK p \in Address, to \in Payee, v \in Amount, fee \in Fee :
        \/ Send(p, to, v, fee)
        \/ \E h \in 0 .. height : SendFromState(p, to, v, fee, h)
        \/ SendToAddress(to, v, fee)
  BY DEF Payments
<1>3. v \in Nat /\ fee \in Nat
  BY WalletAssumption
<1>4. ASSUME NEW h \in 0 .. height, NEW S \in Selections(UtxosAt(h, P2pkh(p)), v + fee),
             Written(p, "signed-tx", PaymentTx(p, S, to, v, fee)),
             UNCHANGED <<chain, pending, sigs, orders, offers, key>>
      PROVE  WalletInv'
  <2> DEFINE t == PaymentTx(p, S, to, v, fee)
             f == <<p, "signed-tx">>
  <2>1. PlainSound(t)
    BY <1>1, <1>3, PaymentTxSound
  <2>2. file' = Put(file, f, t)
    BY <1>4 DEF Written
  <2> HIDE DEF t, f
  <2> QED  BY <1>4, <2>1, <2>2, WriteStep
<1>5. CASE Send(p, to, v, fee)
  <2>1. height \in 0 .. height
    BY <1>1
  <2> QED  BY <1>4, <1>5, <2>1 DEF Send, getutxos
<1>6. CASE \E h \in 0 .. height : SendFromState(p, to, v, fee, h)
  BY <1>4, <1>6 DEF SendFromState
<1>7. CASE SendToAddress(to, v, fee)
  <2>1. PICK S \in Selections(UNION {getutxos(P2pkh(a)) : a \in Managed}, v + fee) :
          LET t == payment(SetToSeq(S),
                     <<Pay(to, v)>> \o PayIfAny(ChangeAddr, ValueOf(S) - v - fee), fee, NoTerms)
          IN  Post([t EXCEPT !.unlock = [i \in DOMAIN t.inputs |->
                 p2pkh_script_sig(t, extract_address(coins[t.inputs[i]]))]])
    BY <1>7 DEF SendToAddress
  <2>2. UNCHANGED <<chain, file, sigs, orders, offers, key>>
    BY <1>7 DEF SendToAddress
  <2> DEFINE t == payment(SetToSeq(S),
                     <<Pay(to, v)>> \o PayIfAny(ChangeAddr, ValueOf(S) - v - fee), fee, NoTerms)
             u == [t EXCEPT !.unlock = [i \in DOMAIN t.inputs |->
                     p2pkh_script_sig(t, extract_address(coins[t.inputs[i]]))]]
  <2>3. Post(u)
    BY <2>1
  <2>4. PlainSound(u)
    BY <1>1, <1>3, WithdrawalSound
  <2> HIDE DEF u
  <2> QED  BY <2>2, <2>3, <2>4, PlainPost
<1> QED  BY <1>2, <1>5, <1>6, <1>7

LEMMA WriteAssetStep ==
  ASSUME WalletInv, NEW p, NEW name \in {"signed-tx", "external"}, NEW op, IsOp(op),
         NEW dest, IsDest(dest), WriteAssetTx(p, name, op, dest)
  PROVE  WalletInv'
<1>1. PICK S \in Selections(getutxos(P2pkh(p)), AssetNeed(dest)) :
        Written(p, name, sign_transaction(AssetTx(p, op, dest, S), p))
  BY DEF WriteAssetTx
<1>2. UNCHANGED <<chain, pending, sigs, orders, offers, key>>
  BY DEF WriteAssetTx
<1> DEFINE t == sign_transaction(AssetTx(p, op, dest, S), p)
           f == <<p, name>>
<1>3. PlainSound(t)
  BY AssetTxSound DEF WalletInv
<1>4. file' = Put(file, f, t)
  BY <1>1 DEF Written
<1> HIDE DEF t, f
<1> QED  BY <1>2, <1>3, <1>4, WriteStep

LEMMA AssetsStep ==
  ASSUME WalletInv, Creations \/ Transfers
  PROVE  WalletInv'
<1>1. IsDest(<< >>) /\ \A to : IsDest(<<to>>)
  BY DEF IsDest
<1>2. ASSUME NEW n PROVE IsOp(IssueOp(n))
  BY DEF IsOp, IssueOp
<1>3. ASSUME NEW bps \in Bps, NEW to PROVE IsOp(MintOp(bps, to))
  BY WalletAssumption DEF IsOp, MintOp
<1>4. ASSUME NEW id, NEW n PROVE IsOp(TransferOp(id, n, 0))
  BY DEF IsOp, TransferOp
<1>5. CASE Creations
  <2>1. PICK p \in Address :
      \/ \E n \in Amount :
           AssetIssue(p, n) \/ AssetBuildIssue(p, n) \/ BuildAssetTx(p, IssueOp(n), << >>)
      \/ \E bps \in Bps, to \in Payee :
           \/ AssetMint(p, bps, to) \/ AssetBuildMint(p, bps, to)
           \/ BuildAssetTx(p, MintOp(bps, to), << >>)
    BY <1>5 DEF Creations
  <2>2. ASSUME NEW n \in Amount,
               AssetIssue(p, n) \/ AssetBuildIssue(p, n) \/ BuildAssetTx(p, IssueOp(n), << >>)
        PROVE  WalletInv'
    <3>1. \E name \in {"signed-tx", "external"} : WriteAssetTx(p, name, IssueOp(n), << >>)
      BY <2>2 DEF AssetIssue, AssetBuildIssue, BuildAssetTx, build_unsigned_asset_tx
    <3> QED  BY <1>1, <1>2, <3>1, WriteAssetStep
  <2>3. ASSUME NEW bps \in Bps, NEW to \in Payee,
               \/ AssetMint(p, bps, to) \/ AssetBuildMint(p, bps, to)
               \/ BuildAssetTx(p, MintOp(bps, to), << >>)
        PROVE  WalletInv'
    <3>1. \E name \in {"signed-tx", "external"} : WriteAssetTx(p, name, MintOp(bps, to), << >>)
      BY <2>3 DEF AssetMint, AssetBuildMint, BuildAssetTx, build_unsigned_asset_tx
    <3> QED  BY <1>1, <1>3, <3>1, WriteAssetStep
  <2> QED  BY <2>1, <2>2, <2>3
<1>6. CASE Transfers
  <2>1. PICK p \in Address, id \in AssetIds, n \in Amount, to \in Payee :
          AssetTransfer(p, id, n, to) \/ BuildAssetTx(p, TransferOp(id, n, 0), <<to>>)
    BY <1>6 DEF Transfers
  <2>2. \E name \in {"signed-tx", "external"} :
          WriteAssetTx(p, name, TransferOp(id, n, 0), <<to>>)
    BY <2>1 DEF AssetTransfer, BuildAssetTx
  <2> QED  BY <1>1, <1>4, <2>2, WriteAssetStep
<1> QED  BY <1>5, <1>6

LEMMA SellStep ==
  ASSUME WalletInv, NEW p \in Address, NEW id, NEW n \in Amount, NEW price \in Price,
         AssetSell(p, id, n, price)
  PROVE  WalletInv'
<1>1. PICK c \in getutxos(P2pkh(p)) :
        orders' = orders \cup {[asset |-> id, amount |-> n, price |-> price,
                                seller |-> p, anchor |-> c]}
  BY DEF AssetSell
<1>2. UNCHANGED <<chain, pending, file, sigs, offers, key>>
  BY DEF AssetSell
<1>3. LedgerInv' /\ Grows /\ BuiltInv' /\ PendingInv' /\ AcceptedInv' /\ FilesInv' /\ OffersInv'
  BY <1>2, BuiltStays
<1>4. SigsInv' /\ KeysInv'
  BY <1>2 DEF WalletInv, SigsInv, KeysInv
<1>5. height' = height /\ coins' = coins
  BY <1>2 DEF chain
<1>6. OrdersInv'
  <2> DEFINE new == [asset |-> id, amount |-> n, price |-> price, seller |-> p, anchor |-> c]
  <2>1. c \in DOMAIN coins /\ coins[c].lock = P2pkh(p) /\ Mature(c, height)
    BY DEF getutxos, UtxosAt, Unspent
  <2>2. Mature(c, height)'
    BY <1>5, <2>1 DEF Mature
  <2>3. /\ {new.price, new.amount} \subseteq Nat /\ new.seller = p /\ new.anchor = c
    BY WalletAssumption
  <2> HIDE DEF new
  <2>4. ASSUME NEW o \in orders'
        PROVE  /\ {o.price, o.amount} \subseteq Nat /\ o.seller \in Address
               /\ o.anchor \in DOMAIN coins'
               /\ coins'[o.anchor].lock = P2pkh(o.seller) /\ Mature(o.anchor, height)'
    <3>1. CASE o = new
      BY <1>5, <2>1, <2>2, <2>3, <3>1
    <3>2. CASE o \in orders
      BY <1>5, <3>2 DEF WalletInv, OrdersInv, Mature
    <3> QED  BY <1>1, <3>1, <3>2 DEF new
  <2> QED  BY <2>4 DEF OrdersInv
<1> QED  BY <1>3, <1>4, <1>6 DEF WalletInv

LEMMA BuyStep ==
  ASSUME WalletInv, NEW p \in Address, NEW o \in orders, AssetBuildSettlement(p, o)
  PROVE  WalletInv'
<1>1. PICK S \in Selections(getutxos(P2pkh(p)), o.price + Carrier + MinFee) : Offer(o, p, S)
  BY DEF AssetBuildSettlement
<1>2. UNCHANGED <<chain, pending, file, sigs, orders, key>> /\ o.asset \in DOMAIN assets.assets
  BY DEF AssetBuildSettlement
<1> DEFINE m == TermsOf(o, p)
           c == o.anchor
           outs == settlement_outputs(m, coins[c].value, ValueOf(S))
           t == SignBuyer(payment(<<c>> \o SetToSeq(S), outs, m.miner_fee, m), p)
<1>3. Affordable(m, ValueOf(S)) /\ offers' = offers \cup {t}
  BY <1>1 DEF Offer, build_settlement_tx, settlement_inputs
<1>4. LedgerInv /\ OrdersInv
  BY DEF WalletInv
<1>5. TermsOK(m) /\ m # NoTerms /\ m.buyer = p
  <2>1. o.price \in Nat /\ assets.assets[o.asset].royalty_bps \in Nat
    BY <1>2, <1>4, OrderNumbers
  <2>2. /\ m.price = o.price /\ m.royalty_bps = assets.assets[o.asset].royalty_bps
        /\ m.amount = o.amount /\ m.seller = o.seller /\ m.buyer = p /\ m.miner_fee = MinFee
    BY DEF TermsOf
  <2> HIDE DEF m
  <2>3. m.price \in Nat /\ m.royalty_bps \in Nat
    BY <2>1, <2>2
  <2> QED  BY <1>4, <2>2, <2>3, TermsFacts
<1>6. c \in DOMAIN coins /\ Mature(c, height) /\ coins[c].value \in Nat
  BY <1>4, CoinFacts DEF OrdersInv
<1>7. S \in SUBSET getutxos(P2pkh(p)) /\ ValueOf(S) \in Nat
  <2>1. S \in SUBSET getutxos(P2pkh(p))
    BY DEF Selections
  <2>2. S \in SUBSET DOMAIN coins
    BY <2>1, ScriptCoin
  <2> QED  BY <1>4, <2>1, <2>2, ChosenCoins
<1> HIDE DEF m, c
<1>8. AreOutputs(outs) /\ Total(outs) = coins[c].value + ValueOf(S) - m.miner_fee
  BY <1>3, <1>5, <1>6, <1>7, SettlementOutputs DEF DataSecond
<1> HIDE DEF outs
<1>9. Sound(t) /\ t.terms # NoTerms
  BY <1>4, <1>5, <1>6, <1>7, <1>8, OfferSound
<1> HIDE DEF t
<1> QED  BY <1>2, <1>3, <1>9, OfferStep

\* A file that something else wrote.
LEMMA OtherStep ==
  ASSUME WalletInv, NEW p \in Address, NEW o \in orders, OtherSettlement(p, o)
  PROVE  WalletInv'
<1>1. PICK m \in OtherTerms(o, p), c \in Unspent(height) :
      \E S \in Selections(getutxos(P2pkh(p)) \ {c}, m.price + Carrier + MinFee) :
        LET t == build_settlement_tx(m, c, S)
        IN  /\ Mature(c, height) /\ Affordable(m, ValueOf(S))
            /\ \E outs \in Altered(m, t.outputs) :
                 offers' = offers \cup {SignBuyer([t EXCEPT !.outputs = outs], p)}
  BY DEF OtherSettlement
<1>2. PICK S \in Selections(getutxos(P2pkh(p)) \ {c}, m.price + Carrier + MinFee) :
        LET t == build_settlement_tx(m, c, S)
        IN  /\ Mature(c, height) /\ Affordable(m, ValueOf(S))
            /\ \E outs \in Altered(m, t.outputs) :
                 offers' = offers \cup {SignBuyer([t EXCEPT !.outputs = outs], p)}
  BY <1>1
<1> DEFINE honest == settlement_outputs(m, coins[c].value, ValueOf(S))
           ins == <<c>> \o SetToSeq(S)
           t == payment(ins, honest, m.miner_fee, m)
<1>3. build_settlement_tx(m, c, S) = t /\ t.outputs = honest
  BY DEF build_settlement_tx, settlement_inputs, payment
<1>4. PICK outs \in Altered(m, honest) :
        offers' = offers \cup {SignBuyer([t EXCEPT !.outputs = outs], p)}
  BY <1>2, <1>3
<1>5. /\ UNCHANGED <<chain, pending, file, sigs, orders, key>> /\ o.asset \in DOMAIN assets.assets
      /\ Affordable(m, ValueOf(S)) /\ Mature(c, height) /\ c \in DOMAIN coins
  BY <1>2 DEF OtherSettlement, Unspent
<1>6. LedgerInv /\ OrdersInv
  BY DEF WalletInv
<1>7. TermsOK(m) /\ m # NoTerms /\ m.buyer = p
  <2>1. PICK price \in {o.price} \cup Amount, bps \in {0, assets.assets[o.asset].royalty_bps} :
          m = AtPrice(TermsOf(o, p), price, bps)
    BY DEF OtherTerms
  <2>2. /\ m.price = price /\ m.royalty_bps = bps
        /\ m.amount = o.amount /\ m.seller = o.seller /\ m.buyer = p /\ m.miner_fee = MinFee
    BY <2>1 DEF TermsOf, AtPrice
  <2>3. o.price \in Nat /\ assets.assets[o.asset].royalty_bps \in Nat /\ Amount \subseteq Nat
    BY <1>5, <1>6, OrderNumbers, WalletAssumption
  <2>4. m.price \in Nat /\ m.royalty_bps \in Nat
    BY <2>2, <2>3
  <2> QED  BY <1>6, <2>2, <2>4, TermsFacts
<1>8. S \in SUBSET getutxos(P2pkh(p)) /\ ValueOf(S) \in Nat /\ coins[c].value \in Nat
  <2>1. S \in SUBSET getutxos(P2pkh(p))
    BY DEF Selections
  <2>2. S \in SUBSET DOMAIN coins
    BY <2>1, ScriptCoin
  <2> QED  BY <1>5, <1>6, <2>1, <2>2, ChosenCoins, CoinFacts
<1>9. DataSecond(honest) /\ Total(honest) = coins[c].value + ValueOf(S) - m.miner_fee
  BY <1>5, <1>7, <1>8, SettlementOutputs
<1>10. [t EXCEPT !.outputs = outs] = payment(ins, outs, m.miner_fee, m)
  <2> HIDE DEF honest, ins
  <2> QED  BY DEF payment
<1> HIDE DEF honest, t
<1>11. AreOutputs(outs) /\ Total(outs) = coins[c].value + ValueOf(S) - m.miner_fee
  BY <1>4, <1>9, AlteredFacts
<1> DEFINE u == SignBuyer(payment(ins, outs, m.miner_fee, m), p)
<1>12. Sound(u) /\ u.terms # NoTerms
  BY <1>5, <1>6, <1>7, <1>8, <1>11, OfferSound
<1>13. offers' = offers \cup {u}
  BY <1>4, <1>10
<1> HIDE DEF u
<1> QED  BY <1>5, <1>12, <1>13, OfferStep

LEMMA MarketStep ==
  ASSUME WalletInv, Market
  PROVE  WalletInv'
<1>1. PICK p \in Address :
      \/ \E id \in AssetIds, n \in Amount, price \in Price : AssetSell(p, id, n, price)
      \/ \E o \in orders : AssetBuildSettlement(p, o)
      \/ \E o \in orders : OtherSettlement(p, o)
      \/ \E t \in offers : AssetAccept(p, t)
  BY DEF Market, AssetBuy
<1>2. CASE \E id \in AssetIds, n \in Amount, price \in Price : AssetSell(p, id, n, price)
  BY <1>2, SellStep
<1>3. CASE \E o \in orders : AssetBuildSettlement(p, o)
  BY <1>3, BuyStep
<1>4. CASE \E o \in orders : OtherSettlement(p, o)
  BY <1>4, OtherStep
<1>5. CASE \E t \in offers : AssetAccept(p, t)
  <2>1. PICK t \in offers : AssetAccept(p, t)
    BY <1>5
  <2>2. /\ t.terms.seller = p /\ Post(sign_input(t, 1, p)) /\ verify_settlement(t.outputs, t.terms)
        /\ UNCHANGED <<chain, file, sigs, orders, offers, key>>
    BY <2>1 DEF AssetAccept
  <2>3. Sound(t) /\ t.terms # NoTerms
    BY DEF WalletInv, BuiltInv, Built, OffersInv
  <2>4. Sound(sign_input(t, 1, p)) /\ Agreed(sign_input(t, 1, p))
    BY <2>2, <2>3, AcceptSound DEF Post
  <2> QED  BY <2>2, <2>4, PostStep
<1> QED  BY <1>1, <1>2, <1>3, <1>4, <1>5

LEMMA SpendStep ==
  ASSUME WalletInv, NEW lock \in Locks, NEW to, NEW amount \in Amount,
         MultisigSpend(lock, to, amount)
  PROVE  WalletInv'
<1>1. LedgerInv /\ amount \in Nat
  BY WalletAssumption DEF WalletInv
<1>2. IsLock(lock)
  BY <1>1, CoinFacts DEF Locks, Unspent
<1>3. PICK S \in Selections(getutxos(lock), amount + MinFee) :
        Written(lock[1], "unsigned-tx", build_unsigned_multisig_tx(lock, to, amount, S))
  BY DEF MultisigSpend
<1>4. UNCHANGED <<chain, pending, sigs, orders, offers, key>>
  BY DEF MultisigSpend
<1> DEFINE t == build_unsigned_multisig_tx(lock, to, amount, S)
           f == <<lock[1], "unsigned-tx">>
<1>5. PlainSound(t)
  BY <1>1, <1>2, MultisigSound
<1>6. file' = Put(file, f, t)
  BY <1>3 DEF Written
<1> HIDE DEF t, f
<1> QED  BY <1>4, <1>5, <1>6, WriteStep

LEMMA SignStep ==
  ASSUME WalletInv, NEW f \in DOMAIN file, NEW p \in Address, MultisigSign(f, p)
  PROVE  WalletInv'
<1> DEFINE v == [unsigned_txid |-> transaction_id(file[f]), sig |-> sign_hash(file[f], p)]
           k == <<f, p>>
<1>1. sigs' = Put(sigs, k, v) /\ UNCHANGED <<chain, pending, file, orders, offers, key>>
  BY DEF MultisigSign
<1>2. LedgerInv' /\ Grows /\ BuiltInv' /\ PendingInv' /\ AcceptedInv' /\ FilesInv' /\ OffersInv'
  BY <1>1, BuiltStays
<1>3. OrdersInv' /\ KeysInv'
  BY <1>1, <1>2, OrdersStay DEF WalletInv, KeysInv
<1>4. v.unsigned_txid[1] = file[f].inputs /\ v.unsigned_txid[3] = file[f].outputs
      /\ v.sig = <<p, <<file[f].inputs, file[f].outputs>>>> /\ k[2] = p
  BY DEF transaction_id, sign_hash, signature_hash
<1> HIDE DEF v, k
<1>5. SigsInv'
  BY <1>1, <1>4 DEF WalletInv, SigsInv, Put
<1> QED  BY <1>2, <1>3, <1>5 DEF WalletInv

LEMMA CombineStep ==
  ASSUME WalletInv, NEW f \in DOMAIN file, NEW n \in Nat, NEW who \in [1 .. n -> Address],
         NEW kind \in CombineKind, MultisigCombine(f, who, kind)
  PROVE  WalletInv'
<1> DEFINE t == Stamp(file[f],
                      [kind |-> kind, sigs |-> [i \in DOMAIN who |-> sigs[<<f, who[i]>>].sig]])
<1>1. /\ \A i \in DOMAIN who : SignedThis(f, who[i])
      /\ file' = [file EXCEPT ![f] = t]
      /\ UNCHANGED <<chain, pending, sigs, orders, offers, key>>
  BY DEF MultisigCombine
<1>2. PlainSound(file[f])
  BY DEF WalletInv, BuiltInv, Built, FilesInv, PlainSound
<1>3. PlainSound(t)
  BY <1>1, <1>2, CombineSound DEF WalletInv
<1> HIDE DEF t
<1>4. file' = Put(file, f, t)
  BY <1>1 DEF Put
<1> QED  BY <1>1, <1>3, <1>4, WriteStep

LEMMA HtlcStep ==
  ASSUME WalletInv, NEW p \in Address, NEW lock, NEW to, NEW name, NEW kind \in HtlcKind,
         HtlcSpend(p, lock, to, name, kind)
  PROVE  WalletInv'
<1>1. PICK o \in getutxos(lock) :
        /\ coins[o].value > MinFee
        /\ LET t == ScriptSpend(o, to)
           IN  Written(p, name, Stamp(t, [kind |-> kind, sigs |-> <<sign_hash(t, p)>>]))
  BY DEF HtlcSpend
<1>2. UNCHANGED <<chain, pending, sigs, orders, offers, key>>
  BY DEF HtlcSpend
<1> DEFINE t == Stamp(ScriptSpend(o, to),
                      [kind |-> kind, sigs |-> <<sign_hash(ScriptSpend(o, to), p)>>])
           f == <<p, name>>
<1>3. o \in DOMAIN coins /\ Mature(o, height)
  BY ScriptCoin
<1>4. PlainSound(t)
  BY <1>1, <1>3, HtlcSound DEF WalletInv
<1>5. file' = Put(file, f, t)
  BY <1>1 DEF Written
<1> HIDE DEF t, f
<1> QED  BY <1>2, <1>4, <1>5, WriteStep

LEMMA ClaimStep ==
  ASSUME WalletInv, NEW p \in Address, NEW lock, NEW to, VestingClaim(p, lock, to)
  PROVE  WalletInv'
<1>1. PICK o \in getutxos(lock) :
        coins[o].value > MinFee /\ Post(sign_transaction(ScriptSpend(o, to), p))
  BY DEF VestingClaim
<1>2. UNCHANGED <<chain, file, sigs, orders, offers, key>>
  BY DEF VestingClaim
<1>3. o \in DOMAIN coins /\ Mature(o, height)
  BY ScriptCoin
<1>4. PlainSound(sign_transaction(ScriptSpend(o, to), p))
  BY <1>1, <1>3, VestedSound DEF WalletInv, Post
<1> QED  BY <1>1, <1>2, <1>4, PlainPost

LEMMA LockStep ==
  ASSUME WalletInv, NEW p \in Address, NEW to, NEW total \in Price, NEW bps \in Bps,
         NEW n \in Tranches, VestingLock(p, to, total, bps, n)
  PROVE  WalletInv'
<1>1. total \in Nat /\ bps \in Nat /\ n \in Nat \ {0}
  BY WalletAssumption
<1>2. PICK S \in Selections(getutxos(P2pkh(p)), total + MinFee) :
        Post(build_signed_vesting(p, VestingOutputs(to, total, bps, n, height + 1), total, S))
  BY DEF VestingLock
<1>3. bps <= BpsBase /\ UNCHANGED <<chain, file, sigs, orders, offers, key>>
  BY DEF VestingLock
<1>4. bps \in 0 .. BpsBase
  BY <1>1, <1>3, SettlementAssumption
<1>5. PlainSound(build_signed_vesting(p, VestingOutputs(to, total, bps, n, height + 1), total, S))
  BY <1>1, <1>4, VestingSound DEF WalletInv
<1> QED  BY <1>2, <1>3, <1>5, PlainPost

LEMMA ScriptsStep ==
  ASSUME WalletInv, Scripts
  PROVE  WalletInv'
<1>1. CASE \E lock \in Locks, to \in Payee, v \in Amount : MultisigSpend(lock, to, v)
  BY <1>1, SpendStep
<1>2. CASE \E f \in DOMAIN file, p \in Address : MultisigSign(f, p)
  BY <1>2, SignStep
<1>3. CASE \E f \in DOMAIN file, n \in 2 .. MaxSigFiles, kind \in CombineKind :
             \E who \in [1 .. n -> {p \in Address : <<f, p>> \in DOMAIN sigs}] :
               MultisigCombine(f, who, kind)
  <2>1. PICK f \in DOMAIN file, n \in 2 .. MaxSigFiles, kind \in CombineKind :
             \E who \in [1 .. n -> {p \in Address : <<f, p>> \in DOMAIN sigs}] :
               MultisigCombine(f, who, kind)
    BY <1>3
  <2>2. PICK who \in [1 .. n -> {p \in Address : <<f, p>> \in DOMAIN sigs}] :
          MultisigCombine(f, who, kind)
    BY <2>1
  <2>3. n \in Nat
    <3>1. MaxSigFiles \in Nat
      BY WalletAssumption
    <3> QED  BY <3>1
  <2>4. who \in [1 .. n -> Address]
    OBVIOUS
  <2> QED  BY <2>2, <2>3, <2>4, CombineStep
<1>4. CASE \E p \in Address, lock \in Locks, to \in Payee :
             HtlcClaim(p, lock, to) \/ HtlcRefund(p, lock, to) \/ VestingClaim(p, lock, to)
  <2>1. PICK p \in Address, lock \in Locks, to \in Payee :
             HtlcClaim(p, lock, to) \/ HtlcRefund(p, lock, to) \/ VestingClaim(p, lock, to)
    BY <1>4
  <2>2. CASE HtlcClaim(p, lock, to)
    <3>1. PICK kind \in {"claim", "misclaim"} : HtlcSpend(p, lock, to, "claim", kind)
      BY <2>2 DEF HtlcClaim
    <3>2. kind \in HtlcKind
      BY DEF HtlcKind
    <3> QED  BY <3>1, <3>2, HtlcStep
  <2>3. CASE HtlcRefund(p, lock, to)
    <3>1. "refund" \in HtlcKind
      BY DEF HtlcKind
    <3> QED  BY <2>3, <3>1, HtlcStep DEF HtlcRefund
  <2> QED  BY <2>1, <2>2, <2>3, ClaimStep
<1>5. CASE \E p \in Address, to \in Payee, v \in Price, bps \in Bps, n \in Tranches :
             VestingLock(p, to, v, bps, n)
  BY <1>5, LockStep
<1> QED  BY <1>1, <1>2, <1>3, <1>4, <1>5 DEF Scripts

LEMMA KeyCommandsStep ==
  ASSUME WalletInv, KeyCommands
  PROVE  WalletInv'
<1>1. UNCHANGED <<chain, pending, file, sigs, orders, offers>>
  <2>1. PICK p \in Address : \E k : KeyStep(p, k)
    BY Zenon DEF KeyCommands, KeyCreate, RekeyBackup, RekeyTruncate, KeyWritten, KeyCrash
  <2> QED  BY <2>1 DEF KeyStep
<1>2. LedgerInv' /\ Grows /\ BuiltInv' /\ PendingInv' /\ AcceptedInv' /\ FilesInv' /\ OffersInv'
  BY <1>1, BuiltStays
<1>3. OrdersInv' /\ SigsInv'
  BY <1>1, <1>2, OrdersStay DEF WalletInv, SigsInv
<1>4. KeysInv'
  BY KeysKept DEF WalletInv
<1> QED  BY <1>2, <1>3, <1>4 DEF WalletInv

LEMMA BroadcastStep ==
  ASSUME WalletInv, NEW f \in DOMAIN file, Broadcast(f)
  PROVE  WalletInv'
<1>1. PlainSound(file[f])
  BY DEF WalletInv, BuiltInv, Built, FilesInv, PlainSound
<1> QED  BY <1>1, PlainPost DEF Broadcast

LEMMA WalletStep ==
  ASSUME WalletInv, [Next]_vars
  PROVE  WalletInv'
<1>1. CASE UNCHANGED vars
  <2>1. /\ UNCHANGED chain /\ pending' = pending /\ file' = file /\ offers' = offers
        /\ orders' = orders /\ sigs' = sigs /\ key' = key
    BY <1>1 DEF vars, chain
  <2>2. LedgerInv' /\ Grows /\ BuiltInv' /\ PendingInv' /\ AcceptedInv' /\ FilesInv' /\ OffersInv'
    BY <2>1, BuiltStays
  <2>3. OrdersInv' /\ SigsInv' /\ KeysInv'
    BY <2>1, <2>2, OrdersStay DEF WalletInv, SigsInv, KeysInv
  <2> QED  BY <2>2, <2>3 DEF WalletInv
<1> QED  BY <1>1, PaymentsStep, AssetsStep, MarketStep, ScriptsStep, KeyCommandsStep,
            BroadcastStep, MineStep, MineEmptyStep DEF Next

LEMMA WalletStart ==
  ASSUME Init
  PROVE  WalletInv
<1>1. PICK s \in Scenario :
        /\ height = s.height /\ coins = s.coins /\ spent = << >> /\ assets = s.assets
        /\ pending = {} /\ file = << >> /\ sigs = << >> /\ orders = {} /\ offers = {}
        /\ key = [p \in Address |->
                    [file |-> IF p \in s.keyed THEN "first" ELSE "absent",
                     backups |-> {}, doing |-> Idle, shown |-> p \in s.keyed]]
  BY DEF Init
<1>2. LedgerInv
  BY <1>1, WalletAssumption DEF LedgerInv
<1>3. BuiltInv /\ PendingInv /\ AcceptedInv /\ FilesInv /\ SigsInv /\ OffersInv /\ OrdersInv
  BY <1>1 DEF BuiltInv, Built, PendingInv, AcceptedInv, FilesInv, SigsInv, OffersInv, OrdersInv
<1>4. ASSUME NEW p \in Address
      PROVE  key[p] \in KeyType /\ KeyOK(key[p])
  <2> DEFINE k == [file |-> IF p \in s.keyed THEN "first" ELSE "absent",
                   backups |-> {}, doing |-> Idle, shown |-> p \in s.keyed]
  <2>1. key[p] = k
    BY <1>1
  <2>2. k \in KeyType
    BY DEF KeyType, Pass
  <2>3. k.doing[1] # "backed up" /\ (k.shown => Readable(k.file))
    BY DEF Idle, Readable, Pass
  <2> HIDE DEF k
  <2> QED  BY <2>1, <2>2, <2>3, Zenon DEF KeyOK
<1>5. KeysInv
  <2>1. key \in [Address -> KeyType]
    <3>1. DOMAIN key = Address /\ key = [p \in Address |-> key[p]]
      BY <1>1
    <3> QED  BY <1>4, <3>1
  <2> QED  BY <1>4, <2>1 DEF KeysInv
<1> QED  BY <1>2, <1>3, <1>5 DEF WalletInv

-----------------------------------------------------------------------------
\* The invariant of the wallets: every transaction in a file, in an offer or at the
\* node spends coins that exist, pays exactly its fee, and carries signatures of itself
\* only, and a settlement that reached the node was verified by its seller, whose key the
\* first coin is locked to; whoever wrote the settlement, whatever scripts, keys and redeem
\* scripts the commands were given, and whatever is signed, combined, broadcast or mined.
THEOREM WalletInvariant == Spec => []WalletInv
<1>1. Init => WalletInv
  BY WalletStart
<1>2. WalletInv /\ [Next]_vars => WalletInv'
  BY WalletStep
<1> QED  BY <1>1, <1>2, PTL DEF Spec

\* The key of every printed address can be read from the wallet file or a backup, at
\* every crash point of create and rekey.
THEOREM KeysAreRecoverable == Spec => []KeyRecoverable
<1>1. WalletInv => KeyRecoverable
  BY KeysReadable DEF WalletInv
<1> QED  BY <1>1, WalletInvariant, PTL

\* Every transaction pays the miner exactly the fee its command announced.
THEOREM FeesAreExact == Spec => []FeesExact
<1>1. WalletInv => FeesExact
  <2> SUFFICES ASSUME WalletInv, NEW t \in Built
               PROVE  InSum(t) - OutSum(t) = t.fee
    BY DEF FeesExact
  <2>1. Sound(t)
    BY DEF WalletInv, BuiltInv
  <2>2. InSum(t) = OutSum(t) + t.fee /\ t.fee \in Nat /\ AreOutputs(t.outputs)
    BY <2>1 DEF Sound, WellFormed
  <2>3. OutSum(t) \in Nat
    BY <2>2, OutputsFacts DEF OutSum
  <2> QED  BY <2>2, <2>3
<1> QED  BY <1>1, WalletInvariant, PTL

-----------------------------------------------------------------------------
\* What the node refuses

\* The place of a key among those of a script.
KeyPos(l, k) == CHOOSE n \in DOMAIN l[2] : l[2][n] = k

\* Signatures by keys of the script, in their order.
Ordered(l, s) ==
  /\ Len(s) >= l[3] /\ \A j \in DOMAIN s : s[j][1] \in ToSet(l[2])
  /\ \A j, k \in DOMAIN s : j < k => KeyPos(l, s[j][1]) < KeyPos(l, s[k][1])

LEMMA LastOnes ==
  ASSUME NEW S, NEW s \in Seq(S), NEW d \in 0 .. Len(s), NEW i \in 1 .. Len(s) - d
  PROVE  SubSeq(s, d + 1, Len(s))[i] = s[d + i]
<1>1. Len(s) \in Nat /\ \A j \in (d + 1) .. Len(s) : s[j] \in S
  OBVIOUS
<1>2. \A j \in 1 .. Len(s) - (d + 1) + 1 : SubSeq(s, d + 1, Len(s))[j] = s[(d + 1) + j - 1]
  BY <1>1, SubSeqProperties
<1>3. i \in 1 .. Len(s) - (d + 1) + 1 /\ (d + 1) + i - 1 = d + i
  BY <1>1
<1> QED  BY <1>2, <1>3

LEMMA ScriptOpens ==
  ASSUME NEW l, l[3] \in Nat, NEW u, NEW t, u.sigs \in Seq(Address \X {signature_hash(t)}),
         Ordered(l, u.sigs)
  PROVE  MultisigOpens(l, u, t)
<1> DEFINE s == u.sigs
           m == l[3]
           d == Len(s) - m
           last == SubSeq(s, d + 1, Len(s))
           f == [i \in 1 .. m |-> KeyPos(l, s[d + i][1])]
<1>1. Len(s) \in Nat /\ DOMAIN s = 1 .. Len(s) /\ Len(s) >= m /\ m \in Nat /\ d \in Nat
  BY DEF Ordered
<1>2. ASSUME NEW i \in 1 .. m
      PROVE  d + i \in DOMAIN s /\ last[i] = s[d + i]
  <2>1. d + i \in 1 .. Len(s)
    BY <1>1
  <2>2. i \in 1 .. Len(s) - d
    BY <1>1
  <2>3. s \in Seq(Address \X {signature_hash(t)}) /\ d \in 0 .. Len(s)
    BY <1>1
  <2> HIDE DEF s, d
  <2>4. SubSeq(s, d + 1, Len(s))[i] = s[d + i]
    BY <2>2, <2>3, LastOnes
  <2> QED  BY <1>1, <2>1, <2>4
<1>3. ASSUME NEW j \in DOMAIN s
      PROVE  /\ KeyPos(l, s[j][1]) \in DOMAIN l[2]
             /\ s[j] = <<l[2][KeyPos(l, s[j][1])], signature_hash(t)>>
  <2>1. s[j] \in Address \X {signature_hash(t)}
    BY <1>1, <1>3
  <2>2. PICK n \in DOMAIN l[2] : l[2][n] = s[j][1]
    BY <1>3 DEF Ordered, ToSet
  <2>3. KeyPos(l, s[j][1]) \in DOMAIN l[2] /\ l[2][KeyPos(l, s[j][1])] = s[j][1]
    BY <2>2 DEF KeyPos
  <2> QED  BY <2>1, <2>3
<1> HIDE DEF s, last
<1>4. f \in [1 .. m -> DOMAIN l[2]]
  BY <1>2, <1>3
<1>5. ASSUME NEW i \in 1 .. m, NEW j \in 1 .. m, i < j
      PROVE  f[i] < f[j]
  <2>1. d + i \in DOMAIN s /\ d + j \in DOMAIN s
    BY <1>2
  <2>2. d + i < d + j
    BY <1>1, <1>5
  <2>3. KeyPos(l, s[d + i][1]) < KeyPos(l, s[d + j][1])
    BY <2>1, <2>2 DEF Ordered, s
  <2> QED  BY <2>3
<1>6. ASSUME NEW i \in 1 .. m
      PROVE  last[i] = <<l[2][f[i]], signature_hash(t)>>
  BY <1>2, <1>3
<1> HIDE DEF f
<1>7. /\ \A i, j \in 1 .. m : i < j => f[i] < f[j]
      /\ \A i \in 1 .. m : last[i] = <<l[2][f[i]], signature_hash(t)>>
  BY <1>5, <1>6
<1> QED  BY <1>1, <1>4, <1>7 DEF MultisigOpens, s, last

\* What AskedRightly says of one input.
Asked(l, u) ==
  CASE u.kind = "claim" -> l[1] = "htlc" /\ u.sigs[1][1] = l[2][1]
    [] u.kind = "refund" -> l[1] = "htlc" /\ u.sigs[1][1] = l[2][2]
    [] u.kind \in {"multisig", "p2sh"} -> u.kind = l[1]
    [] OTHER -> u.kind = "p2pkh"

LEMMA FitsOpens ==
  ASSUME NEW l, IsLock(l), NEW u, NEW t, Fits(l, u, t), Asked(l, u), NEW h,
         l[1] = "cltv" \/ u.kind = "refund" => h >= l[4],
         l[1] \in {"multisig", "p2sh"} => Ordered(l, u.sigs)
  PROVE  Opens(l, u, t, h)
<1> DEFINE by(n) == u.sigs = <<<<l[2][n], signature_hash(t)>>>>
<1>1. CASE u.kind = "p2pkh"
  <2>1. l[1] \in {"p2pkh", "cltv"} /\ by(1)
    BY <1>1 DEF Fits, HtlcKind, CombineKind
  <2> QED  BY <1>1, <2>1 DEF Opens
<1>2. CASE u.kind = "claim"
  <2>1. l[1] = "htlc" /\ u.sigs[1][1] = l[2][1]
    BY <1>2 DEF Asked
  <2>2. PICK p \in Address : u.sigs = <<<<p, signature_hash(t)>>>>
    BY <1>2 DEF Fits, HtlcKind, CombineKind
  <2>3. by(1)
    BY <2>1, <2>2
  <2> QED  BY <1>2, <2>1, <2>3 DEF Opens
<1>3. CASE u.kind = "refund"
  <2>1. l[1] = "htlc" /\ u.sigs[1][1] = l[2][2]
    BY <1>3 DEF Asked
  <2>2. PICK p \in Address : u.sigs = <<<<p, signature_hash(t)>>>>
    BY <1>3 DEF Fits, HtlcKind, CombineKind
  <2>3. by(2)
    BY <2>1, <2>2
  <2> QED  BY <1>3, <2>1, <2>3 DEF Opens
<1>4. CASE u.kind \in {"multisig", "p2sh"}
  <2>1. u.sigs \in Seq(Address \X {signature_hash(t)}) /\ u.kind = l[1]
    BY <1>4 DEF Fits, Asked, HtlcKind, CombineKind
  <2>2. l[3] \in Nat
    BY <1>4, <2>1 DEF IsLock
  <2>3. MultisigOpens(l, u, t)
    BY <1>4, <2>1, <2>2, ScriptOpens
  <2> QED  BY <1>4, <2>1, <2>3 DEF Opens
<1>5. u.kind \in {"p2pkh", "claim", "refund", "multisig", "p2sh"}
  BY DEF Asked
<1> QED  BY <1>1, <1>2, <1>3, <1>4, <1>5

LEMMA SoundAccepted ==
  ASSUME LedgerInv, NEW t, Sound(t), Finished(t), IsInjective(t.inputs),
         ToSet(t.inputs) \cap DOMAIN spent = {}, ~ Conflicts(t),
         t.fee >= MinFee, AskedRightly(t), InKeyOrder(t), Due(t)
  PROVE  Accepts(t)
<1>1. /\ InSum(t) = OutSum(t) + t.fee /\ t.fee \in Nat /\ AreOutputs(t.outputs)
      /\ t.inputs \in Seq(DOMAIN coins) /\ MinFee \in Nat
  BY WalletAssumption DEF Sound, WellFormed
<1>2. OutSum(t) \in Nat
  BY <1>1, OutputsFacts DEF OutSum
<1>3. OutSum(t) <= InSum(t) /\ InSum(t) - OutSum(t) >= MinFee
  BY <1>1, <1>2
<1>4. ASSUME NEW i \in DOMAIN t.inputs
      PROVE  /\ t.inputs[i] \in Unspent(height) /\ Mature(t.inputs[i], height)
             /\ Opens(coins[t.inputs[i]].lock, t.unlock[i], t, height)
  <2> DEFINE o == t.inputs[i]
             l == coins[o].lock
             u == t.unlock[i]
  <2>1. o \in DOMAIN coins
    BY <1>1
  <2>2. coins[o].height <= height /\ IsLock(l)
    BY <2>1, CoinFacts
  <2>3. o \notin DOMAIN spent
    BY DEF ToSet
  <2>4. Mature(o, height) /\ Fits(l, u, t)
    BY DEF Sound, Signed, Finished
  <2>5. l[1] = "cltv" \/ u.kind = "refund" => height >= l[4]
    BY DEF Due
  <2>6. l[1] \in {"multisig", "p2sh"} => Ordered(l, u.sigs)
    BY DEF InKeyOrder, Ordered, KeyPos
  <2>8. Asked(l, u)
    BY DEF AskedRightly, Asked
  <2> HIDE DEF l, u
  <2>7. Opens(l, u, t, height)
    BY <2>2, <2>4, <2>5, <2>6, <2>8, FitsOpens
  <2> QED  BY <2>1, <2>2, <2>3, <2>4, <2>7 DEF Unspent, l, u
<1> QED  BY <1>3, <1>4 DEF Accepts

\* The node refuses a finished transaction only when another one was faster, when its
\* lock is not due yet, when its fee is too small, or when its user asked for what the
\* commands do not check: a script of another kind, another party's key, another preimage
\* or redeem script, or signatures that are not in the order of the script's keys.
THEOREM RefusalsAreRaces == Spec => []RefusedOnlyForRace
<1>1. WalletInv => RefusedOnlyForRace
  <2> SUFFICES ASSUME WalletInv, NEW t \in Built, Finished(t), IsInjective(t.inputs),
                      ToSet(t.inputs) \cap DOMAIN spent = {}, ~ Conflicts(t),
                      t.fee >= MinFee, AskedRightly(t), InKeyOrder(t), Due(t)
               PROVE  Accepts(t)
    BY DEF RefusedOnlyForRace
  <2> QED  BY SoundAccepted DEF WalletInv, BuiltInv
<1> QED  BY <1>1, WalletInvariant, PTL

-----------------------------------------------------------------------------
\* Confirmed settlements

\* Only a block spends coins.
LEMMA OnlyBlocksSpend ==
  ASSUME [Next]_vars
  PROVE  spent' = spent \/ \E u \in pending : Mine(u)
<1>1. CASE UNCHANGED vars
  BY <1>1 DEF vars
<1>2. CASE Payments
  BY <1>2 DEF Payments, Send, SendFromState, SendToAddress, chain
<1>3. ASSUME NEW p, NEW name, NEW op, NEW dest, WriteAssetTx(p, name, op, dest)
      PROVE  spent' = spent
  BY <1>3 DEF WriteAssetTx, chain
<1>4. CASE Creations
  BY <1>3, <1>4 DEF Creations, AssetIssue, AssetMint, AssetBuildIssue, AssetBuildMint,
                    BuildAssetTx, build_unsigned_asset_tx
<1>5. CASE Transfers
  BY <1>3, <1>5 DEF Transfers, AssetTransfer, BuildAssetTx
<1>6. CASE Market
  BY <1>6 DEF Market, AssetSell, AssetBuy, AssetBuildSettlement, OtherSettlement, AssetAccept,
              chain
<1>7. CASE Scripts
  BY <1>7 DEF Scripts, MultisigSpend, MultisigSign, MultisigCombine, HtlcClaim, HtlcRefund,
              HtlcSpend, VestingClaim, VestingLock, chain
<1>8. CASE KeyCommands
  <2>1. PICK p \in Address : \E k : KeyStep(p, k)
    BY <1>8, Zenon DEF KeyCommands, KeyCreate, RekeyBackup, RekeyTruncate, KeyWritten, KeyCrash
  <2> QED  BY <2>1 DEF KeyStep, chain
<1>9. CASE \E f \in DOMAIN file : Broadcast(f)
  BY <1>9 DEF Broadcast, chain
<1>10. CASE MineEmpty
  BY <1>10 DEF MineEmpty
<1> QED  BY <1>1, <1>2, <1>4, <1>5, <1>6, <1>7, <1>8, <1>9, <1>10 DEF Next

\* ... and the one that confirms a settlement is the one that holds it.
LEMMA ConfirmedIsMined ==
  ASSUME WalletInv, [Next]_vars, NEW t \in pending, Confirmed(t)
  PROVE  Mine(t) /\ Sound(t) /\ t.terms # NoTerms /\ t.inputs[1] \in DOMAIN coins
         /\ 1 \in DOMAIN t.inputs /\ Agreed(t)
<1>1. Sound(t) /\ t.terms # NoTerms /\ Agreed(t)
  BY DEF WalletInv, BuiltInv, Built, Confirmed, AcceptedInv, Agreed
<1>2. t.inputs \in Seq(DOMAIN coins) /\ t.inputs # << >>
  BY <1>1 DEF Sound, WellFormed, Settles
<1>3. 1 \in DOMAIN t.inputs /\ t.inputs[1] \in DOMAIN coins
  BY <1>2
<1>4. PICK u \in pending : Mine(u)
  BY OnlyBlocksSpend DEF Confirmed
<1>5. DOMAIN spent' = ToSet(u.inputs) \cup DOMAIN spent
  BY <1>4 DEF Mine
<1>6. t.inputs[1] \in ToSet(u.inputs) /\ t.inputs[1] \in ToSet(t.inputs)
  BY <1>3, <1>5 DEF Confirmed, ToSet
<1>7. u = t
  <2>1. \A v \in pending : t # v => ToSet(t.inputs) \cap ToSet(v.inputs) = {}
    BY DEF WalletInv, PendingInv
  <2> HIDE DEF ToSet
  <2> QED  BY <1>6, <2>1
<1> QED  BY <1>1, <1>3, <1>4, <1>7

\* A settlement as the builder makes it, read off its inputs and outputs.
LEMMA SettlementFacts ==
  ASSUME LedgerInv, NEW t, Sound(t), t.terms # NoTerms, t.inputs[1] \in DOMAIN coins,
         AsBuilt(t), NEW a
  PROVE  LET m == t.terms
             v == coins[t.inputs[1]].value
             b == InSum(t) - v
         IN  /\ TermsOK(m) /\ v \in Nat /\ b \in Nat
             /\ Paid(a, t.outputs) =
                  Part(a = m.buyer, b - m.price - m.miner_fee)
                    + Part(a = m.seller, v + m.price - PlatformFee(m) - Royalty(m))
                    + Part(a = Platform, PlatformFee(m)) + Part(a = m.royalty_addr, Royalty(m))
<1> DEFINE m == t.terms
           v == coins[t.inputs[1]].value
           b == InSum(t) - v
<1>1. TermsOK(m) /\ Affordable(m, b) /\ t.outputs = settlement_outputs(m, v, b)
  BY DEF Sound, Settles, AsBuilt
<1>2. v \in Nat
  BY CoinFacts
<1>3. InSum(t) \in Nat
  <2>1. AreOutputs(t.outputs) /\ t.fee \in Nat /\ InSum(t) = OutSum(t) + t.fee
    BY DEF Sound, WellFormed
  <2>2. OutSum(t) \in Nat
    BY <2>1, OutputsFacts DEF OutSum
  <2> QED  BY <2>1, <2>2
<1>4. b \in Nat
  <2>1. b \in Int /\ b >= m.price + Carrier + m.miner_fee
    BY <1>1, <1>2, <1>3 DEF Affordable
  <2>2. m.price \in Nat /\ m.miner_fee \in Nat /\ Carrier \in Nat
    BY <1>1, SettlementAssumption DEF TermsOK
  <2> HIDE DEF b
  <2> QED  BY <2>1, <2>2
<1> HIDE DEF v, b, m
<1>5. Paid(a, t.outputs) =
        Part(a = m.buyer, b - m.price - m.miner_fee)
          + Part(a = m.seller, v + m.price - PlatformFee(m) - Royalty(m))
          + Part(a = Platform, PlatformFee(m)) + Part(a = m.royalty_addr, Royalty(m))
  BY <1>1, <1>2, <1>4, SettlementOutputs
<1> QED  BY <1>1, <1>2, <1>4, <1>5 DEF v, b, m

\* A transfer of units that its source holds applies, and moves them.
LEMMA TransferMoves ==
  ASSUME NEW s, AssetsShape(s), NEW src, NEW dst, src # dst, dst # NoAddress, NEW id, NEW n \in Nat,
         n > 0, Holds(s, src, id) >= n, NEW k, NEW h
  PROVE  LET op == TransferOp(id, n, 0)
             r == AS!Applied(s, k, h, src, dst, op)
         IN  /\ AS!Applies(s, k, src, dst, op)
             /\ Holds(r, dst, id) = Holds(s, dst, id) + n
             /\ Holds(r, src, id) = Holds(s, src, id) - n
<1> DEFINE op == TransferOp(id, n, 0)
           r == AS!Applied(s, k, h, src, dst, op)
<1>1. op.op = "transfer" /\ op.asset = id /\ op.amount = n
  BY DEF TransferOp
<1> HIDE DEF op
<1>2. id \in DOMAIN s.assets
  BY DEF Holds
<1>3. AS!Applies(s, k, src, dst, op) <=>
        IF s.assets[id].kind = "ft"
        THEN n > 0 /\ AS!ft_balance(s, src, id) >= n
        ELSE n = 1 /\ s.nft_owner[id] = src
  <2>1. dst # AS!NoAddr
    BY Zenon DEF AS!NoAddr, NoAddress
  <2> QED  BY <1>1, <1>2, <2>1 DEF AS!Applies
<1>4. r = IF s.assets[id].kind = "ft"
          THEN [s EXCEPT !.ft_balances = AS!MoveBalance(s, src, dst, op)]
          ELSE [s EXCEPT !.nft_owner = AS!Put(@, id, dst)]
  BY <1>1 DEF AS!Applied
<1> HIDE DEF r
<1>5. CASE s.assets[id].kind = "ft"
  <2> DEFINE b == s.ft_balances
             c == [b EXCEPT ![<<src, id>>] = @ - n]
  <2>1. AS!ft_balance(s, src, id) >= n
    BY <1>2, <1>5 DEF Holds
  <2>2. <<src, id>> \in DOMAIN b /\ AS!ft_balance(s, src, id) = b[<<src, id>>]
    BY <2>1 DEF AS!ft_balance
  <2>3. AS!MoveBalance(s, src, dst, op) =
          AS!Put(c, <<dst, id>>,
                 (IF <<dst, id>> \in DOMAIN c THEN c[<<dst, id>>] ELSE 0) + n)
    <3>1. [s EXCEPT !.ft_balances[<<src, id>>] = @ - n].ft_balances = c
      BY DEF AssetsShape
    <3> QED  BY <1>1, <3>1 DEF AS!MoveBalance, AS!ft_balance
  <2>4. r.assets = s.assets /\ r.ft_balances = AS!MoveBalance(s, src, dst, op)
    BY <1>4, <1>5 DEF AssetsShape
  <2>5. <<src, id>> # <<dst, id>>
    OBVIOUS
  <2>6. DOMAIN c = DOMAIN b /\ c[<<src, id>>] = b[<<src, id>>] - n
        /\ (<<dst, id>> \in DOMAIN b => c[<<dst, id>>] = b[<<dst, id>>])
    BY <2>2, <2>5
  <2> HIDE DEF c, b
  <2>7. /\ <<src, id>> \in DOMAIN r.ft_balances /\ <<dst, id>> \in DOMAIN r.ft_balances
        /\ r.ft_balances[<<src, id>>] = b[<<src, id>>] - n
        /\ r.ft_balances[<<dst, id>>] =
             (IF <<dst, id>> \in DOMAIN b THEN b[<<dst, id>>] ELSE 0) + n
    BY <2>2, <2>3, <2>4, <2>5, <2>6 DEF AS!Put
  <2>8. /\ AS!ft_balance(r, src, id) = AS!ft_balance(s, src, id) - n
        /\ AS!ft_balance(r, dst, id) = AS!ft_balance(s, dst, id) + n
    BY <2>2, <2>7 DEF AS!ft_balance, b
  <2> QED  BY <1>2, <1>3, <1>5, <2>1, <2>4, <2>8 DEF Holds, r, op
<1>6. CASE s.assets[id].kind # "ft"
  <2>1. s.nft_owner[id] = src /\ n = 1
    BY <1>2, <1>6 DEF Holds
  <2>2. r.assets = s.assets /\ r.nft_owner = AS!Put(s.nft_owner, id, dst)
    BY <1>4, <1>6 DEF AssetsShape
  <2>3. r.nft_owner[id] = dst
    BY <2>2 DEF AS!Put
  <2> QED  BY <1>2, <1>3, <1>6, <2>1, <2>2, <2>3 DEF Holds, r, op
<1> QED  BY <1>5, <1>6

\* When a settlement is confirmed, whoever wrote it, and the seller still holds the units,
\* the buyer has them: the seller verified the transfer, and the first coin makes him its
\* source.
THEOREM UnitsAreDelivered == Spec => DeliveredIfHeld
<1>1. ASSUME WalletInv, [Next]_vars, NEW t \in pending, Confirmed(t), t.terms.amount > 0,
             Holds(assets, t.terms.seller, t.terms.asset) >= t.terms.amount,
             t.terms.seller # t.terms.buyer, coins[t.inputs[1]].lock[1] = "p2pkh"
      PROVE  /\ Holds(assets', t.terms.buyer, t.terms.asset)
                  = Holds(assets, t.terms.buyer, t.terms.asset) + t.terms.amount
             /\ Holds(assets', t.terms.seller, t.terms.asset)
                  = Holds(assets, t.terms.seller, t.terms.asset) - t.terms.amount
  <2> DEFINE m == t.terms
             op == TransferOp(m.asset, m.amount, 0)
             dest == IF op.op = "transfer" /\ op.dest + 1 \in DOMAIN t.outputs
                     THEN extract_address(t.outputs[op.dest + 1]) ELSE NoAddress
  <2>1. /\ Mine(t) /\ Sound(t) /\ m # NoTerms /\ t.inputs[1] \in DOMAIN coins /\ Agreed(t)
        /\ 1 \in DOMAIN t.inputs
    BY <1>1, ConfirmedIsMined
  <2>2. LedgerInv /\ AssetsShape(assets)
    BY <1>1 DEF WalletInv, LedgerInv, IsLedger, AssetsShape
  <2>3. /\ t.outputs # << >> /\ extract_address(t.outputs[1]) = m.buyer
        /\ first_op(t.outputs) = op
    BY <2>1 DEF Agreed, verify_settlement
  <2>4. m.amount \in Nat /\ m.seller \in Address /\ m.buyer \in Address
        /\ m.seller # NoAddress /\ m.buyer # NoAddress
    BY <2>1, WalletAssumption DEF Sound, Settles, TermsOK
  <2>5. op # NoOp /\ op.op = "transfer" /\ op.dest = 0
    BY DEF TransferOp, NoOp
  <2>6. coins[t.inputs[1]].lock[2][1] = m.seller
    BY <2>1 DEF Agreed
  <2>7. resolve_source(t) = m.seller
    BY <1>1, <2>6 DEF resolve_source, extract_address
  <2>8. dest = m.buyer
    <3>1. Len(t.outputs) \in Nat /\ DOMAIN t.outputs = 1 .. Len(t.outputs)
      BY <2>1, OutputsFacts DEF Sound, WellFormed
    <3>2. 1 \in DOMAIN t.outputs
      BY <2>1, <2>3 DEF Sound, WellFormed, AreOutputs
    <3>3. op.dest + 1 = 1
      BY <2>5
    <3> QED  BY <2>3, <2>5, <3>2, <3>3
  <2>9. assets' = AssetsAfter(t)
    BY <2>1 DEF Mine
  <2>10. AssetsAfter(t) =
           IF AS!Applies(assets, height + 1, m.seller, m.buyer, op)
           THEN AS!Applied(assets, height + 1, height + 1, m.seller, m.buyer, op)
           ELSE assets
    BY <2>3, <2>4, <2>5, <2>7, <2>8 DEF AssetsAfter
  <2>11. m.amount > 0 /\ Holds(assets, m.seller, m.asset) >= m.amount /\ m.seller # m.buyer
    BY <1>1
  <2>12. LET s == AS!Applied(assets, height + 1, height + 1, m.seller, m.buyer, op)
         IN  /\ AS!Applies(assets, height + 1, m.seller, m.buyer, op)
             /\ Holds(s, m.buyer, m.asset) = Holds(assets, m.buyer, m.asset) + m.amount
             /\ Holds(s, m.seller, m.asset) = Holds(assets, m.seller, m.asset) - m.amount
    <3> HIDE DEF m
    <3> QED  BY <2>2, <2>4, <2>11, TransferMoves
  <2> HIDE DEF op, dest
  <2> QED  BY <2>9, <2>10, <2>12
<1>2. WalletInv /\ [Next]_vars =>
        [\A t \in pending :
           LET m == t.terms IN
           (/\ Confirmed(t) /\ m.amount > 0 /\ Holds(assets, m.seller, m.asset) >= m.amount
            /\ m.seller # m.buyer /\ coins[t.inputs[1]].lock[1] = "p2pkh")
           => /\ Holds(assets', m.buyer, m.asset) = Holds(assets, m.buyer, m.asset) + m.amount
              /\ Holds(assets', m.seller, m.asset)
                   = Holds(assets, m.seller, m.asset) - m.amount]_vars
  BY <1>1
<1> QED  BY <1>2, WalletInvariant, PTL DEF Spec, DeliveredIfHeld

\* The value of every coin that ever was.
CoinValue == [o \in DOMAIN coins |-> coins[o].value]

LEMMA ValueIsSum ==
  ASSUME LedgerInv, NEW S \in SUBSET DOMAIN coins
  PROVE  /\ ValueOf(S) = SumFunctionOnSet(CoinValue, S) /\ IsFiniteSet(S)
         /\ ValueOf(S) \in Nat /\ \A o \in S : CoinValue[o] \in Nat
<1> DEFINE f == [o \in S |-> coins[o].value]
<1>1. IsFiniteSet(S) /\ \A o \in S : coins[o].value \in Nat
  BY CoinFacts, FS_Subset
<1>2. \A o \in S : f[o] \in Int /\ f[o] = CoinValue[o] /\ CoinValue[o] \in Nat
  BY <1>1 DEF CoinValue
<1>3. DOMAIN f = S
  OBVIOUS
<1>4. ValueOf(S) = SumFunctionOnSet(f, S)
  BY <1>3 DEF ValueOf, SumFunction
<1> HIDE DEF f
<1>5. SumFunctionOnSet(f, S) = SumFunctionOnSet(CoinValue, S)
  BY <1>1, <1>2, SumAgree
<1>6. SumFunctionOnSet(CoinValue, S) \in Nat
  BY <1>1, <1>2, SumOfNat
<1> QED  BY <1>1, <1>2, <1>4, <1>5, <1>6

LEMMA ValueSplits ==
  ASSUME LedgerInv, NEW B \in SUBSET DOMAIN coins, NEW A \in SUBSET B
  PROVE  /\ ValueOf(B) = ValueOf(A) + ValueOf(B \ A)
         /\ ValueOf(A) \in Nat /\ ValueOf(B) \in Nat /\ ValueOf(B \ A) \in Nat
<1>1. /\ A \in SUBSET DOMAIN coins /\ B \ A \in SUBSET DOMAIN coins
      /\ A \cap (B \ A) = {} /\ A \cup (B \ A) = B
  OBVIOUS
<1>2. /\ IsFiniteSet(A) /\ ValueOf(A) = SumFunctionOnSet(CoinValue, A) /\ ValueOf(A) \in Nat
      /\ \A o \in A : CoinValue[o] \in Nat
  BY <1>1, ValueIsSum
<1>3. /\ IsFiniteSet(B \ A) /\ ValueOf(B \ A) = SumFunctionOnSet(CoinValue, B \ A)
      /\ ValueOf(B \ A) \in Nat /\ \A o \in B \ A : CoinValue[o] \in Nat
  BY <1>1, ValueIsSum
<1>4. ValueOf(B) = SumFunctionOnSet(CoinValue, B) /\ ValueOf(B) \in Nat
  BY ValueIsSum
<1>5. \A o \in A \cup (B \ A) : CoinValue[o] \in Int
  BY <1>2, <1>3
<1>6. SumFunctionOnSet(CoinValue, A \cup (B \ A))
        = SumFunctionOnSet(CoinValue, A) + SumFunctionOnSet(CoinValue, B \ A)
  BY <1>1, <1>2, <1>3, <1>5, SumUnion
<1> QED  BY <1>1, <1>2, <1>3, <1>4, <1>6

\* The inputs of a transaction that names no coin twice, as a set.
LEMMA InputsAsSet ==
  ASSUME LedgerInv, NEW t, t.inputs \in Seq(DOMAIN coins), IsInjective(t.inputs)
  PROVE  ToSet(t.inputs) \in SUBSET DOMAIN coins /\ InSum(t) = ValueOf(ToSet(t.inputs))
<1> DEFINE ins == t.inputs
           D == DOMAIN ins
           g == [i \in D |-> coins[ins[i]].value]
<1>1. IsFiniteSet(D)
  <2>1. D = 1 .. Len(ins) /\ Len(ins) \in Nat
    OBVIOUS
  <2> QED  BY <2>1, FS_Interval
<1>2. Values(ins, D) = ToSet(ins) /\ ToSet(ins) \in SUBSET DOMAIN coins
  BY DEF Values, ToSet
<1>3. \A i \in D : ins[i] \in DOMAIN coins
  OBVIOUS
<1>4. PullsBack(g, CoinValue, ins, D)
  BY <1>3, CoinFacts DEF PullsBack, IsInjective, CoinValue
<1>5. InSum(t) = SumFunctionOnSet(g, D)
  <2>1. DOMAIN g = D
    OBVIOUS
  <2> QED  BY <2>1 DEF InSum, SumFunction
<1> HIDE DEF g, ins, D
<1>6. SumFunctionOnSet(CoinValue, Values(ins, D)) = SumFunctionOnSet(g, D)
  BY <1>1, <1>4, SumImage
<1>7. ValueOf(ToSet(ins)) = SumFunctionOnSet(CoinValue, ToSet(ins))
  BY <1>2, ValueIsSum
<1> QED  BY <1>2, <1>5, <1>6, <1>7 DEF ins

LEMMA P2pkhInjective == ASSUME NEW a, NEW b PROVE P2pkh(a) = P2pkh(b) <=> a = b
BY DEF P2pkh

\* What a settlement that is as built takes from whom.
LEMMA SettlementTakes ==
  ASSUME LedgerInv, NEW t, Sound(t), t.terms # NoTerms, IsInjective(t.inputs),
         t.inputs[1] \in DOMAIN coins, 1 \in DOMAIN t.inputs, AsBuilt(t), NEW a
  PROVE  LET v == coins[t.inputs[1]].value
             S == {o \in ToSet(t.inputs) : coins[o].lock = P2pkh(a)}
         IN  ValueOf(S) = Part(a = t.terms.seller, v) + Part(a = t.terms.buyer, InSum(t) - v)
<1> DEFINE m == t.terms
           c == t.inputs[1]
           v == coins[c].value
           J == ToSet(t.inputs)
           R == J \ {c}
           S == {o \in J : coins[o].lock = P2pkh(a)}
<1> SUFFICES ValueOf(S) = Part(a = m.seller, v) + Part(a = m.buyer, InSum(t) - v)
  OBVIOUS
<1>1. t.inputs \in Seq(DOMAIN coins)
  BY DEF Sound, WellFormed
<1>2. J \in SUBSET DOMAIN coins /\ InSum(t) = ValueOf(J)
  BY <1>1, InputsAsSet
<1>3. c \in J /\ \A o \in R : \E i \in DOMAIN t.inputs : i # 1 /\ o = t.inputs[i]
  BY DEF ToSet
<1>4. coins[c].lock = P2pkh(m.seller) /\ \A o \in R : coins[o].lock = P2pkh(m.buyer)
  BY <1>3 DEF AsBuilt, Sound, Settles
<1>5. ValueOf({c}) = v /\ v \in Nat
  <2>1. ValueOf({c}) = SumFunctionOnSet(CoinValue, {c}) /\ CoinValue[c] \in Nat
    BY ValueIsSum
  <2>2. CoinValue[c] = v
    BY DEF CoinValue
  <2> QED  BY <2>1, <2>2, SumOfOne
<1>6. {c} \in SUBSET J /\ J \ {c} = R
  BY <1>3
<1>7. ValueOf(J) = v + ValueOf(R) /\ ValueOf(R) \in Nat
  <2> HIDE DEF J, R, c, v
  <2> QED  BY <1>2, <1>5, <1>6, ValueSplits
<1>8. ValueOf({}) = 0
  BY ValueIsSum, SumOfNone
<1> HIDE DEF J, c, v
<1>9. InSum(t) - v = ValueOf(R)
  BY <1>2, <1>5, <1>7
<1>10. S = {o \in J : IF o = c THEN a = m.seller ELSE a = m.buyer}
  BY <1>3, <1>4, P2pkhInjective
<1> HIDE DEF S
<1>11. CASE a = m.seller /\ a = m.buyer
  <2>1. S = J
    BY <1>10, <1>11
  <2> QED  BY <1>2, <1>9, <1>5, <1>7, <1>11, <2>1 DEF Part
<1>12. CASE a = m.seller /\ a # m.buyer
  <2>1. S = {c}
    BY <1>3, <1>10, <1>12
  <2> QED  BY <1>5, <1>12, <2>1 DEF Part
<1>13. CASE a # m.seller /\ a = m.buyer
  <2>1. S = R
    BY <1>10, <1>13
  <2> QED  BY <1>7, <1>9, <1>13, <2>1 DEF Part
<1>14. CASE a # m.seller /\ a # m.buyer
  <2>1. S = {}
    BY <1>10, <1>14
  <2> QED  BY <1>8, <1>14, <2>1 DEF Part
<1> QED  BY <1>11, <1>12, <1>13, <1>14

\* The new coins of an address are worth what the outputs pay it.
NewValues(e, N) == \A o \in N : e[o] = coins'[o].value

LEMMA NewFunds ==
  ASSUME LedgerInv, NEW t, AreOutputs(t.outputs), Mine(t), NEW a, NEW e,
         NEW N, N = {o \in DOMAIN NewCoins(t) : coins'[o].lock = P2pkh(a)},
         NewValues(e, N)
  PROVE  /\ IsFiniteSet(N) /\ SumFunctionOnSet(e, N) = Paid(a, t.outputs)
         /\ \A o \in N : e[o] \in Nat
<1> DEFINE outs == t.outputs
           D == DOMAIN outs
           p == [i \in D |-> IF outs[i].lock = P2pkh(a) THEN outs[i].value ELSE 0]
           K == {i \in D : outs[i].lock = P2pkh(a)}
           g == [i \in K |-> <<height + 1, i>>]
<1>1. IsFiniteSet(D) /\ \A i \in D : outs[i].value \in Nat
  BY OutputsFacts
<1>2. \A o \in DOMAIN NewCoins(t) :
        /\ o[2] \in D /\ o = <<height + 1, o[2]>>
        /\ coins'[o].lock = outs[o[2]].lock /\ coins'[o].value = outs[o[2]].value
  <2>1. \A o \in DOMAIN NewCoins(t) :
          /\ o[2] \in D /\ o = <<height + 1, o[2]>>
          /\ coins'[o] = [lock |-> outs[o[2]].lock, value |-> outs[o[2]].value,
                          height |-> height + 1, coinbase |-> FALSE]
    BY MinedCoins
  <2> SUFFICES ASSUME NEW o \in DOMAIN NewCoins(t)
               PROVE  /\ o[2] \in D /\ o = <<height + 1, o[2]>>
                      /\ coins'[o].lock = outs[o[2]].lock /\ coins'[o].value = outs[o[2]].value
    OBVIOUS
  <2>2. /\ o[2] \in D /\ o = <<height + 1, o[2]>>
        /\ coins'[o] = [lock |-> outs[o[2]].lock, value |-> outs[o[2]].value,
                        height |-> height + 1, coinbase |-> FALSE]
    BY <2>1
  <2> HIDE DEF D, outs
  <2> QED  BY <2>2
<1>3. P2pkh(a) # DataLock
  BY DEF P2pkh, DataLock
<1>4. \A i \in K : <<height + 1, i>> \in DOMAIN NewCoins(t)
  BY <1>3 DEF NewCoins
<1>5. ASSUME NEW i \in K
      PROVE  g[i] \in N /\ g[i][2] = i /\ e[g[i]] = p[i] /\ p[i] \in Nat
  <2>1. g[i] = <<height + 1, i>> /\ g[i][2] = i /\ i \in D /\ outs[i].lock = P2pkh(a)
    OBVIOUS
  <2>2. g[i] \in DOMAIN NewCoins(t)
    BY <1>4, <2>1
  <2> HIDE DEF g
  <2>3. coins'[g[i]].lock = outs[i].lock /\ coins'[g[i]].value = outs[i].value
    BY <1>2, <2>1, <2>2
  <2>4. g[i] \in N
    BY <2>1, <2>2, <2>3
  <2>5. p[i] = outs[i].value
    BY <2>1
  <2> QED  BY <1>1, <2>1, <2>3, <2>4, <2>5 DEF NewValues
<1>6. ASSUME NEW o \in N PROVE o[2] \in K /\ o = g[o[2]]
  BY <1>2
<1>7. Values(g, K) = N
  <2>1. \A i \in K : g[i] \in N
    BY <1>5
  <2>2. \A o \in N : o[2] \in K /\ o = g[o[2]]
    BY <1>6
  <2> HIDE DEF g, K
  <2> QED  BY <2>1, <2>2 DEF Values
<1>8. PullsBack(p, e, g, K)
  <2>1. \A i \in K : g[i][2] = i /\ e[g[i]] = p[i] /\ p[i] \in Nat
    BY <1>5
  <2> HIDE DEF g, K, p
  <2> QED  BY <2>1 DEF PullsBack
<1>9. IsFiniteSet(K) /\ K \subseteq D
  BY <1>1, FS_Subset
<1>10. \A i \in D : p[i] \in Nat
  BY <1>1
<1>11. \A i \in D \ K : p[i] = 0
  OBVIOUS
<1>12. Paid(a, outs) = SumFunctionOnSet(p, D)
  <2>1. DOMAIN p = D
    OBVIOUS
  <2> QED  BY <2>1 DEF Paid, SumFunction
<1>13. ASSUME NEW o \in N PROVE e[o] \in Nat
  <2> DEFINE i == o[2]
  <2>1. i \in K /\ o = g[i]
    BY <1>6
  <2> HIDE DEF i, K, g, p
  <2>2. e[g[i]] = p[i] /\ p[i] \in Nat
    BY <1>5, <2>1
  <2> QED  BY <2>1, <2>2
<1> HIDE DEF p, K, g, D
<1>14. IsFiniteSet(N) /\ SumFunctionOnSet(e, N) = SumFunctionOnSet(p, K)
       /\ SumFunctionOnSet(e, N) \in Nat
  <2>1. /\ IsFiniteSet(Values(g, K)) /\ SumFunctionOnSet(e, Values(g, K)) = SumFunctionOnSet(p, K)
        /\ SumFunctionOnSet(e, Values(g, K)) \in Nat
    BY <1>8, <1>9, SumImage
  <2> QED  BY <1>7, <2>1
<1>15. SumFunctionOnSet(p, D) = SumFunctionOnSet(p, K) + SumFunctionOnSet(p, D \ K)
  BY <1>1, <1>9, <1>10, SumSubset
<1>16. SumFunctionOnSet(p, D \ K) = 0
  <2>1. IsFiniteSet(D \ K)
    BY <1>1, FS_Subset
  <2> QED  BY <1>11, <2>1, SumOfZeros
<1> QED  BY <1>12, <1>13, <1>14, <1>15, <1>16

\* A block takes the inputs of an address from its funds and adds its outputs.
LEMMA FundsChange ==
  ASSUME WalletInv, NEW t \in pending, Mine(t), NEW a
  PROVE  LET S == {o \in ToSet(t.inputs) : coins[o].lock = P2pkh(a)}
         IN  /\ Funds(a)' = Funds(a) - ValueOf(S) + Paid(a, t.outputs)
             /\ Funds(a) \in Nat /\ ValueOf(S) \in Nat /\ Paid(a, t.outputs) \in Nat
<1> DEFINE J == ToSet(t.inputs)
           new == DOMAIN NewCoins(t)
           S == {o \in J : coins[o].lock = P2pkh(a)}
           C == {o \in DOMAIN coins \ DOMAIN spent : coins[o].lock = P2pkh(a)}
           N == {o \in new : coins'[o].lock = P2pkh(a)}
           C2 == {o \in DOMAIN coins' \ DOMAIN spent' : coins'[o].lock = P2pkh(a)}
           R == C \ S
           e == [o \in C2 |-> coins'[o].value]
<1> SUFFICES /\ Funds(a)' = Funds(a) - ValueOf(S) + Paid(a, t.outputs)
             /\ Funds(a) \in Nat /\ ValueOf(S) \in Nat /\ Paid(a, t.outputs) \in Nat
  OBVIOUS
<1>1. LedgerInv /\ AreOutputs(t.outputs) /\ t.inputs \in Seq(DOMAIN coins)
  BY DEF WalletInv, BuiltInv, Built, Sound, WellFormed
<1>2. J \in SUBSET DOMAIN coins /\ J \cap DOMAIN spent = {}
  BY <1>1 DEF WalletInv, PendingInv, ToSet
<1>3. DOMAIN spent' = J \cup DOMAIN spent
  BY DEF Mine
<1>4. /\ Grows /\ DOMAIN coins' = DOMAIN coins \cup new /\ DOMAIN coins \cap new = {}
      /\ \A o \in new : o[1] = height + 1
  BY <1>1, MinedCoins
<1>5. \A o \in DOMAIN coins : o \in DOMAIN coins' /\ coins'[o] = coins[o]
  BY <1>4 DEF Grows
<1>6. new \cap DOMAIN spent = {}
  BY <1>1, <1>4 DEF LedgerInv
<1> HIDE DEF J, new
<1>7. S \in SUBSET C /\ C \in SUBSET DOMAIN coins
  BY <1>2
<1>8. C2 = R \cup N /\ R \cap N = {}
  BY <1>2, <1>3, <1>4, <1>5, <1>6
<1>9. Funds(a) = ValueOf(C) /\ Funds(a)' = SumFunctionOnSet(e, C2)
  <2>1. DOMAIN e = C2
    OBVIOUS
  <2> QED  BY <2>1 DEF Funds, ValueOf, SumFunction
<1>10. \A o \in R : o \in DOMAIN coins /\ e[o] = coins[o].value
  BY <1>5, <1>7, <1>8
<1>11. NewValues(e, N)
  BY <1>8 DEF NewValues
<1>12. N = {o \in DOMAIN NewCoins(t) : coins'[o].lock = P2pkh(a)}
  BY DEF new
<1> HIDE DEF S, C, N, C2, R, e
<1>13. /\ IsFiniteSet(N) /\ SumFunctionOnSet(e, N) = Paid(a, t.outputs)
       /\ \A o \in N : e[o] \in Nat
  BY <1>1, <1>11, <1>12, NewFunds
<1>14. ValueOf(C) = ValueOf(S) + ValueOf(R) /\ ValueOf(S) \in Nat /\ ValueOf(C) \in Nat
       /\ ValueOf(R) \in Nat
  BY <1>1, <1>7, ValueSplits DEF R
<1>15. R \in SUBSET DOMAIN coins
  BY <1>7 DEF R
<1>16. /\ ValueOf(R) = SumFunctionOnSet(CoinValue, R) /\ IsFiniteSet(R)
       /\ \A o \in R : CoinValue[o] \in Nat
  BY <1>1, <1>15, ValueIsSum
<1>17. \A o \in R : CoinValue[o] \in Int /\ CoinValue[o] = e[o]
  BY <1>10, <1>16 DEF CoinValue
<1>18. SumFunctionOnSet(CoinValue, R) = SumFunctionOnSet(e, R)
  BY <1>16, <1>17, SumAgree
<1>19. \A o \in R \cup N : e[o] \in Int
  BY <1>13, <1>17
<1>20. SumFunctionOnSet(e, R \cup N) = SumFunctionOnSet(e, R) + SumFunctionOnSet(e, N)
  BY <1>8, <1>13, <1>16, <1>19, SumUnion
<1>21. Paid(a, t.outputs) \in Nat
  BY <1>1, OutputsFacts
<1> QED  BY <1>8, <1>9, <1>13, <1>14, <1>16, <1>18, <1>20, <1>21

\* What an output pays to an address is not more than all of them do.
LEMMA PaidAtLeast ==
  ASSUME NEW outs, AreOutputs(outs), NEW a, NEW i \in DOMAIN outs, outs[i].lock = P2pkh(a)
  PROVE  outs[i].value <= Paid(a, outs)
<1> DEFINE D == DOMAIN outs
           to == P2pkh(a)
           g == [j \in D |-> IF outs[j].lock = to THEN outs[j].value ELSE 0]
<1>1. IsFiniteSet(D) /\ \A j \in D : outs[j].value \in Nat
  BY OutputsFacts
<1> HIDE DEF to
<1>2. (\A j \in D : g[j] \in Nat) /\ g[i] = outs[i].value /\ DOMAIN g = D
  BY <1>1 DEF to
<1>3. Paid(a, outs) = SumFunctionOnSet(g, D)
  BY <1>2 DEF Paid, SumFunction, to
<1> HIDE DEF g
<1>4. g[i] <= SumFunctionOnSet(g, D)
  BY <1>1, <1>2, SumOfNat
<1> QED  BY <1>2, <1>3, <1>4

\* An output whose address is somebody's is locked to his key.
LEMMA AddressLock ==
  ASSUME NEW o, IsLock(o.lock), NEW a \in Address, extract_address(o) = a
  PROVE  o.lock = P2pkh(a)
<1>1. a # NoAddress /\ a # ScriptAddress
  BY WalletAssumption
<1>2. CASE o.lock[1] = "p2pkh"
  BY <1>2 DEF extract_address, IsLock
<1>3. CASE o.lock[1] = "p2sh"
  BY <1>1, <1>3, Zenon DEF extract_address
<1>4. CASE o.lock[1] # "p2pkh" /\ o.lock[1] # "p2sh"
  BY <1>1, <1>4, Zenon DEF extract_address
<1> QED  BY <1>2, <1>3, <1>4

\* The seller of a verified settlement puts in one coin and has the price of the terms.
LEMMA SellerIsPaid ==
  ASSUME WalletInv, NEW t \in pending, Mine(t), Sound(t), t.terms # NoTerms, Agreed(t),
         t.inputs[1] \in DOMAIN coins, 1 \in DOMAIN t.inputs
  PROVE  SellerPaid(t)
<1> DEFINE m == t.terms
           a == m.seller
           c == t.inputs[1]
           v == coins[c].value
           S == {o \in ToSet(t.inputs) : coins[o].lock = P2pkh(a)}
<1> SUFFICES ASSUME a # m.buyer PROVE Gain(a) >= Net(m) - v
  BY DEF SellerPaid
<1>1. LedgerInv /\ AreOutputs(t.outputs) /\ t.inputs \in Seq(DOMAIN coins)
  BY DEF WalletInv, Sound, WellFormed
<1>2. TermsOK(m) /\ m.price \in Nat /\ a \in Address
  BY DEF Sound, Settles, TermsOK
<1>3. \A o \in ToSet(t.inputs) : o # c => coins[o].lock = P2pkh(m.buyer)
  BY DEF ToSet, Sound, Settles
<1>4. S \in SUBSET {c} /\ {c} \in SUBSET DOMAIN coins
  BY <1>3, P2pkhInjective
<1>5. ValueOf({c}) = v /\ v \in Nat
  <2>1. ValueOf({c}) = SumFunctionOnSet(CoinValue, {c}) /\ CoinValue[c] \in Nat
    BY <1>1, <1>4, ValueIsSum
  <2>2. CoinValue[c] = v
    BY DEF CoinValue
  <2> QED  BY <2>1, <2>2, SumOfOne
<1>6. ValueOf(S) <= v
  <2>1. /\ ValueOf({c}) = ValueOf(S) + ValueOf({c} \ S)
        /\ ValueOf(S) \in Nat /\ ValueOf({c} \ S) \in Nat
    <3> HIDE DEF S, c
    <3> QED  BY <1>1, <1>4, ValueSplits
  <2> QED  BY <1>5, <2>1
<1>7. PICK i \in DOMAIN t.outputs : extract_address(t.outputs[i]) = a
                                    /\ t.outputs[i].value >= Net(m)
  BY DEF Agreed, verify_settlement, has_output_at_least, Net
<1>8. IsOutput(t.outputs[i])
  BY <1>1 DEF AreOutputs
<1>9. t.outputs[i].lock = P2pkh(a) /\ t.outputs[i].value \in Nat
  BY <1>2, <1>7, <1>8, AddressLock DEF IsOutput
<1>10. t.outputs[i].value <= Paid(a, t.outputs)
  BY <1>1, <1>9, PaidAtLeast
<1>11. /\ Funds(a)' = Funds(a) - ValueOf(S) + Paid(a, t.outputs)
       /\ Funds(a) \in Nat /\ ValueOf(S) \in Nat /\ Paid(a, t.outputs) \in Nat
  BY FundsChange
<1>12. Net(m) \in Int
  <2>1. PlatformFee(m) \in Nat /\ Royalty(m) \in Nat
    BY <1>2, SplitFacts
  <2> QED  BY <1>2, <2>1 DEF Net, PlatformFee, Royalty
<1>13. Gain(a) = Paid(a, t.outputs) - ValueOf(S)
  BY <1>11 DEF Gain
<1> HIDE DEF S, v, a, m, c
<1> QED  BY <1>5, <1>6, <1>7, <1>9, <1>10, <1>11, <1>12, <1>13

\* One that is as the builder makes it gives everybody what the terms say.
LEMMA AllArePaid ==
  ASSUME WalletInv, NEW t \in pending, Mine(t), Sound(t), t.terms # NoTerms,
         t.inputs[1] \in DOMAIN coins, 1 \in DOMAIN t.inputs, AsBuilt(t)
  PROVE  AllPaid(t)
<1> DEFINE m == t.terms
           fee == PlatformFee(m)
           royalty == Royalty(m)
           v == coins[t.inputs[1]].value
           b == InSum(t) - v
<1>1. ASSUME NEW a \in Address
      PROVE  Gain(a) = Part(a = m.seller, m.price - fee - royalty)
                         + Part(a = Platform, fee) + Part(a = m.royalty_addr, royalty)
                         - Part(a = m.buyer, m.price + m.miner_fee)
  <2> DEFINE S == {o \in ToSet(t.inputs) : coins[o].lock = P2pkh(a)}
  <2>2. LedgerInv /\ IsInjective(t.inputs)
    BY DEF WalletInv, PendingInv
  <2>3. /\ TermsOK(m) /\ v \in Nat /\ b \in Nat
        /\ Paid(a, t.outputs) =
             Part(a = m.buyer, b - m.price - m.miner_fee)
               + Part(a = m.seller, v + m.price - fee - royalty)
               + Part(a = Platform, fee) + Part(a = m.royalty_addr, royalty)
    BY <2>2, SettlementFacts
  <2>4. fee \in Nat /\ royalty \in Nat
    BY <2>3, SplitFacts
  <2>5. m.price \in Nat /\ m.miner_fee \in Nat
    BY <2>3 DEF TermsOK
  <2>6. ValueOf(S) = Part(a = m.seller, v) + Part(a = m.buyer, b)
    BY <2>2, SettlementTakes
  <2>7. /\ Funds(a)' = Funds(a) - ValueOf(S) + Paid(a, t.outputs)
        /\ Funds(a) \in Nat /\ ValueOf(S) \in Nat /\ Paid(a, t.outputs) \in Nat
    BY FundsChange
  <2>8. Gain(a) = Paid(a, t.outputs) - ValueOf(S)
    BY <2>7 DEF Gain
  <2> HIDE DEF S, v, b, fee, royalty, m
  <2>9. Part(a = m.buyer, b - m.price - m.miner_fee) - Part(a = m.buyer, b)
          = - Part(a = m.buyer, m.price + m.miner_fee)
    BY <2>3, <2>5 DEF Part
  <2>10. Part(a = m.seller, v + m.price - fee - royalty) - Part(a = m.seller, v)
           = Part(a = m.seller, m.price - fee - royalty)
    BY <2>3, <2>4, <2>5 DEF Part
  <2>11. \A x \in {Part(a = Platform, fee), Part(a = m.royalty_addr, royalty),
                   Part(a = m.buyer, b - m.price - m.miner_fee), Part(a = m.buyer, b),
                   Part(a = m.buyer, m.price + m.miner_fee),
                   Part(a = m.seller, v + m.price - fee - royalty), Part(a = m.seller, v),
                   Part(a = m.seller, m.price - fee - royalty)} : x \in Int
    BY <2>3, <2>4, <2>5 DEF Part
  <2> QED  BY <2>3, <2>4, <2>6, <2>8, <2>9, <2>10, <2>11
<1> QED  BY <1>1 DEF AllPaid, Part, Net, PlatformFee, Royalty

\* When a settlement is confirmed, from whatever file, the seller has at least the price of
\* its terms less platform fee and royalty and the first coin, since verify_settlement saw
\* an output of that much; and if the file is as the builder makes it, seller, buyer,
\* platform and creator have exactly what the terms say, whoever of them is the same person
\* and whatever coins went in.
THEOREM SettlementsPay == Spec => PaidAsAgreed
<1>1. ASSUME WalletInv, [Next]_vars, NEW t \in pending, Confirmed(t)
      PROVE  SellerPaid(t) /\ (AsBuilt(t) => AllPaid(t))
  <2>1. /\ Mine(t) /\ Sound(t) /\ t.terms # NoTerms /\ t.inputs[1] \in DOMAIN coins
        /\ 1 \in DOMAIN t.inputs /\ Agreed(t)
    BY <1>1, ConfirmedIsMined
  <2>2. SellerPaid(t)
    BY <1>1, <2>1, SellerIsPaid
  <2>3. AsBuilt(t) => AllPaid(t)
    BY <1>1, <2>1, AllArePaid
  <2> QED  BY <2>2, <2>3
<1>2. WalletInv /\ [Next]_vars =>
        [\A t \in pending : Confirmed(t) => SellerPaid(t) /\ (AsBuilt(t) => AllPaid(t))]_vars
  BY <1>1
<1> QED  BY <1>2, WalletInvariant, PTL DEF Spec, PaidAsAgreed

=============================================================================
