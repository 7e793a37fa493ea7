---------------------------- MODULE IndexerProofs ----------------------------
(***************************************************************************)
(* Proofs about Assets and Indexer: no block creates or destroys units of  *)
(* an asset, and the index, its checkpoint and its snapshot are what a     *)
(* scan from genesis gives unless a reorganisation falls into a scan, for  *)
(* any transactions, blocks and forks.                                     *)
(***************************************************************************)
EXTENDS Indexer, RecursionProofs

-----------------------------------------------------------------------------
\* The types of the index

Partial(D, R) == UNION {[E -> R] : E \in SUBSET D}
Info == [kind : {"ft", "nft"}, supply : Nat, issuer : Address, mint_height : Nat,
         royalty_bps : Nat, royalty_addr : Address \cup {NoAddr}]
AssetState == [assets : Partial(TxId, Info), ft_balances : Partial(Address \X TxId, Nat),
               nft_owner : Partial(TxId, Address)]
Event == [height : Nat, txid : TxId, from : Address, to : Address \cup {NoAddr}]
Data == [state : AssetState, outpoints : Partial(TxId \X Nat, Address),
         history : [Address -> Seq(Event)]]

LEMMA PartialFacts ==
  ASSUME NEW D, NEW R, NEW f
  PROVE  f \in Partial(D, R) <=>
           /\ DOMAIN f \subseteq D /\ \A x \in DOMAIN f : f[x] \in R
           /\ f = [x \in DOMAIN f |-> f[x]]
BY DEF Partial

IsPut(g, f, k, v, D, R) ==
  /\ g \in Partial(D, R) /\ DOMAIN g = DOMAIN f \cup {k} /\ g[k] = v
  /\ \A x \in DOMAIN f : x # k => g[x] = f[x]

LEMMA PutFacts ==
  ASSUME NEW D, NEW R, NEW f \in Partial(D, R), NEW k \in D, NEW v \in R,
         NEW g, g = Put(f, k, v)
  PROVE  IsPut(g, f, k, v, D, R)
<1>1. DOMAIN f \subseteq D /\ \A x \in DOMAIN f : f[x] \in R
  BY PartialFacts
<1>2. g = [x \in DOMAIN f \cup {k} |-> IF x = k THEN v ELSE f[x]]
  BY DEF Put
<1>3. DOMAIN g = DOMAIN f \cup {k} /\ \A x \in DOMAIN g : g[x] = IF x = k THEN v ELSE f[x]
  BY <1>2
<1>4. g = [x \in DOMAIN g |-> g[x]]
  BY <1>2
<1>5. g \in Partial(D, R)
  BY <1>1, <1>3, <1>4, PartialFacts
<1> QED  BY <1>3, <1>5 DEF IsPut

LEMMA EmptyPartial == ASSUME NEW D, NEW R PROVE << >> \in Partial(D, R)
<1>1. DOMAIN << >> = {} /\ << >> = [x \in {} |-> << >>[x]]
  OBVIOUS
<1> QED  BY <1>1, PartialFacts

-----------------------------------------------------------------------------
\* Operations

Balances(s, id) == [a \in Address |-> ft_balance(s, a, id)]
\* The units of a token.
Units(s, id) == SumFunction(Balances(s, id))

\* The part of the invariant that is about the state of the assets.
Backed(s) ==
  /\ \A id \in DOMAIN s.assets :
       s.assets[id].kind = "ft" => Units(s, id) = s.assets[id].supply
  /\ DOMAIN s.nft_owner = {id \in DOMAIN s.assets : s.assets[id].kind = "nft"}
  /\ \A k \in DOMAIN s.ft_balances : k[2] \in DOMAIN s.assets

LEMMA StateFacts ==
  ASSUME NEW s \in AssetState
  PROVE  /\ s = [assets |-> s.assets, ft_balances |-> s.ft_balances, nft_owner |-> s.nft_owner]
         /\ s.assets \in Partial(TxId, Info) /\ s.ft_balances \in Partial(Address \X TxId, Nat)
         /\ s.nft_owner \in Partial(TxId, Address)
         /\ DOMAIN s.assets \subseteq TxId /\ \A id \in DOMAIN s.assets : s.assets[id] \in Info
BY PartialFacts DEF AssetState

LEMMA BalanceType ==
  ASSUME NEW s \in AssetState, NEW a, NEW id
  PROVE  ft_balance(s, a, id) \in Nat
<1>1. \A k \in DOMAIN s.ft_balances : s.ft_balances[k] \in Nat
  BY StateFacts, PartialFacts
<1> QED  BY <1>1 DEF ft_balance

\* Balances that are as before add up as before.
LEMMA UnitsStay ==
  ASSUME NEW s \in AssetState, NEW r, NEW id,
         \A a \in Address : ft_balance(r, a, id) = ft_balance(s, a, id)
  PROVE  Units(r, id) = Units(s, id)
<1>1. Balances(r, id) = Balances(s, id)
  BY DEF Balances
<1> QED  BY <1>1 DEF Units

LEMMA UnitsChange ==
  ASSUME NEW s \in AssetState, NEW r \in AssetState, NEW id, NEW x \in Address,
         \A a \in Address \ {x} : ft_balance(r, a, id) = ft_balance(s, a, id)
  PROVE  /\ Units(r, id) = Units(s, id) - ft_balance(s, x, id) + ft_balance(r, x, id)
         /\ Units(s, id) \in Nat /\ ft_balance(s, x, id) <= Units(s, id)
<1> DEFINE f == Balances(s, id)
           e == Balances(r, id)
<1>1. /\ \A a \in Address : f[a] = ft_balance(s, a, id) /\ e[a] = ft_balance(r, a, id)
      /\ DOMAIN f = Address /\ DOMAIN e = Address
  BY DEF Balances
<1>2. \A a \in Address : ft_balance(s, a, id) \in Nat /\ ft_balance(r, a, id) \in Nat
  BY BalanceType
<1>3. IsFiniteSet(Address)
  BY AssetsAssumption
<1>4. Units(s, id) = SumFunctionOnSet(f, Address) /\ Units(r, id) = SumFunctionOnSet(e, Address)
  BY <1>1 DEF Units, SumFunction
<1> HIDE DEF f, e
<1>5. \A a \in Address : f[a] \in Nat /\ e[a] \in Nat /\ f[a] \in Int /\ e[a] \in Int
  BY <1>1, <1>2
<1>6. SumFunctionOnSet(e, Address) = SumFunctionOnSet(f, Address) - f[x] + e[x]
  BY <1>1, <1>3, <1>5, SumChange
<1>7. SumFunctionOnSet(f, Address) \in Nat /\ f[x] <= SumFunctionOnSet(f, Address)
  BY <1>3, <1>5, SumOfNat
<1> QED  BY <1>1, <1>4, <1>6, <1>7

\* An asset that is not known has no units.
LEMMA NoUnits ==
  ASSUME NEW s \in AssetState, Backed(s), NEW id, id \notin DOMAIN s.assets
  PROVE  Units(s, id) = 0 /\ \A a \in Address : ft_balance(s, a, id) = 0
<1>1. \A a \in Address : ft_balance(s, a, id) = 0
  <2>1. \A a : <<a, id>>[2] = id
    OBVIOUS
  <2> QED  BY <2>1 DEF ft_balance, Backed
<1> DEFINE f == Balances(s, id)
<1>2. DOMAIN f = Address /\ \A a \in Address : f[a] = 0
  BY <1>1 DEF Balances
<1>3. Units(s, id) = SumFunctionOnSet(f, Address)
  BY <1>2 DEF Units, SumFunction
<1> HIDE DEF f
<1>4. SumFunctionOnSet(f, Address) = 0
  BY <1>2, AssetsAssumption, SumOfZeros
<1> QED  BY <1>1, <1>3, <1>4

\* Writing one balance changes that one.
OneBalance(r, s, x, i, v) ==
  /\ r.ft_balances \in Partial(Address \X TxId, Nat)
  /\ DOMAIN r.ft_balances = DOMAIN s.ft_balances \cup {<<x, i>>}
  /\ ft_balance(r, x, i) = v
  /\ \A a, id : a # x \/ id # i => ft_balance(r, a, id) = ft_balance(s, a, id)

LEMMA PutBalance ==
  ASSUME NEW s \in AssetState, NEW x \in Address, NEW i \in TxId, NEW v \in Nat,
         NEW r, r.ft_balances = Put(s.ft_balances, <<x, i>>, v)
  PROVE  OneBalance(r, s, x, i, v)
<1> DEFINE g == r.ft_balances
           k == <<x, i>>
<1>1. k \in Address \X TxId /\ s.ft_balances \in Partial(Address \X TxId, Nat)
  BY StateFacts
<1>2. \A a, id : <<a, id>> = k <=> a = x /\ id = i
  OBVIOUS
<1> HIDE DEF k
<1>3. g = Put(s.ft_balances, k, v)
  BY DEF k
<1> HIDE DEF g
<1>4. /\ g \in Partial(Address \X TxId, Nat) /\ DOMAIN g = DOMAIN s.ft_balances \cup {k}
      /\ g[k] = v /\ \A y \in DOMAIN s.ft_balances : y # k => g[y] = s.ft_balances[y]
  <2>1. IsPut(g, s.ft_balances, k, v, Address \X TxId, Nat)
    BY <1>1, <1>3, PutFacts, Zenon
  <2> QED  BY <2>1 DEF IsPut
<1>5. ft_balance(r, x, i) = v
  BY <1>4 DEF g, k, ft_balance
<1>6. ASSUME NEW a, NEW id, a # x \/ id # i PROVE ft_balance(r, a, id) = ft_balance(s, a, id)
  <2>1. <<a, id>> # k
    BY <1>2, <1>6
  <2> QED  BY <1>4, <2>1 DEF g, ft_balance
<1> QED  BY <1>4, <1>5, <1>6 DEF g, k, OneBalance

\* The state after an issue, by the information that is stored.
Issued(s, t, source, info) ==
  [s EXCEPT !.assets = Put(@, t, info),
            !.ft_balances = Put(@, <<source, t>>, ft_balance(s, source, t) + info.supply)]

LEMMA IssueFacts ==
  ASSUME NEW s \in AssetState, Backed(s), NEW t \in TxId, NEW source \in Address,
         NEW info \in Info, info.kind = "ft", t \notin DOMAIN s.assets,
         NEW r, r = Issued(s, t, source, info)
  PROVE  r \in AssetState /\ Backed(r)
<1>1. /\ s = [assets |-> s.assets, ft_balances |-> s.ft_balances, nft_owner |-> s.nft_owner]
      /\ s.assets \in Partial(TxId, Info) /\ s.nft_owner \in Partial(TxId, Address)
  BY StateFacts
<1>2. ft_balance(s, source, t) = 0 /\ Units(s, t) = 0 /\ info.supply \in Nat
  BY NoUnits DEF Info
<1>3. /\ r.assets = Put(s.assets, t, info) /\ r.nft_owner = s.nft_owner
      /\ r.ft_balances = Put(s.ft_balances, <<source, t>>, info.supply)
      /\ r = [assets |-> r.assets, ft_balances |-> r.ft_balances, nft_owner |-> r.nft_owner]
  <2> DEFINE n == ft_balance(s, source, t) + info.supply
  <2>1. n = info.supply
    BY <1>2
  <2> HIDE DEF n
  <2>2. r = [s EXCEPT !.assets = Put(@, t, info), !.ft_balances = Put(@, <<source, t>>, n)]
    BY DEF n, Issued
  <2> QED  BY <1>1, <2>1, <2>2
<1>4. /\ r.assets \in Partial(TxId, Info) /\ DOMAIN r.assets = DOMAIN s.assets \cup {t}
      /\ r.assets[t] = info /\ \A id \in DOMAIN s.assets : id # t => r.assets[id] = s.assets[id]
  <2>1. IsPut(r.assets, s.assets, t, info, TxId, Info)
    BY <1>1, <1>3, PutFacts, Zenon
  <2> QED  BY <2>1 DEF IsPut
<1>5. /\ r.ft_balances \in Partial(Address \X TxId, Nat)
      /\ DOMAIN r.ft_balances = DOMAIN s.ft_balances \cup {<<source, t>>}
      /\ ft_balance(r, source, t) = info.supply
      /\ \A a, id : a # source \/ id # t => ft_balance(r, a, id) = ft_balance(s, a, id)
  <2>1. OneBalance(r, s, source, t, info.supply)
    BY <1>2, <1>3, PutBalance, Zenon
  <2> QED  BY <2>1 DEF OneBalance
<1>6. r \in AssetState
  BY <1>1, <1>3, <1>4, <1>5 DEF AssetState
<1>7. Units(r, t) = info.supply
  <2>1. Units(r, t) = Units(s, t) - ft_balance(s, source, t) + ft_balance(r, source, t)
    BY <1>5, <1>6, UnitsChange
  <2> QED  BY <1>2, <1>5, <2>1
<1>8. ASSUME NEW id \in DOMAIN r.assets, r.assets[id].kind = "ft"
      PROVE  Units(r, id) = r.assets[id].supply
  <2>1. CASE id = t
    BY <1>4, <1>7, <2>1
  <2>2. CASE id # t
    <3>1. Units(r, id) = Units(s, id)
      BY <1>5, <2>2, UnitsStay
    <3> QED  BY <1>4, <1>8, <2>2, <3>1 DEF Backed
  <2> QED  BY <2>1, <2>2
<1>9. DOMAIN r.nft_owner = {id \in DOMAIN r.assets : r.assets[id].kind = "nft"}
  BY <1>3, <1>4 DEF Backed
<1>10. \A k \in DOMAIN r.ft_balances : k[2] \in DOMAIN r.assets
  BY <1>4, <1>5 DEF Backed
<1> QED  BY <1>6, <1>8, <1>9, <1>10 DEF Backed

LEMMA MintFacts ==
  ASSUME NEW s \in AssetState, Backed(s), NEW t \in TxId, NEW source \in Address,
         NEW info \in Info, info.kind = "nft", t \notin DOMAIN s.assets, NEW r,
         r = [s EXCEPT !.assets = Put(@, t, info), !.nft_owner = Put(@, t, source)]
  PROVE  r \in AssetState /\ Backed(r)
<1>1. /\ s = [assets |-> s.assets, ft_balances |-> s.ft_balances, nft_owner |-> s.nft_owner]
      /\ s.assets \in Partial(TxId, Info) /\ s.nft_owner \in Partial(TxId, Address)
      /\ s.ft_balances \in Partial(Address \X TxId, Nat)
  BY StateFacts
<1>2. /\ r.assets = Put(s.assets, t, info) /\ r.nft_owner = Put(s.nft_owner, t, source)
      /\ r.ft_balances = s.ft_balances
      /\ r = [assets |-> r.assets, ft_balances |-> r.ft_balances, nft_owner |-> r.nft_owner]
  BY <1>1
<1>3. /\ r.assets \in Partial(TxId, Info) /\ DOMAIN r.assets = DOMAIN s.assets \cup {t}
      /\ r.assets[t] = info /\ \A id \in DOMAIN s.assets : id # t => r.assets[id] = s.assets[id]
  <2>1. IsPut(r.assets, s.assets, t, info, TxId, Info)
    BY <1>1, <1>2, PutFacts, Zenon
  <2> QED  BY <2>1 DEF IsPut
<1>4. r.nft_owner \in Partial(TxId, Address) /\ DOMAIN r.nft_owner = DOMAIN s.nft_owner \cup {t}
  <2>1. IsPut(r.nft_owner, s.nft_owner, t, source, TxId, Address)
    BY <1>1, <1>2, PutFacts, Zenon
  <2> QED  BY <2>1 DEF IsPut
<1>5. r \in AssetState
  BY <1>1, <1>2, <1>3, <1>4 DEF AssetState
<1>6. ASSUME NEW id \in DOMAIN r.assets, r.assets[id].kind = "ft"
      PROVE  Units(r, id) = r.assets[id].supply
  <2>1. id # t /\ id \in DOMAIN s.assets
    BY <1>3, <1>6
  <2>2. Units(r, id) = Units(s, id)
    BY <1>2, UnitsStay DEF ft_balance
  <2> QED  BY <1>3, <1>6, <2>1, <2>2 DEF Backed
<1>7. DOMAIN r.nft_owner = {id \in DOMAIN r.assets : r.assets[id].kind = "nft"}
  BY <1>3, <1>4 DEF Backed
<1>8. \A k \in DOMAIN r.ft_balances : k[2] \in DOMAIN r.assets
  BY <1>2, <1>3 DEF Backed
<1> QED  BY <1>5, <1>6, <1>7, <1>8 DEF Backed

\* A transfer moves units and makes none, also from an address to itself.
LEMMA MoveFacts ==
  ASSUME NEW s \in AssetState, Backed(s), NEW source \in Address, NEW dest \in Address,
         NEW op, op.asset \in DOMAIN s.assets, op.amount \in Nat \ {0},
         ft_balance(s, source, op.asset) >= op.amount, NEW r,
         r = [s EXCEPT !.ft_balances = MoveBalance(s, source, dest, op)]
  PROVE  r \in AssetState /\ Backed(r)
<1> DEFINE i == op.asset
           n == op.amount
           d == [s EXCEPT !.ft_balances[<<source, i>>] = @ - n]
<1>1. /\ s = [assets |-> s.assets, ft_balances |-> s.ft_balances, nft_owner |-> s.nft_owner]
      /\ s.assets \in Partial(TxId, Info) /\ s.nft_owner \in Partial(TxId, Address)
      /\ s.ft_balances \in Partial(Address \X TxId, Nat) /\ i \in TxId /\ n \in Nat \ {0}
  BY StateFacts
<1>2. <<source, i>> \in DOMAIN s.ft_balances /\ ft_balance(s, source, i) = s.ft_balances[<<source, i>>]
  BY <1>1 DEF ft_balance
<1>3. ft_balance(s, source, i) \in Nat /\ ft_balance(s, source, i) - n \in Nat
  BY <1>1, BalanceType
<1>4. s.ft_balances = [k \in DOMAIN s.ft_balances |-> s.ft_balances[k]]
  BY <1>1, PartialFacts
<1>5. /\ d.assets = s.assets /\ d.nft_owner = s.nft_owner
      /\ d.ft_balances = [s.ft_balances EXCEPT ![<<source, i>>] = @ - n]
      /\ d = [assets |-> d.assets, ft_balances |-> d.ft_balances, nft_owner |-> d.nft_owner]
  BY <1>1
<1>6. [s.ft_balances EXCEPT ![<<source, i>>] = @ - n]
        = Put(s.ft_balances, <<source, i>>, ft_balance(s, source, i) - n)
  BY <1>2, <1>4 DEF Put
<1>7. r = [s EXCEPT !.ft_balances = Put(d.ft_balances, <<dest, i>>, ft_balance(d, dest, i) + n)]
  BY DEF MoveBalance
<1> HIDE DEF d, i, n
<1>8. /\ d.ft_balances \in Partial(Address \X TxId, Nat)
      /\ DOMAIN d.ft_balances = DOMAIN s.ft_balances \cup {<<source, i>>}
      /\ ft_balance(d, source, i) = ft_balance(s, source, i) - n
      /\ \A a, id : a # source \/ id # i => ft_balance(d, a, id) = ft_balance(s, a, id)
  <2>1. OneBalance(d, s, source, i, ft_balance(s, source, i) - n)
    BY <1>1, <1>3, <1>5, <1>6, PutBalance, Zenon
  <2> QED  BY <2>1 DEF OneBalance
<1>9. d \in AssetState
  BY <1>1, <1>5, <1>8 DEF AssetState
<1>10. /\ r.assets = s.assets /\ r.nft_owner = s.nft_owner
       /\ r.ft_balances = Put(d.ft_balances, <<dest, i>>, ft_balance(d, dest, i) + n)
       /\ r = [assets |-> r.assets, ft_balances |-> r.ft_balances, nft_owner |-> r.nft_owner]
  BY <1>1, <1>7
<1>11. ft_balance(d, dest, i) \in Nat /\ ft_balance(d, dest, i) + n \in Nat
  BY <1>1, <1>9, BalanceType
<1>12. /\ r.ft_balances \in Partial(Address \X TxId, Nat)
       /\ DOMAIN r.ft_balances = DOMAIN d.ft_balances \cup {<<dest, i>>}
       /\ ft_balance(r, dest, i) = ft_balance(d, dest, i) + n
       /\ \A a, id : a # dest \/ id # i => ft_balance(r, a, id) = ft_balance(d, a, id)
  <2>1. OneBalance(r, d, dest, i, ft_balance(d, dest, i) + n)
    BY <1>1, <1>9, <1>10, <1>11, PutBalance, Zenon
  <2> QED  BY <2>1 DEF OneBalance
<1>13. r \in AssetState
  BY <1>1, <1>10, <1>12 DEF AssetState
<1>14. Units(r, i) = Units(s, i)
  <2>1. Units(d, i) = Units(s, i) - ft_balance(s, source, i) + ft_balance(d, source, i)
        /\ Units(s, i) \in Nat
    BY <1>8, <1>9, UnitsChange
  <2>2. Units(r, i) = Units(d, i) - ft_balance(d, dest, i) + ft_balance(r, dest, i)
        /\ Units(d, i) \in Nat
    BY <1>9, <1>12, <1>13, UnitsChange
  <2> QED  BY <1>1, <1>3, <1>8, <1>11, <1>12, <2>1, <2>2
<1>15. ASSUME NEW id \in DOMAIN r.assets, r.assets[id].kind = "ft"
       PROVE  Units(r, id) = r.assets[id].supply
  <2>1. CASE id = i
    BY <1>10, <1>14, <1>15, <2>1 DEF Backed
  <2>2. CASE id # i
    <3>1. \A a \in Address : ft_balance(r, a, id) = ft_balance(s, a, id)
      BY <1>8, <1>12, <2>2
    <3>2. Units(r, id) = Units(s, id)
      BY <3>1, UnitsStay
    <3> QED  BY <1>10, <1>15, <3>2 DEF Backed
  <2> QED  BY <2>1, <2>2
<1>16. \A k \in DOMAIN r.ft_balances : k[2] \in DOMAIN r.assets
  BY <1>8, <1>10, <1>12 DEF Backed, i
<1> QED  BY <1>10, <1>13, <1>15, <1>16 DEF Backed

LEMMA OwnerFacts ==
  ASSUME NEW s \in AssetState, Backed(s), NEW i \in DOMAIN s.assets, s.assets[i].kind # "ft",
         NEW dest \in Address, NEW r, r = [s EXCEPT !.nft_owner = Put(@, i, dest)]
  PROVE  r \in AssetState /\ Backed(r)
<1>1. /\ s = [assets |-> s.assets, ft_balances |-> s.ft_balances, nft_owner |-> s.nft_owner]
      /\ s.assets \in Partial(TxId, Info) /\ s.nft_owner \in Partial(TxId, Address)
      /\ s.ft_balances \in Partial(Address \X TxId, Nat) /\ i \in TxId /\ s.assets[i] \in Info
  BY StateFacts
<1>2. /\ r.assets = s.assets /\ r.nft_owner = Put(s.nft_owner, i, dest)
      /\ r.ft_balances = s.ft_balances
      /\ r = [assets |-> r.assets, ft_balances |-> r.ft_balances, nft_owner |-> r.nft_owner]
  BY <1>1
<1>3. r.nft_owner \in Partial(TxId, Address) /\ DOMAIN r.nft_owner = DOMAIN s.nft_owner \cup {i}
  <2>1. IsPut(r.nft_owner, s.nft_owner, i, dest, TxId, Address)
    BY <1>1, <1>2, PutFacts, Zenon
  <2> QED  BY <2>1 DEF IsPut
<1>4. r \in AssetState
  BY <1>1, <1>2, <1>3 DEF AssetState
<1>5. i \in DOMAIN s.nft_owner
  BY <1>1 DEF Backed, Info
<1>6. ASSUME NEW id PROVE Units(r, id) = Units(s, id)
  <2>1. \A a \in Address : ft_balance(r, a, id) = ft_balance(s, a, id)
    BY <1>2 DEF ft_balance
  <2> QED  BY <2>1, UnitsStay
<1> QED  BY <1>2, <1>3, <1>4, <1>5, <1>6 DEF Backed

LEMMA OpFacts ==
  ASSUME NEW op \in AssetOp
  PROVE  \/ op.op = "issue" /\ op.supply \in Nat /\ op.decimals \in Nat
         \/ op.op = "nft_mint" /\ op.royalty \in Nat /\ op.royalty_addr \in Address
         \/ op.op = "transfer" /\ op.asset \in TxId /\ op.amount \in Nat /\ op.dest \in Nat
BY DEF AssetOp

\* AssetState::apply keeps the assets backed.
LEMMA AppliedFacts ==
  ASSUME NEW s \in AssetState, Backed(s), NEW t \in TxId, NEW h \in Nat,
         NEW source \in Address, NEW dest \in Address \cup {NoAddr}, NEW op \in AssetOp,
         Applies(s, t, source, dest, op), NEW r, r = Applied(s, t, h, source, dest, op)
  PROVE  r \in AssetState /\ Backed(r)
<1>1. CASE op.op = "issue"
  <2> DEFINE info == [kind |-> "ft", supply |-> op.supply, issuer |-> source,
                      mint_height |-> h, royalty_bps |-> 0, royalty_addr |-> NoAddr]
  <2>1. op.supply \in Nat
    BY <1>1, OpFacts
  <2>2. info \in Info /\ info.kind = "ft" /\ info.supply = op.supply
    BY <2>1 DEF Info
  <2>3. t \notin DOMAIN s.assets
    BY <1>1 DEF Applies
  <2>4. r = Issued(s, t, source, info)
    BY <1>1 DEF Applied, Issued
  <2> HIDE DEF info
  <2> QED  BY <2>2, <2>3, <2>4, IssueFacts, Zenon
<1>2. CASE op.op = "nft_mint"
  <2> DEFINE info == [kind |-> "nft", supply |-> 1, issuer |-> source, mint_height |-> h,
                      royalty_bps |-> op.royalty, royalty_addr |-> op.royalty_addr]
  <2>1. op.royalty \in Nat /\ op.royalty_addr \in Address
    BY <1>2, OpFacts
  <2>2. info \in Info /\ info.kind = "nft"
    BY <2>1 DEF Info
  <2>3. t \notin DOMAIN s.assets
    BY <1>2 DEF Applies
  <2>4. r = [s EXCEPT !.assets = Put(@, t, info), !.nft_owner = Put(@, t, source)]
    BY <1>2 DEF Applied
  <2> HIDE DEF info
  <2> QED  BY <2>2, <2>3, <2>4, MintFacts
<1>3. CASE op.op = "transfer"
  <2>1. op.amount \in Nat
    BY <1>3, OpFacts
  <2>2. /\ op.asset \in DOMAIN s.assets /\ dest # NoAddr
        /\ IF s.assets[op.asset].kind = "ft"
           THEN op.amount > 0 /\ ft_balance(s, source, op.asset) >= op.amount
           ELSE op.amount = 1 /\ s.nft_owner[op.asset] = source
    BY <1>3 DEF Applies
  <2>3. r = IF s.assets[op.asset].kind = "ft"
            THEN [s EXCEPT !.ft_balances = MoveBalance(s, source, dest, op)]
            ELSE [s EXCEPT !.nft_owner = Put(@, op.asset, dest)]
    BY <1>3 DEF Applied
  <2>4. dest \in Address
    BY <2>2
  <2>5. CASE s.assets[op.asset].kind = "ft"
    <3>1. r = [s EXCEPT !.ft_balances = MoveBalance(s, source, dest, op)]
      BY <2>3, <2>5
    <3>2. op.amount \in Nat \ {0} /\ ft_balance(s, source, op.asset) >= op.amount
      BY <2>1, <2>2, <2>5
    <3> QED  BY <2>2, <2>4, <3>1, <3>2, MoveFacts
  <2>6. CASE s.assets[op.asset].kind # "ft"
    <3>1. r = [s EXCEPT !.nft_owner = Put(@, op.asset, dest)]
      BY <2>3, <2>6
    <3> QED  BY <2>2, <2>4, <2>6, <3>1, OwnerFacts
  <2> QED  BY <2>5, <2>6
<1> QED  BY <1>1, <1>2, <1>3, OpFacts

-----------------------------------------------------------------------------
\* Blocks

LEMMA TxFacts ==
  ASSUME NEW t \in TxId
  PROVE  Tx[t].inputs \in Seq(TxId \X Nat) /\ Tx[t].outputs \in Seq(Output)
BY AssetsAssumption DEF AssetTx

LEMMA OutputFacts ==
  ASSUME NEW t \in TxId, NEW i \in DOMAIN Tx[t].outputs
  PROVE  /\ Tx[t].outputs[i].addr \in Address \cup {NoAddr}
         /\ Tx[t].outputs[i].data \in AssetOp \cup {NoData} /\ i \in Nat
<1>1. Tx[t].outputs \in Seq(Output)
  BY TxFacts
<1>2. Tx[t].outputs[i] \in Output /\ i \in Nat
  BY <1>1
<1> QED  BY <1>2 DEF Output

LEMMA ExtractType ==
  ASSUME NEW t \in TxId
  PROVE  extract_asset_op(t) \in AssetOp \cup {NoData}
<1> DEFINE outs == Tx[t].outputs
           valid == {i \in DOMAIN outs : Decodes(outs[i].data)}
           first == CHOOSE i \in valid : \A j \in valid : i <= j
<1>2. \A i \in DOMAIN outs : outs[i].data \in AssetOp \cup {NoData} /\ i \in Nat
  BY OutputFacts
<1>3. ASSUME valid # {} PROVE first \in DOMAIN outs
  <2>1. valid \subseteq Nat
    BY <1>2
  <2>2. valid \subseteq DOMAIN outs
    OBVIOUS
  <2> HIDE DEF valid
  <2>3. \E m \in valid : \A k \in valid : m <= k
    BY <1>3, <2>1, LeastElement
  <2>4. first \in valid
    BY <2>3
  <2> QED  BY <2>2, <2>4
<1>4. extract_asset_op(t) = IF valid = {} THEN NoData ELSE outs[first].data
  BY DEF extract_asset_op
<1> HIDE DEF valid, first, outs
<1> QED  BY <1>2, <1>3, <1>4

LEMMA DataFacts ==
  ASSUME NEW d \in Data
  PROVE  /\ d = [state |-> d.state, outpoints |-> d.outpoints, history |-> d.history]
         /\ d.state \in AssetState /\ d.outpoints \in Partial(TxId \X Nat, Address)
         /\ d.history \in [Address -> Seq(Event)]
BY DEF Data

LEMMA SourceType ==
  ASSUME NEW d \in Data, NEW t \in TxId
  PROVE  resolve_source(d, t) \in Address \cup {NoAddr}
<1>1. \A k \in DOMAIN d.outpoints : d.outpoints[k] \in Address
  BY DataFacts, PartialFacts
<1> QED  BY <1>1 DEF resolve_source

LEMMA DestType ==
  ASSUME NEW t \in TxId, NEW op
  PROVE  DestOf(t, op) \in Address \cup {NoAddr}
<1>1. \A i \in DOMAIN Tx[t].outputs : Tx[t].outputs[i].addr \in Address \cup {NoAddr}
  BY OutputFacts
<1> QED  BY <1>1 DEF DestOf

LEMMA OutputsFacts ==
  ASSUME NEW d \in Data, NEW t \in TxId, NEW r, r = record_outputs(d, t)
  PROVE  r \in Data /\ r.state = d.state
<1> DEFINE outs == Tx[t].outputs
           paid == {i \in DOMAIN outs : outs[i].addr # NoAddr}
           keys == {<<t, i - 1>> : i \in paid}
           O == [k \in DOMAIN d.outpoints \cup keys |->
                   IF k \in keys THEN outs[k[2] + 1].addr ELSE d.outpoints[k]]
<1>1. outs \in Seq(Output) /\ DOMAIN d.outpoints \subseteq TxId \X Nat
      /\ \A k \in DOMAIN d.outpoints : d.outpoints[k] \in Address
  BY TxFacts, DataFacts, PartialFacts
<1>2. ASSUME NEW k \in keys PROVE k \in TxId \X Nat /\ outs[k[2] + 1].addr \in Address
  <2>1. PICK i \in paid : k = <<t, i - 1>>
    OBVIOUS
  <2>2. i \in 1 .. Len(outs) /\ outs[i].addr # NoAddr
    BY <1>1
  <2>3. outs[i] \in Output
    BY <1>1, <2>2
  <2>4. outs[i].addr \in Address
    BY <2>2, <2>3 DEF Output
  <2>5. k[2] + 1 = i /\ i - 1 \in Nat
    BY <2>1, <2>2
  <2> QED  BY <2>1, <2>4, <2>5
<1>3. r = [d EXCEPT !.outpoints = O]
  BY DEF record_outputs
<1> HIDE DEF keys, paid, outs
<1>4. O \in Partial(TxId \X Nat, Address)
  <2>1. DOMAIN O \subseteq TxId \X Nat /\ \A k \in DOMAIN O : O[k] \in Address
    BY <1>1, <1>2
  <2>2. O = [k \in DOMAIN O |-> O[k]]
    OBVIOUS
  <2> HIDE DEF O
  <2> QED  BY <2>1, <2>2, PartialFacts
<1> HIDE DEF O
<1> QED  BY <1>3, <1>4 DEF Data

LEMMA HistoryFacts ==
  ASSUME NEW d \in Data, NEW t \in TxId, NEW h \in Nat, NEW source \in Address,
         NEW dest \in Address \cup {NoAddr}, NEW r, r = record_history(d, t, h, source, dest)
  PROVE  r \in Data /\ r.state = d.state
<1> DEFINE entry == [height |-> h, txid |-> t, from |-> source, to |-> dest]
           H == [a \in Address |->
                   IF a \in {source, dest} THEN Append(d.history[a], entry) ELSE d.history[a]]
<1>1. r = [d EXCEPT !.history = H]
  BY DEF record_history
<1>2. entry \in Event
  BY DEF Event
<1> HIDE DEF entry
<1>3. H \in [Address -> Seq(Event)]
  <2>1. \A a \in Address : d.history[a] \in Seq(Event) /\ Append(d.history[a], entry) \in Seq(Event)
    BY <1>2, DataFacts
  <2> QED  BY <2>1
<1> HIDE DEF H
<1> QED  BY <1>1, <1>3 DEF Data

\* The data of an index: well formed, and its assets backed.
Sound == {d \in Data : Backed(d.state)}

LEMMA IndexTxFacts ==
  ASSUME NEW d \in Sound, NEW t \in TxId, NEW h \in Nat
  PROVE  IndexTx(d, t, h) \in Sound
<1> DEFINE op == extract_asset_op(t)
           source == resolve_source(d, t)
           dest == DestOf(t, op)
           go == op # NoData /\ source # NoAddr /\ Applies(d.state, t, source, dest, op)
           s == Applied(d.state, t, h, source, dest, op)
           e == [d EXCEPT !.state = s]
           m == record_history(e, t, h, source, dest)
           k == IF go THEN m ELSE d
<1>1. /\ op \in AssetOp \cup {NoData} /\ source \in Address \cup {NoAddr}
      /\ dest \in Address \cup {NoAddr}
  BY ExtractType, SourceType, DestType DEF Sound
<1>2. d \in Data /\ d.state \in AssetState /\ Backed(d.state)
  BY DataFacts DEF Sound
<1>3. IndexTx(d, t, h) = record_outputs(k, t)
  BY DEF IndexTx
<1> HIDE DEF op, source, dest
<1>4. ASSUME go PROVE m \in Data /\ Backed(m.state)
  <2>1. op \in AssetOp /\ source \in Address
    BY <1>1, <1>4
  <2>2. s \in AssetState /\ Backed(s)
    <3>1. Applies(d.state, t, source, dest, op)
      BY <1>4
    <3> QED  BY <1>1, <1>2, <2>1, <3>1, AppliedFacts
  <2> HIDE DEF s
  <2>3. e \in Data /\ e.state = s
    BY <1>2, <2>2 DEF Data
  <2> HIDE DEF e
  <2>4. m \in Data /\ m.state = e.state
    BY <1>1, <2>1, <2>3, HistoryFacts
  <2> HIDE DEF m
  <2> QED  BY <2>2, <2>3, <2>4
<1> HIDE DEF m, go
<1>5. k \in Data /\ Backed(k.state)
  BY <1>2, <1>4
<1> HIDE DEF k
<1>6. record_outputs(k, t) \in Data /\ record_outputs(k, t).state = k.state
  BY <1>5, OutputsFacts
<1> QED  BY <1>3, <1>5, <1>6 DEF Sound

\* What the blocks of the model are made of.
LEMMA BlockFacts ==
  ASSUME NEW b \in Block
  PROVE  /\ b \in Seq(Body) /\ b # Zero /\ Len(b) \in Nat \ {0} /\ b[Len(b)] \in Body
         /\ TxsOf[b[Len(b)]] \in Seq(TxId)
         /\ \A n \in 1 .. Len(b) : SubSeq(b, 1, n) \in Block
<1>1. b \in Seq(Body) /\ b # << >>
  BY IndexerAssumption DEF Zero
<1>2. Len(b) \in Nat \ {0} /\ b[Len(b)] \in Body /\ DOMAIN b = 1 .. Len(b)
  BY <1>1
<1> QED  BY <1>1, <1>2, IndexerAssumption, AssetsAssumption DEF Zero

\* Indexer::apply_block keeps the assets backed.
LEMMA ApplyFacts ==
  ASSUME NEW d \in Sound, NEW b \in Block
  PROVE  apply_block(d, b) \in Sound
<1> DEFINE txs == TxsOf[b[Len(b)]]
           N == Len(txs)
           h == Len(b) - 1
           F == [p \in (1 .. N) \X Sound |-> IndexTx(p[2], txs[p[1]], h)]
           step[n \in 0 .. Len(txs)] ==
             IF n = 0 THEN d ELSE IndexTx(step[n - 1], txs[n], Len(b) - 1)
<1>1. txs \in Seq(TxId) /\ N \in Nat /\ h \in Nat /\ \A n \in 1 .. N : txs[n] \in TxId
  BY BlockFacts
<1>2. F \in [(1 .. N) \X Sound -> Sound]
  <2>1. ASSUME NEW p \in (1 .. N) \X Sound PROVE IndexTx(p[2], txs[p[1]], h) \in Sound
    <3>1. p[1] \in 1 .. N /\ p[2] \in Sound /\ txs[p[1]] \in TxId
      BY <1>1
    <3> QED  BY <1>1, <3>1, IndexTxFacts
  <2> HIDE DEF N, txs, h
  <2> QED  BY <2>1
<1>3. PICK f \in [0 .. N -> Sound] :
        f = [i \in 0 .. N |-> IF i = 0 THEN d ELSE F[<<i, f[i - 1]>>]]
  <2> HIDE DEF N, F
  <2>1. \E f : Solves(f, N, Sound, d, F)
    BY <1>1, <1>2, RecursionSolved
  <2> QED  BY <2>1 DEF Solves
<1>4. f = [i \in 0 .. Len(txs) |-> IF i = 0 THEN d ELSE IndexTx(f[i - 1], txs[i], Len(b) - 1)]
  <2> DEFINE g == [i \in 0 .. N |-> IF i = 0 THEN d ELSE IndexTx(f[i - 1], txs[i], h)]
  <2> HIDE DEF txs, N, h
  <2>1. ASSUME NEW i \in 0 .. N, i # 0
        PROVE  F[<<i, f[i - 1]>>] = IndexTx(f[i - 1], txs[i], h)
    <3>1. i \in 1 .. N /\ i - 1 \in 0 .. N
      BY <1>1, <2>1
    <3>2. f[i - 1] \in Sound
      BY <1>3, <3>1, Zenon
    <3> QED  BY <3>1, <3>2
  <2>2. \A i \in 0 .. N : f[i] = g[i]
    <3> HIDE DEF F
    <3> QED  BY <1>3, <2>1
  <2>3. f = g
    BY <1>3, <2>2
  <2> QED  BY <2>3, Zenon DEF N, h
<1>5. step = [n \in 0 .. Len(txs) |->
                IF n = 0 THEN d ELSE IndexTx(step[n - 1], txs[n], Len(b) - 1)]
  BY <1>4, Zenon DEF step
<1>6. apply_block(d, b) = step[N]
  BY DEF apply_block
<1> HIDE DEF step, F, txs, N
<1>7. step[0] = d /\ \A n \in 1 .. N : step[n] = IndexTx(step[n - 1], txs[n], Len(b) - 1)
  <2> DEFINE g == [n \in 0 .. Len(txs) |->
                     IF n = 0 THEN d ELSE IndexTx(step[n - 1], txs[n], Len(b) - 1)]
  <2>1. 0 \in 0 .. Len(txs) /\ \A n \in 1 .. N : n \in 0 .. Len(txs) /\ n # 0
    BY <1>1 DEF N
  <2>2. g[0] = d /\ \A n \in 1 .. N : g[n] = IndexTx(step[n - 1], txs[n], Len(b) - 1)
    BY <2>1
  <2>3. step = g
    BY <1>5, Zenon
  <2> QED  BY <2>2, <2>3, Zenon
<1>8. f[0] = d /\ \A n \in 1 .. N : f[n] = IndexTx(f[n - 1], txs[n], Len(b) - 1)
  <2> DEFINE g == [n \in 0 .. Len(txs) |->
                     IF n = 0 THEN d ELSE IndexTx(f[n - 1], txs[n], Len(b) - 1)]
  <2>1. 0 \in 0 .. Len(txs) /\ \A n \in 1 .. N : n \in 0 .. Len(txs) /\ n # 0
    BY <1>1 DEF N
  <2>2. g[0] = d /\ \A n \in 1 .. N : g[n] = IndexTx(f[n - 1], txs[n], Len(b) - 1)
    BY <2>1
  <2>3. f = g
    BY <1>4, Zenon
  <2> QED  BY <2>2, <2>3, Zenon
<1>9. SameSteps(step, f, N)
  BY <1>7, <1>8 DEF SameSteps
<1>10. Agree(step, f, N)
  BY <1>1, <1>9, RecursionUnique
<1>11. N \in 0 .. N
  BY <1>1
<1>12. f[N] \in Sound
  BY <1>3, <1>11, Zenon
<1> QED  BY <1>6, <1>10, <1>11, <1>12 DEF Agree

LEMMA EmptySound == EmptyData \in Sound
<1> DEFINE s == EmptyAssets
<1>1. /\ s.assets = << >> /\ s.ft_balances = << >> /\ s.nft_owner = << >>
      /\ s = [assets |-> << >>, ft_balances |-> << >>, nft_owner |-> << >>]
  BY DEF EmptyAssets
<1>2. s \in AssetState
  <2>1. \A D, R : << >> \in Partial(D, R)
    BY EmptyPartial
  <2> QED  BY <1>1, <2>1 DEF AssetState
<1>3. Backed(s)
  <2>1. DOMAIN s.assets = {} /\ DOMAIN s.ft_balances = {} /\ DOMAIN s.nft_owner = {}
    BY <1>1
  <2> HIDE DEF s
  <2> QED  BY <2>1 DEF Backed
<1> HIDE DEF s
<1>4. EmptyData = [state |-> s, outpoints |-> << >>, history |-> [a \in Address |-> << >>]]
  BY DEF s, EmptyData
<1>5. << >> \in Partial(TxId \X Nat, Address) /\ [a \in Address |-> << >>] \in [Address -> Seq(Event)]
  BY EmptyPartial
<1> QED  BY <1>2, <1>3, <1>4, <1>5 DEF Data, Sound

\* f holds what a scan of b has computed after each of its blocks.
ScanOf(f, b) ==
  /\ f \in [0 .. Len(b) -> Sound] /\ f[0] = EmptyData
  /\ \A n \in 1 .. Len(b) : f[n] = apply_block(f[n - 1], SubSeq(b, 1, n))
  /\ IndexOf(b) = f[Len(b)]

LEMMA ScanExists ==
  ASSUME NEW b \in Block \cup {Zero}
  PROVE  \E f : ScanOf(f, b)
<1> DEFINE N == Len(b)
           F == [p \in (1 .. N) \X Sound |-> apply_block(p[2], SubSeq(b, 1, p[1]))]
           upto[n \in 0 .. Len(b)] ==
             IF n = 0 THEN EmptyData ELSE apply_block(upto[n - 1], SubSeq(b, 1, n))
<1>1. N \in Nat /\ \A n \in 1 .. N : SubSeq(b, 1, n) \in Block
  BY BlockFacts DEF Zero
<1>2. F \in [(1 .. N) \X Sound -> Sound]
  <2>1. ASSUME NEW p \in (1 .. N) \X Sound
        PROVE  apply_block(p[2], SubSeq(b, 1, p[1])) \in Sound
    <3>1. p[1] \in 1 .. N /\ p[2] \in Sound /\ SubSeq(b, 1, p[1]) \in Block
      BY <1>1
    <3> QED  BY <3>1, ApplyFacts
  <2> HIDE DEF N
  <2> QED  BY <2>1
<1>3. PICK f \in [0 .. N -> Sound] :
        f = [i \in 0 .. N |-> IF i = 0 THEN EmptyData ELSE F[<<i, f[i - 1]>>]]
  <2> HIDE DEF N, F
  <2>1. \E f : Solves(f, N, Sound, EmptyData, F)
    BY <1>1, <1>2, EmptySound, RecursionSolved
  <2> QED  BY <2>1 DEF Solves
<1>4. f = [i \in 0 .. Len(b) |->
             IF i = 0 THEN EmptyData ELSE apply_block(f[i - 1], SubSeq(b, 1, i))]
  <2> DEFINE g == [i \in 0 .. N |-> IF i = 0 THEN EmptyData
                                    ELSE apply_block(f[i - 1], SubSeq(b, 1, i))]
  <2> HIDE DEF N
  <2>1. ASSUME NEW i \in 0 .. N, i # 0
        PROVE  F[<<i, f[i - 1]>>] = apply_block(f[i - 1], SubSeq(b, 1, i))
    <3>1. i \in 1 .. N /\ i - 1 \in 0 .. N
      BY <1>1, <2>1
    <3>2. f[i - 1] \in Sound
      BY <1>3, <3>1, Zenon
    <3> QED  BY <3>1, <3>2
  <2>2. \A i \in 0 .. N : f[i] = g[i]
    <3> HIDE DEF F
    <3> QED  BY <1>3, <2>1
  <2>3. f = g
    BY <1>3, <2>2
  <2> QED  BY <2>3, Zenon DEF N
<1>5. upto = [n \in 0 .. Len(b) |->
                IF n = 0 THEN EmptyData ELSE apply_block(upto[n - 1], SubSeq(b, 1, n))]
  BY <1>4, Zenon DEF upto
<1>6. IndexOf(b) = upto[N]
  BY DEF IndexOf
<1> HIDE DEF upto, F, N
<1>7. ASSUME NEW e, e = [n \in 0 .. Len(b) |->
                IF n = 0 THEN EmptyData ELSE apply_block(e[n - 1], SubSeq(b, 1, n))]
      PROVE  e[0] = EmptyData /\ \A n \in 1 .. N : e[n] = apply_block(e[n - 1], SubSeq(b, 1, n))
  <2> DEFINE g == [n \in 0 .. Len(b) |->
                     IF n = 0 THEN EmptyData ELSE apply_block(e[n - 1], SubSeq(b, 1, n))]
  <2>1. 0 \in 0 .. Len(b) /\ \A n \in 1 .. N : n \in 0 .. Len(b) /\ n # 0
    BY <1>1 DEF N
  <2>2. g[0] = EmptyData /\ \A n \in 1 .. N : g[n] = apply_block(e[n - 1], SubSeq(b, 1, n))
    BY <2>1
  <2>3. e = g
    BY <1>7, Zenon
  <2> QED  BY <2>2, <2>3, Zenon
<1>8. f[0] = EmptyData /\ \A n \in 1 .. N : f[n] = apply_block(f[n - 1], SubSeq(b, 1, n))
  BY <1>4, <1>7, Zenon
<1>9. upto[0] = EmptyData /\ \A n \in 1 .. N : upto[n] = apply_block(upto[n - 1], SubSeq(b, 1, n))
  BY <1>5, <1>7, Zenon
<1>10. SameSteps(upto, f, N)
  BY <1>8, <1>9 DEF SameSteps
<1>11. Agree(upto, f, N)
  BY <1>1, <1>10, RecursionUnique
<1>12. upto[N] = f[N]
  BY <1>1, <1>11 DEF Agree
<1>13. ScanOf(f, b)
  BY <1>3, <1>6, <1>8, <1>12 DEF ScanOf, N
<1> QED  BY <1>13

LEMMA IndexType == ASSUME NEW b \in Block \cup {Zero} PROVE IndexOf(b) \in Sound
<1>1. PICK f : ScanOf(f, b)
  BY ScanExists
<1>2. Len(b) \in 0 .. Len(b)
  BY BlockFacts DEF Zero
<1> QED  BY <1>1, <1>2 DEF ScanOf

LEMMA IndexOfZero == IndexOf(Zero) = EmptyData
<1>1. PICK f : ScanOf(f, Zero)
  BY ScanExists
<1> QED  BY <1>1 DEF ScanOf, Zero

\* A scan of a branch is a scan of the branch below its tip, and then the tip.
LEMMA IndexStep ==
  ASSUME NEW b \in Block, NEW c \in Block \cup {Zero}, c = SubSeq(b, 1, Len(b) - 1)
  PROVE  IndexOf(b) = apply_block(IndexOf(c), b)
<1> DEFINE M == Len(b) - 1
<1>1. b \in Seq(Body) /\ Len(b) \in Nat \ {0} /\ M \in Nat
  BY BlockFacts
<1>2. Len(c) = M /\ \A n \in 1 .. M : SubSeq(c, 1, n) = SubSeq(b, 1, n)
  <2>1. c = SubSeq(b, 1, M) /\ M <= Len(b)
    BY <1>1
  <2> HIDE DEF M
  <2>2. c \in Seq(Body) /\ Len(c) = M /\ \A i \in 1 .. M : c[i] = b[i]
    BY <1>1, <2>1
  <2>3. ASSUME NEW n \in 1 .. M PROVE SubSeq(c, 1, n) = SubSeq(b, 1, n)
    BY <1>1, <2>1, <2>2
  <2> QED  BY <2>2, <2>3
<1>3. SubSeq(b, 1, Len(b)) = b
  BY <1>1
<1>4. PICK f : ScanOf(f, b)
  BY ScanExists
<1>5. PICK g : ScanOf(g, c)
  BY ScanExists
<1>6. /\ f[0] = EmptyData
      /\ \A n \in 1 .. Len(b) : f[n] = apply_block(f[n - 1], SubSeq(b, 1, n))
      /\ IndexOf(b) = f[Len(b)]
  BY <1>4 DEF ScanOf
<1>7. /\ g[0] = EmptyData
      /\ \A n \in 1 .. M : g[n] = apply_block(g[n - 1], SubSeq(b, 1, n))
      /\ IndexOf(c) = g[M]
  BY <1>2, <1>5 DEF ScanOf
<1>8. SameSteps(f, g, M)
  <2>1. \A n \in 1 .. M : n \in 1 .. Len(b)
    BY <1>1
  <2> QED  BY <1>6, <1>7, <2>1 DEF SameSteps
<1>9. Agree(f, g, M)
  BY <1>1, <1>8, RecursionUnique
<1>10. f[M] = g[M]
  BY <1>1, <1>9 DEF Agree
<1>11. f[Len(b)] = apply_block(f[M], b)
  <2>1. Len(b) \in 1 .. Len(b)
    BY <1>1
  <2>2. f[Len(b)] = apply_block(f[Len(b) - 1], SubSeq(b, 1, Len(b)))
    BY <1>6, <2>1, Zenon
  <2> QED  BY <1>3, <2>2
<1> QED  BY <1>6, <1>7, <1>10, <1>11

-----------------------------------------------------------------------------
\* The invariant

\* The shapes of the index and its copies, and that their assets are backed.
Snapshot == [data : Sound, last_hash : Block \cup {Zero}]
Index == [data : Sound, last_hash : Block \cup {Zero}, checkpoint : Snapshot]
WellFormed ==
  /\ chain \in Block \cup {Zero} /\ idx \in Index /\ file \in Index
  /\ phase \in {"sleep", "check", "rollback", "apply"}
  /\ tip \in Nat /\ crashes \in 0 .. MaxCrashes /\ disturbed \in BOOLEAN
Inv == WellFormed /\ OnNodesChain /\ FileHasNone /\ IndexIsReplay

LEMMA InvSuffices == Inv => IndexerInv
<1> SUFFICES ASSUME Inv PROVE IndexerInv
  OBVIOUS
<1>1. /\ idx.data \in Sound /\ idx.checkpoint.data \in Sound /\ file.data \in Sound
      /\ {idx.last_hash, file.last_hash, idx.checkpoint.last_hash} \subseteq Block \cup {Zero}
  BY DEF Inv, WellFormed, Index, Snapshot
<1>2. ASSUME NEW d \in Sound PROVE Conserved(d) /\ NoStray(d)
  BY DEF Sound, Backed, Units, Balances, Conserved, NoStray
<1>3. IndexerTypeOK
  BY <1>1 DEF Inv, WellFormed, IndexerTypeOK
<1>4. AssetsConserved
  BY <1>1, <1>2 DEF AssetsConserved
<1> QED  BY <1>1, <1>2, <1>3, <1>4 DEF Inv, IndexerInv

LEMMA EmptyFacts == EmptyIndex \in Index /\ NoCheckpoint \in Snapshot
                    /\ Replays(EmptyIndex) /\ Replays(NoCheckpoint)
BY EmptySound, IndexOfZero DEF EmptyIndex, NoCheckpoint, Index, Snapshot, Replays

LEMMA ChainFacts ==
  ASSUME NEW c \in Block \cup {Zero}
  PROVE  c \in Seq(Body) /\ Len(c) \in Nat /\ (c # Zero <=> Len(c) > 0) /\ Extends(c, Zero)
<1>1. c \in Seq(Body)
  <2>1. Zero \in Seq(Body)
    BY DEF Zero
  <2> QED  BY <2>1, BlockFacts
<1> QED  BY <1>1 DEF Zero, Extends

LEMMA AboveOne ==
  ASSUME NEW n \in Nat, n >= 1
  PROVE  (n - 1 > 0 <=> n # 1) /\ (~ (n - 1 > 0) <=> n = 1)
OBVIOUS

LEMMA ExtendsMeans ==
  ASSUME NEW c \in Seq(Body), NEW b \in Seq(Body)
  PROVE  Extends(c, b) <=> Len(b) <= Len(c) /\ \A i \in 1 .. Len(b) : c[i] = b[i]
<1>1. Len(b) \in Nat /\ Len(c) \in Nat
  OBVIOUS
<1>2. CASE Len(b) <= Len(c)
  <2> DEFINE p == SubSeq(c, 1, Len(b))
  <2>1. p \in Seq(Body) /\ Len(p) = Len(b) /\ \A i \in 1 .. Len(b) : p[i] = c[i]
    BY <1>1, <1>2
  <2>2. p = b <=> \A i \in 1 .. Len(b) : p[i] = b[i]
    <3> HIDE DEF p
    <3>1. ASSUME \A i \in 1 .. Len(b) : p[i] = b[i] PROVE p = b
      BY <1>1, <2>1, <3>1
    <3> QED  BY <3>1
  <2> QED  BY <1>2, <2>1, <2>2 DEF Extends
<1>3. CASE ~ Len(b) <= Len(c)
  BY <1>3 DEF Extends
<1> QED  BY <1>2, <1>3

LEMMA ExtendsTransitive ==
  ASSUME NEW d \in Seq(Body), NEW c \in Seq(Body), NEW b \in Seq(Body),
         Extends(d, c), Extends(c, b)
  PROVE  Extends(d, b)
<1>1. Len(b) \in Nat /\ Len(c) \in Nat /\ Len(d) \in Nat
  OBVIOUS
<1>2. Len(c) <= Len(d) /\ \A i \in 1 .. Len(c) : d[i] = c[i]
  BY ExtendsMeans
<1>3. Len(b) <= Len(c) /\ \A i \in 1 .. Len(b) : c[i] = b[i]
  BY ExtendsMeans
<1>4. Len(b) <= Len(d) /\ \A i \in 1 .. Len(b) : d[i] = b[i]
  BY <1>1, <1>2, <1>3
<1> QED  BY <1>4, ExtendsMeans

\* All chains start with the same block.
LEMMA ExtendsGenesis ==
  ASSUME NEW c \in Block, NEW b \in Block, Len(b) = 1
  PROVE  Extends(c, b)
<1>1. b \in Seq(Body) /\ c \in Seq(Body) /\ Len(c) \in Nat \ {0}
  BY BlockFacts
<1>2. b[1] = c[1]
  BY IndexerAssumption
<1>3. Len(b) <= Len(c) /\ \A i \in 1 .. Len(b) : c[i] = b[i]
  BY <1>1, <1>2
<1> QED  BY <1>1, <1>3, ExtendsMeans

\* The block at the height of b on the chain c is b: b is on that chain.
LEMMA SameHeight ==
  ASSUME NEW c \in Block \cup {Zero}, NEW b \in Block \cup {Zero},
         height(b) \in 0 .. height(c), b = SubSeq(c, 1, height(b) + 1)
  PROVE  Extends(c, b)
<1>1. Len(c) \in Nat /\ Len(b) \in Nat /\ height(b) + 1 = Len(b)
  BY ChainFacts DEF height
<1>2. Len(b) <= Len(c)
  BY <1>1 DEF height
<1> QED  BY <1>1, <1>2 DEF Extends

LEMMA InitInv == Init => Inv
<1> SUFFICES ASSUME Init PROVE Inv
  OBVIOUS
<1>1. WellFormed
  <2>1. MaxCrashes \in Nat
    BY IndexerAssumption
  <2>2. crashes \in 0 .. MaxCrashes /\ tip \in Nat
    BY <2>1 DEF Init
  <2>3. chain \in Block \cup {Zero} /\ idx \in Index /\ file \in Index /\ disturbed \in BOOLEAN
    BY EmptyFacts, Zenon DEF Init
  <2>4. phase \in {"sleep", "check", "rollback", "apply"}
    BY DEF Init
  <2> QED  BY <2>2, <2>3, <2>4, Zenon DEF WellFormed
<1>2. OnNodesChain
  BY DEF Init, OnNodesChain
<1>3. IndexIsReplay
  <2>1. idx = EmptyIndex /\ file = EmptyIndex /\ idx.checkpoint = NoCheckpoint
    BY DEF Init, EmptyIndex
  <2> QED  BY <2>1, EmptyFacts DEF IndexIsReplay
<1>4. FileHasNone
  BY DEF Init, EmptyIndex, FileHasNone
<1> QED  BY <1>1, <1>2, <1>3, <1>4 DEF Inv

LEMMA NodeMovesInv == Inv /\ NodeMoves => Inv'
<1> SUFFICES ASSUME Inv, NodeMoves PROVE Inv'
  OBVIOUS
<1>1. /\ chain' \in Block /\ chain \in Block \cup {Zero} /\ idx.last_hash \in Block \cup {Zero}
      /\ UNCHANGED <<idx, file, phase, tip, crashes>>
      /\ disturbed' = (disturbed \/ (phase # "sleep" /\ ~ Extends(chain', chain)))
  BY DEF Inv, WellFormed, Index, NodeMoves
<1>2. WellFormed'
  BY <1>1 DEF Inv, WellFormed
<1>3. OnNodesChain'
  <2> SUFFICES ASSUME ~ disturbed', phase = "apply" PROVE Extends(chain', idx.last_hash)
    BY <1>1 DEF OnNodesChain
  <2>1. Extends(chain', chain) /\ ~ disturbed
    BY <1>1
  <2>2. Extends(chain, idx.last_hash)
    BY <2>1 DEF Inv, OnNodesChain
  <2>3. chain' \in Seq(Body) /\ chain \in Seq(Body) /\ idx.last_hash \in Seq(Body)
    BY <1>1, ChainFacts
  <2> QED  BY <2>1, <2>2, <2>3, ExtendsTransitive
<1>4. IndexIsReplay'
  <2>1. disturbed => disturbed'
    BY <1>1
  <2> QED  BY <1>1, <2>1 DEF Inv, IndexIsReplay, Replays
<1>5. FileHasNone'
  BY <1>1 DEF Inv, FileHasNone
<1> QED  BY <1>2, <1>3, <1>4, <1>5 DEF Inv

LEMMA TickInv == Inv /\ Tick => Inv'
<1> SUFFICES ASSUME Inv, Tick PROVE Inv'
  OBVIOUS
<1>1. /\ chain \in Block /\ idx.last_hash \in Block \cup {Zero}
      /\ UNCHANGED <<chain, idx, file, crashes, disturbed>> /\ tip' = height(chain)
      /\ phase' = IF scanned_any /\ last_height > 0 THEN "check" ELSE "apply"
  BY DEF Inv, WellFormed, Index, Tick
<1>2. height(chain) \in Nat
  BY <1>1, BlockFacts DEF height
<1>3. WellFormed'
  BY <1>1, <1>2 DEF Inv, WellFormed
<1>4. OnNodesChain'
  <2> SUFFICES ASSUME phase' = "apply" PROVE Extends(chain, idx.last_hash)
    BY <1>1 DEF OnNodesChain
  <2>2. ~ (idx.last_hash # Zero /\ Len(idx.last_hash) - 1 > 0)
    BY <1>1 DEF scanned_any, last_height, height
  <2>3. CASE idx.last_hash = Zero
    BY <1>1, <2>3, ChainFacts
  <2>4. CASE idx.last_hash # Zero
    <3>1. idx.last_hash \in Block
      BY <1>1, <2>4
    <3>2. ~ (Len(idx.last_hash) - 1 > 0) /\ Len(idx.last_hash) \in Nat \ {0}
      <4>1. Len(idx.last_hash) \in Nat \ {0}
        BY <3>1, BlockFacts
      <4> QED  BY <2>2, <2>4, <4>1, Zenon
    <3>3. Len(idx.last_hash) = 1
      <4>1. \A n \in Nat \ {0} : ~ (n - 1 > 0) => n = 1
        OBVIOUS
      <4> QED  BY <3>2, <4>1, Zenon
    <3> QED  BY <1>1, <3>1, <3>3, ExtendsGenesis
  <2> QED  BY <2>3, <2>4
<1>5. IndexIsReplay'
  BY <1>1 DEF Inv, IndexIsReplay, Replays
<1>6. FileHasNone'
  BY <1>1 DEF Inv, FileHasNone
<1> QED  BY <1>3, <1>4, <1>5, <1>6 DEF Inv

LEMMA CheckTipInv == Inv /\ CheckTip => Inv'
<1> SUFFICES ASSUME Inv, CheckTip PROVE Inv'
  OBVIOUS
<1> DEFINE b == idx.last_hash
           hash == Fetch(last_height)
<1>1. /\ chain \in Block \cup {Zero} /\ b \in Block \cup {Zero} /\ idx \in Index
      /\ UNCHANGED <<chain, file, tip, crashes, disturbed>>
      /\ height(b) \in 0 .. height(chain)
  BY DEF Inv, WellFormed, Index, CheckTip, CanFetch, last_height
<1>2. \/ ~ needs_rebuild(hash) /\ phase' = "apply" /\ UNCHANGED idx
      \/ phase' = "apply" /\ idx' = EmptyIndex
      \/ phase' = "rollback" /\ UNCHANGED idx
  BY DEF CheckTip
<1>3. WellFormed'
  <2>1. idx' \in Index
    BY <1>1, <1>2, EmptyFacts
  <2> QED  BY <1>1, <1>2, <2>1 DEF Inv, WellFormed
<1>4. OnNodesChain'
  <2> SUFFICES ASSUME phase' = "apply" PROVE Extends(chain, idx'.last_hash)
    BY <1>1 DEF OnNodesChain
  <2>1. CASE ~ needs_rebuild(hash) /\ UNCHANGED idx
    <3>1. Len(b) \in Nat /\ Len(chain) \in Nat /\ Len(b) >= 1 /\ Len(chain) >= 1
      BY <1>1, ChainFacts DEF height
    <3>2. b \in Block /\ chain \in Block
      BY <1>1, <3>1 DEF Zero
    <3>3. ~ (b # Zero /\ Len(b) - 1 > 0 /\ b # hash)
      BY <2>1 DEF needs_rebuild, scanned_any, last_height, height
    <3>4. CASE Len(b) = 1
      BY <2>1, <3>2, <3>4, ExtendsGenesis
    <3>5. CASE Len(b) # 1
      <4>1. b # Zero
        BY <3>2, BlockFacts
      <4>2. Len(b) - 1 > 0
        BY <3>1, <3>5, AboveOne
      <4>3. b = hash
        BY <3>3, <4>1, <4>2
      <4>4. b = SubSeq(chain, 1, height(b) + 1)
        BY <4>3 DEF Fetch, last_height
      <4> HIDE DEF b, hash
      <4>5. Extends(chain, b)
        BY <1>1, <4>4, SameHeight
      <4> QED  BY <2>1, <4>5 DEF b
    <3> QED  BY <3>4, <3>5
  <2>2. CASE idx' = EmptyIndex
    <3>1. idx'.last_hash = Zero
      BY <2>2 DEF EmptyIndex
    <3> QED  BY <1>1, <3>1, ChainFacts
  <2> QED  BY <1>2, <2>1, <2>2
<1>5. IndexIsReplay'
  <2>1. CASE UNCHANGED idx
    BY <1>1, <2>1 DEF Inv, IndexIsReplay, Replays
  <2>2. CASE idx' = EmptyIndex
    <3>1. idx'.checkpoint = NoCheckpoint
      BY <2>2 DEF EmptyIndex
    <3>2. Replays(idx') /\ Replays(idx'.checkpoint)
      BY <2>2, <3>1, EmptyFacts
    <3> QED  BY <1>1, <3>2 DEF Inv, IndexIsReplay, Replays
  <2> QED  BY <1>2, <2>1, <2>2
<1>6. FileHasNone'
  BY <1>1 DEF Inv, FileHasNone
<1> QED  BY <1>3, <1>4, <1>5, <1>6 DEF Inv

LEMMA TryRollbackInv == Inv /\ TryRollback => Inv'
<1> SUFFICES ASSUME Inv, TryRollback PROVE Inv'
  OBVIOUS
<1> DEFINE snap == idx.checkpoint
           b == snap.last_hash
<1>1. /\ chain \in Block \cup {Zero} /\ b \in Block \cup {Zero} /\ idx \in Index
      /\ snap \in Snapshot
      /\ UNCHANGED <<chain, file, tip, crashes, disturbed>> /\ phase' = "apply"
      /\ height(b) \in 0 .. height(chain)
  BY DEF Inv, WellFormed, Index, Snapshot, TryRollback, CanFetch
<1>2. \/ Fetch(height(b)) = b /\ idx' = restore(snap)
      \/ idx' = EmptyIndex
  BY DEF TryRollback
<1>3. FileHasNone'
  BY <1>1 DEF Inv, FileHasNone
<1>4. CASE Fetch(height(b)) = b /\ idx' = restore(snap)
  <2>1. idx' = [data |-> snap.data, last_hash |-> b, checkpoint |-> snap]
    BY <1>1, <1>4 DEF restore, Index
  <2>2. idx' \in Index /\ idx'.last_hash = b
    BY <1>1, <2>1 DEF Index, Snapshot
  <2>3. WellFormed'
    BY <1>1, <2>2 DEF Inv, WellFormed
  <2>4. b = SubSeq(chain, 1, height(b) + 1)
    BY <1>4 DEF Fetch
  <2>5. Extends(chain, b)
    <3> HIDE DEF b
    <3> QED  BY <1>1, <2>4, SameHeight
  <2>6. OnNodesChain'
    BY <1>1, <2>2, <2>5 DEF OnNodesChain
  <2>7. IndexIsReplay'
    <3>1. Replays(snap) => Replays(idx') /\ Replays(idx'.checkpoint)
      BY <2>1 DEF Replays
    <3> QED  BY <1>1, <3>1 DEF Inv, IndexIsReplay, Replays
  <2> QED  BY <1>3, <2>3, <2>6, <2>7 DEF Inv
<1>5. CASE idx' = EmptyIndex
  <2>1. idx'.last_hash = Zero /\ idx'.checkpoint = NoCheckpoint
    BY <1>5 DEF EmptyIndex
  <2>2. WellFormed'
    BY <1>1, <1>5, EmptyFacts DEF Inv, WellFormed
  <2>3. OnNodesChain'
    BY <1>1, <2>1, ChainFacts DEF OnNodesChain
  <2>4. Replays(idx') /\ Replays(idx'.checkpoint)
    BY <1>5, <2>1, EmptyFacts
  <2>5. IndexIsReplay'
    BY <1>1, <2>4 DEF Inv, IndexIsReplay, Replays
  <2> QED  BY <1>3, <2>2, <2>3, <2>5 DEF Inv
<1> QED  BY <1>2, <1>4, <1>5

LEMMA ScanBlockInv == Inv /\ ScanBlock => Inv'
<1> SUFFICES ASSUME Inv, ScanBlock PROVE Inv'
  OBVIOUS
<1> DEFINE c == idx.last_hash
           h == IF scanned_any THEN last_height + 1 ELSE 0
           b == Fetch(h)
           d == apply_block(idx.data, b)
           snap == snapshot(d, b)
           k == IF h % CheckpointInterval = 0 /\ h + CheckpointSafety <= tip
                THEN snap ELSE idx.checkpoint
<1>1. /\ chain \in Block \cup {Zero} /\ c \in Block \cup {Zero}
      /\ idx.data \in Sound /\ idx.checkpoint \in Snapshot
      /\ UNCHANGED <<chain, file, phase, tip, crashes, disturbed>> /\ phase = "apply"
      /\ h \in 0 .. height(chain) /\ idx' = [data |-> d, last_hash |-> b, checkpoint |-> k]
  BY DEF Inv, WellFormed, Index, ScanBlock, CanFetch
<1>2. Len(c) \in Nat /\ h = Len(c) /\ Len(chain) \in Nat /\ Len(c) + 1 \in 1 .. Len(chain)
  <2>1. Len(c) \in Nat /\ Len(chain) \in Nat
    BY <1>1, ChainFacts
  <2>2. h = Len(c)
    BY <2>1 DEF scanned_any, last_height, height, Zero
  <2> HIDE DEF h, c
  <2> QED  BY <1>1, <2>1, <2>2 DEF height
<1>3. b = SubSeq(chain, 1, Len(c) + 1)
  BY <1>2 DEF Fetch
<1>4. chain \in Block
  BY <1>1, <1>2 DEF Zero
<1> HIDE DEF c, h, b
<1>5. b \in Block /\ Len(b) = Len(c) + 1 /\ chain \in Seq(Body)
      /\ \A i \in 1 .. Len(c) + 1 : b[i] = chain[i]
  <2>1. chain \in Seq(Body) /\ b \in Block
    BY <1>2, <1>3, <1>4, BlockFacts
  <2> QED  BY <1>2, <1>3, <2>1
<1>6. d \in Sound
  BY <1>1, <1>5, ApplyFacts
<1> HIDE DEF d
<1>7. snap \in Snapshot /\ k \in Snapshot
  BY <1>1, <1>5, <1>6 DEF Snapshot, snapshot
<1> HIDE DEF k
<1>8. WellFormed'
  <2>1. idx' \in Index
    BY <1>1, <1>5, <1>6, <1>7 DEF Index
  <2> QED  BY <1>1, <2>1 DEF Inv, WellFormed
<1>9. OnNodesChain'
  <2>1. b \in Seq(Body) /\ Len(b) <= Len(chain)
    BY <1>2, <1>5, BlockFacts
  <2>2. Extends(chain, b)
    BY <1>5, <2>1, ExtendsMeans
  <2> QED  BY <1>1, <2>2 DEF OnNodesChain
<1>10. IndexIsReplay'
  <2> SUFFICES ASSUME ~ disturbed PROVE Replays(idx') /\ Replays(idx'.checkpoint) /\ Replays(file')
    BY <1>1 DEF IndexIsReplay
  <2>1. Replays(idx) /\ Replays(idx.checkpoint) /\ Replays(file) /\ Extends(chain, c)
    BY <1>1 DEF Inv, IndexIsReplay, OnNodesChain, c
  <2>2. c \in Seq(Body) /\ b \in Seq(Body)
    BY <1>1, <1>5, ChainFacts
  <2>3. \A i \in 1 .. Len(c) : chain[i] = c[i]
    BY <1>5, <2>1, <2>2, ExtendsMeans
  <2>4. c = SubSeq(b, 1, Len(b) - 1)
    <3>1. Len(b) - 1 = Len(c)
      BY <1>2, <1>5
    <3>2. \A i \in 1 .. Len(c) : b[i] = c[i]
      BY <1>2, <1>5, <2>3
    <3>3. Extends(b, c)
      BY <1>2, <1>5, <2>2, <3>2, ExtendsMeans
    <3> QED  BY <3>1, <3>3 DEF Extends
  <2>5. IndexOf(b) = apply_block(IndexOf(c), b)
    BY <1>1, <1>5, <2>4, IndexStep
  <2>6. d = IndexOf(b)
    BY <2>1, <2>5 DEF d, c, Replays
  <2>7. Replays(snap)
    BY <2>6 DEF snapshot, Replays
  <2>8. Replays(k)
    BY <2>1, <2>7 DEF k
  <2> QED  BY <1>1, <2>1, <2>6, <2>8 DEF Replays
<1>11. FileHasNone'
  BY <1>1 DEF Inv, FileHasNone
<1> QED  BY <1>8, <1>9, <1>10, <1>11 DEF Inv

LEMMA SaveInv == Inv /\ Save => Inv'
<1> SUFFICES ASSUME Inv, Save PROVE Inv'
  OBVIOUS
<1>1. /\ idx \in Index /\ UNCHANGED <<chain, idx, tip, crashes, disturbed>> /\ phase' = "sleep"
      /\ file' = [idx EXCEPT !.checkpoint = NoCheckpoint]
  BY DEF Inv, WellFormed, Save
<1>2. file' = [data |-> idx.data, last_hash |-> idx.last_hash, checkpoint |-> NoCheckpoint]
  BY <1>1 DEF Index
<1>3. file' \in Index
  BY <1>1, <1>2, EmptyFacts DEF Index
<1>4. WellFormed'
  BY <1>1, <1>3 DEF Inv, WellFormed
<1>5. OnNodesChain'
  BY <1>1 DEF OnNodesChain
<1>6. IndexIsReplay'
  BY <1>1, <1>2 DEF Inv, IndexIsReplay, Replays
<1>7. FileHasNone'
  BY <1>2 DEF FileHasNone
<1> QED  BY <1>4, <1>5, <1>6, <1>7 DEF Inv

LEMMA ScanFailsInv == Inv /\ ScanFails => Inv'
<1> SUFFICES ASSUME Inv, ScanFails PROVE Inv'
  OBVIOUS
<1>1. UNCHANGED <<chain, idx, file, tip, crashes, disturbed>> /\ phase' = "sleep"
  BY DEF ScanFails
<1>2. WellFormed'
  BY <1>1 DEF Inv, WellFormed
<1>3. OnNodesChain' /\ IndexIsReplay'
  BY <1>1 DEF Inv, OnNodesChain, IndexIsReplay, Replays
<1>4. FileHasNone'
  BY <1>1 DEF Inv, FileHasNone
<1> QED  BY <1>2, <1>3, <1>4 DEF Inv

LEMMA RestartInv == Inv /\ Restart => Inv'
<1> SUFFICES ASSUME Inv, Restart PROVE Inv'
  OBVIOUS
<1>1. /\ UNCHANGED <<chain, file, tip, disturbed>> /\ phase' = "sleep" /\ idx' = file
      /\ crashes' \in 0 .. MaxCrashes
  BY IndexerAssumption DEF Restart, Inv, WellFormed
<1>2. WellFormed'
  BY <1>1 DEF Inv, WellFormed
<1>3. OnNodesChain'
  BY <1>1 DEF OnNodesChain
<1>4. FileHasNone'
  BY <1>1 DEF Inv, FileHasNone
<1>5. IndexIsReplay'
  <2>1. Replays(idx'.checkpoint)
    BY <1>1, EmptyFacts DEF Inv, FileHasNone
  <2> QED  BY <1>1, <2>1 DEF Inv, IndexIsReplay, Replays
<1> QED  BY <1>2, <1>3, <1>4, <1>5 DEF Inv

LEMMA NextInv == Inv /\ [Next]_vars => Inv'
<1> SUFFICES ASSUME Inv, [Next]_vars PROVE Inv'
  OBVIOUS
<1>1. CASE UNCHANGED vars
  BY <1>1 DEF vars, Inv, WellFormed, OnNodesChain, FileHasNone, IndexIsReplay, Replays
<1>2. CASE Next
  BY <1>2, NodeMovesInv, TickInv, CheckTipInv, TryRollbackInv, ScanBlockInv, SaveInv,
     ScanFailsInv, RestartInv DEF Next
<1> QED  BY <1>1, <1>2

\* The inductive invariant holds: the index and its copies are well formed, while
\* blocks are applied the index stands for a part of the node's chain unless a
\* reorganisation fell into the scan, and the file has no checkpoint.
THEOREM IndexerInvariant == Spec => []IndexerInv
<1>1. Spec => []Inv
  BY InitInv, NextInv, PTL DEF Spec
<1> QED  BY <1>1, InvSuffices, PTL

\* As long as no reorganisation falls into a scan, the index, its checkpoint and its
\* snapshot are what a scan from genesis gives (try_rollback, reset, restore and
\* apply_block of index.rs and the loop of main.rs), for any blocks and forks.
THEOREM IndexReplays == Spec => []IndexIsReplay
<1>1. IndexerInv => IndexIsReplay
  BY DEF IndexerInv
<1> QED  BY <1>1, IndexerInvariant, PTL

\* AssetState::apply neither creates nor destroys units of a token, and every NFT
\* has an owner, whatever transactions the blocks carry and however scans are
\* disturbed.
THEOREM UnitsConserved == Spec => []AssetsConserved
<1>1. IndexerInv => AssetsConserved
  BY DEF IndexerInv
<1> QED  BY <1>1, IndexerInvariant, PTL
=============================================================================
