---------------------------- MODULE ScriptProofs ----------------------------
(***************************************************************************)
(* Proofs about Script: a lock opens only for its owner, whatever script   *)
(* of whatever length is tried on it, and the scripts of the builders open *)
(* it for the owner.                                                       *)
(*                                                                         *)
(* ScriptInv says for each position in a lock what the stack is known to   *)
(* be.  There is one lemma per opcode that the locks use (its effect on    *)
(* the stack), one per kind of lock (a token leads from what is known at   *)
(* its position to what is known at the next), and what the check of       *)
(* several signatures computes is an induction over the signatures.        *)
(***************************************************************************)
EXTENDS Script, RecursionProofs, SequenceTheorems

-----------------------------------------------------------------------------
\* Stacks

LEMMA SeqIsStack ==
  ASSUME NEW S, NEW s \in Seq(S)
  PROVE  IsStack(s)
<1>1. s \in [1 .. Len(s) -> S] /\ Len(s) \in Nat
  BY LenProperties
<1>2. \A i \in 1 .. Len(s) : s[i] \in ToSet(s)
  BY <1>1 DEF ToSet
<1> QED  BY <1>1, <1>2 DEF IsStack

LEMMA StackFacts ==
  ASSUME NEW s, IsStack(s)
  PROVE  /\ Len(s) \in Nat /\ DOMAIN s = 1 .. Len(s)
         /\ s # << >> <=> Len(s) >= 1
         /\ \A i \in 1 .. Len(s) : s[i] \in ToSet(s)
<1>1. s \in Seq(ToSet(s))
  BY DEF IsStack
<1> QED  BY <1>1, LenProperties, EmptySeq

LEMMA StackEqual ==
  ASSUME NEW s, NEW t, IsStack(s), IsStack(t), Len(s) = Len(t),
         \A i \in 1 .. Len(s) : s[i] = t[i]
  PROVE  s = t
<1> DEFINE S == ToSet(s) \cup ToSet(t)
<1>1. s \in Seq(S) /\ t \in Seq(S)
  BY SeqMonotonic DEF IsStack
<1> HIDE DEF S
<1> QED  BY <1>1, SeqEqual

LEMMA AppendStack ==
  ASSUME NEW s, NEW e, IsStack(s)
  PROVE  /\ IsStack(Append(s, e)) /\ Len(Append(s, e)) = Len(s) + 1
         /\ \A i \in 1 .. Len(s) : Append(s, e)[i] = s[i]
         /\ Append(s, e)[Len(s) + 1] = e
<1> DEFINE S == ToSet(s) \cup {e}
<1>1. s \in Seq(S) /\ e \in S
  BY SeqMonotonic DEF IsStack
<1> HIDE DEF S
<1>2. /\ Append(s, e) \in Seq(S) /\ Len(Append(s, e)) = Len(s) + 1
      /\ \A i \in 1 .. Len(s) : Append(s, e)[i] = s[i]
      /\ Append(s, e)[Len(s) + 1] = e
  BY <1>1, AppendProperties
<1>3. IsStack(Append(s, e))
  BY <1>2, SeqIsStack
<1> QED  BY <1>2, <1>3

LEMMA PopStack ==
  ASSUME NEW s, IsStack(s), NEW n \in 0 .. Len(s)
  PROVE  LET p == SubSeq(s, 1, Len(s) - n) IN
         IsStack(p) /\ Len(p) = Len(s) - n /\ \A i \in 1 .. Len(s) - n : p[i] = s[i]
<1> DEFINE S == ToSet(s)
           k == Len(s) - n
           p == SubSeq(s, 1, k)
<1>1. Len(s) \in Nat /\ \A i \in 1 .. Len(s) : s[i] \in S
  BY StackFacts
<1>2. k \in Nat /\ \A i \in 1 .. k : s[i] \in S
  BY <1>1
<1> HIDE DEF S, k
<1>3. /\ p \in Seq(S) /\ Len(p) = IF 1 <= k THEN k - 1 + 1 ELSE 0
      /\ \A i \in 1 .. k - 1 + 1 : p[i] = s[1 + i - 1]
  BY <1>2, SubSeqProperties
<1>4. IsStack(p)
  BY <1>3, SeqIsStack
<1>5. Len(p) = k /\ \A i \in 1 .. k : p[i] = s[i]
  BY <1>2, <1>3
<1> QED  BY <1>4, <1>5 DEF k

\* A part of a stack
LEMMA SliceStack ==
  ASSUME NEW s, IsStack(s), NEW from \in 1 .. Len(s) + 1, NEW n \in Nat, from + n - 1 <= Len(s)
  PROVE  LET p == SubSeq(s, from, from + n - 1) IN
         IsStack(p) /\ Len(p) = n /\ \A i \in 1 .. n : p[i] = s[from + i - 1]
<1> DEFINE S == ToSet(s)
           p == SubSeq(s, from, from + n - 1)
<1>1. Len(s) \in Nat /\ \A i \in 1 .. Len(s) : s[i] \in S
  BY StackFacts
<1>2. \A i \in from .. from + n - 1 : s[i] \in S
  BY <1>1
<1> HIDE DEF S
<1>3. /\ p \in Seq(S) /\ Len(p) = IF from <= from + n - 1 THEN from + n - 1 - from + 1 ELSE 0
      /\ \A i \in 1 .. from + n - 1 - from + 1 : p[i] = s[from + i - 1]
  BY <1>1, <1>2, SubSeqProperties
<1>4. IsStack(p)
  BY <1>3, SeqIsStack
<1> QED  BY <1>1, <1>3, <1>4

\* What is left of a script
LEMMA RestFacts ==
  ASSUME NEW script, IsStack(script), NEW n \in 0 .. Len(script)
  PROVE  /\ From(script, n) = << >> <=> n = Len(script)
         /\ n < Len(script) => /\ Head(From(script, n)) = script[n + 1]
                               /\ Tail(From(script, n)) = From(script, n + 1)
<1>1. Len(script) \in Nat /\ script \in Seq(ToSet(script))
  BY StackFacts DEF IsStack
<1>2. CASE n = Len(script)
  BY <1>1, <1>2, SubSeqEmpty DEF From
<1>3. CASE n < Len(script)
  <2>1. n + 1 \in 1 .. Len(script) /\ Len(script) \in n + 1 .. Len(script)
    BY <1>1, <1>3
  <2>2. /\ Head(From(script, n)) = script[n + 1]
        /\ Tail(From(script, n)) = From(script, n + 1)
    BY <1>1, <2>1, HeadTailOfSubSeq DEF From
  <2>3. Len(From(script, n)) = Len(script) - n
    <3> DEFINE m == n + 1
               k == Len(script)
    <3>1. \A i \in m .. k : script[i] \in ToSet(script)
      BY <1>1, StackFacts
    <3>2. m \in Int /\ k \in Int /\ m <= k
      BY <1>1, <1>3
    <3> HIDE DEF m, k
    <3>3. Len(SubSeq(script, m, k)) = k - m + 1
      BY <3>1, <3>2, SubSeqProperties
    <3> QED  BY <1>1, <3>3 DEF From, m, k
  <2> QED  BY <1>1, <1>3, <2>2, <2>3
<1> QED  BY <1>1, <1>2, <1>3

-----------------------------------------------------------------------------
\* Elements

LEMMA ElementFacts ==
  /\ \A b \in BOOLEAN : is_truthy(Bool(b)) <=> b
  /\ Bool(TRUE) = Num(1) /\ ~ is_truthy(Empty) /\ is_truthy(Num(1))
  /\ \A e, f : Hash160(e) = Hash160(f) => e = f
  /\ \A e, f : Sha256(e) = Sha256(f) => e = f
  /\ \A e : Push(e)[1] = "push" /\ Push(e)[2] = e
  /\ \A e, f : Push(e) = Push(f) => e = f
  /\ \A n : Num(n)[1] = "num" /\ Num(n)[2] = n /\ Num(n) # Empty
  /\ \A k : Pub(k)[1] = "key" /\ Pub(k)[2] = k /\ Sig(k)[1] = "sig" /\ Sig(k)[2] = k
<1>1. \A b \in BOOLEAN : is_truthy(Bool(b)) <=> b
  BY DEF is_truthy, Bool, Num, Empty
<1>2. Bool(TRUE) = Num(1) /\ ~ is_truthy(Empty) /\ is_truthy(Num(1))
  BY DEF is_truthy, Bool, Num, Empty
<1>3. \A e, f : Hash160(e) = Hash160(f) => e = f
  BY DEF Hash160
<1>4. \A e, f : Sha256(e) = Sha256(f) => e = f
  BY DEF Sha256
<1>5. \A e : Push(e)[1] = "push" /\ Push(e)[2] = e
  BY DEF Push
<1>6. \A e, f : Push(e) = Push(f) => e = f
  BY DEF Push
<1>7. \A n : Num(n)[1] = "num" /\ Num(n)[2] = n /\ Num(n) # Empty
  BY DEF Num, Empty
<1>8. \A k : Pub(k)[1] = "key" /\ Pub(k)[2] = k /\ Sig(k)[1] = "sig" /\ Sig(k)[2] = k
  BY DEF Pub, Sig
<1> QED  BY <1>1, <1>2, <1>3, <1>4, <1>5, <1>6, <1>7, <1>8

\* Whoever it is, these are no secrets.
LEMMA PublicFacts ==
  /\ \A e : Owned(Hash160(e)) /\ Owned(Sha256(e))
  /\ \A n : Owned(Num(n)) /\ Owned(Pub(n)) /\ Owned(OldSig(n)) /\ Owned(Serialized(n))
  /\ \A b \in BOOLEAN : Owned(Bool(b))
  /\ Owned(Empty)
<1>1. \A e : Owned(Hash160(e)) /\ Owned(Sha256(e))
  BY DEF Owned, Hash160, Sha256
<1>2. \A n : Owned(Num(n)) /\ Owned(Pub(n)) /\ Owned(OldSig(n)) /\ Owned(Serialized(n))
  BY DEF Owned, Num, Pub, OldSig, Serialized
<1>3. Owned(Empty)
  BY DEF Owned, Empty
<1> QED  BY <1>1, <1>2, <1>3 DEF Bool

-----------------------------------------------------------------------------
\* What an opcode does

\* Which token a handler is for
LEMMA HandlerTokens ==
  ASSUME NEW t
  PROVE  /\ PushData(t) => t[1] = "push"
         /\ Skip(t) => t[1] = "op" /\ t[2] \notin {"IF", "ELSE", "ENDIF", "CUT"} /\ ~ executing
         /\ CutOff(t) => t = Op("CUT")
         /\ OpIf(t) => t = Op("IF")
         /\ OpElse(t) => t = Op("ELSE")
         /\ OpEndif(t) => t = Op("ENDIF")
         /\ OpReturn(t) => t = Op("RETURN") /\ executing
         /\ OpInvalid(t) => t = Op("INVALID") /\ executing
         /\ OpDup(t) => t = Op("DUP") /\ executing
         /\ OpDrop(t) => t = Op("DROP") /\ executing
         /\ Op2Drop(t) => t = Op("2DROP") /\ executing
         /\ OpSwap(t) => t = Op("SWAP") /\ executing
         /\ OpSha256(t) => t = Op("SHA256") /\ executing
         /\ OpHash160(t) => t = Op("HASH160") /\ executing
         /\ OpEqual(t) => t = Op("EQUAL") /\ executing
         /\ OpEqualVerify(t) => t = Op("EQUALVERIFY") /\ executing
         /\ OpVerify(t) => t = Op("VERIFY") /\ executing
         /\ OpCheckSig(t) => t = Op("CHECKSIG") /\ executing
         /\ OpCheckMultisig(t) => t = Op("CHECKMULTISIG") /\ executing
         /\ OpCheckMultisigVerify(t) => t = Op("CHECKMULTISIGVERIFY") /\ executing
         /\ OpCheckLockTimeVerify(t) => t = Op("CHECKLOCKTIMEVERIFY") /\ executing
<1>1. PushData(t) => t[1] = "push"
  BY DEF PushData
<1>2. Skip(t) => t[1] = "op" /\ t[2] \notin {"IF", "ELSE", "ENDIF", "CUT"} /\ ~ executing
  BY DEF Skip
<1>3. CutOff(t) => t = Op("CUT")
  BY DEF CutOff
<1>4. OpIf(t) => t = Op("IF")
  BY DEF OpIf
<1>5. OpElse(t) => t = Op("ELSE")
  BY DEF OpElse
<1>6. OpEndif(t) => t = Op("ENDIF")
  BY DEF OpEndif
<1>7. OpReturn(t) => t = Op("RETURN") /\ executing
  BY Zenon DEF OpReturn, Instruction
<1>8. OpInvalid(t) => t = Op("INVALID") /\ executing
  BY Zenon DEF OpInvalid, Instruction
<1>9. OpDup(t) => t = Op("DUP") /\ executing
  BY Zenon DEF OpDup, Instruction
<1>10. OpDrop(t) => t = Op("DROP") /\ executing
  BY Zenon DEF OpDrop, Instruction
<1>11. Op2Drop(t) => t = Op("2DROP") /\ executing
  BY Zenon DEF Op2Drop, Instruction
<1>12. OpSwap(t) => t = Op("SWAP") /\ executing
  BY Zenon DEF OpSwap, Instruction
<1>13. OpSha256(t) => t = Op("SHA256") /\ executing
  BY Zenon DEF OpSha256, Instruction
<1>14. OpHash160(t) => t = Op("HASH160") /\ executing
  BY Zenon DEF OpHash160, Instruction
<1>15. OpEqual(t) => t = Op("EQUAL") /\ executing
  BY Zenon DEF OpEqual, Instruction
<1>16. OpEqualVerify(t) => t = Op("EQUALVERIFY") /\ executing
  BY Zenon DEF OpEqualVerify, Instruction
<1>17. OpVerify(t) => t = Op("VERIFY") /\ executing
  BY Zenon DEF OpVerify, Instruction
<1>18. OpCheckSig(t) => t = Op("CHECKSIG") /\ executing
  BY Zenon DEF OpCheckSig, Instruction
<1>19. OpCheckMultisig(t) => t = Op("CHECKMULTISIG") /\ executing
  BY Zenon DEF OpCheckMultisig, Instruction
<1>20. OpCheckMultisigVerify(t) => t = Op("CHECKMULTISIGVERIFY") /\ executing
  BY Zenon DEF OpCheckMultisigVerify, Instruction
<1>21. OpCheckLockTimeVerify(t) => t = Op("CHECKLOCKTIMEVERIFY") /\ executing
  BY Zenon DEF OpCheckLockTimeVerify, Instruction
<1> QED  BY <1>1, <1>2, <1>3, <1>4, <1>5, <1>6, <1>7, <1>8, <1>9, <1>10, <1>11,
            <1>12, <1>13, <1>14, <1>15, <1>16, <1>17, <1>18, <1>19, <1>20, <1>21

\* Which handler a token has
LEMMA Dispatch ==
  ASSUME NEW t, Execute(t)
  PROVE  /\ t[1] = "push" => PushData(t)
         /\ t = Op("IF") => OpIf(t)
         /\ t = Op("ELSE") => OpElse(t)
         /\ t = Op("ENDIF") => OpEndif(t)
         /\ t[1] = "op" /\ t[2] \notin {"IF", "ELSE", "ENDIF", "CUT"} /\ ~ executing => Skip(t)
         /\ t = Op("RETURN") /\ executing => OpReturn(t)
         /\ t = Op("DUP") /\ executing => OpDup(t)
         /\ t = Op("DROP") /\ executing => OpDrop(t)
         /\ t = Op("SHA256") /\ executing => OpSha256(t)
         /\ t = Op("HASH160") /\ executing => OpHash160(t)
         /\ t = Op("EQUALVERIFY") /\ executing => OpEqualVerify(t)
         /\ t = Op("CHECKSIG") /\ executing => OpCheckSig(t)
         /\ t = Op("CHECKMULTISIG") /\ executing => OpCheckMultisig(t)
         /\ t = Op("CHECKLOCKTIMEVERIFY") /\ executing => OpCheckLockTimeVerify(t)
<1>1. \A name : Op(name)[1] = "op" /\ Op(name)[2] = name
  BY DEF Op
<1> QED  BY <1>1, HandlerTokens DEF Execute

-----------------------------------------------------------------------------
\* Nothing becomes the spender's by being computed with.

LEMMA OwnedAppend ==
  ASSUME NEW s, NEW e, IsStack(s), AllOwned(s), Owned(e)
  PROVE  IsStack(Append(s, e)) /\ AllOwned(Append(s, e))
<1> DEFINE a == Append(s, e)
<1>1. /\ IsStack(a) /\ Len(a) = Len(s) + 1 /\ \A i \in 1 .. Len(s) : a[i] = s[i]
      /\ a[Len(s) + 1] = e
  BY AppendStack
<1>2. DOMAIN s = 1 .. Len(s) /\ DOMAIN a = 1 .. Len(s) + 1 /\ Len(s) \in Nat
  BY <1>1, StackFacts
<1> HIDE DEF a
<1>3. ASSUME NEW i \in DOMAIN a PROVE Owned(a[i])
  <2>1. CASE i \in 1 .. Len(s)  BY <1>1, <1>2, <2>1 DEF AllOwned
  <2>2. CASE i = Len(s) + 1  BY <1>1, <2>2
  <2> QED  BY <1>2, <2>1, <2>2
<1>4. AllOwned(a)
  BY <1>3 DEF AllOwned
<1> QED  BY <1>1, <1>4 DEF a

LEMMA OwnedPop ==
  ASSUME NEW n \in Nat, Len(stack) >= n, IsStack(stack), AllOwned(stack)
  PROVE  /\ IsStack(Pop(n)) /\ AllOwned(Pop(n)) /\ Len(Pop(n)) = Len(stack) - n
         /\ \A i \in 1 .. Len(stack) - n : Pop(n)[i] = stack[i]
<1>1. Len(stack) \in Nat /\ DOMAIN stack = 1 .. Len(stack) /\ n \in 0 .. Len(stack)
  BY StackFacts
<1>2. /\ IsStack(Pop(n)) /\ Len(Pop(n)) = Len(stack) - n
      /\ \A i \in 1 .. Len(stack) - n : Pop(n)[i] = stack[i]
  BY <1>1, PopStack DEF Pop
<1>3. DOMAIN Pop(n) = 1 .. Len(stack) - n
  BY <1>2, StackFacts
<1>4. AllOwned(Pop(n))
  BY <1>1, <1>2, <1>3 DEF AllOwned
<1> QED  BY <1>2, <1>4

LEMMA OwnedTop ==
  ASSUME NEW n \in Nat, Len(stack) > n, IsStack(stack), AllOwned(stack)
  PROVE  Owned(Top(n))
<1>1. Len(stack) - n \in DOMAIN stack
  BY StackFacts
<1> QED  BY <1>1 DEF AllOwned, Top

LEMMA OwnedSwap ==
  ASSUME NEW s, NEW e, NEW f, IsStack(s), AllOwned(s), Owned(e), Owned(f)
  PROVE  IsStack(s \o <<e, f>>) /\ AllOwned(s \o <<e, f>>)
<1> DEFINE S == ToSet(s) \cup {e, f}
           d == <<e, f>>
           c == s \o d
<1>1. s \in Seq(S) /\ d \in Seq(S) /\ Len(d) = 2 /\ d[1] = e /\ d[2] = f
  BY SeqMonotonic DEF IsStack
<1>2. Len(s) \in Nat /\ DOMAIN s = 1 .. Len(s)
  BY StackFacts
<1> HIDE DEF S, d
<1>3. /\ c \in Seq(S) /\ Len(c) = Len(s) + Len(d)
      /\ \A i \in 1 .. Len(s) + Len(d) : c[i] = IF i <= Len(s) THEN s[i] ELSE d[i - Len(s)]
  BY <1>1, ConcatProperties
<1>4. IsStack(c) /\ DOMAIN c = 1 .. Len(s) + 2
  BY <1>1, <1>3, SeqIsStack, LenProperties
<1> HIDE DEF c
<1>5. ASSUME NEW i \in DOMAIN c PROVE Owned(c[i])
  <2>1. CASE i \in 1 .. Len(s)  BY <1>1, <1>2, <1>3, <2>1 DEF AllOwned
  <2>2. CASE i = Len(s) + 1  BY <1>1, <1>2, <1>3, <2>2
  <2>3. CASE i = Len(s) + 2  BY <1>1, <1>2, <1>3, <2>3
  <2> QED  BY <1>2, <1>4, <2>1, <2>2, <2>3
<1>6. AllOwned(c)
  BY <1>5 DEF AllOwned
<1> QED  BY <1>4, <1>6 DEF c, d

\* A step that fails or leaves a stack of what the spender has
Keeps == Fail \/ \E s, ifs : Continue(s, ifs) /\ IsStack(s) /\ AllOwned(s)

LEMMA OwnedStep ==
  ASSUME IsStack(stack), AllOwned(stack), NEW t, Execute(t), t[1] = "push" => Owned(t[2]),
         phase = "sig" \/ t \notin {Op("CHECKMULTISIG"), Op("CHECKMULTISIGVERIFY")}
  PROVE  Keeps
<1>0. Len(stack) \in Nat /\ (stack # << >> <=> Len(stack) >= 1)
  BY StackFacts
<1> USE <1>0
<1>1. ASSUME Continue(stack, if_stack) \/ \E ifs : Continue(stack, ifs) PROVE Keeps
  BY <1>1 DEF Keeps
<1>2. CASE PushData(t)
  <2>1. IsStack(Append(stack, t[2])) /\ AllOwned(Append(stack, t[2]))
    BY <1>2, HandlerTokens, OwnedAppend
  <2> QED  BY <1>1, <1>2, <2>1 DEF PushData, Keeps
<1>3. CASE CutOff(t)
  BY <1>3 DEF CutOff, Keeps
<1>4. CASE OpIf(t)
  <2>1. stack # << >> => IsStack(Pop(1)) /\ AllOwned(Pop(1))
    BY OwnedPop
  <2> QED  BY <1>1, <1>4, <2>1, Zenon DEF OpIf, Keeps
<1>5. CASE OpElse(t) \/ OpEndif(t) \/ Skip(t)
  BY <1>1, <1>5 DEF OpElse, OpEndif, Skip
<1>6. CASE OpReturn(t) \/ OpInvalid(t)
  BY <1>6, Zenon DEF OpReturn, OpInvalid, Instruction, Keeps
<1>7. CASE OpDup(t)
  <2>1. Len(stack) >= 1 => IsStack(Append(stack, Top(0))) /\ AllOwned(Append(stack, Top(0)))
    BY OwnedTop, OwnedAppend
  <2> QED  BY <1>7, <2>1, Zenon DEF OpDup, Instruction, Keeps
<1>8. CASE OpDrop(t)
  <2>1. Len(stack) >= 1 => IsStack(Pop(1)) /\ AllOwned(Pop(1))
    BY OwnedPop
  <2> QED  BY <1>8, <2>1, Zenon DEF OpDrop, Instruction, Keeps
<1>9. CASE Op2Drop(t)
  <2>1. Len(stack) >= 2 => IsStack(Pop(2)) /\ AllOwned(Pop(2))
    BY OwnedPop
  <2> QED  BY <1>9, <2>1, Zenon DEF Op2Drop, Instruction, Keeps
<1>10. CASE OpSwap(t)
  <2>1. Len(stack) >= 2 => /\ IsStack(Pop(2) \o <<Top(0), Top(1)>>)
                           /\ AllOwned(Pop(2) \o <<Top(0), Top(1)>>)
    <3>1. Len(stack) >= 2 => /\ IsStack(Pop(2)) /\ AllOwned(Pop(2))
                             /\ Owned(Top(0)) /\ Owned(Top(1))
      BY OwnedPop, OwnedTop
    <3> QED  BY <3>1, OwnedSwap, Zenon
  <2> QED  BY <1>10, <2>1, Zenon DEF OpSwap, Instruction, Keeps
<1>11. CASE OpSha256(t)
  <2>1. Len(stack) >= 1 => /\ IsStack(Append(Pop(1), Sha256(Top(0))))
                           /\ AllOwned(Append(Pop(1), Sha256(Top(0))))
    BY OwnedPop, OwnedAppend, PublicFacts
  <2> QED  BY <1>11, <2>1, Zenon DEF OpSha256, Instruction, Keeps
<1>12. CASE OpHash160(t)
  <2>1. Len(stack) >= 1 => /\ IsStack(Append(Pop(1), Hash160(Top(0))))
                           /\ AllOwned(Append(Pop(1), Hash160(Top(0))))
    BY OwnedPop, OwnedAppend, PublicFacts
  <2> QED  BY <1>12, <2>1, Zenon DEF OpHash160, Instruction, Keeps
<1>13. CASE OpEqual(t)
  <2>1. Len(stack) >= 2 => /\ IsStack(Append(Pop(2), Bool(Top(0) = Top(1))))
                           /\ AllOwned(Append(Pop(2), Bool(Top(0) = Top(1))))
    BY OwnedPop, OwnedAppend, PublicFacts
  <2> QED  BY <1>13, <2>1, Zenon DEF OpEqual, Instruction, Keeps
<1>14. CASE OpEqualVerify(t)
  <2>1. Len(stack) >= 2 => IsStack(Pop(2)) /\ AllOwned(Pop(2))
    BY OwnedPop
  <2> QED  BY <1>14, <2>1, Zenon DEF OpEqualVerify, Instruction, Keeps
<1>15. CASE OpVerify(t)
  <2>1. Len(stack) >= 1 => IsStack(Pop(1)) /\ AllOwned(Pop(1))
    BY OwnedPop
  <2> QED  BY <1>15, <2>1, Zenon DEF OpVerify, Instruction, Keeps
<1>16. CASE OpCheckSig(t)
  <2>1. Len(stack) >= 2 => /\ IsStack(Append(Pop(2), Bool(Verifies(Top(0), Top(1)))))
                           /\ AllOwned(Append(Pop(2), Bool(Verifies(Top(0), Top(1)))))
    <3>1. Verifies(Top(0), Top(1)) \in BOOLEAN
      BY DEF Verifies
    <3> QED  BY <3>1, OwnedPop, OwnedAppend, PublicFacts
  <2> QED  BY <1>16, <2>1, Zenon DEF OpCheckSig, Instruction, Keeps
<1>17. CASE OpCheckMultisig(t) \/ OpCheckMultisigVerify(t)
  <2>1. phase = "sig"
    BY <1>17, HandlerTokens
  <2>2. ~ CountsFit
    BY <2>1 DEF CountsFit, allow_checksig
  <2> QED  BY <1>17, <2>2, Zenon DEF OpCheckMultisig, OpCheckMultisigVerify, Instruction, Keeps
<1>18. CASE OpCheckLockTimeVerify(t)
  BY <1>1, <1>18, Zenon DEF OpCheckLockTimeVerify, Instruction, Keeps
<1> QED  BY <1>2, <1>3, <1>4, <1>5, <1>6, <1>7, <1>8, <1>9, <1>10, <1>11, <1>12, <1>13, <1>14,
            <1>15, <1>16, <1>17, <1>18 DEF Execute

-----------------------------------------------------------------------------
\* The top of a stack

LEMMA UnderAppend ==
  ASSUME NEW s, NEW e, IsStack(s)
  PROVE  /\ Under(Append(s, e), 0) = e
         /\ \A n \in Nat : n < Len(s) => Under(Append(s, e), n + 1) = Under(s, n)
<1>1. Len(s) \in Nat
  BY StackFacts
<1> QED  BY <1>1, AppendStack DEF Under

LEMMA UnderPop ==
  ASSUME NEW n \in Nat, Len(stack) >= n, IsStack(stack)
  PROVE  /\ IsStack(Pop(n)) /\ Len(Pop(n)) = Len(stack) - n
         /\ \A m \in Nat : m + n < Len(stack) => Under(Pop(n), m) = Under(stack, m + n)
<1>1. Len(stack) \in Nat /\ n \in 0 .. Len(stack)
  BY StackFacts
<1>2. /\ IsStack(Pop(n)) /\ Len(Pop(n)) = Len(stack) - n
      /\ \A i \in 1 .. Len(stack) - n : Pop(n)[i] = stack[i]
  BY <1>1, PopStack DEF Pop
<1>3. ASSUME NEW m \in Nat, m + n < Len(stack)
      PROVE  Under(Pop(n), m) = Under(stack, m + n)
  <2>1. Len(stack) - n - m \in 1 .. Len(stack) - n
    BY <1>1, <1>3
  <2>2. Len(stack) - n - m = Len(stack) - (m + n)
    BY <1>1
  <2> QED  BY <1>2, <2>1, <2>2 DEF Under
<1> QED  BY <1>2, <1>3

LEMMA TruthyAppend ==
  ASSUME NEW s, NEW e, IsStack(s)
  PROVE  Truthy(Append(s, e)) <=> is_truthy(e)
<1>1. Append(s, e) # << >>
  BY AppendStack, StackFacts
<1> QED  BY <1>1, UnderAppend DEF Truthy

-----------------------------------------------------------------------------
\* The tokens of the standard scripts

LEMMA P2pkhTokens ==
  ASSUME NEW k
  PROVE  LET p == p2pkh_script(k) IN
         /\ IsStack(p) /\ Len(p) = 5
         /\ p[1] = Op("DUP") /\ p[2] = Op("HASH160") /\ p[3] = Push(Hash160(Pub(k)))
         /\ p[4] = Op("EQUALVERIFY") /\ p[5] = Op("CHECKSIG")
<1> DEFINE S == {Op("DUP"), Op("HASH160"), Push(Hash160(Pub(k))), Op("EQUALVERIFY"), Op("CHECKSIG")}
<1>1. p2pkh_script(k) \in Seq(S)
  BY DEF p2pkh_script
<1> HIDE DEF S
<1>2. IsStack(p2pkh_script(k))
  BY <1>1, SeqIsStack
<1> QED  BY <1>2 DEF p2pkh_script

\* Two scripts one after the other
Joined(s, t, u) ==
  /\ IsStack(u) /\ Len(u) = Len(s) + Len(t)
  /\ \A i \in 1 .. Len(s) : u[i] = s[i]
  /\ \A i \in 1 .. Len(t) : u[Len(s) + i] = t[i]

LEMMA ConcatStack ==
  ASSUME NEW s, NEW t, IsStack(s), IsStack(t)
  PROVE  Joined(s, t, s \o t)
<1> DEFINE S == ToSet(s) \cup ToSet(t)
<1>1. s \in Seq(S) /\ t \in Seq(S)
  BY SeqMonotonic DEF IsStack
<1>2. Len(s) \in Nat /\ Len(t) \in Nat
  BY StackFacts
<1> HIDE DEF S
<1>3. /\ s \o t \in Seq(S) /\ Len(s \o t) = Len(s) + Len(t)
      /\ \A i \in 1 .. Len(s) + Len(t) : (s \o t)[i] = IF i <= Len(s) THEN s[i] ELSE t[i - Len(s)]
  BY <1>1, ConcatProperties
<1>4. IsStack(s \o t)
  BY <1>3, SeqIsStack
<1>5. ASSUME NEW i \in 1 .. Len(t) PROVE (s \o t)[Len(s) + i] = t[i]
  <2>1. Len(s) + i \in 1 .. Len(s) + Len(t) /\ ~ (Len(s) + i <= Len(s))
    BY <1>2
  <2>2. Len(s) + i - Len(s) = i
    BY <1>2
  <2> QED  BY <1>3, <2>1, <2>2
<1>6. \A i \in 1 .. Len(s) : (s \o t)[i] = s[i]
  BY <1>2, <1>3
<1> QED  BY <1>3, <1>4, <1>5, <1>6 DEF Joined

LEMMA CltvTokens ==
  ASSUME NEW k, NEW locktime
  PROVE  LET c == cltv_p2pkh_script(locktime, k) IN
         /\ IsStack(c) /\ Len(c) = 8
         /\ c[1] = Push(Num(locktime)) /\ c[2] = Op("CHECKLOCKTIMEVERIFY") /\ c[3] = Op("DROP")
         /\ \A i \in 1 .. 5 : c[3 + i] = p2pkh_script(k)[i]
<1> DEFINE S == {Push(Num(locktime)), Op("CHECKLOCKTIMEVERIFY"), Op("DROP")}
           a == <<Push(Num(locktime)), Op("CHECKLOCKTIMEVERIFY"), Op("DROP")>>
           b == p2pkh_script(k)
<1>1. a \in Seq(S) /\ Len(a) = 3
  OBVIOUS
<1>2. a[1] = Push(Num(locktime)) /\ a[2] = Op("CHECKLOCKTIMEVERIFY") /\ a[3] = Op("DROP")
  OBVIOUS
<1>3. cltv_p2pkh_script(locktime, k) = a \o b
  BY DEF cltv_p2pkh_script
<1> HIDE DEF S, a
<1>4. IsStack(a)
  BY <1>1, SeqIsStack
<1>5. IsStack(b) /\ Len(b) = 5
  BY P2pkhTokens
<1> HIDE DEF b
<1>6. /\ IsStack(a \o b) /\ Len(a \o b) = 3 + 5
      /\ \A i \in 1 .. 3 : (a \o b)[i] = a[i]
      /\ \A i \in 1 .. 5 : (a \o b)[3 + i] = b[i]
  <2>1. Joined(a, b, a \o b)
    BY <1>1, <1>4, <1>5, ConcatStack
  <2> HIDE DEF a
  <2> QED  BY <1>1, <1>4, <1>5, <2>1 DEF Joined
<1> DEFINE c == a \o b
<1> HIDE DEF c
<1>7. IsStack(c) /\ Len(c) = 8
  BY <1>6 DEF c
<1>8. c[1] = Push(Num(locktime)) /\ c[2] = Op("CHECKLOCKTIMEVERIFY") /\ c[3] = Op("DROP")
  BY <1>2, <1>6 DEF c
<1>9. \A i \in 1 .. 5 : c[3 + i] = b[i]
  BY <1>6 DEF c
<1>10. cltv_p2pkh_script(locktime, k) = c
  BY <1>3 DEF c
<1> QED  BY <1>7, <1>8, <1>9, <1>10 DEF b

LEMMA HtlcTokens ==
  ASSUME NEW r, NEW q, NEW locktime
  PROVE  LET h == htlc_script(r, q, locktime) IN
         /\ IsStack(h) /\ Len(h) = 19
         /\ h[1] = Op("IF") /\ h[2] = Op("SHA256") /\ h[3] = Push(Sha256(Preimage))
         /\ h[4] = Op("EQUALVERIFY") /\ h[10] = Op("ELSE") /\ h[19] = Op("ENDIF")
         /\ \A i \in 1 .. 5 : h[4 + i] = p2pkh_script(r)[i]
         /\ \A i \in 1 .. 8 : h[10 + i] = cltv_p2pkh_script(locktime, q)[i]
<1> DEFINE S == {Op("IF"), Op("SHA256"), Push(Sha256(Preimage)), Op("EQUALVERIFY")}
           a == <<Op("IF"), Op("SHA256"), Push(Sha256(Preimage)), Op("EQUALVERIFY")>>
           b == p2pkh_script(r)
           e == <<Op("ELSE")>>
           c == cltv_p2pkh_script(locktime, q)
           f == <<Op("ENDIF")>>
           ab == a \o b
           abe == ab \o e
           abec == abe \o c
           h == abec \o f
<1>1. a \in Seq(S) /\ Len(a) = 4
  OBVIOUS
<1>2. /\ a[1] = Op("IF") /\ a[2] = Op("SHA256") /\ a[3] = Push(Sha256(Preimage))
      /\ a[4] = Op("EQUALVERIFY")
  OBVIOUS
<1>3. e \in Seq({Op("ELSE")}) /\ Len(e) = 1 /\ e[1] = Op("ELSE")
  OBVIOUS
<1>4. f \in Seq({Op("ENDIF")}) /\ Len(f) = 1 /\ f[1] = Op("ENDIF")
  OBVIOUS
<1>5. htlc_script(r, q, locktime) = h
  BY DEF htlc_script
<1> HIDE DEF S, a, e, f
<1>6. IsStack(a) /\ IsStack(e) /\ IsStack(f)
  BY <1>1, <1>3, <1>4, SeqIsStack
<1>7. IsStack(b) /\ Len(b) = 5 /\ IsStack(c) /\ Len(c) = 8
  BY P2pkhTokens, CltvTokens
<1> HIDE DEF b, c
<1>8. /\ IsStack(ab) /\ Len(ab) = 9
      /\ \A i \in 1 .. 4 : ab[i] = a[i]
      /\ \A i \in 1 .. 5 : ab[4 + i] = b[i]
  <2>1. Joined(a, b, ab)
    BY <1>1, <1>6, <1>7, ConcatStack
  <2> HIDE DEF ab
  <2> QED  BY <1>1, <1>6, <1>7, <2>1 DEF Joined
<1> HIDE DEF ab
<1>9. /\ IsStack(abe) /\ Len(abe) = 10
      /\ \A i \in 1 .. 9 : abe[i] = ab[i]
      /\ \A i \in 1 .. 1 : abe[9 + i] = e[i]
  <2>1. Joined(ab, e, abe)
    BY <1>3, <1>6, <1>8, ConcatStack
  <2> HIDE DEF abe
  <2> QED  BY <1>3, <1>6, <1>8, <2>1 DEF Joined
<1> HIDE DEF abe
<1>10. /\ IsStack(abec) /\ Len(abec) = 18
       /\ \A i \in 1 .. 10 : abec[i] = abe[i]
       /\ \A i \in 1 .. 8 : abec[10 + i] = c[i]
  <2>1. Joined(abe, c, abec)
    BY <1>7, <1>9, ConcatStack
  <2> HIDE DEF abec
  <2> QED  BY <1>7, <1>9, <2>1 DEF Joined
<1> HIDE DEF abec
<1>11. /\ IsStack(h) /\ Len(h) = 19
       /\ \A i \in 1 .. 18 : h[i] = abec[i]
       /\ \A i \in 1 .. 1 : h[18 + i] = f[i]
  <2>1. Joined(abec, f, h)
    BY <1>4, <1>6, <1>10, ConcatStack
  <2> HIDE DEF h
  <2> QED  BY <1>4, <1>6, <1>10, <2>1 DEF Joined
<1> HIDE DEF h
<1>12. h[10] = Op("ELSE") /\ h[19] = Op("ENDIF")
  BY <1>3, <1>4, <1>9, <1>10, <1>11
<1>13. /\ h[1] = Op("IF") /\ h[2] = Op("SHA256") /\ h[3] = Push(Sha256(Preimage))
       /\ h[4] = Op("EQUALVERIFY")
  BY <1>2, <1>8, <1>9, <1>10, <1>11
<1>14. \A i \in 1 .. 5 : h[4 + i] = b[i]
  BY <1>8, <1>9, <1>10, <1>11
<1>15. \A i \in 1 .. 8 : h[10 + i] = c[i]
  BY <1>10, <1>11
<1> QED  BY <1>5, <1>11, <1>12, <1>13, <1>14, <1>15 DEF b, c

LEMMA MultisigTokens ==
  ASSUME NEW l, l[2] \in Seq(Key), l[3] \in Nat
  PROVE  LET r == Redeem(l)
             n == Len(l[2])
         IN  /\ IsStack(r) /\ Len(r) = n + 3 /\ n \in Nat
             /\ r[1] = Push(Num(l[3])) /\ r[n + 2] = Push(Num(n)) /\ r[n + 3] = Op("CHECKMULTISIG")
             /\ \A i \in 1 .. n : r[1 + i] = Push(Pub(l[2][i]))
<1> DEFINE n == Len(l[2])
           a == <<Push(Num(l[3]))>>
           b == [i \in DOMAIN l[2] |-> Push(Pub(l[2][i]))]
           c == <<Push(Num(n)), Op("CHECKMULTISIG")>>
           ab == a \o b
           r == ab \o c
<1>1. n \in Nat /\ DOMAIN l[2] = 1 .. n
  OBVIOUS
<1>2. a \in Seq({Push(Num(l[3]))}) /\ Len(a) = 1 /\ a[1] = Push(Num(l[3]))
  OBVIOUS
<1>3. /\ b \in Seq({Push(Pub(l[2][i])) : i \in 1 .. n}) /\ Len(b) = n
      /\ \A i \in 1 .. n : b[i] = Push(Pub(l[2][i]))
  BY <1>1
<1>4. /\ c \in Seq({Push(Num(n)), Op("CHECKMULTISIG")}) /\ Len(c) = 2 /\ c[1] = Push(Num(n))
      /\ c[2] = Op("CHECKMULTISIG")
  OBVIOUS
<1>5. Redeem(l) = r
  BY DEF Redeem, multisig_script
<1> HIDE DEF a, b, c
<1>6. IsStack(a) /\ IsStack(b) /\ IsStack(c)
  BY <1>2, <1>3, <1>4, SeqIsStack
<1>7. /\ IsStack(ab) /\ Len(ab) = n + 1
      /\ \A i \in 1 .. 1 : ab[i] = a[i]
      /\ \A i \in 1 .. n : ab[1 + i] = b[i]
  <2>1. Joined(a, b, ab)
    BY <1>1, <1>2, <1>3, <1>6, ConcatStack
  <2> HIDE DEF ab
  <2> QED  BY <1>1, <1>2, <1>3, <1>6, <2>1 DEF Joined
<1> HIDE DEF ab
<1>8. /\ IsStack(r) /\ Len(r) = n + 1 + 2
      /\ \A i \in 1 .. n + 1 : r[i] = ab[i]
      /\ \A i \in 1 .. 2 : r[n + 1 + i] = c[i]
  <2>1. Joined(ab, c, r)
    BY <1>4, <1>6, <1>7, ConcatStack
  <2> HIDE DEF r
  <2> QED  BY <1>4, <1>6, <1>7, <2>1 DEF Joined
<1> HIDE DEF r, n
<1>9. Len(r) = n + 3 /\ r[n + 2] = Push(Num(n)) /\ r[n + 3] = Op("CHECKMULTISIG")
  BY <1>1, <1>4, <1>8
<1>10. r[1] = Push(Num(l[3])) /\ \A i \in 1 .. n : r[1 + i] = Push(Pub(l[2][i]))
  BY <1>1, <1>2, <1>3, <1>7, <1>8
<1> QED  BY <1>1, <1>5, <1>8, <1>9, <1>10 DEF n

-----------------------------------------------------------------------------
\* Any unlocking script: what is known at a position leads to what is known at the
\* next.

LEMMA P2pkhAtFacts ==
  ASSUME NEW k, NEW s
  PROVE  /\ P2pkhAt(0, k, s)
         /\ P2pkhAt(1, k, s) <=> Len(s) >= 2 /\ Under(s, 0) = Under(s, 1)
         /\ P2pkhAt(2, k, s) <=> Len(s) >= 2 /\ Under(s, 0) = Hash160(Under(s, 1))
         /\ P2pkhAt(3, k, s) <=> /\ Len(s) >= 3 /\ Under(s, 0) = Hash160(Pub(k))
                                 /\ Under(s, 1) = Hash160(Under(s, 2))
         /\ P2pkhAt(4, k, s) <=> Len(s) >= 1 /\ Under(s, 0) = Pub(k)
         /\ P2pkhAt(5, k, s) <=> (Truthy(s) => k \in spender.keys)
BY DEF P2pkhAt

LEMMA P2pkhSafe ==
  ASSUME NEW k, NEW n \in 0 .. 4, IsStack(stack), AllOwned(stack), executing,
         Execute(p2pkh_script(k)[n + 1]), P2pkhAt(n, k, stack)
  PROVE  Fail \/ \E s : Continue(s, if_stack) /\ P2pkhAt(n + 1, k, s)
<1> DEFINE p == p2pkh_script(k)
<1>0. Len(stack) \in Nat /\ Top(0) = Under(stack, 0) /\ Top(1) = Under(stack, 1)
  BY StackFacts DEF Top, Under
<1>1. /\ p[1] = Op("DUP") /\ p[2] = Op("HASH160") /\ p[3] = Push(Hash160(Pub(k)))
      /\ p[4] = Op("EQUALVERIFY") /\ p[5] = Op("CHECKSIG")
  BY P2pkhTokens
<1> HIDE DEF p
<1>2. Execute(p[n + 1])
  BY DEF p
<1>3. CASE n = 0
  <2> DEFINE s == Append(stack, Top(0))
  <2>1. OpDup(Op("DUP"))
    BY <1>1, <1>2, <1>3, Dispatch
  <2>2. Fail \/ (Len(stack) >= 1 /\ Continue(s, if_stack))
    BY <2>1, Zenon DEF OpDup, Instruction
  <2>3. Len(stack) >= 1 => Len(s) >= 2 /\ Under(s, 0) = Under(s, 1)
    BY <1>0, AppendStack, UnderAppend
  <2> HIDE DEF s
  <2> QED  BY <1>3, <2>2, <2>3, P2pkhAtFacts
<1>4. CASE n = 1
  <2> DEFINE s == Append(Pop(1), Hash160(Top(0)))
  <2>1. OpHash160(Op("HASH160"))
    BY <1>1, <1>2, <1>4, Dispatch
  <2>2. Fail \/ Continue(s, if_stack)
    BY <2>1, Zenon DEF OpHash160, Instruction
  <2>3. Len(stack) >= 2 /\ Under(stack, 0) = Under(stack, 1)
    BY <1>4, P2pkhAtFacts
  <2>4. IsStack(Pop(1)) /\ Len(Pop(1)) = Len(stack) - 1 /\ Under(Pop(1), 0) = Under(stack, 1)
    BY <1>0, <2>3, UnderPop
  <2>5. Len(s) = Len(stack) /\ Under(s, 0) = Hash160(Top(0)) /\ Under(s, 1) = Under(stack, 1)
    BY <1>0, <2>3, <2>4, AppendStack, UnderAppend
  <2> HIDE DEF s
  <2> QED  BY <1>0, <1>4, <2>2, <2>3, <2>5, P2pkhAtFacts
<1>5. CASE n = 2
  <2> DEFINE s == Append(stack, Hash160(Pub(k)))
  <2>1. PushData(Push(Hash160(Pub(k))))
    BY <1>1, <1>2, <1>5, Dispatch, ElementFacts
  <2>2. Fail \/ Continue(s, if_stack)
    BY <2>1, ElementFacts DEF PushData
  <2>3. Len(stack) >= 2 /\ Under(stack, 0) = Hash160(Under(stack, 1))
    BY <1>5, P2pkhAtFacts
  <2>4. /\ Len(s) = Len(stack) + 1 /\ Under(s, 0) = Hash160(Pub(k))
        /\ Under(s, 1) = Under(stack, 0) /\ Under(s, 2) = Under(stack, 1)
    BY <1>0, <2>3, AppendStack, UnderAppend
  <2> HIDE DEF s
  <2> QED  BY <1>0, <1>5, <2>2, <2>3, <2>4, P2pkhAtFacts
<1>6. CASE n = 3
  <2>1. OpEqualVerify(Op("EQUALVERIFY"))
    BY <1>1, <1>2, <1>6, Dispatch
  <2>2. Fail \/ (Top(0) = Top(1) /\ Continue(Pop(2), if_stack))
    BY <2>1, Zenon DEF OpEqualVerify, Instruction
  <2>3. /\ Len(stack) >= 3 /\ Under(stack, 0) = Hash160(Pub(k))
        /\ Under(stack, 1) = Hash160(Under(stack, 2))
    BY <1>6, P2pkhAtFacts
  <2>4. Len(Pop(2)) = Len(stack) - 2 /\ Under(Pop(2), 0) = Under(stack, 2)
    BY <1>0, <2>3, UnderPop
  <2>5. Top(0) = Top(1) => Under(stack, 2) = Pub(k)
    BY <1>0, <2>3, ElementFacts
  <2> QED  BY <1>0, <1>6, <2>2, <2>3, <2>4, <2>5, P2pkhAtFacts
<1>7. CASE n = 4
  <2> DEFINE v == Verifies(Top(0), Top(1))
             s == Append(Pop(2), Bool(v))
  <2>1. OpCheckSig(Op("CHECKSIG"))
    BY <1>1, <1>2, <1>7, Dispatch
  <2>2. Fail \/ (Len(stack) >= 2 /\ Continue(s, if_stack))
    BY <2>1, Zenon DEF OpCheckSig, Instruction
  <2>3. Under(stack, 0) = Pub(k)
    BY <1>7, P2pkhAtFacts
  <2>4. v \in BOOLEAN
    BY DEF Verifies
  <2>5. ASSUME Len(stack) >= 2, v PROVE k \in spender.keys
    <3>1. Owned(Top(1))
      BY <1>0, <2>5, OwnedTop
    <3>2. Top(1)[1] = "sig" /\ Top(1)[2] = k
      BY <1>0, <2>3, <2>5, ElementFacts DEF Verifies
    <3> QED  BY <3>1, <3>2 DEF Owned
  <2>6. ASSUME Len(stack) >= 2 PROVE Truthy(s) <=> v
    <3>1. IsStack(Pop(2))
      BY <1>0, <2>6, UnderPop
    <3> HIDE DEF v
    <3> QED  BY <2>4, <3>1, TruthyAppend, ElementFacts
  <2> HIDE DEF v, s
  <2> QED  BY <1>7, <2>2, <2>5, <2>6, P2pkhAtFacts
<1> QED  BY <1>3, <1>4, <1>5, <1>6, <1>7

LEMMA CltvAtFacts ==
  ASSUME NEW k, NEW locktime, NEW s
  PROVE  /\ CltvAt(0, k, locktime, s)
         /\ CltvAt(1, k, locktime, s) <=> Len(s) >= 1 /\ Under(s, 0) = Num(locktime)
         /\ CltvAt(2, k, locktime, s) <=> height >= locktime
         /\ \A n \in 0 .. 5 :
              CltvAt(n + 3, k, locktime, s) <=> height >= locktime /\ P2pkhAt(n, k, s)
<1>1. /\ CltvAt(0, k, locktime, s)
      /\ CltvAt(1, k, locktime, s) <=> Len(s) >= 1 /\ Under(s, 0) = Num(locktime)
      /\ CltvAt(2, k, locktime, s) <=> height >= locktime
  BY DEF CltvAt
<1>2. ASSUME NEW n \in 0 .. 5
      PROVE  CltvAt(n + 3, k, locktime, s) <=> height >= locktime /\ P2pkhAt(n, k, s)
  <2> DEFINE m == n + 3
  <2>1. m - 3 = n /\ m \in 3 .. 8 /\ m # 0 /\ m # 1 /\ m # 2
    OBVIOUS
  <2> HIDE DEF m
  <2>2. CltvAt(m, k, locktime, s) <=> height >= locktime /\ P2pkhAt(m - 3, k, s)
    BY <2>1, Zenon DEF CltvAt
  <2>3. CltvAt(m, k, locktime, s) <=> height >= locktime /\ P2pkhAt(n, k, s)
    BY <2>1, <2>2, Zenon
  <2> QED  BY <2>3 DEF m
<1> QED  BY <1>1, <1>2

LEMMA CltvSafe ==
  ASSUME NEW k, NEW locktime \in Nat, NEW n \in 0 .. 7, IsStack(stack), AllOwned(stack), executing,
         height \in Nat, Execute(cltv_p2pkh_script(locktime, k)[n + 1]), CltvAt(n, k, locktime, stack)
  PROVE  Fail \/ \E s : Continue(s, if_stack) /\ CltvAt(n + 1, k, locktime, s)
<1> DEFINE c == cltv_p2pkh_script(locktime, k)
<1>0. Len(stack) \in Nat /\ Top(0) = Under(stack, 0)
  BY StackFacts DEF Top, Under
<1>1. /\ c[1] = Push(Num(locktime)) /\ c[2] = Op("CHECKLOCKTIMEVERIFY") /\ c[3] = Op("DROP")
      /\ \A i \in 1 .. 5 : c[3 + i] = p2pkh_script(k)[i]
  BY CltvTokens
<1> HIDE DEF c
<1>2. Execute(c[n + 1])
  BY DEF c
<1>3. CASE n = 0
  <2> DEFINE s == Append(stack, Num(locktime))
  <2>1. PushData(Push(Num(locktime)))
    BY <1>1, <1>2, <1>3, Dispatch, ElementFacts
  <2>2. Fail \/ Continue(s, if_stack)
    BY <2>1, ElementFacts DEF PushData
  <2>3. Len(s) >= 1 /\ Under(s, 0) = Num(locktime)
    BY <1>0, AppendStack, UnderAppend
  <2> HIDE DEF s
  <2> QED  BY <1>3, <2>2, <2>3, CltvAtFacts
<1>4. CASE n = 1
  <2>1. OpCheckLockTimeVerify(Op("CHECKLOCKTIMEVERIFY"))
    BY <1>1, <1>2, <1>4, Dispatch
  <2>2. Fail \/ (LockTimeMet(Top(0)) /\ Continue(stack, if_stack))
    BY <2>1, Zenon DEF OpCheckLockTimeVerify, Instruction
  <2>3. LockTimeMet(Top(0)) => height >= locktime
    BY <1>0, <1>4, CltvAtFacts, ElementFacts DEF LockTimeMet
  <2> QED  BY <1>4, <2>2, <2>3, CltvAtFacts
<1>5. CASE n = 2
  <2>1. OpDrop(Op("DROP"))
    BY <1>1, <1>2, <1>5, Dispatch
  <2>2. Fail \/ Continue(Pop(1), if_stack)
    BY <2>1, Zenon DEF OpDrop, Instruction
  <2>3. height >= locktime
    BY <1>5, CltvAtFacts
  <2>4. CltvAt(0 + 3, k, locktime, Pop(1))
    BY <2>3, CltvAtFacts, P2pkhAtFacts
  <2> QED  BY <1>5, <2>2, <2>4
<1>6. CASE n \in 3 .. 7
  <2> DEFINE m == n - 3
  <2>1. m \in 0 .. 4 /\ m \in 0 .. 5 /\ m + 1 \in 0 .. 5 /\ n = m + 3 /\ n + 1 = (m + 1) + 3
    BY <1>6
  <2> HIDE DEF m
  <2>2. c[n + 1] = p2pkh_script(k)[m + 1]
    <3>1. m + 1 \in 1 .. 5 /\ n + 1 = 3 + (m + 1)
      BY <2>1
    <3> QED  BY <1>1, <3>1
  <2>3. height >= locktime /\ P2pkhAt(m, k, stack)
    BY <2>1, CltvAtFacts
  <2>4. Fail \/ \E s : Continue(s, if_stack) /\ P2pkhAt(m + 1, k, s)
    BY <1>2, <2>1, <2>2, <2>3, P2pkhSafe
  <2>5. \A s : P2pkhAt(m + 1, k, s) => CltvAt(n + 1, k, locktime, s)
    BY <2>1, <2>3, CltvAtFacts
  <2> QED  BY <2>4, <2>5
<1> QED  BY <1>3, <1>4, <1>5, <1>6

\* A contract: which branch is taken, and what is known in it

LEMMA ClaimAtFacts ==
  ASSUME NEW k, NEW s
  PROVE  /\ ClaimAt(0, k, s)
         /\ ClaimAt(1, k, s) <=>
              Len(s) >= 1 /\ (Under(s, 0) = Sha256(Preimage) => spender.preimage)
         /\ ClaimAt(2, k, s) <=>
              /\ Len(s) >= 2 /\ Under(s, 0) = Sha256(Preimage)
              /\ Under(s, 1) = Sha256(Preimage) => spender.preimage
         /\ \A n \in 0 .. 5 : ClaimAt(n + 3, k, s) <=> spender.preimage /\ P2pkhAt(n, k, s)
<1>1. /\ ClaimAt(0, k, s)
      /\ ClaimAt(1, k, s) <=>
           Len(s) >= 1 /\ (Under(s, 0) = Sha256(Preimage) => spender.preimage)
      /\ ClaimAt(2, k, s) <=>
           /\ Len(s) >= 2 /\ Under(s, 0) = Sha256(Preimage)
           /\ Under(s, 1) = Sha256(Preimage) => spender.preimage
  BY DEF ClaimAt
<1>2. ASSUME NEW n \in 0 .. 5
      PROVE  ClaimAt(n + 3, k, s) <=> spender.preimage /\ P2pkhAt(n, k, s)
  <2> DEFINE m == n + 3
  <2>1. m - 3 = n /\ m \in 3 .. 8 /\ m # 0 /\ m # 1 /\ m # 2
    OBVIOUS
  <2> HIDE DEF m
  <2>2. ClaimAt(m, k, s) <=> spender.preimage /\ P2pkhAt(m - 3, k, s)
    BY <2>1, Zenon DEF ClaimAt
  <2>3. ClaimAt(m, k, s) <=> spender.preimage /\ P2pkhAt(n, k, s)
    BY <2>1, <2>2, Zenon
  <2> QED  BY <2>3 DEF m
<1> QED  BY <1>1, <1>2

LEMMA ClaimSafe ==
  ASSUME NEW r, NEW q, NEW locktime, NEW n \in 0 .. 7, IsStack(stack), AllOwned(stack), executing,
         Execute(htlc_script(r, q, locktime)[n + 2]), ClaimAt(n, r, stack)
  PROVE  Fail \/ \E s : Continue(s, if_stack) /\ ClaimAt(n + 1, r, s)
<1> DEFINE h == htlc_script(r, q, locktime)
           x == Sha256(Preimage)
<1>0. Len(stack) \in Nat /\ Top(0) = Under(stack, 0) /\ Top(1) = Under(stack, 1)
  BY StackFacts DEF Top, Under
<1>1. /\ h[2] = Op("SHA256") /\ h[3] = Push(x) /\ h[4] = Op("EQUALVERIFY")
      /\ \A i \in 1 .. 5 : h[4 + i] = p2pkh_script(r)[i]
  BY HtlcTokens
<1> HIDE DEF h
<1>2. Execute(h[n + 2])
  BY DEF h
<1>3. CASE n = 0
  <2> DEFINE s == Append(Pop(1), Sha256(Top(0)))
  <2>1. OpSha256(Op("SHA256"))
    BY <1>1, <1>2, <1>3, Dispatch
  <2>2. Fail \/ (Len(stack) >= 1 /\ Continue(s, if_stack))
    BY <2>1, Zenon DEF OpSha256, Instruction
  <2>3. ASSUME Len(stack) >= 1 PROVE Len(s) >= 1 /\ Under(s, 0) = Sha256(Top(0)) /\ Owned(Top(0))
    <3>1. IsStack(Pop(1)) /\ Len(Pop(1)) \in Nat
      BY <1>0, <2>3, UnderPop
    <3> QED  BY <1>0, <2>3, <3>1, AppendStack, UnderAppend, OwnedTop
  <2>4. Owned(Top(0)) /\ Sha256(Top(0)) = x => spender.preimage
    <3>1. Owned(Preimage) => spender.preimage
      BY DEF Owned, Preimage
    <3> QED  BY <3>1, ElementFacts
  <2> HIDE DEF s
  <2> QED  BY <1>3, <2>2, <2>3, <2>4, ClaimAtFacts
<1>4. CASE n = 1
  <2> DEFINE s == Append(stack, x)
  <2>1. PushData(Push(x))
    BY <1>1, <1>2, <1>4, Dispatch, ElementFacts
  <2>2. Fail \/ Continue(s, if_stack)
    BY <2>1, ElementFacts DEF PushData
  <2>3. Len(stack) >= 1 /\ (Under(stack, 0) = x => spender.preimage)
    BY <1>4, ClaimAtFacts
  <2>4. Len(s) >= 2 /\ Under(s, 0) = x /\ Under(s, 1) = Under(stack, 0)
    BY <1>0, <2>3, AppendStack, UnderAppend
  <2> HIDE DEF s
  <2> QED  BY <1>4, <2>2, <2>3, <2>4, ClaimAtFacts
<1>5. CASE n = 2
  <2>1. OpEqualVerify(Op("EQUALVERIFY"))
    BY <1>1, <1>2, <1>5, Dispatch
  <2>2. Fail \/ (Top(0) = Top(1) /\ Continue(Pop(2), if_stack))
    BY <2>1, Zenon DEF OpEqualVerify, Instruction
  <2>3. Under(stack, 0) = x /\ (Under(stack, 1) = x => spender.preimage)
    BY <1>5, ClaimAtFacts
  <2>4. Top(0) = Top(1) => ClaimAt(0 + 3, r, Pop(2))
    BY <1>0, <2>3, ClaimAtFacts, P2pkhAtFacts
  <2> QED  BY <1>5, <2>2, <2>4
<1>6. CASE n \in 3 .. 7
  <2> DEFINE m == n - 3
  <2>1. m \in 0 .. 4 /\ m \in 0 .. 5 /\ m + 1 \in 0 .. 5 /\ n = m + 3 /\ n + 1 = (m + 1) + 3
    BY <1>6
  <2> HIDE DEF m
  <2>2. h[n + 2] = p2pkh_script(r)[m + 1]
    <3>1. m + 1 \in 1 .. 5 /\ n + 2 = 4 + (m + 1)
      BY <2>1
    <3> QED  BY <1>1, <3>1
  <2>3. spender.preimage /\ P2pkhAt(m, r, stack)
    BY <2>1, ClaimAtFacts
  <2>4. Fail \/ \E s : Continue(s, if_stack) /\ P2pkhAt(m + 1, r, s)
    BY <1>2, <2>1, <2>2, <2>3, P2pkhSafe
  <2>5. \A s : P2pkhAt(m + 1, r, s) => ClaimAt(n + 1, r, s)
    BY <2>1, <2>3, ClaimAtFacts
  <2> QED  BY <2>4, <2>5
<1> QED  BY <1>3, <1>4, <1>5, <1>6

\* One conditional, whose branch is taken or not
Yes == <<TRUE>>
No == <<FALSE>>

LEMMA BranchFacts ==
  /\ Append(<< >>, TRUE) = Yes /\ Append(<< >>, FALSE) = No /\ Yes # No
  /\ Yes # << >> /\ No # << >> /\ Front(Yes) = << >> /\ Front(No) = << >>
  /\ Append(Front(Yes), ~ Last(Yes)) = No /\ Append(Front(No), ~ Last(No)) = Yes
  /\ if_stack = << >> => executing
  /\ if_stack = Yes => executing
  /\ if_stack = No => ~ executing
<1>1. Append(<< >>, TRUE) = Yes /\ Append(<< >>, FALSE) = No
  BY DEF Yes, No
<1>2. Yes # << >> /\ No # << >> /\ Last(Yes) = TRUE /\ Last(No) = FALSE
  BY DEF Last, Yes, No
<1>3. Yes # No
  BY DEF Yes, No
<1>4. Front(Yes) = << >> /\ Front(No) = << >>
  BY SubSeqEmpty DEF Front, Yes, No
<1>5. Append(Front(Yes), ~ Last(Yes)) = No /\ Append(Front(No), ~ Last(No)) = Yes
  BY <1>1, <1>2, <1>4
<1>6. if_stack = << >> => executing
  BY DEF executing
<1>7. /\ if_stack = Yes => executing
      /\ if_stack = No => ~ executing
  BY <1>2 DEF executing
<1> QED  BY <1>1, <1>2, <1>3, <1>4, <1>5, <1>6, <1>7

Skippable(t) == t[1] = "push" \/ (t[1] = "op" /\ t[2] \notin {"IF", "ELSE", "ENDIF", "CUT"})

LEMMA Skipped ==
  ASSUME NEW t, Skippable(t), Execute(t), ~ executing
  PROVE  Continue(stack, if_stack)
<1>1. PushData(t) \/ Skip(t)
  BY Dispatch DEF Skippable
<1> QED  BY <1>1 DEF PushData, Skip

LEMMA HtlcSkippable ==
  ASSUME NEW r, NEW q, NEW locktime, NEW i \in (2 .. 9) \cup (11 .. 18)
  PROVE  Skippable(htlc_script(r, q, locktime)[i])
<1> DEFINE h == htlc_script(r, q, locktime)
<1>1. \A k : \A j \in 1 .. 5 : Skippable(p2pkh_script(k)[j])
  <2> SUFFICES ASSUME NEW k, NEW j \in 1 .. 5 PROVE Skippable(p2pkh_script(k)[j])
    OBVIOUS
  <2>1. j = 1 \/ j = 2 \/ j = 3 \/ j = 4 \/ j = 5
    OBVIOUS
  <2> QED  BY <2>1, P2pkhTokens DEF Skippable, Op, Push
<1>2. \A j \in 1 .. 8 : Skippable(cltv_p2pkh_script(locktime, q)[j])
  <2> SUFFICES ASSUME NEW j \in 1 .. 8 PROVE Skippable(cltv_p2pkh_script(locktime, q)[j])
    OBVIOUS
  <2>1. CASE j \in 1 .. 3
    <3>1. j = 1 \/ j = 2 \/ j = 3
      BY <2>1
    <3> QED  BY <3>1, CltvTokens DEF Skippable, Op, Push
  <2>2. CASE j \in 4 .. 8
    <3>1. PICK m \in 1 .. 5 : j = 3 + m
      <4>1. j - 3 \in 1 .. 5 /\ j = 3 + (j - 3)  BY <2>2
      <4> QED  BY <4>1
    <3> QED  BY <1>1, <3>1, CltvTokens
  <2> QED  BY <2>1, <2>2
<1>3. CASE i \in 2 .. 4
  <2>1. i = 2 \/ i = 3 \/ i = 4
    BY <1>3
  <2> QED  BY <2>1, HtlcTokens DEF Skippable, Op, Push
<1>4. CASE i \in 5 .. 9
  <2>1. PICK m \in 1 .. 5 : i = 4 + m
    <3>1. i - 4 \in 1 .. 5 /\ i = 4 + (i - 4)  BY <1>4
    <3> QED  BY <3>1
  <2> QED  BY <1>1, <2>1, HtlcTokens
<1>5. CASE i \in 11 .. 18
  <2>1. PICK m \in 1 .. 8 : i = 10 + m
    <3>1. i - 10 \in 1 .. 8 /\ i = 10 + (i - 10)  BY <1>5
    <3> QED  BY <3>1
  <2> QED  BY <1>2, <2>1, HtlcTokens
<1> QED  BY <1>3, <1>4, <1>5

\* What is known in the first part and in the second
InFirst(n, l, s, ifs) == ifs = No \/ (ifs = Yes /\ ClaimAt(n, l[2][1], s))
InSecond(n, l, s, ifs) ==
  \/ ifs = No /\ (Truthy(s) => MayClaim(l))
  \/ ifs = Yes /\ CltvAt(n, l[2][2], l[4], s)

LEMMA HtlcAtFacts ==
  ASSUME NEW l, NEW s, NEW ifs
  PROVE  /\ HtlcAt(0, l, s, ifs) <=> ifs = << >>
         /\ \A n \in 0 .. 8 : \A m : m = n + 1 => (HtlcAt(m, l, s, ifs) <=> InFirst(n, l, s, ifs))
         /\ \A n \in 0 .. 8 : \A m : m = n + 10 => (HtlcAt(m, l, s, ifs) <=> InSecond(n, l, s, ifs))
         /\ HtlcAt(19, l, s, ifs) <=> ifs = << >> /\ (Truthy(s) => Opens(l))
<1>1. HtlcAt(0, l, s, ifs) <=> ifs = << >>
  BY DEF HtlcAt
<1>2. HtlcAt(19, l, s, ifs) <=> ifs = << >> /\ (Truthy(s) => Opens(l))
  <2>1. 19 # 0 /\ 19 \notin 1 .. 9 /\ 19 \notin 10 .. 18
    OBVIOUS
  <2> QED  BY <2>1, Zenon DEF HtlcAt
<1>3. ASSUME NEW n \in 0 .. 8, NEW m, m = n + 1
      PROVE  HtlcAt(m, l, s, ifs) <=> InFirst(n, l, s, ifs)
  <2>1. m - 1 = n /\ m \in 1 .. 9 /\ m # 0 /\ m \notin 10 .. 18 /\ m # 19
    BY <1>3
  <2>2. HtlcAt(m, l, s, ifs) <=> InFirst(m - 1, l, s, ifs)
    BY <2>1, Zenon DEF HtlcAt, InFirst, Yes, No
  <2> QED  BY <2>1, <2>2, Zenon
<1>4. ASSUME NEW n \in 0 .. 8, NEW m, m = n + 10
      PROVE  HtlcAt(m, l, s, ifs) <=> InSecond(n, l, s, ifs)
  <2>1. m - 10 = n /\ m \in 10 .. 18 /\ m # 0 /\ m \notin 1 .. 9 /\ m # 19
    BY <1>4
  <2>2. HtlcAt(m, l, s, ifs) <=> InSecond(m - 10, l, s, ifs)
    BY <2>1, Zenon DEF HtlcAt, InSecond, Yes, No
  <2> QED  BY <2>1, <2>2, Zenon
<1> QED  BY <1>1, <1>2, <1>3, <1>4

LEMMA HtlcSafe ==
  ASSUME NEW l, l[1] = "htlc", l[4] \in Nat, NEW n \in 0 .. 18, IsStack(stack), AllOwned(stack),
         height \in Nat, Execute(htlc_script(l[2][1], l[2][2], l[4])[n + 1]),
         HtlcAt(n, l, stack, if_stack)
  PROVE  Fail \/ \E s, ifs : Continue(s, ifs) /\ HtlcAt(n + 1, l, s, ifs)
<1> DEFINE r == l[2][1]
           q == l[2][2]
           h == htlc_script(r, q, l[4])
<1>1. /\ h[1] = Op("IF") /\ h[10] = Op("ELSE") /\ h[19] = Op("ENDIF")
      /\ \A i \in 1 .. 8 : h[10 + i] = cltv_p2pkh_script(l[4], q)[i]
  BY HtlcTokens
<1>2. \A i \in (2 .. 9) \cup (11 .. 18) : Skippable(h[i])
  BY HtlcSkippable
<1>3. \A i \in 0 .. 7 : executing /\ Execute(h[i + 2]) /\ ClaimAt(i, r, stack)
        => Fail \/ \E s : Continue(s, if_stack) /\ ClaimAt(i + 1, r, s)
  BY ClaimSafe
<1> HIDE DEF h
<1>4. Execute(h[n + 1])
  BY DEF h
<1>5. CASE n = 0
  <2>1. if_stack = << >>
    BY <1>5, HtlcAtFacts
  <2>2. OpIf(Op("IF"))
    BY <1>1, <1>4, <1>5, Dispatch
  <2>3. Fail \/ Continue(Pop(1), Yes) \/ Continue(Pop(1), No)
    <3>1. Fail \/ Continue(Pop(1), Append(if_stack, is_truthy(Top(0))))
      BY <2>1, <2>2, BranchFacts, Zenon DEF OpIf
    <3>2. is_truthy(Top(0)) \in BOOLEAN
      BY DEF is_truthy
    <3>3. Append(if_stack, is_truthy(Top(0))) \in {Yes, No}
      BY <2>1, <3>2, BranchFacts
    <3> QED  BY <3>1, <3>3
  <2>4. HtlcAt(1, l, Pop(1), Yes) /\ HtlcAt(1, l, Pop(1), No)
    <3>1. 0 \in 0 .. 8 /\ 1 = 0 + 1
      OBVIOUS
    <3>2. InFirst(0, l, Pop(1), Yes) /\ InFirst(0, l, Pop(1), No)
      BY ClaimAtFacts DEF InFirst
    <3> QED  BY <3>1, <3>2, HtlcAtFacts, Zenon
  <2>5. n + 1 = 1
    BY <1>5
  <2> QED  BY <2>3, <2>4, <2>5
<1>6. CASE n \in 1 .. 8
  <2> DEFINE m == n - 1
             k == n + 1
  <2>1. /\ m \in 0 .. 7 /\ m \in 0 .. 8 /\ m + 1 \in 0 .. 8 /\ n = m + 1 /\ k = m + 2
        /\ k = (m + 1) + 1 /\ k \in (2 .. 9) \cup (11 .. 18)
    BY <1>6
  <2>2. Execute(h[k])
    BY <1>4
  <2> HIDE DEF m, k
  <2>3. InFirst(m, l, stack, if_stack)
    BY <2>1, HtlcAtFacts
  <2>4. CASE if_stack = No
    <3>1. Continue(stack, if_stack)
      BY <1>2, <2>1, <2>2, <2>4, BranchFacts, Skipped
    <3>2. HtlcAt(k, l, stack, if_stack)
      <4>1. InFirst(m + 1, l, stack, if_stack)
        BY <2>4 DEF InFirst
      <4> QED  BY <2>1, <4>1, HtlcAtFacts, Zenon
    <3> QED  BY <3>1, <3>2 DEF k
  <2>5. CASE if_stack # No
    <3>1. if_stack = Yes /\ ClaimAt(m, r, stack)
      BY <2>3, <2>5 DEF InFirst
    <3>2. Fail \/ \E s : Continue(s, if_stack) /\ ClaimAt(m + 1, r, s)
      BY <1>3, <2>1, <2>2, <3>1, BranchFacts
    <3>3. ASSUME NEW s, ClaimAt(m + 1, r, s) PROVE HtlcAt(k, l, s, if_stack)
      <4>1. InFirst(m + 1, l, s, if_stack)
        BY <3>1, <3>3 DEF InFirst
      <4> QED  BY <2>1, <4>1, HtlcAtFacts, Zenon
    <3> QED  BY <3>2, <3>3 DEF k
  <2> QED  BY <2>4, <2>5
<1>7. CASE n = 9
  <2>1. InFirst(8, l, stack, if_stack)
    <3>1. 8 \in 0 .. 8 /\ n = 8 + 1
      BY <1>7
    <3> QED  BY <3>1, HtlcAtFacts, Zenon
  <2>2. OpElse(Op("ELSE"))
    BY <1>1, <1>4, <1>7, Dispatch
  <2>3. /\ if_stack = No => Continue(stack, Yes)
        /\ if_stack = Yes => Continue(stack, No)
    BY <2>2, BranchFacts, Zenon DEF OpElse
  <2>4. CASE if_stack = No
    <3>1. InSecond(0, l, stack, Yes)
      BY CltvAtFacts DEF InSecond
    <3>2. 0 \in 0 .. 8 /\ n + 1 = 0 + 10
      BY <1>7
    <3>3. HtlcAt(n + 1, l, stack, Yes)
      BY <3>1, <3>2, HtlcAtFacts, Zenon
    <3> QED  BY <2>3, <2>4, <3>3
  <2>5. CASE if_stack = Yes
    <3>1. ClaimAt(8, r, stack)
      BY <2>1, <2>5, BranchFacts DEF InFirst
    <3>2. spender.preimage /\ P2pkhAt(5, r, stack)
      <4>1. 5 \in 0 .. 5 /\ 8 = 5 + 3
        OBVIOUS
      <4> QED  BY <3>1, <4>1, ClaimAtFacts, Zenon
    <3>3. Truthy(stack) => MayClaim(l)
      BY <3>2, P2pkhAtFacts DEF MayClaim
    <3>4. InSecond(0, l, stack, No)
      BY <3>3 DEF InSecond
    <3>5. 0 \in 0 .. 8 /\ n + 1 = 0 + 10
      BY <1>7
    <3>6. HtlcAt(n + 1, l, stack, No)
      BY <3>4, <3>5, HtlcAtFacts, Zenon
    <3> QED  BY <2>3, <2>5, <3>6
  <2> QED  BY <2>1, <2>4, <2>5 DEF InFirst
<1>8. CASE n \in 10 .. 17
  <2> DEFINE m == n - 10
             k == n + 1
  <2>1. /\ m \in 0 .. 7 /\ m \in 0 .. 8 /\ m + 1 \in 0 .. 8 /\ n = m + 10 /\ k = 10 + (m + 1)
        /\ k = (m + 1) + 10 /\ k \in (2 .. 9) \cup (11 .. 18) /\ m + 1 \in 1 .. 8
    BY <1>8
  <2>2. Execute(h[k])
    BY <1>4
  <2> HIDE DEF m, k
  <2>3. InSecond(m, l, stack, if_stack)
    BY <2>1, HtlcAtFacts
  <2>4. CASE if_stack = No
    <3>1. Continue(stack, if_stack)
      BY <1>2, <2>1, <2>2, <2>4, BranchFacts, Skipped
    <3>2. HtlcAt(k, l, stack, if_stack)
      <4>1. InSecond(m + 1, l, stack, if_stack)
        BY <2>3, <2>4, BranchFacts DEF InSecond
      <4> QED  BY <2>1, <4>1, HtlcAtFacts, Zenon
    <3> QED  BY <3>1, <3>2 DEF k
  <2>5. CASE if_stack # No
    <3>1. if_stack = Yes /\ CltvAt(m, q, l[4], stack)
      BY <2>3, <2>5 DEF InSecond
    <3>2. Execute(cltv_p2pkh_script(l[4], q)[m + 1])
      BY <1>1, <2>1, <2>2
    <3>3. Fail \/ \E s : Continue(s, if_stack) /\ CltvAt(m + 1, q, l[4], s)
      BY <2>1, <3>1, <3>2, BranchFacts, CltvSafe
    <3>4. ASSUME NEW s, CltvAt(m + 1, q, l[4], s) PROVE HtlcAt(k, l, s, if_stack)
      <4>1. InSecond(m + 1, l, s, if_stack)
        BY <3>1, <3>4 DEF InSecond
      <4> QED  BY <2>1, <4>1, HtlcAtFacts, Zenon
    <3> QED  BY <3>3, <3>4 DEF k
  <2> QED  BY <2>4, <2>5
<1>9. CASE n = 18
  <2>1. InSecond(8, l, stack, if_stack)
    <3>1. 8 \in 0 .. 8 /\ n = 8 + 10
      BY <1>9
    <3> QED  BY <3>1, HtlcAtFacts, Zenon
  <2>2. OpEndif(Op("ENDIF"))
    BY <1>1, <1>4, <1>9, Dispatch
  <2>3. Continue(stack, << >>)
    <3>1. if_stack # << >> /\ Front(if_stack) = << >>
      BY <2>1, BranchFacts DEF InSecond
    <3> QED  BY <2>2, <3>1, Zenon DEF OpEndif
  <2>4. Truthy(stack) => MayClaim(l) \/ MayRefund(l)
    <3>1. CltvAt(8, q, l[4], stack) => height >= l[4] /\ P2pkhAt(5, q, stack)
      <4>1. 5 \in 0 .. 5 /\ 8 = 5 + 3
        OBVIOUS
      <4> QED  BY <4>1, CltvAtFacts, Zenon
    <3>2. P2pkhAt(5, q, stack) => (Truthy(stack) => q \in spender.keys)
      BY P2pkhAtFacts
    <3> QED  BY <2>1, <3>1, <3>2 DEF MayRefund, InSecond
  <2>5. Truthy(stack) => Opens(l)
    BY <2>4 DEF Opens
  <2>6. HtlcAt(19, l, stack, << >>) /\ n + 1 = 19
    BY <1>9, <2>5, HtlcAtFacts
  <2> QED  BY <2>3, <2>6
<1> QED  BY <1>5, <1>6, <1>7, <1>8, <1>9

-----------------------------------------------------------------------------
\* The check of several signatures

LEMMA NextKeyFacts ==
  ASSUME NEW keys, NEW s, Len(keys) \in Nat, NEW i \in 0 .. Len(keys) + 1
  PROVE  LET j == NextKey(keys, i, s)
         IN  /\ j \in 0 .. Len(keys) + 1 /\ (i < j \/ (i = j /\ j = Len(keys) + 1))
             /\ j <= Len(keys) => Verifies(keys[j], s)
             /\ \A h \in 1 .. Len(keys) : i < h /\ IsSig(s) /\ Verifies(keys[h], s) => j <= h
<1> DEFINE K == Len(keys)
           hits == {j \in i + 1 .. K : Verifies(keys[j], s)}
           j == NextKey(keys, i, s)
<1>1. CASE ~ IsSig(s) \/ hits = {}
  <2>1. j = K + 1
    BY <1>1 DEF NextKey
  <2>2. \A h \in 1 .. K : i < h => h \in i + 1 .. K
    OBVIOUS
  <2>3. \A h \in 1 .. K : i < h /\ IsSig(s) /\ Verifies(keys[h], s) => j <= h
    BY <1>1, <2>2
  <2> HIDE DEF j, hits
  <2> QED  BY <2>1, <2>3 DEF j
<1>2. CASE IsSig(s) /\ hits # {}
  <2>1. j = CHOOSE g \in hits : \A h \in hits : g <= h
    BY <1>2 DEF NextKey
  <2>2. hits \subseteq Nat
    OBVIOUS
  <2>3. \E g \in hits : \A h \in hits : g <= h
    <3> HIDE DEF hits
    <3> QED  BY <1>2, <2>2, LeastElement
  <2>4. j \in hits /\ \A h \in hits : j <= h
    BY <2>1, <2>3, Zenon
  <2>5. \A h \in 1 .. K : i < h /\ Verifies(keys[h], s) => h \in hits
    OBVIOUS
  <2>6. j \in i + 1 .. K /\ Verifies(keys[j], s)
    BY <2>4
  <2> HIDE DEF j, hits
  <2>7. /\ j \in 0 .. K + 1 /\ i < j /\ j <= K
        /\ \A h \in 1 .. K : i < h /\ Verifies(keys[h], s) => j <= h
    BY <2>4, <2>5, <2>6
  <2> QED  BY <2>6, <2>7, Zenon DEF j
<1> QED  BY <1>1, <1>2

LEMMA UsedFacts ==
  ASSUME NEW sigs, NEW keys, Len(sigs) \in Nat, Len(keys) \in Nat
  PROVE  LET u == UsedKeys(sigs, keys)
         IN  /\ \A n \in 0 .. Len(sigs) : u[n] \in 0 .. Len(keys) + 1
             /\ u[0] = 0
             /\ \A n \in 1 .. Len(sigs) : u[n] = NextKey(keys, u[n - 1], sigs[n])
<1> DEFINE N == Len(sigs)
           V == 0 .. Len(keys) + 1
           F == [p \in (1 .. N) \X V |-> NextKey(keys, p[2], sigs[p[1]])]
           u == UsedKeys(sigs, keys)
<1>1. PICK f : Solves(f, N, V, 0, F)
  <2>1. \A p \in (1 .. N) \X V : NextKey(keys, p[2], sigs[p[1]]) \in V
    <3> SUFFICES ASSUME NEW p \in (1 .. N) \X V PROVE NextKey(keys, p[2], sigs[p[1]]) \in V
      OBVIOUS
    <3>1. p[2] \in V
      OBVIOUS
    <3> QED  BY <3>1, NextKeyFacts
  <2>2. F \in [(1 .. N) \X V -> V] /\ 0 \in V
    <3>1. 0 \in V
      OBVIOUS
    <3> HIDE DEF V, N
    <3> QED  BY <2>1, <3>1
  <2> HIDE DEF V, F
  <2> QED  BY <2>2, RecursionSolved
<1>2. f \in [0 .. N -> V] /\ f = [i \in 0 .. N |-> IF i = 0 THEN 0 ELSE F[<<i, f[i - 1]>>]]
  BY <1>1 DEF Solves
<1>3. \A i \in 1 .. N : F[<<i, f[i - 1]>>] = NextKey(keys, f[i - 1], sigs[i])
  <2> SUFFICES ASSUME NEW i \in 1 .. N
               PROVE  F[<<i, f[i - 1]>>] = NextKey(keys, f[i - 1], sigs[i])
    OBVIOUS
  <2>1. i - 1 \in 0 .. N
    OBVIOUS
  <2>2. <<i, f[i - 1]>> \in (1 .. N) \X V
    <3> HIDE DEF V, N
    <3> QED  BY <1>2, <2>1
  <2> HIDE DEF V, N
  <2> QED  BY <2>2
<1> HIDE DEF F, V
<1>4. f = [n \in 0 .. N |-> IF n = 0 THEN 0 ELSE NextKey(keys, f[n - 1], sigs[n])]
  <2> DEFINE g == [n \in 0 .. N |-> IF n = 0 THEN 0 ELSE NextKey(keys, f[n - 1], sigs[n])]
  <2>1. \A n \in 0 .. N : n # 0 => n \in 1 .. N
    OBVIOUS
  <2>2. \A n \in 0 .. N : f[n] = g[n]
    BY <1>2, <1>3, <2>1
  <2> QED  BY <1>2, <2>2
<1>5. u = [n \in 0 .. N |-> IF n = 0 THEN 0 ELSE NextKey(keys, u[n - 1], sigs[n])]
  BY <1>4, Zenon DEF UsedKeys
<1> HIDE DEF u
<1>6. \A n \in 1 .. N : n \in 0 .. N /\ n # 0
  OBVIOUS
<1>7. 0 \in 0 .. N /\ u[0] = 0 /\ f[0] = 0
  BY <1>4, <1>5
<1>8. SameSteps(u, f, N)
  BY <1>4, <1>5, <1>6, <1>7 DEF SameSteps
<1>9. Agree(u, f, N)
  BY <1>8, RecursionUnique
<1>10. \A n \in 0 .. N : u[n] \in V
  BY <1>2, <1>9 DEF Agree
<1>11. \A n \in 1 .. N : u[n] = NextKey(keys, u[n - 1], sigs[n])
  BY <1>5, <1>6
<1> QED  BY <1>7, <1>10, <1>11 DEF u, V

\* The keys are used in their order until one is missing.
LEMMA UsedInOrder ==
  ASSUME NEW sigs, NEW keys, Len(sigs) \in Nat, Len(keys) \in Nat,
         NEW m \in 0 .. Len(sigs), NEW n \in m + 1 .. Len(sigs)
  PROVE  LET u == UsedKeys(sigs, keys) IN u[m] < u[n] \/ u[n] = Len(keys) + 1
<1> DEFINE N == Len(sigs)
           K == Len(keys)
           u == UsedKeys(sigs, keys)
           Bad == {k \in m + 1 .. N : ~ (u[m] < u[k] \/ u[k] = K + 1)}
<1>1. /\ \A i \in 0 .. N : u[i] \in 0 .. K + 1
      /\ \A i \in 1 .. N : u[i] = NextKey(keys, u[i - 1], sigs[i])
  BY UsedFacts
<1> HIDE DEF u
<1>2. \A i \in 1 .. N : u[i - 1] < u[i] \/ (u[i - 1] = u[i] /\ u[i] = K + 1)
  <2> SUFFICES ASSUME NEW i \in 1 .. N
               PROVE  u[i - 1] < u[i] \/ (u[i - 1] = u[i] /\ u[i] = K + 1)
    OBVIOUS
  <2>1. i - 1 \in 0 .. N
    OBVIOUS
  <2>2. u[i - 1] \in 0 .. K + 1 /\ u[i] = NextKey(keys, u[i - 1], sigs[i])
    BY <1>1, <2>1
  <2> QED  BY <2>2, NextKeyFacts
<1>3. SUFFICES ASSUME Bad # {} PROVE FALSE
  BY <1>3 DEF u
<1>4. PICK k \in Bad : \A h \in Bad : k <= h
  <2>1. Bad \subseteq Nat
    OBVIOUS
  <2> QED  BY <1>3, <2>1, LeastElement, Zenon
<1>5. k \in m + 1 .. N /\ k \in 1 .. N /\ k - 1 \in 0 .. N /\ ~ (u[m] < u[k] \/ u[k] = K + 1)
  BY <1>4
<1>6. u[k - 1] < u[k] /\ u[m] \in Nat /\ u[k] \in Nat /\ u[k - 1] \in Nat /\ u[k] <= K
  BY <1>1, <1>2, <1>5
<1>7. k - 1 # m
  BY <1>5, <1>6
<1>8. k - 1 \in m + 1 .. N /\ k - 1 \notin Bad
  BY <1>4, <1>5, <1>7
<1>9. u[m] < u[k - 1] \/ u[k - 1] = K + 1
  BY <1>8
<1> QED  BY <1>5, <1>6, <1>9

\* The keys that any of the signatures verifies under are among those at H.
Covers(H, keys, sigs) ==
  \A j \in 1 .. Len(keys), n \in 1 .. Len(sigs) : Verifies(keys[j], sigs[n]) => j \in H

\* When all signatures match, as many of the keys have signed.
LEMMA MatchedByHolders ==
  ASSUME NEW sigs, NEW keys, Len(sigs) \in Nat, Len(keys) \in Nat, all_matched(sigs, keys),
         NEW H, H \subseteq 1 .. Len(keys), Covers(H, keys, sigs)
  PROVE  Cardinality(H) >= Len(sigs)
<1> DEFINE N == Len(sigs)
           K == Len(keys)
           u == UsedKeys(sigs, keys)
           f == [n \in 1 .. N |-> u[n]]
<1>1. /\ \A n \in 0 .. N : u[n] \in 0 .. K + 1
      /\ \A n \in 1 .. N : u[n] = NextKey(keys, u[n - 1], sigs[n])
  BY UsedFacts
<1>2. \A m \in 0 .. N : \A n \in m + 1 .. N : u[m] < u[n] \/ u[n] = K + 1
  BY UsedInOrder
<1>3. u[N] <= K
  BY DEF all_matched
<1> HIDE DEF u
<1>4. \A n \in 0 .. N : u[n] <= K
  <2> SUFFICES ASSUME NEW n \in 0 .. N, n # N PROVE u[n] <= K
    BY <1>3
  <2>1. N \in n + 1 .. N /\ N \in 0 .. N
    OBVIOUS
  <2>2. u[n] < u[N]
    BY <1>1, <1>2, <1>3, <2>1
  <2> QED  BY <1>1, <1>3, <2>1, <2>2
<1>5. \A n \in 1 .. N : u[n] \in H
  <2> SUFFICES ASSUME NEW n \in 1 .. N PROVE u[n] \in H
    OBVIOUS
  <2>1. n \in 0 .. N /\ n - 1 \in 0 .. N
    OBVIOUS
  <2>2. 0 \in 0 .. N /\ n \in 0 + 1 .. N
    OBVIOUS
  <2>3. u[n] \in 1 .. K
    BY <1>1, <1>2, <1>4, <2>1, <2>2
  <2>4. Verifies(keys[u[n]], sigs[n])
    <3>1. u[n - 1] \in 0 .. K + 1 /\ u[n] = NextKey(keys, u[n - 1], sigs[n]) /\ u[n] <= K
      BY <1>1, <1>4, <2>1
    <3> QED  BY <3>1, NextKeyFacts
  <2> QED  BY <2>3, <2>4 DEF Covers
<1>6. \A m, n \in 1 .. N : m < n => u[m] # u[n]
  <2> SUFFICES ASSUME NEW m \in 1 .. N, NEW n \in 1 .. N, m < n PROVE u[m] # u[n]
    OBVIOUS
  <2>1. m \in 0 .. N /\ n \in m + 1 .. N /\ n \in 0 .. N
    OBVIOUS
  <2>2. u[m] \in Nat /\ u[n] \in Nat /\ u[n] # K + 1
    BY <1>1, <1>4, <2>1
  <2>3. u[m] < u[n]
    BY <1>2, <2>1, <2>2
  <2> QED  BY <2>2, <2>3
<1>7. \A m, n \in 1 .. N : f[m] = f[n] => m = n
  <2> SUFFICES ASSUME NEW m \in 1 .. N, NEW n \in 1 .. N, u[m] = u[n] PROVE m = n
    OBVIOUS
  <2>1. ~ (m < n) /\ ~ (n < m)
    BY <1>6
  <2> QED  BY <2>1
<1>8. f \in Injection(1 .. N, H)
  <2>1. f \in [1 .. N -> H]
    BY <1>5
  <2> HIDE DEF f
  <2> QED  BY <1>7, <2>1, Zenon DEF Injection, IsInjective
<1>9. IsFiniteSet(H) /\ Cardinality(H) \in Nat
  <2>1. IsFiniteSet(1 .. K)
    BY FS_Interval
  <2>2. IsFiniteSet(H)
    BY <2>1, FS_Subset
  <2> QED  BY <2>2, FS_CardinalityType
<1>10. Cardinality(1 .. N) <= Cardinality(H)
  <2> HIDE DEF f
  <2> QED  BY <1>8, <1>9, FS_Injection
<1>11. Cardinality(1 .. N) = N
  <2> HIDE DEF N
  <2>1. N \in Nat
    BY DEF N
  <2> QED  BY <2>1, FS_Interval
<1> QED  BY <1>9, <1>10, <1>11

\* A push of a script puts one element more of it on the stack.
LEMMA PushedAppend ==
  ASSUME NEW script, NEW s, NEW e, NEW n \in Nat, IsStack(s), Pushed(script, n, s),
         script[n + 1] = Push(e)
  PROVE  Pushed(script, n + 1, Append(s, e))
<1> DEFINE a == Append(s, e)
           L == Len(s)
<1>1. /\ IsStack(a) /\ Len(a) = L + 1 /\ L \in Nat /\ a[L + 1] = e
      /\ \A i \in 1 .. L : a[i] = s[i]
  BY AppendStack, StackFacts
<1>2. L >= n /\ \A i \in 1 .. n : script[i] = Push(s[L - n + i])
  BY DEF Pushed
<1> HIDE DEF a, L
<1>3. ASSUME NEW i \in 1 .. n + 1 PROVE script[i] = Push(a[L + 1 - (n + 1) + i])
  <2>1. CASE i = n + 1
    <3>1. L + 1 - (n + 1) + i = L + 1
      BY <1>1, <2>1
    <3> QED  BY <1>1, <2>1, <3>1
  <2>2. CASE i # n + 1
    <3>1. i \in 1 .. n /\ L + 1 - (n + 1) + i = L - n + i /\ L - n + i \in 1 .. L
      BY <1>1, <1>2, <2>2
    <3> QED  BY <1>1, <1>2, <3>1
  <2> QED  BY <2>1, <2>2
<1>4. Len(a) >= n + 1
  BY <1>1, <1>2
<1>5. \A i \in 1 .. n + 1 : script[i] = Push(a[Len(a) - (n + 1) + i])
  BY <1>1, <1>3
<1> QED  BY <1>4, <1>5 DEF Pushed, a

\* A lock of several keys
IsMultisig(l) == IsLock(l) /\ l[1] \in {"multisig", "p2sh"}

LEMMA MultisigFacts ==
  ASSUME NEW l, IsMultisig(l)
  PROVE  /\ l[2] \in Seq(Key) /\ l[3] \in Nat /\ Len(l[2]) \in Nat /\ DOMAIN l[2] = 1 .. Len(l[2])
         /\ l[3] >= 1 /\ l[3] <= Len(l[2]) /\ Len(l[2]) <= 16
         /\ Opens(l) <=> Cardinality(Held(l)) >= l[3]
<1>1. /\ l[2] \in Seq(Key) /\ l[3] \in Nat /\ l[3] \in 1 .. Len(l[2]) /\ Len(l[2]) <= 16
  BY DEF IsMultisig, IsLock
<1>2. Len(l[2]) \in Nat /\ DOMAIN l[2] = 1 .. Len(l[2])
  BY <1>1
<1>3. Opens(l) <=> Cardinality(Held(l)) >= l[3]
  BY DEF IsMultisig, Opens
<1> QED  BY <1>1, <1>2, <1>3

\* What the check finds when the lock has been pushed
LEMMA MultisigArguments ==
  ASSUME NEW l, IsMultisig(l), IsStack(stack), Pushed(Redeem(l), Len(l[2]) + 2, stack)
  PROVE  LET n == Len(l[2])
             m == l[3]
             keys == Slice(1, n)
             sigs == Slice(n + 2, n + 1 + m)
         IN  /\ Top(0) = Num(n) /\ n_keys = n /\ m_item = Num(m) /\ Len(stack) >= n + 2
             /\ IsStack(keys) /\ Len(keys) = n /\ \A j \in 1 .. n : keys[j] = Pub(l[2][j])
             /\ Len(stack) >= n + m + 2 =>
                  /\ IsStack(sigs) /\ Len(sigs) = m
                  /\ \A i \in 1 .. m : sigs[i] = stack[Len(stack) - n - m - 2 + i]
<1> DEFINE n == Len(l[2])
           m == l[3]
           r == Redeem(l)
           L == Len(stack)
           keys == Slice(1, n)
           sigs == Slice(n + 2, n + 1 + m)
<1>1. n \in Nat /\ m \in Nat /\ L \in Nat
  BY MultisigFacts, StackFacts
<1>2. /\ r[1] = Push(Num(m)) /\ r[n + 2] = Push(Num(n))
      /\ \A i \in 1 .. n : r[1 + i] = Push(Pub(l[2][i]))
  BY MultisigFacts, MultisigTokens
<1>3. L >= n + 2 /\ \A i \in 1 .. n + 2 : r[i] = Push(stack[L - (n + 2) + i])
  BY DEF Pushed
<1> HIDE DEF n, m, r, L
<1>4. stack[L] = Num(n)
  <2>1. n + 2 \in 1 .. n + 2 /\ L - (n + 2) + (n + 2) = L
    BY <1>1
  <2>2. Push(stack[L]) = Push(Num(n))
    BY <1>2, <1>3, <2>1
  <2> QED  BY <2>2, ElementFacts
<1>5. stack[L - (n + 1)] = Num(m)
  <2>1. 1 \in 1 .. n + 2 /\ L - (n + 2) + 1 = L - (n + 1)
    BY <1>1
  <2>2. Push(stack[L - (n + 1)]) = Push(Num(m))
    BY <1>2, <1>3, <2>1
  <2> QED  BY <2>2, ElementFacts
<1>6. ASSUME NEW j \in 1 .. n PROVE stack[L - n + j - 1] = Pub(l[2][j])
  <2>1. 1 + j \in 1 .. n + 2 /\ L - (n + 2) + (1 + j) = L - n + j - 1
    BY <1>1
  <2>2. Push(stack[L - n + j - 1]) = Push(Pub(l[2][j]))
    BY <1>2, <1>3, <2>1
  <2> QED  BY <2>2, ElementFacts
<1>7. Top(0) = Num(n) /\ n_keys = n /\ m_item = Num(m)
  <2>1. Top(0) = Num(n)
    BY <1>1, <1>4 DEF Top, L
  <2>2. n_keys = n
    BY <2>1, ElementFacts DEF n_keys
  <2> QED  BY <1>5, <2>1, <2>2 DEF m_item, Top, L
<1>8. IsStack(keys) /\ Len(keys) = n /\ \A j \in 1 .. n : keys[j] = Pub(l[2][j])
  <2>1. L - n \in 1 .. Len(stack) + 1 /\ L - n + n - 1 <= Len(stack) /\ L - n + n - 1 = L - 1
    BY <1>1, <1>3 DEF L
  <2>2. keys = SubSeq(stack, L - n, L - n + n - 1)
    BY <2>1 DEF Slice, L
  <2> HIDE DEF keys
  <2>3. IsStack(keys) /\ Len(keys) = n /\ \A i \in 1 .. n : keys[i] = stack[L - n + i - 1]
    BY <1>1, <2>1, <2>2, SliceStack
  <2> QED  BY <1>6, <2>3
<1>9. ASSUME L >= n + m + 2
      PROVE  IsStack(sigs) /\ Len(sigs) = m /\ \A i \in 1 .. m : sigs[i] = stack[L - n - m - 2 + i]
  <2> DEFINE from == L - (n + 1 + m)
  <2>1. /\ from \in 1 .. Len(stack) + 1 /\ from + m - 1 <= Len(stack)
        /\ from + m - 1 = L - (n + 2)
    BY <1>1, <1>9 DEF L
  <2>2. sigs = SubSeq(stack, from, from + m - 1)
    BY <2>1 DEF Slice, L
  <2>3. \A i \in 1 .. m : from + i - 1 = L - n - m - 2 + i
    BY <1>1
  <2> HIDE DEF sigs, from
  <2>4. IsStack(sigs) /\ Len(sigs) = m /\ \A i \in 1 .. m : sigs[i] = stack[from + i - 1]
    BY <1>1, <2>1, <2>2, SliceStack
  <2> QED  BY <2>3, <2>4
<1> QED  BY <1>3, <1>7, <1>8, <1>9 DEF n, m, L

LEMMA MultisigSafe ==
  ASSUME NEW l, IsMultisig(l), NEW n \in 0 .. Len(l[2]) + 2, IsStack(stack), AllOwned(stack),
         executing, Execute(Redeem(l)[n + 1]), MultisigAt(n, l, stack)
  PROVE  Fail \/ \E s : /\ Continue(s, if_stack) /\ IsStack(s) /\ AllOwned(s)
                         /\ MultisigAt(n + 1, l, s)
<1> DEFINE N == Len(l[2])
           m == l[3]
           r == Redeem(l)
<1>1. N \in Nat /\ m \in Nat /\ Len(stack) \in Nat /\ m >= 1 /\ m <= N
  BY MultisigFacts, StackFacts
<1>2. /\ r[1] = Push(Num(m)) /\ r[N + 2] = Push(Num(N)) /\ r[N + 3] = Op("CHECKMULTISIG")
      /\ \A i \in 1 .. N : r[1 + i] = Push(Pub(l[2][i]))
  BY MultisigFacts, MultisigTokens
<1>3. Pushed(r, n, stack)
  BY DEF MultisigAt
<1> HIDE DEF r
<1>4. Execute(r[n + 1])
  BY DEF r
<1>5. CASE n \in 0 .. N + 1
  <2>1. PICK e : r[n + 1] = Push(e) /\ Owned(e)
    <3>1. CASE n = 0
      BY <1>2, <3>1, PublicFacts
    <3>2. CASE n = N + 1
      <4>1. n + 1 = N + 2
        BY <1>1, <3>2
      <4> QED  BY <1>2, <4>1, PublicFacts
    <3>3. CASE n \in 1 .. N
      <4>1. n + 1 = 1 + n
        OBVIOUS
      <4> QED  BY <1>2, <3>3, <4>1, PublicFacts
    <3> QED  BY <1>1, <1>5, <3>1, <3>2, <3>3
  <2> DEFINE s == Append(stack, e)
  <2>2. PushData(Push(e))
    BY <1>4, <2>1, Dispatch, ElementFacts
  <2>3. Fail \/ Continue(s, if_stack)
    BY <2>2, ElementFacts DEF PushData
  <2>4. IsStack(s) /\ AllOwned(s)
    BY <2>1, OwnedAppend
  <2>5. Pushed(r, n + 1, s)
    BY <1>3, <2>1, PushedAppend
  <2>6. n + 1 <= N + 2
    BY <1>1, <1>5
  <2> HIDE DEF s
  <2>7. MultisigAt(n + 1, l, s)
    BY <2>5, <2>6 DEF MultisigAt, r
  <2> QED  BY <2>3, <2>4, <2>7
<1>6. CASE n = N + 2
  <2> DEFINE keys == Slice(1, N)
             sigs == Slice(N + 2, N + 1 + m)
             b == Signed
             s == Append(Unsigned, Bool(b))
  <2>1. OpCheckMultisig(Op("CHECKMULTISIG"))
    <3>1. n + 1 = N + 3
      BY <1>1, <1>6
    <3> QED  BY <1>2, <1>4, <3>1, Dispatch
  <2>2. Fail \/ (CountsFit /\ Continue(s, if_stack))
    BY <2>1, Zenon DEF OpCheckMultisig, Instruction
  <2>3. /\ n_keys = N /\ m_item = Num(m)
        /\ IsStack(keys) /\ Len(keys) = N /\ \A j \in 1 .. N : keys[j] = Pub(l[2][j])
        /\ Len(stack) >= N + m + 2 =>
             /\ IsStack(sigs) /\ Len(sigs) = m
             /\ \A i \in 1 .. m : sigs[i] = stack[Len(stack) - N - m - 2 + i]
    BY <1>3, <1>6, MultisigArguments DEF r
  <2>4. m_item[2] = m
    BY <2>3, ElementFacts
  <2>5. Signed = all_matched(sigs, keys) /\ Unsigned = Pop(N + m + 2)
    BY <2>3, <2>4 DEF Signed, Unsigned
  <2> HIDE DEF keys, sigs, b, s, N
  <2>6. SUFFICES ASSUME CountsFit
                 PROVE  IsStack(s) /\ AllOwned(s) /\ MultisigAt(n + 1, l, s)
    BY <2>2
  <2>7. Len(stack) >= N + m + 2
    BY <2>3, <2>4, <2>6 DEF CountsFit
  <2>8. IsStack(Unsigned) /\ AllOwned(Unsigned)
    <3>1. N + m + 2 \in Nat
      BY <1>1
    <3> QED  BY <2>5, <2>7, <3>1, OwnedPop
  <2>9. b \in BOOLEAN
    BY <2>5 DEF b, all_matched
  <2>10. IsStack(s) /\ AllOwned(s) /\ (Truthy(s) => b)
    BY <2>8, <2>9, OwnedAppend, TruthyAppend, PublicFacts, ElementFacts DEF s
  <2>11. ASSUME b PROVE Opens(l)
    <3>1. Held(l) \subseteq 1 .. Len(keys)
      BY <2>3, MultisigFacts DEF Held, N
    <3>2. Covers(Held(l), keys, sigs)
      <4> SUFFICES ASSUME NEW j \in 1 .. N, NEW i \in 1 .. m, Verifies(keys[j], sigs[i])
                   PROVE  j \in Held(l)
        BY <2>3, <2>7 DEF Covers
      <4>1. Len(stack) - N - m - 2 + i \in DOMAIN stack
        BY <1>1, <2>7, StackFacts
      <4>2. Owned(sigs[i])
        BY <2>3, <2>7, <4>1 DEF AllOwned
      <4>3. l[2][j] \in spender.keys
        BY <2>3, <4>2, ElementFacts DEF Verifies, Owned
      <4> QED  BY <4>3, MultisigFacts DEF Held, N
    <3>3. all_matched(sigs, keys)
      BY <2>5, <2>11 DEF b
    <3>4. Cardinality(Held(l)) >= Len(sigs)
      BY <1>1, <2>3, <2>7, <3>1, <3>2, <3>3, MatchedByHolders
    <3> QED  BY <2>3, <2>7, <3>4, MultisigFacts
  <2>12. MultisigAt(n + 1, l, s)
    <3>1. ~ (n + 1 <= N + 2)
      BY <1>1, <1>6
    <3> QED  BY <2>10, <2>11, <3>1 DEF MultisigAt, N
  <2> QED  BY <2>10, <2>12
<1> QED  BY <1>1, <1>5, <1>6

-----------------------------------------------------------------------------
\* The locks, by kind

LEMMA KindFacts ==
  ASSUME NEW l, IsLock(l)
  PROVE  /\ l[1] \in {"p2pkh", "cltv", "htlc", "op_return"} \/ IsMultisig(l)
         /\ l[1] = "p2pkh" => LockScript(l) = p2pkh_script(l[2][1])
         /\ l[1] = "cltv" => LockScript(l) = cltv_p2pkh_script(l[4], l[2][1])
         /\ l[1] = "htlc" => LockScript(l) = htlc_script(l[2][1], l[2][2], l[4])
         /\ l[1] = "op_return" => LockScript(l) = <<Op("RETURN"), Push(Num(1))>>
         /\ IsMultisig(l) => LockScript(l) = Redeem(l)
         /\ l[4] \in Nat
<1>1. l[4] \in Nat /\ (l[1] \in {"p2pkh", "cltv", "htlc", "op_return"} \/ IsMultisig(l))
  BY DEF IsLock, IsMultisig
<1>2. /\ l[1] = "p2pkh" => LockScript(l) = p2pkh_script(l[2][1])
      /\ l[1] = "cltv" => LockScript(l) = cltv_p2pkh_script(l[4], l[2][1])
      /\ l[1] = "htlc" => LockScript(l) = htlc_script(l[2][1], l[2][2], l[4])
      /\ l[1] = "op_return" => LockScript(l) = <<Op("RETURN"), Push(Num(1))>>
  BY DEF LockScript, Tokens
<1>3. IsMultisig(l) => LockScript(l) = Redeem(l)
  BY DEF LockScript, Tokens, Redeem, IsMultisig
<1> QED  BY <1>1, <1>2, <1>3

LEMMA LockScriptStack ==
  ASSUME NEW l, IsLock(l)
  PROVE  /\ IsStack(LockScript(l)) /\ Len(LockScript(l)) \in Nat
         /\ l[1] = "p2pkh" => Len(LockScript(l)) = 5
         /\ l[1] = "cltv" => Len(LockScript(l)) = 8
         /\ l[1] = "htlc" => Len(LockScript(l)) = 19
         /\ l[1] = "op_return" => Len(LockScript(l)) = 2 /\ LockScript(l)[1] = Op("RETURN")
         /\ IsMultisig(l) => Len(LockScript(l)) = Len(l[2]) + 3
<1>1. CASE l[1] = "p2pkh"
  BY <1>1, KindFacts, P2pkhTokens DEF IsMultisig
<1>2. CASE l[1] = "cltv"
  BY <1>2, KindFacts, CltvTokens DEF IsMultisig
<1>3. CASE l[1] = "htlc"
  BY <1>3, KindFacts, HtlcTokens DEF IsMultisig
<1>4. CASE l[1] = "op_return"
  <2> DEFINE t == <<Op("RETURN"), Push(Num(1))>>
  <2>1. t \in Seq({Op("RETURN"), Push(Num(1))}) /\ Len(t) = 2 /\ t[1] = Op("RETURN")
    OBVIOUS
  <2> HIDE DEF t
  <2>2. IsStack(t)
    BY <2>1, SeqIsStack
  <2>3. LockScript(l) = t
    BY <1>4, KindFacts DEF t
  <2> QED  BY <1>4, <2>1, <2>2, <2>3 DEF IsMultisig
<1>5. CASE IsMultisig(l)
  BY <1>5, KindFacts, MultisigFacts, MultisigTokens DEF IsMultisig
<1> QED  BY <1>1, <1>2, <1>3, <1>4, <1>5, KindFacts

LEMMA SafeAtFacts ==
  ASSUME NEW l, NEW n, NEW s, NEW ifs
  PROVE  /\ l[1] = "p2pkh" => (SafeAt(n, l, s, ifs) <=> ifs = << >> /\ P2pkhAt(n, l[2][1], s))
         /\ l[1] = "cltv" => (SafeAt(n, l, s, ifs) <=> ifs = << >> /\ CltvAt(n, l[2][1], l[4], s))
         /\ l[1] = "htlc" => (SafeAt(n, l, s, ifs) <=> HtlcAt(n, l, s, ifs))
         /\ IsMultisig(l) => (SafeAt(n, l, s, ifs) <=> ifs = << >> /\ MultisigAt(n, l, s))
         /\ l[1] = "op_return" => (SafeAt(n, l, s, ifs) <=> ifs = << >> /\ n = 0)
BY DEF SafeAt, IsMultisig

\* A lock without several keys pushes no secrets.
LEMMA PublicLock ==
  ASSUME NEW l, IsLock(l), ~ IsMultisig(l), NEW i \in 1 .. Len(LockScript(l))
  PROVE  LET t == LockScript(l)[i]
         IN  /\ t[1] = "push" => Owned(t[2])
             /\ t \notin {Op("CHECKMULTISIG"), Op("CHECKMULTISIGVERIFY")}
<1> DEFINE Harmless(t) == /\ t[1] = "push" => Owned(t[2])
                          /\ t \notin {Op("CHECKMULTISIG"), Op("CHECKMULTISIGVERIFY")}
<1>1. \A e : Owned(e) => Harmless(Push(e))
  BY ElementFacts DEF Push, Op
<1>2. /\ Harmless(Op("DUP")) /\ Harmless(Op("HASH160")) /\ Harmless(Op("EQUALVERIFY"))
      /\ Harmless(Op("CHECKSIG")) /\ Harmless(Op("CHECKLOCKTIMEVERIFY")) /\ Harmless(Op("DROP"))
      /\ Harmless(Op("IF")) /\ Harmless(Op("SHA256")) /\ Harmless(Op("ELSE"))
      /\ Harmless(Op("ENDIF")) /\ Harmless(Op("RETURN"))
  BY DEF Op
<1> HIDE DEF Harmless
<1>3. ASSUME NEW k, NEW j \in 1 .. 5 PROVE Harmless(p2pkh_script(k)[j])
  <2>1. j = 1 \/ j = 2 \/ j = 3 \/ j = 4 \/ j = 5
    OBVIOUS
  <2> QED  BY <1>1, <1>2, <2>1, P2pkhTokens, PublicFacts
<1>4. ASSUME NEW locktime, NEW k, NEW j \in 1 .. 8
      PROVE  Harmless(cltv_p2pkh_script(locktime, k)[j])
  <2>1. CASE j \in 1 .. 3
    <3>1. j = 1 \/ j = 2 \/ j = 3
      BY <2>1
    <3> QED  BY <1>1, <1>2, <3>1, CltvTokens, PublicFacts
  <2>2. CASE j \in 4 .. 8
    <3>1. PICK m \in 1 .. 5 : j = 3 + m
      <4>1. j - 3 \in 1 .. 5 /\ j = 3 + (j - 3)  BY <2>2
      <4> QED  BY <4>1
    <3> QED  BY <1>3, <3>1, CltvTokens
  <2> QED  BY <2>1, <2>2
<1>5. ASSUME NEW r, NEW q, NEW locktime, NEW j \in 1 .. 19
      PROVE  Harmless(htlc_script(r, q, locktime)[j])
  <2>1. CASE j \in 5 .. 9
    <3>1. PICK m \in 1 .. 5 : j = 4 + m
      <4>1. j - 4 \in 1 .. 5 /\ j = 4 + (j - 4)  BY <2>1
      <4> QED  BY <4>1
    <3> QED  BY <1>3, <3>1, HtlcTokens
  <2>2. CASE j \in 11 .. 18
    <3>1. PICK m \in 1 .. 8 : j = 10 + m
      <4>1. j - 10 \in 1 .. 8 /\ j = 10 + (j - 10)  BY <2>2
      <4> QED  BY <4>1
    <3> QED  BY <1>4, <3>1, HtlcTokens
  <2>3. CASE j \notin 5 .. 9 /\ j \notin 11 .. 18
    <3>1. j = 1 \/ j = 2 \/ j = 3 \/ j = 4 \/ j = 10 \/ j = 19
      BY <2>3
    <3> QED  BY <1>1, <1>2, <3>1, HtlcTokens, PublicFacts
  <2> QED  BY <2>1, <2>2, <2>3
<1>6. Harmless(LockScript(l)[i])
  <2>1. CASE l[1] = "p2pkh"
    BY <1>3, <2>1, KindFacts, LockScriptStack
  <2>2. CASE l[1] = "cltv"
    BY <1>4, <2>2, KindFacts, LockScriptStack
  <2>3. CASE l[1] = "htlc"
    BY <1>5, <2>3, KindFacts, LockScriptStack
  <2>4. CASE l[1] = "op_return"
    <3> DEFINE t == <<Op("RETURN"), Push(Num(1))>>
    <3>1. i = 1 \/ i = 2
      <4>1. Len(LockScript(l)) = 2
        BY <2>4, LockScriptStack
      <4> QED  BY <4>1
    <3>2. t[1] = Op("RETURN") /\ t[2] = Push(Num(1))
      OBVIOUS
    <3> HIDE DEF t
    <3>3. LockScript(l) = t
      BY <2>4, KindFacts, Zenon DEF t
    <3> QED  BY <1>1, <1>2, <3>1, <3>2, <3>3, PublicFacts
  <2> QED  BY <2>1, <2>2, <2>3, <2>4, KindFacts
<1> QED  BY <1>6 DEF Harmless

Reaches(n, l) == Fail \/ \E s, ifs : Continue(s, ifs) /\ SafeAt(n + 1, l, s, ifs)

\* Any unlocking script: a token of the lock leads to what is known at the next position.
LEMMA SafeStep ==
  ASSUME NEW l, IsLock(l), NEW n \in Nat, n < Len(LockScript(l)), IsStack(stack), AllOwned(stack),
         height \in Nat, Execute(LockScript(l)[n + 1]), SafeAt(n, l, stack, if_stack)
  PROVE  Fail \/ \E s, ifs : /\ Continue(s, ifs) /\ IsStack(s) /\ AllOwned(s)
                             /\ SafeAt(n + 1, l, s, ifs)
<1>1. CASE IsMultisig(l)
  <2>1. n \in 0 .. Len(l[2]) + 2
    BY <1>1, LockScriptStack, MultisigFacts
  <2>2. if_stack = << >> /\ MultisigAt(n, l, stack)
    BY <1>1, SafeAtFacts
  <2>3. Execute(Redeem(l)[n + 1]) /\ executing
    BY <1>1, <2>2, KindFacts, BranchFacts
  <2>4. Fail \/ \E s : /\ Continue(s, if_stack) /\ IsStack(s) /\ AllOwned(s)
                       /\ MultisigAt(n + 1, l, s)
    BY <1>1, <2>1, <2>2, <2>3, MultisigSafe
  <2>5. \A s : MultisigAt(n + 1, l, s) => SafeAt(n + 1, l, s, if_stack)
    BY <1>1, <2>2, SafeAtFacts
  <2> QED  BY <2>4, <2>5
<1>2. CASE ~ IsMultisig(l)
  <2>1. n + 1 \in 1 .. Len(LockScript(l))
    BY LockScriptStack
  <2>2. Keeps
    BY <1>2, <2>1, PublicLock, OwnedStep
  <2>3. ASSUME l[1] = "p2pkh" PROVE Reaches(n, l)
    <3>1. n \in 0 .. 4 /\ Execute(p2pkh_script(l[2][1])[n + 1])
      BY <2>3, LockScriptStack, KindFacts
    <3>2. if_stack = << >> /\ P2pkhAt(n, l[2][1], stack)
      BY <2>3, SafeAtFacts
    <3>3. Fail \/ \E s : Continue(s, if_stack) /\ P2pkhAt(n + 1, l[2][1], s)
      BY <3>1, <3>2, BranchFacts, P2pkhSafe
    <3>4. \A s : P2pkhAt(n + 1, l[2][1], s) => SafeAt(n + 1, l, s, if_stack)
      BY <2>3, <3>2, SafeAtFacts
    <3> QED  BY <3>3, <3>4 DEF Reaches
  <2>4. ASSUME l[1] = "cltv" PROVE Reaches(n, l)
    <3>1. n \in 0 .. 7 /\ Execute(cltv_p2pkh_script(l[4], l[2][1])[n + 1]) /\ l[4] \in Nat
      BY <2>4, LockScriptStack, KindFacts
    <3>2. if_stack = << >> /\ CltvAt(n, l[2][1], l[4], stack)
      BY <2>4, SafeAtFacts
    <3>3. Fail \/ \E s : Continue(s, if_stack) /\ CltvAt(n + 1, l[2][1], l[4], s)
      BY <3>1, <3>2, BranchFacts, CltvSafe
    <3>4. \A s : CltvAt(n + 1, l[2][1], l[4], s) => SafeAt(n + 1, l, s, if_stack)
      BY <2>4, <3>2, SafeAtFacts
    <3> QED  BY <3>3, <3>4 DEF Reaches
  <2>5. ASSUME l[1] = "htlc" PROVE Reaches(n, l)
    <3>0. n \in 0 .. 18
      <4>1. Len(LockScript(l)) = 19
        BY <2>5, LockScriptStack
      <4> QED  BY <4>1
    <3>1. Execute(htlc_script(l[2][1], l[2][2], l[4])[n + 1]) /\ l[4] \in Nat
      BY <2>5, KindFacts
    <3>2. HtlcAt(n, l, stack, if_stack)
      BY <2>5, SafeAtFacts
    <3>3. Fail \/ \E s, ifs : Continue(s, ifs) /\ HtlcAt(n + 1, l, s, ifs)
      BY <2>5, <3>0, <3>1, <3>2, HtlcSafe
    <3>4. \A s, ifs : HtlcAt(n + 1, l, s, ifs) => SafeAt(n + 1, l, s, ifs)
      BY <2>5, SafeAtFacts
    <3> QED  BY <3>3, <3>4 DEF Reaches
  <2>6. ASSUME l[1] = "op_return" PROVE Reaches(n, l)
    <3>1. if_stack = << >> /\ n = 0
      BY <2>6, SafeAtFacts
    <3>2. Execute(Op("RETURN")) /\ executing
      BY <2>6, <3>1, LockScriptStack, BranchFacts
    <3>3. OpReturn(Op("RETURN"))
      BY <3>2, Dispatch
    <3> QED  BY <3>3, Zenon DEF OpReturn, Instruction, Reaches
  <2>7. Reaches(n, l)
    BY <1>2, <2>3, <2>4, <2>5, <2>6, KindFacts
  <2>8. ASSUME ~ Fail
        PROVE  \E s, ifs : /\ Continue(s, ifs) /\ IsStack(s) /\ AllOwned(s)
                           /\ SafeAt(n + 1, l, s, ifs)
    <3>1. PICK s, ifs : Continue(s, ifs) /\ SafeAt(n + 1, l, s, ifs)
      BY <2>7, <2>8 DEF Reaches
    <3>2. PICK t, g : Continue(t, g) /\ IsStack(t) /\ AllOwned(t)
      BY <2>2, <2>8 DEF Keeps
    <3>3. s = stack' /\ t = stack'
      BY <3>1, <3>2 DEF Continue
    <3> QED  BY <3>1, <3>2, <3>3
  <2> QED  BY <2>8
<1> QED  BY <1>1, <1>2

-----------------------------------------------------------------------------
\* The builders' scripts: every token leads from a stack of the run to the next.

\* The stack before and after an element is put on it
LEMMA Append1 ==
  ASSUME NEW s, NEW e, IsStack(s), stack = Append(s, e)
  PROVE  IsStack(stack) /\ Len(stack) = Len(s) + 1 /\ Top(0) = e /\ Pop(1) = s
<1>1. /\ IsStack(stack) /\ Len(stack) = Len(s) + 1 /\ Len(s) \in Nat
      /\ \A i \in 1 .. Len(s) : stack[i] = s[i]
      /\ stack[Len(s) + 1] = e
  BY AppendStack, StackFacts
<1>2. Top(0) = e
  BY <1>1 DEF Top
<1>3. 1 \in 0 .. Len(stack)
  BY <1>1
<1>4. IsStack(Pop(1)) /\ Len(Pop(1)) = Len(s) /\ \A i \in 1 .. Len(s) : Pop(1)[i] = s[i]
  <2>1. /\ IsStack(Pop(1)) /\ Len(Pop(1)) = Len(stack) - 1
        /\ \A i \in 1 .. Len(stack) - 1 : Pop(1)[i] = stack[i]
    BY <1>1, <1>3, PopStack DEF Pop
  <2> QED  BY <1>1, <2>1
<1>5. Pop(1) = s
  BY <1>4, StackEqual
<1> QED  BY <1>1, <1>2, <1>5

LEMMA Append2 ==
  ASSUME NEW s, NEW e, NEW f, IsStack(s), stack = Append(Append(s, e), f)
  PROVE  /\ IsStack(stack) /\ Len(stack) = Len(s) + 2 /\ Top(0) = f /\ Top(1) = e
         /\ Pop(1) = Append(s, e) /\ Pop(2) = s
<1> DEFINE a == Append(s, e)
<1>1. /\ IsStack(a) /\ Len(a) = Len(s) + 1 /\ Len(s) \in Nat
      /\ \A i \in 1 .. Len(s) : a[i] = s[i]
      /\ a[Len(s) + 1] = e
  BY AppendStack, StackFacts
<1> HIDE DEF a
<1>2. stack = Append(a, f)
  BY DEF a
<1>3. IsStack(stack) /\ Len(stack) = Len(a) + 1 /\ Top(0) = f /\ Pop(1) = a
  BY <1>1, <1>2, Append1
<1>4. \A i \in 1 .. Len(s) + 1 : stack[i] = a[i]
  BY <1>1, <1>2, AppendStack
<1>5. Len(stack) = Len(s) + 2 /\ Top(1) = e /\ 2 \in 0 .. Len(stack)
  BY <1>1, <1>3, <1>4 DEF Top
<1>6. IsStack(Pop(2)) /\ Len(Pop(2)) = Len(s) /\ \A i \in 1 .. Len(s) : Pop(2)[i] = s[i]
  <2>1. /\ IsStack(Pop(2)) /\ Len(Pop(2)) = Len(stack) - 2
        /\ \A i \in 1 .. Len(stack) - 2 : Pop(2)[i] = stack[i]
    BY <1>3, <1>5, PopStack DEF Pop
  <2> QED  BY <1>1, <1>4, <1>5, <2>1
<1>7. Pop(2) = s
  BY <1>6, StackEqual
<1> QED  BY <1>3, <1>5, <1>7 DEF a

\* Short stacks
LEMMA TupleFacts ==
  ASSUME NEW a, NEW b, NEW c, NEW d
  PROVE  /\ IsStack(<< >>) /\ IsStack(<<a>>) /\ IsStack(<<a, b>>) /\ IsStack(<<a, b, c>>)
         /\ IsStack(<<a, b, c, d>>)
         /\ Len(<< >>) = 0 /\ Len(<<a>>) = 1 /\ Len(<<a, b>>) = 2 /\ Len(<<a, b, c>>) = 3
         /\ <<a>> = Append(<< >>, a) /\ <<a, b>> = Append(<<a>>, b)
         /\ <<a, b, c>> = Append(<<a, b>>, c) /\ <<a, b, c, d>> = Append(<<a, b, c>>, d)
<1>1. /\ << >> \in Seq({a}) /\ <<a>> \in Seq({a}) /\ <<a, b>> \in Seq({a, b})
      /\ <<a, b, c>> \in Seq({a, b, c}) /\ <<a, b, c, d>> \in Seq({a, b, c, d})
  OBVIOUS
<1>2. IsStack(<< >>) /\ IsStack(<<a>>) /\ IsStack(<<a, b>>)
  BY <1>1, SeqIsStack
<1>3. IsStack(<<a, b, c>>) /\ IsStack(<<a, b, c, d>>)
  BY <1>1, SeqIsStack
<1>4. Len(<< >>) = 0 /\ Len(<<a>>) = 1 /\ Len(<<a, b>>) = 2 /\ Len(<<a, b, c>>) = 3
  OBVIOUS
<1>5. <<a>> = Append(<< >>, a) /\ <<a, b>> = Append(<<a>>, b)
  OBVIOUS
<1>6. <<a, b, c>> = Append(<<a, b>>, c)
  OBVIOUS
<1>7. <<a, b, c, d>> = Append(<<a, b, c>>, d)
  OBVIOUS
<1> QED  BY <1>2, <1>3, <1>4, <1>5, <1>6, <1>7

LEMMA P2pkhRunFacts ==
  ASSUME NEW k
  PROVE  LET r == P2pkhRun(k)
             g == Sig(k)
             p == Pub(k)
             h == Hash160(Pub(k))
         IN  /\ r[1] = <<g, p>> /\ r[2] = <<g, p, p>> /\ r[3] = <<g, p, h>>
             /\ r[4] = <<g, p, h, h>> /\ r[5] = <<g, p>> /\ r[6] = <<Num(1)>>
BY DEF P2pkhRun

LEMMA P2pkhBuilt ==
  ASSUME NEW k, NEW n \in 0 .. 4, executing, phase = "lock",
         Execute(p2pkh_script(k)[n + 1]), stack = P2pkhRun(k)[n + 1]
  PROVE  Continue(P2pkhRun(k)[n + 2], if_stack)
<1> DEFINE t == p2pkh_script(k)
           r == P2pkhRun(k)
           g == Sig(k)
           p == Pub(k)
           h == Hash160(Pub(k))
<1>1. /\ t[1] = Op("DUP") /\ t[2] = Op("HASH160") /\ t[3] = Push(h)
      /\ t[4] = Op("EQUALVERIFY") /\ t[5] = Op("CHECKSIG")
  BY P2pkhTokens
<1>2. /\ r[1] = <<g, p>> /\ r[2] = <<g, p, p>> /\ r[3] = <<g, p, h>>
      /\ r[4] = <<g, p, h, h>> /\ r[5] = <<g, p>> /\ r[6] = <<Num(1)>>
  BY P2pkhRunFacts
<1> HIDE DEF t, r
<1>3. Execute(t[n + 1]) /\ stack = r[n + 1]
  BY DEF t, r
<1> SUFFICES Continue(r[n + 2], if_stack)
  BY DEF r
<1> DEFINE s1 == <<g>>
           s2 == <<g, p>>
<1>4. /\ IsStack(<< >>) /\ IsStack(s1) /\ IsStack(s2) /\ Len(<< >>) = 0 /\ Len(s1) = 1
      /\ Len(s2) = 2 /\ s1 = Append(<< >>, g) /\ s2 = Append(s1, p)
      /\ <<Num(1)>> = Append(<< >>, Num(1))
  BY TupleFacts
<1>5. /\ r[1] = s2 /\ r[2] = Append(s2, p) /\ r[3] = Append(s2, h)
      /\ r[4] = Append(Append(s2, h), h) /\ r[5] = s2 /\ r[6] = Append(<< >>, Num(1))
  <2> HIDE DEF g, p, h
  <2>1. <<g, p, p>> = Append(s2, p) /\ <<g, p, h>> = Append(s2, h)
    BY TupleFacts
  <2>2. <<g, p, h, h>> = Append(Append(s2, h), h)
    BY TupleFacts
  <2> QED  BY <1>2, <1>4, <2>1, <2>2
<1>6. MaxStackDepth \in Nat /\ MaxStackDepth >= 4
  BY ScriptAssumption
<1> HIDE DEF g, p, h, s1, s2
<1>7. CASE n = 0
  <2>1. stack = Append(s1, p) /\ r[n + 2] = Append(s2, p)
    BY <1>3, <1>4, <1>5, <1>7
  <2>2. OpDup(Op("DUP"))
    BY <1>1, <1>3, <1>7, Dispatch
  <2>3. Len(stack) = 2 /\ Top(0) = p
    BY <1>4, <2>1, Append1
  <2>4. Len(stack) >= 1 /\ Room /\ Append(stack, Top(0)) = r[n + 2]
    BY <1>4, <1>6, <2>1, <2>3 DEF Room
  <2> QED  BY <2>2, <2>4, Zenon DEF OpDup, Instruction
<1>8. CASE n = 1
  <2>1. stack = Append(s2, p) /\ r[n + 2] = Append(s2, h)
    BY <1>3, <1>5, <1>8
  <2>2. OpHash160(Op("HASH160"))
    BY <1>1, <1>3, <1>8, Dispatch
  <2>3. Len(stack) = Len(s2) + 1 /\ Top(0) = p /\ Pop(1) = s2
    BY <1>4, <2>1, Append1
  <2>4. Hash160(Top(0)) = h
    BY <2>3, Zenon DEF h, p
  <2>5. Append(Pop(1), Hash160(Top(0))) = r[n + 2]
    BY <2>1, <2>3, <2>4, Zenon
  <2>6. Len(stack) >= 1
    BY <1>4, <2>3
  <2> QED  BY <2>2, <2>5, <2>6, Zenon DEF OpHash160, Instruction
<1>9. CASE n = 2
  <2>1. stack = Append(s2, h) /\ r[n + 2] = Append(stack, h)
    BY <1>3, <1>5, <1>9
  <2>2. PushData(Push(h))
    BY <1>1, <1>3, <1>9, Dispatch, ElementFacts
  <2>3. Len(stack) = 3
    BY <1>4, <2>1, Append1
  <2>4. Room
    BY <1>6, <2>3 DEF Room
  <2> QED  BY <2>1, <2>2, <2>4, ElementFacts DEF PushData
<1>10. CASE n = 3
  <2>1. stack = Append(Append(s2, h), h) /\ r[n + 2] = s2
    BY <1>3, <1>5, <1>10
  <2>2. OpEqualVerify(Op("EQUALVERIFY"))
    BY <1>1, <1>3, <1>10, Dispatch
  <2>3. Len(stack) = Len(s2) + 2 /\ Top(0) = h /\ Top(1) = h /\ Pop(2) = s2
    BY <1>4, <2>1, Append2
  <2>4. Len(stack) >= 2
    BY <1>4, <2>3
  <2> QED  BY <2>1, <2>2, <2>3, <2>4, Zenon DEF OpEqualVerify, Instruction
<1>11. CASE n = 4
  <2>1. stack = Append(Append(<< >>, g), p) /\ r[n + 2] = Append(<< >>, Num(1))
    BY <1>3, <1>4, <1>5, <1>11
  <2>2. OpCheckSig(Op("CHECKSIG"))
    BY <1>1, <1>3, <1>11, Dispatch
  <2>3. Len(stack) = 2 /\ Top(0) = p /\ Top(1) = g /\ Pop(2) = << >>
    BY <1>4, <2>1, Append2
  <2>4. Len(stack) >= 2 /\ allow_checksig /\ Top(0)[1] = "key" /\ IsSig(Top(1))
    BY <2>3, ElementFacts DEF allow_checksig, IsSig, g, p
  <2>5. Verifies(Top(0), Top(1)) = TRUE
    BY <2>3, ElementFacts DEF Verifies, g, p
  <2>6. Append(Pop(2), Bool(Verifies(Top(0), Top(1)))) = r[n + 2]
    BY <2>1, <2>3, <2>5, ElementFacts
  <2> QED  BY <2>2, <2>4, <2>6, Zenon DEF OpCheckSig, Instruction
<1> QED  BY <1>7, <1>8, <1>9, <1>10, <1>11

LEMMA CltvRunFacts ==
  ASSUME NEW k, NEW locktime, NEW s
  PROVE  /\ CltvRun(0, k, locktime, s) <=> s = <<Sig(k), Pub(k)>>
         /\ CltvRun(1, k, locktime, s) <=> s = <<Sig(k), Pub(k), Num(locktime)>>
         /\ CltvRun(2, k, locktime, s) <=> s = <<Sig(k), Pub(k), Num(locktime)>>
         /\ \A n \in 0 .. 5 : \A m : m = n + 3 => (CltvRun(m, k, locktime, s) <=> s = P2pkhRun(k)[n + 1])
<1>1. /\ CltvRun(0, k, locktime, s) <=> s = <<Sig(k), Pub(k)>>
      /\ CltvRun(1, k, locktime, s) <=> s = <<Sig(k), Pub(k), Num(locktime)>>
      /\ CltvRun(2, k, locktime, s) <=> s = <<Sig(k), Pub(k), Num(locktime)>>
  BY P2pkhRunFacts DEF CltvRun
<1>2. ASSUME NEW n \in 0 .. 5, NEW m, m = n + 3
      PROVE  CltvRun(m, k, locktime, s) <=> s = P2pkhRun(k)[n + 1]
  <2>1. m \notin {1, 2} /\ m # 0 /\ m - 2 = n + 1
    BY <1>2
  <2> QED  BY <2>1 DEF CltvRun
<1> QED  BY <1>1, <1>2

LEMMA CltvBuilt ==
  ASSUME NEW k, NEW locktime \in Nat, NEW n \in 0 .. 7, executing, phase = "lock",
         height \in Nat, height >= locktime,
         Execute(cltv_p2pkh_script(locktime, k)[n + 1]), CltvRun(n, k, locktime, stack)
  PROVE  \E s : Continue(s, if_stack) /\ CltvRun(n + 1, k, locktime, s)
<1> DEFINE c == cltv_p2pkh_script(locktime, k)
           s2 == <<Sig(k), Pub(k)>>
           s3 == <<Sig(k), Pub(k), Num(locktime)>>
<1>1. /\ c[1] = Push(Num(locktime)) /\ c[2] = Op("CHECKLOCKTIMEVERIFY") /\ c[3] = Op("DROP")
      /\ \A i \in 1 .. 5 : c[3 + i] = p2pkh_script(k)[i]
  BY CltvTokens
<1>2. IsStack(s2) /\ Len(s2) = 2 /\ s3 = Append(s2, Num(locktime))
  <2>1. IsStack(s2) /\ Len(s2) = 2
    BY TupleFacts
  <2>2. s3 = Append(s2, Num(locktime))
    OBVIOUS
  <2> QED  BY <2>1, <2>2
<1>3. \A s : /\ CltvRun(0, k, locktime, s) <=> s = s2
             /\ CltvRun(1, k, locktime, s) <=> s = s3
             /\ CltvRun(2, k, locktime, s) <=> s = s3
             /\ \A i \in 0 .. 5 : \A m : m = i + 3 =>
                  (CltvRun(m, k, locktime, s) <=> s = P2pkhRun(k)[i + 1])
  BY CltvRunFacts
<1>4. P2pkhRun(k)[1] = s2
  BY P2pkhRunFacts
<1> HIDE DEF c, s2, s3
<1>5. Execute(c[n + 1])
  BY DEF c
<1>6. CASE n = 0
  <2>1. PushData(Push(Num(locktime)))
    BY <1>1, <1>5, <1>6, Dispatch, ElementFacts
  <2>2. stack = s2 /\ n + 1 = 1
    BY <1>3, <1>6
  <2>3. Room
    BY <1>2, <2>2, ScriptAssumption DEF Room
  <2>4. Continue(s3, if_stack)
    BY <1>2, <2>1, <2>2, <2>3, ElementFacts DEF PushData
  <2> QED  BY <1>3, <2>2, <2>4
<1>7. CASE n = 1
  <2>1. OpCheckLockTimeVerify(Op("CHECKLOCKTIMEVERIFY"))
    BY <1>1, <1>5, <1>7, Dispatch
  <2>2. stack = s3 /\ n + 1 = 2
    BY <1>3, <1>7
  <2>3. Len(stack) = Len(s2) + 1 /\ Top(0) = Num(locktime)
    BY <1>2, <2>2, Append1
  <2>4. Len(stack) >= 1 /\ LockTimeMet(Top(0))
    BY <1>2, <2>3, ElementFacts DEF LockTimeMet
  <2>5. Continue(stack, if_stack)
    BY <2>1, <2>4, Zenon DEF OpCheckLockTimeVerify, Instruction
  <2> QED  BY <1>3, <2>2, <2>5
<1>8. CASE n = 2
  <2>1. OpDrop(Op("DROP"))
    BY <1>1, <1>5, <1>8, Dispatch
  <2>2. stack = s3 /\ n + 1 = 0 + 3
    BY <1>3, <1>8
  <2>3. Len(stack) = Len(s2) + 1 /\ Pop(1) = s2
    BY <1>2, <2>2, Append1
  <2>4. Len(stack) >= 1
    BY <1>2, <2>3
  <2>5. Continue(s2, if_stack)
    BY <2>1, <2>3, <2>4, Zenon DEF OpDrop, Instruction
  <2>6. CltvRun(n + 1, k, locktime, s2)
    BY <1>3, <1>4, <2>2
  <2> QED  BY <2>5, <2>6
<1>9. CASE n \in 3 .. 7
  <2> DEFINE m == n - 3
             j == n + 1
  <2>1. m \in 0 .. 4 /\ m \in 0 .. 5 /\ m + 1 \in 0 .. 5 /\ n = m + 3 /\ j = (m + 1) + 3
    BY <1>9
  <2>2. m + 1 \in 1 .. 5 /\ j = 3 + (m + 1) /\ Execute(c[j]) /\ (m + 1) + 1 = m + 2
    BY <1>5, <1>9
  <2> HIDE DEF m, j
  <2>3. Execute(p2pkh_script(k)[m + 1])
    BY <1>1, <2>2
  <2>4. stack = P2pkhRun(k)[m + 1]
    BY <1>3, <2>1
  <2>5. Continue(P2pkhRun(k)[m + 2], if_stack)
    BY <2>1, <2>3, <2>4, P2pkhBuilt
  <2>6. CltvRun(j, k, locktime, P2pkhRun(k)[m + 2])
    BY <1>3, <2>1, <2>2
  <2> QED  BY <2>5, <2>6 DEF j
<1> QED  BY <1>6, <1>7, <1>8, <1>9

\* The contract: the stacks of the two ways through it

\* The conditionals on the way of the claim and of the refund
ClaimIf(n) == Branch(n, TRUE)
RefundIf(n) == Branch(n, FALSE)

LEMMA BranchAt ==
  /\ ClaimIf(0) = << >> /\ RefundIf(0) = << >> /\ ClaimIf(19) = << >> /\ RefundIf(19) = << >>
  /\ \A n \in 1 .. 9 : ClaimIf(n) = Yes /\ RefundIf(n) = No
  /\ \A n \in 10 .. 18 : ClaimIf(n) = No /\ RefundIf(n) = Yes
<1>1. ClaimIf(0) = << >> /\ RefundIf(0) = << >> /\ ClaimIf(19) = << >> /\ RefundIf(19) = << >>
  BY DEF Branch, ClaimIf, RefundIf
<1>2. ASSUME NEW n \in 1 .. 9 PROVE ClaimIf(n) = Yes /\ RefundIf(n) = No
  <2>1. n \notin {0, 19} /\ n < 10
    OBVIOUS
  <2> QED  BY <2>1, Zenon DEF Branch, Yes, No, ClaimIf, RefundIf
<1>3. ASSUME NEW n \in 10 .. 18 PROVE ClaimIf(n) = No /\ RefundIf(n) = Yes
  <2>1. n \notin {0, 19} /\ ~ (n < 10)
    OBVIOUS
  <2>2. (~ TRUE) = FALSE /\ (~ FALSE) = TRUE
    OBVIOUS
  <2>3. Branch(n, TRUE) = <<~ TRUE>> /\ Branch(n, FALSE) = <<~ FALSE>>
    BY <2>1, Zenon DEF Branch
  <2> QED  BY <2>2, <2>3, Zenon DEF Yes, No, ClaimIf, RefundIf
<1> QED  BY <1>1, <1>2, <1>3

LEMMA ClaimRunFacts ==
  ASSUME NEW k, NEW s
  PROVE  LET g == Sig(k)
             p == Pub(k)
             x == Sha256(Preimage)
         IN  /\ ClaimRun(0, k, s) <=> s = <<g, p, Preimage, Num(1)>>
             /\ ClaimRun(1, k, s) <=> s = <<g, p, Preimage>>
             /\ ClaimRun(2, k, s) <=> s = <<g, p, x>>
             /\ ClaimRun(3, k, s) <=> s = <<g, p, x, x>>
             /\ \A n \in 0 .. 5 : \A m : m = n + 4 => (ClaimRun(m, k, s) <=> s = P2pkhRun(k)[n + 1])
             /\ \A m \in 10 .. 19 : ClaimRun(m, k, s) <=> s = <<Num(1)>>
<1>1. /\ ClaimRun(0, k, s) <=> s = <<Sig(k), Pub(k), Preimage, Num(1)>>
      /\ ClaimRun(1, k, s) <=> s = <<Sig(k), Pub(k), Preimage>>
      /\ ClaimRun(2, k, s) <=> s = <<Sig(k), Pub(k), Sha256(Preimage)>>
      /\ ClaimRun(3, k, s) <=> s = <<Sig(k), Pub(k), Sha256(Preimage), Sha256(Preimage)>>
  BY DEF ClaimRun
<1>2. ASSUME NEW n \in 0 .. 5, NEW m, m = n + 4
      PROVE  ClaimRun(m, k, s) <=> s = P2pkhRun(k)[n + 1]
  <2>1. m \in 4 .. 9 /\ m # 0 /\ m # 1 /\ m # 2 /\ m # 3 /\ m - 3 = n + 1
    BY <1>2
  <2>2. ClaimRun(m, k, s) <=> s = P2pkhRun(k)[m - 3]
    BY <2>1, Zenon DEF ClaimRun
  <2> QED  BY <2>1, <2>2, Zenon
<1>3. ASSUME NEW m \in 10 .. 19
      PROVE  ClaimRun(m, k, s) <=> s = <<Num(1)>>
  <2>1. m \notin 4 .. 9 /\ m # 0 /\ m # 1 /\ m # 2 /\ m # 3
    OBVIOUS
  <2> QED  BY <2>1, Zenon DEF ClaimRun
<1> QED  BY <1>1, <1>2, <1>3

LEMMA RefundRunFacts ==
  ASSUME NEW k, NEW locktime, NEW s
  PROVE  /\ RefundRun(0, k, locktime, s) <=> s = <<Sig(k), Pub(k), Empty>>
         /\ \A m \in 1 .. 9 : RefundRun(m, k, locktime, s) <=> s = <<Sig(k), Pub(k)>>
         /\ \A n \in 0 .. 8 : \A m : m = n + 10 =>
              (RefundRun(m, k, locktime, s) <=> CltvRun(n, k, locktime, s))
         /\ RefundRun(19, k, locktime, s) <=> s = <<Num(1)>>
<1>1. RefundRun(0, k, locktime, s) <=> s = <<Sig(k), Pub(k), Empty>>
  BY DEF RefundRun
<1>2. ASSUME NEW m \in 1 .. 9
      PROVE  RefundRun(m, k, locktime, s) <=> s = <<Sig(k), Pub(k)>>
  <2>1. m # 0 /\ m \notin 10 .. 18
    OBVIOUS
  <2> QED  BY <2>1, Zenon DEF RefundRun
<1>3. ASSUME NEW n \in 0 .. 8, NEW m, m = n + 10
      PROVE  RefundRun(m, k, locktime, s) <=> CltvRun(n, k, locktime, s)
  <2>1. m # 0 /\ m \notin 1 .. 9 /\ m \in 10 .. 18 /\ m - 10 = n
    BY <1>3
  <2>2. RefundRun(m, k, locktime, s) <=> CltvRun(m - 10, k, locktime, s)
    BY <2>1, Zenon DEF RefundRun
  <2> QED  BY <2>1, <2>2, Zenon
<1>4. RefundRun(19, k, locktime, s) <=> s = <<Num(1)>>
  <2>1. 19 # 0 /\ 19 \notin 1 .. 9 /\ 19 \notin 10 .. 18
    OBVIOUS
  <2> QED  BY <2>1, Zenon DEF RefundRun
<1> QED  BY <1>1, <1>2, <1>3, <1>4

\* The conditional of the contract
LEMMA IfStep ==
  ASSUME NEW s, NEW e, IsStack(s), stack = Append(s, e), if_stack = << >>, OpIf(Op("IF"))
  PROVE  Continue(s, IF is_truthy(e) THEN Yes ELSE No)
<1>1. IsStack(stack) /\ Len(stack) = Len(s) + 1 /\ Len(s) \in Nat /\ Top(0) = e /\ Pop(1) = s
  BY Append1, StackFacts
<1>2. stack # << >>
  BY <1>1, StackFacts
<1>3. is_truthy(e) \in BOOLEAN
  BY DEF is_truthy
<1>4. Append(if_stack, is_truthy(e)) = IF is_truthy(e) THEN Yes ELSE No
  BY <1>3, BranchFacts
<1>5. executing
  BY BranchFacts
<1> QED  BY <1>1, <1>2, <1>4, <1>5, Zenon DEF OpIf

LEMMA ElseStep ==
  ASSUME OpElse(Op("ELSE"))
  PROVE  /\ if_stack = No => Continue(stack, Yes)
         /\ if_stack = Yes => Continue(stack, No)
BY BranchFacts, Zenon DEF OpElse

LEMMA EndifStep ==
  ASSUME OpEndif(Op("ENDIF")), if_stack = Yes \/ if_stack = No
  PROVE  Continue(stack, << >>)
<1>1. if_stack # << >> /\ Front(if_stack) = << >>
  BY BranchFacts
<1> QED  BY <1>1, Zenon DEF OpEndif

LEMMA ClaimBuilt ==
  ASSUME NEW k, NEW q, NEW locktime, NEW n \in 0 .. 18, phase = "lock",
         Execute(htlc_script(k, q, locktime)[n + 1]), if_stack = ClaimIf(n),
         ClaimRun(n, k, stack)
  PROVE  \E s : Continue(s, ClaimIf(n + 1)) /\ ClaimRun(n + 1, k, s)
<1> DEFINE h == htlc_script(k, q, locktime)
           x == Sha256(Preimage)
           s2 == <<Sig(k), Pub(k)>>
           s3 == <<Sig(k), Pub(k), Preimage>>
<1>1. /\ h[1] = Op("IF") /\ h[2] = Op("SHA256") /\ h[3] = Push(x)
      /\ h[4] = Op("EQUALVERIFY") /\ h[10] = Op("ELSE") /\ h[19] = Op("ENDIF")
      /\ \A i \in 1 .. 5 : h[4 + i] = p2pkh_script(k)[i]
  BY HtlcTokens
<1>2. \A i \in (2 .. 9) \cup (11 .. 18) : Skippable(h[i])
  BY HtlcSkippable
<1> HIDE DEF h
<1>3. Execute(h[n + 1])
  BY DEF h
<1>4. IsStack(s2) /\ Len(s2) = 2 /\ IsStack(s3) /\ Len(s3) = 3
  BY TupleFacts
<1>5. s3 = Append(s2, Preimage) /\ <<Sig(k), Pub(k), Preimage, Num(1)>> = Append(s3, Num(1))
  BY TupleFacts
<1>6. /\ <<Sig(k), Pub(k), x>> = Append(s2, x)
      /\ <<Sig(k), Pub(k), x, x>> = Append(Append(s2, x), x)
  <2> HIDE DEF x
  <2> QED  BY TupleFacts
<1>7. P2pkhRun(k)[1] = s2 /\ P2pkhRun(k)[6] = <<Num(1)>>
  BY P2pkhRunFacts
<1>8. \A s : /\ ClaimRun(0, k, s) <=> s = Append(s3, Num(1))
             /\ ClaimRun(1, k, s) <=> s = s3
             /\ ClaimRun(2, k, s) <=> s = Append(s2, x)
             /\ ClaimRun(3, k, s) <=> s = Append(Append(s2, x), x)
  BY <1>5, <1>6, ClaimRunFacts
<1>9. \A s : /\ \A i \in 0 .. 5 : \A m : m = i + 4 => (ClaimRun(m, k, s) <=> s = P2pkhRun(k)[i + 1])
             /\ \A m \in 10 .. 19 : ClaimRun(m, k, s) <=> s = <<Num(1)>>
  BY ClaimRunFacts
<1> HIDE DEF s2, s3, x
<1>10. CASE n = 0
  <2>1. OpIf(Op("IF"))
    BY <1>1, <1>3, <1>10, Dispatch
  <2>2. stack = Append(s3, Num(1)) /\ if_stack = << >> /\ ClaimIf(n + 1) = Yes /\ n + 1 = 1
    BY <1>8, <1>10, BranchAt
  <2>3. Continue(s3, Yes)
    BY <1>4, <2>1, <2>2, IfStep, ElementFacts
  <2> QED  BY <1>8, <2>2, <2>3
<1>11. CASE n = 1
  <2>1. if_stack = Yes /\ ClaimIf(n + 1) = Yes /\ n + 1 = 2 /\ stack = Append(s2, Preimage)
    BY <1>5, <1>8, <1>11, BranchAt
  <2>2. OpSha256(Op("SHA256"))
    BY <1>1, <1>3, <1>11, <2>1, BranchFacts, Dispatch
  <2>3. Len(stack) = Len(s2) + 1 /\ Top(0) = Preimage /\ Pop(1) = s2
    BY <1>4, <2>1, Append1
  <2>4. Len(stack) >= 1
    BY <1>4, <2>3
  <2>5. Append(Pop(1), Sha256(Top(0))) = Append(s2, x)
    BY <2>3, Zenon DEF x
  <2>6. Continue(Append(s2, x), if_stack)
    BY <2>2, <2>4, <2>5, Zenon DEF OpSha256, Instruction
  <2> QED  BY <1>8, <2>1, <2>6
<1>12. CASE n = 2
  <2>1. if_stack = Yes /\ ClaimIf(n + 1) = Yes /\ n + 1 = 3 /\ stack = Append(s2, x)
    BY <1>8, <1>12, BranchAt
  <2>2. PushData(Push(x)) /\ executing
    BY <1>1, <1>3, <1>12, <2>1, BranchFacts, Dispatch, ElementFacts
  <2>3. Len(stack) = Len(s2) + 1
    BY <1>4, <2>1, Append1
  <2>4. Room
    BY <1>4, <2>3, ScriptAssumption DEF Room
  <2>5. Continue(Append(stack, x), if_stack)
    BY <2>2, <2>4, ElementFacts DEF PushData
  <2> QED  BY <1>8, <2>1, <2>5
<1>13. CASE n = 3
  <2>1. /\ if_stack = Yes /\ ClaimIf(n + 1) = Yes /\ n + 1 = 0 + 4
        /\ stack = Append(Append(s2, x), x)
    BY <1>8, <1>13, BranchAt
  <2>2. OpEqualVerify(Op("EQUALVERIFY"))
    BY <1>1, <1>3, <1>13, <2>1, BranchFacts, Dispatch
  <2>3. Len(stack) = Len(s2) + 2 /\ Top(0) = x /\ Top(1) = x /\ Pop(2) = s2
    BY <1>4, <2>1, Append2
  <2>4. Len(stack) >= 2
    BY <1>4, <2>3
  <2>5. Continue(s2, if_stack)
    BY <2>2, <2>3, <2>4, Zenon DEF OpEqualVerify, Instruction
  <2>6. ClaimRun(n + 1, k, s2)
    BY <1>7, <1>9, <2>1
  <2> QED  BY <2>1, <2>5, <2>6
<1>14. CASE n \in 4 .. 8
  <2> DEFINE m == n - 4
             j == n + 1
  <2>1. m \in 0 .. 4 /\ m \in 0 .. 5 /\ m + 1 \in 0 .. 5 /\ n = m + 4 /\ j = (m + 1) + 4
    BY <1>14
  <2>2. m + 1 \in 1 .. 5 /\ j = 4 + (m + 1) /\ Execute(h[j]) /\ (m + 1) + 1 = m + 2
    BY <1>3, <1>14
  <2>3. if_stack = Yes /\ ClaimIf(j) = Yes
    BY <1>14, BranchAt
  <2> HIDE DEF m, j
  <2>4. Execute(p2pkh_script(k)[m + 1])
    BY <1>1, <2>2
  <2>5. stack = P2pkhRun(k)[m + 1]
    BY <1>9, <2>1
  <2>6. Continue(P2pkhRun(k)[m + 2], if_stack)
    BY <2>1, <2>3, <2>4, <2>5, BranchFacts, P2pkhBuilt
  <2>7. ClaimRun(j, k, P2pkhRun(k)[m + 2])
    BY <1>9, <2>1, <2>2
  <2> QED  BY <2>3, <2>6, <2>7 DEF j
<1>15. CASE n = 9
  <2>1. if_stack = Yes /\ ClaimIf(n + 1) = No /\ n + 1 \in 10 .. 19
    BY <1>15, BranchAt
  <2>2. stack = <<Num(1)>>
    <3>1. 5 \in 0 .. 5 /\ n = 5 + 4 /\ 5 + 1 = 6
      BY <1>15
    <3> QED  BY <1>7, <1>9, <3>1
  <2>3. Continue(stack, No)
    BY <1>1, <1>3, <1>15, <2>1, Dispatch, ElseStep
  <2> QED  BY <1>9, <2>1, <2>2, <2>3
<1>16. CASE n \in 10 .. 17
  <2>1. if_stack = No /\ ClaimIf(n + 1) = No /\ n + 1 \in 10 .. 19 /\ n \in 10 .. 19
    BY <1>16, BranchAt
  <2>2. n + 1 \in (2 .. 9) \cup (11 .. 18)
    BY <1>16
  <2>3. Continue(stack, No)
    BY <1>2, <1>3, <2>1, <2>2, BranchFacts, Skipped
  <2> QED  BY <1>9, <2>1, <2>3
<1>17. CASE n = 18
  <2>1. if_stack = No /\ ClaimIf(n + 1) = << >> /\ n + 1 \in 10 .. 19 /\ n \in 10 .. 19
    BY <1>17, BranchAt
  <2>2. Continue(stack, << >>)
    BY <1>1, <1>3, <1>17, <2>1, Dispatch, EndifStep
  <2> QED  BY <1>9, <2>1, <2>2
<1> QED  BY <1>10, <1>11, <1>12, <1>13, <1>14, <1>15, <1>16, <1>17

LEMMA RefundBuilt ==
  ASSUME NEW r, NEW k, NEW locktime \in Nat, NEW n \in 0 .. 18, phase = "lock",
         height \in Nat, height >= locktime,
         Execute(htlc_script(r, k, locktime)[n + 1]), if_stack = RefundIf(n),
         RefundRun(n, k, locktime, stack)
  PROVE  \E s : Continue(s, RefundIf(n + 1)) /\ RefundRun(n + 1, k, locktime, s)
<1> DEFINE h == htlc_script(r, k, locktime)
           s2 == <<Sig(k), Pub(k)>>
<1>1. /\ h[1] = Op("IF") /\ h[10] = Op("ELSE") /\ h[19] = Op("ENDIF")
      /\ \A i \in 1 .. 8 : h[10 + i] = cltv_p2pkh_script(locktime, k)[i]
  BY HtlcTokens
<1>2. \A i \in (2 .. 9) \cup (11 .. 18) : Skippable(h[i])
  BY HtlcSkippable
<1> HIDE DEF h
<1>3. Execute(h[n + 1])
  BY DEF h
<1>4. IsStack(s2) /\ <<Sig(k), Pub(k), Empty>> = Append(s2, Empty)
  <2>1. IsStack(s2)
    BY TupleFacts
  <2>2. <<Sig(k), Pub(k), Empty>> = Append(s2, Empty)
    OBVIOUS
  <2> QED  BY <2>1, <2>2
<1>5. P2pkhRun(k)[6] = <<Num(1)>>
  BY P2pkhRunFacts
<1>6. \A s : /\ RefundRun(0, k, locktime, s) <=> s = Append(s2, Empty)
             /\ \A m \in 1 .. 9 : RefundRun(m, k, locktime, s) <=> s = s2
             /\ \A i \in 0 .. 8 : \A m : m = i + 10 =>
                  (RefundRun(m, k, locktime, s) <=> CltvRun(i, k, locktime, s))
             /\ RefundRun(19, k, locktime, s) <=> s = <<Num(1)>>
  BY <1>4, RefundRunFacts
<1>7. CltvRun(0, k, locktime, s2)
  BY CltvRunFacts
<1> HIDE DEF s2
<1>8. CASE n = 0
  <2>1. OpIf(Op("IF"))
    BY <1>1, <1>3, <1>8, Dispatch
  <2>2. /\ stack = Append(s2, Empty) /\ if_stack = << >> /\ RefundIf(n + 1) = No
        /\ n + 1 \in 1 .. 9
    BY <1>6, <1>8, BranchAt
  <2>3. Continue(s2, No)
    BY <1>4, <2>1, <2>2, IfStep, ElementFacts
  <2> QED  BY <1>6, <2>2, <2>3
<1>9. CASE n \in 1 .. 8
  <2>1. if_stack = No /\ RefundIf(n + 1) = No /\ n \in 1 .. 9 /\ n + 1 \in 1 .. 9
    BY <1>9, BranchAt
  <2>2. n + 1 \in (2 .. 9) \cup (11 .. 18)
    BY <1>9
  <2>3. Continue(stack, No)
    BY <1>2, <1>3, <2>1, <2>2, BranchFacts, Skipped
  <2> QED  BY <1>6, <2>1, <2>3
<1>10. CASE n = 9
  <2>1. /\ if_stack = No /\ RefundIf(n + 1) = Yes /\ n \in 1 .. 9
        /\ 0 \in 0 .. 8 /\ n + 1 = 0 + 10
    BY <1>10, BranchAt
  <2>2. stack = s2
    BY <1>6, <2>1
  <2>3. Continue(stack, Yes)
    BY <1>1, <1>3, <1>10, <2>1, Dispatch, ElseStep
  <2>4. RefundRun(n + 1, k, locktime, s2)
    BY <1>6, <1>7, <2>1
  <2> QED  BY <2>1, <2>2, <2>3, <2>4
<1>11. CASE n \in 10 .. 17
  <2> DEFINE m == n - 10
             j == n + 1
  <2>1. m \in 0 .. 7 /\ m \in 0 .. 8 /\ m + 1 \in 0 .. 8 /\ n = m + 10 /\ j = (m + 1) + 10
    BY <1>11
  <2>2. m + 1 \in 1 .. 8 /\ j = 10 + (m + 1) /\ Execute(h[j])
    BY <1>3, <1>11
  <2>3. if_stack = Yes /\ RefundIf(j) = Yes
    BY <1>11, BranchAt
  <2> HIDE DEF m, j
  <2>4. Execute(cltv_p2pkh_script(locktime, k)[m + 1])
    BY <1>1, <2>2
  <2>5. CltvRun(m, k, locktime, stack)
    BY <1>6, <2>1
  <2>6. \E s : Continue(s, if_stack) /\ CltvRun(m + 1, k, locktime, s)
    BY <2>1, <2>3, <2>4, <2>5, BranchFacts, CltvBuilt
  <2>7. \A s : CltvRun(m + 1, k, locktime, s) => RefundRun(j, k, locktime, s)
    BY <1>6, <2>1
  <2> QED  BY <2>3, <2>6, <2>7 DEF j
<1>12. CASE n = 18
  <2>1. if_stack = Yes /\ RefundIf(n + 1) = << >> /\ n + 1 = 19
    BY <1>12, BranchAt
  <2>2. stack = <<Num(1)>>
    <3>1. CltvRun(8, k, locktime, stack)
      <4>1. 8 \in 0 .. 8 /\ n = 8 + 10
        BY <1>12
      <4> QED  BY <1>6, <4>1
    <3>2. 5 \in 0 .. 5 /\ 8 = 5 + 3 /\ 5 + 1 = 6
      OBVIOUS
    <3> QED  BY <1>5, <3>1, <3>2, CltvRunFacts
  <2>3. Continue(stack, << >>)
    BY <1>1, <1>3, <1>12, <2>1, Dispatch, EndifStep
  <2> QED  BY <1>6, <2>1, <2>2, <2>3
<1> QED  BY <1>8, <1>9, <1>10, <1>11, <1>12

\* Several signatures: f names for each the key it is by, in the order of the lock.
Fits(f, sigs, keys) ==
  /\ \A i \in 1 .. Len(sigs) :
       f[i] \in 1 .. Len(keys) /\ IsSig(sigs[i]) /\ Verifies(keys[f[i]], sigs[i])
  /\ \A i, j \in 1 .. Len(sigs) : i < j => f[i] < f[j]

LEMMA MatchedInOrder ==
  ASSUME NEW sigs, NEW keys, NEW f, Len(sigs) \in Nat \ {0}, Len(keys) \in Nat,
         Fits(f, sigs, keys)
  PROVE  all_matched(sigs, keys)
<1> DEFINE N == Len(sigs)
           K == Len(keys)
           u == UsedKeys(sigs, keys)
           Bad == {n \in 1 .. N : ~ (u[n] <= f[n])}
<1>1. /\ \A n \in 0 .. N : u[n] \in 0 .. K + 1
      /\ u[0] = 0
      /\ \A n \in 1 .. N : u[n] = NextKey(keys, u[n - 1], sigs[n])
  BY UsedFacts
<1>2. /\ \A i \in 1 .. N : f[i] \in 1 .. K /\ IsSig(sigs[i]) /\ Verifies(keys[f[i]], sigs[i])
      /\ \A i, j \in 1 .. N : i < j => f[i] < f[j]
  BY DEF Fits
<1>3. ASSUME u[N] <= f[N] PROVE all_matched(sigs, keys)
  <2>1. N \in 1 .. N /\ N \in 0 .. N
    OBVIOUS
  <2> HIDE DEF u
  <2>2. u[N] <= K
    BY <1>1, <1>2, <1>3, <2>1
  <2> QED  BY <2>2 DEF all_matched, u
<1> HIDE DEF u
<1>4. SUFFICES ASSUME Bad # {} PROVE FALSE
  <2>1. N \in 1 .. N
    OBVIOUS
  <2> QED  BY <1>3, <1>4, <2>1
<1>5. PICK n \in Bad : \A h \in Bad : n <= h
  <2>1. Bad \subseteq Nat
    OBVIOUS
  <2> QED  BY <1>4, <2>1, LeastElement, Zenon
<1>6. n \in 1 .. N /\ n \in 0 .. N /\ n - 1 \in 0 .. N /\ ~ (u[n] <= f[n])
  BY <1>5
<1>7. u[n - 1] < f[n]
  <2>1. CASE n = 1
    BY <1>1, <1>2, <1>6, <2>1
  <2>2. CASE n # 1
    <3>1. n - 1 \in 1 .. N /\ n - 1 \notin Bad /\ n - 1 < n
      BY <1>5, <1>6, <2>2
    <3>2. u[n - 1] <= f[n - 1]
      BY <3>1
    <3>3. f[n - 1] < f[n] /\ f[n - 1] \in Nat /\ f[n] \in Nat /\ u[n - 1] \in Nat
      BY <1>1, <1>2, <1>6, <3>1
    <3> QED  BY <3>2, <3>3
  <2> QED  BY <2>1, <2>2
<1>8. u[n] <= f[n]
  <2>1. /\ u[n - 1] \in 0 .. K + 1 /\ u[n] = NextKey(keys, u[n - 1], sigs[n])
        /\ f[n] \in 1 .. K /\ IsSig(sigs[n]) /\ Verifies(keys[f[n]], sigs[n])
    BY <1>1, <1>2, <1>6
  <2> QED  BY <1>7, <2>1, NextKeyFacts
<1> QED  BY <1>6, <1>8

\* The signatures at the bottom of the stack are by keys of the lock, in its order.
SignedBy(l, s) == \E f \in Signers(l) : \A i \in 1 .. l[3] : s[i] = Sig(l[2][f[i]])

LEMMA MultisigRunFacts ==
  ASSUME NEW l, NEW n, NEW s
  PROVE  /\ n <= Len(l[2]) + 2 =>
              (MultisigRun(n, l, s) <=> Len(s) = l[3] + n /\ Pushed(Redeem(l), n, s) /\ SignedBy(l, s))
         /\ ~ (n <= Len(l[2]) + 2) => (MultisigRun(n, l, s) <=> s = <<Num(1)>>)
BY DEF MultisigRun, SignedBy

LEMMA MultisigBuilt ==
  ASSUME NEW l \in Lock, IsMultisig(l), NEW n \in 0 .. Len(l[2]) + 2, IsStack(stack),
         executing, phase = "lock", Execute(Redeem(l)[n + 1]), MultisigRun(n, l, stack)
  PROVE  \E s : Continue(s, if_stack) /\ IsStack(s) /\ MultisigRun(n + 1, l, s)
<1> DEFINE N == Len(l[2])
           m == l[3]
           r == Redeem(l)
<1>1. /\ N \in Nat /\ m \in Nat /\ Len(stack) \in Nat /\ m >= 1 /\ m <= N /\ N <= 16
      /\ DOMAIN l[2] = 1 .. N
  BY MultisigFacts, StackFacts
<1>2. /\ r[1] = Push(Num(m)) /\ r[N + 2] = Push(Num(N)) /\ r[N + 3] = Op("CHECKMULTISIG")
      /\ \A i \in 1 .. N : r[1 + i] = Push(Pub(l[2][i]))
  BY MultisigFacts, MultisigTokens
<1>3. Len(stack) = m + n /\ Pushed(r, n, stack) /\ SignedBy(l, stack)
  BY <1>1, MultisigRunFacts
<1>4. m + N + 2 <= MaxStackDepth /\ MaxStackDepth \in Nat
  BY ScriptAssumption
<1> HIDE DEF r, N, m
<1>5. Execute(r[n + 1])
  BY DEF r
<1>6. n \in 0 .. N + 2
  BY DEF N
<1>7. CASE n \in 0 .. N + 1
  <2>1. PICK e : r[n + 1] = Push(e)
    <3>1. CASE n = 0
      BY <1>2, <3>1
    <3>2. CASE n = N + 1
      <4>1. n + 1 = N + 2
        BY <1>1, <3>2
      <4> QED  BY <1>2, <4>1
    <3>3. CASE n \in 1 .. N
      <4>1. n + 1 = 1 + n
        OBVIOUS
      <4> QED  BY <1>2, <3>3, <4>1
    <3> QED  BY <1>1, <1>7, <3>1, <3>2, <3>3
  <2> DEFINE s == Append(stack, e)
  <2>2. PushData(Push(e))
    BY <1>5, <2>1, Dispatch, ElementFacts
  <2>3. Room
    BY <1>1, <1>3, <1>4, <1>7 DEF Room
  <2>4. Continue(s, if_stack)
    BY <2>2, <2>3, ElementFacts DEF PushData
  <2>5. /\ IsStack(s) /\ Len(s) = m + (n + 1)
        /\ \A i \in 1 .. Len(stack) : s[i] = stack[i]
    BY <1>1, <1>3, AppendStack
  <2>6. Pushed(r, n + 1, s)
    BY <1>3, <2>1, PushedAppend
  <2>7. n + 1 <= N + 2 /\ \A i \in 1 .. m : i \in 1 .. Len(stack)
    BY <1>1, <1>3, <1>7
  <2> HIDE DEF s
  <2>8. SignedBy(l, s)
    BY <1>3, <2>5, <2>7 DEF SignedBy, m
  <2>9. MultisigRun(n + 1, l, s)
    BY <2>5, <2>6, <2>7, <2>8, MultisigRunFacts DEF r, N, m
  <2> QED  BY <2>4, <2>5, <2>9
<1>8. CASE n = N + 2
  <2> DEFINE keys == Slice(1, N)
             sigs == Slice(N + 2, N + 1 + m)
  <2>1. OpCheckMultisig(Op("CHECKMULTISIG"))
    <3>1. n + 1 = N + 3
      BY <1>1, <1>8
    <3> QED  BY <1>2, <1>5, <3>1, Dispatch
  <2>2. Len(stack) = N + m + 2
    BY <1>1, <1>3, <1>8
  <2>3. /\ Top(0) = Num(N) /\ n_keys = N /\ m_item = Num(m)
        /\ IsStack(keys) /\ Len(keys) = N /\ \A j \in 1 .. N : keys[j] = Pub(l[2][j])
        /\ IsStack(sigs) /\ Len(sigs) = m
        /\ \A i \in 1 .. m : sigs[i] = stack[Len(stack) - N - m - 2 + i]
    <3>1. Len(stack) >= N + m + 2
      BY <1>1, <2>2
    <3> QED  BY <1>3, <1>8, <3>1, MultisigArguments DEF r, N, m
  <2>4. m_item[1] = "num" /\ m_item[2] = m /\ Top(0)[1] = "num"
    BY <2>3, ElementFacts
  <2>5. Signed = all_matched(sigs, keys) /\ Unsigned = Pop(N + m + 2)
    BY <2>3, <2>4 DEF Signed, Unsigned
  <2> HIDE DEF keys, sigs
  <2>6. Len(stack) >= 1 /\ CountsFit
    BY <1>1, <2>2, <2>3, <2>4 DEF CountsFit, allow_checksig
  <2>7. Unsigned = << >>
    <3>1. N + m + 2 \in Nat /\ Len(stack) >= N + m + 2 /\ Len(stack) - (N + m + 2) = 0
      BY <1>1, <2>2
    <3>2. IsStack(Pop(N + m + 2)) /\ Len(Pop(N + m + 2)) = 0
      BY <3>1, UnderPop
    <3> QED  BY <2>5, <3>2, StackFacts
  <2>8. Signed = TRUE
    <3>1. PICK f \in Signers(l) : \A i \in 1 .. m : stack[i] = Sig(l[2][f[i]])
      BY <1>3 DEF SignedBy, m
    <3>2. /\ f \in [1 .. m -> Held(l)] /\ Held(l) \subseteq 1 .. N
          /\ \A i, j \in 1 .. m : i < j => f[i] < f[j]
      BY <1>1 DEF Signers, Held, m
    <3>3. ASSUME NEW i \in 1 .. m
          PROVE  f[i] \in 1 .. N /\ IsSig(sigs[i]) /\ Verifies(keys[f[i]], sigs[i])
      <4>1. f[i] \in 1 .. N
        BY <3>2
      <4>2. Len(stack) - N - m - 2 + i = i
        BY <1>1, <2>2
      <4>3. sigs[i] = Sig(l[2][f[i]])
        BY <2>3, <3>1, <4>2
      <4>4. keys[f[i]] = Pub(l[2][f[i]])
        BY <2>3, <4>1
      <4> QED  BY <4>1, <4>3, <4>4, ElementFacts DEF IsSig, Verifies
    <3>4. Fits(f, sigs, keys)
      BY <2>3, <3>2, <3>3 DEF Fits
    <3>5. all_matched(sigs, keys)
      BY <1>1, <2>3, <3>4, MatchedInOrder
    <3>6. Signed \in BOOLEAN
      BY <2>5 DEF all_matched
    <3> QED  BY <2>5, <3>5, <3>6
  <2> DEFINE s == <<Num(1)>>
  <2>9. Append(Unsigned, Bool(Signed)) = s /\ IsStack(s)
    BY <2>7, <2>8, ElementFacts, TupleFacts
  <2>10. Continue(s, if_stack)
    <3> HIDE DEF s
    <3> QED  BY <2>1, <2>6, <2>9, Zenon DEF OpCheckMultisig, Instruction
  <2>11. ~ (n + 1 <= N + 2)
    BY <1>1, <1>8
  <2>12. MultisigRun(n + 1, l, s)
    BY <2>11, MultisigRunFacts DEF N
  <2> HIDE DEF s
  <2> QED  BY <2>9, <2>10, <2>12
<1> QED  BY <1>1, <1>6, <1>7, <1>8

LEMMA BuiltAtFacts ==
  ASSUME NEW l, NEW n, NEW s, NEW ifs
  PROVE  /\ l[1] = "p2pkh" => (BuiltAt(n, l, s, ifs) <=> ifs = << >> /\ s = P2pkhRun(l[2][1])[n + 1])
         /\ l[1] = "cltv" => (BuiltAt(n, l, s, ifs) <=>
              ifs = << >> /\ height >= l[4] /\ CltvRun(n, l[2][1], l[4], s))
         /\ l[1] = "htlc" => (BuiltAt(n, l, s, ifs) <=>
              \/ ifs = ClaimIf(n) /\ ClaimRun(n, l[2][1], s)
              \/ ifs = RefundIf(n) /\ height >= l[4] /\ RefundRun(n, l[2][2], l[4], s))
         /\ IsMultisig(l) => (BuiltAt(n, l, s, ifs) <=> ifs = << >> /\ MultisigRun(n, l, s))
         /\ l[1] = "op_return" => ~ BuiltAt(n, l, s, ifs)
<1>1. l[1] = "htlc" => (BuiltAt(n, l, s, ifs) <=>
              \/ ifs = ClaimIf(n) /\ ClaimRun(n, l[2][1], s)
              \/ ifs = RefundIf(n) /\ height >= l[4] /\ RefundRun(n, l[2][2], l[4], s))
  BY DEF BuiltAt, ClaimIf, RefundIf
<1>2. /\ l[1] = "p2pkh" => (BuiltAt(n, l, s, ifs) <=> ifs = << >> /\ s = P2pkhRun(l[2][1])[n + 1])
      /\ l[1] = "cltv" => (BuiltAt(n, l, s, ifs) <=>
              ifs = << >> /\ height >= l[4] /\ CltvRun(n, l[2][1], l[4], s))
  BY DEF BuiltAt
<1>3. /\ IsMultisig(l) => (BuiltAt(n, l, s, ifs) <=> ifs = << >> /\ MultisigRun(n, l, s))
      /\ l[1] = "op_return" => ~ BuiltAt(n, l, s, ifs)
  BY DEF BuiltAt, IsMultisig
<1> QED  BY <1>1, <1>2, <1>3

\* The stacks of a run are stacks, and the last one is true.
LEMMA RunStacks ==
  ASSUME NEW k, NEW s
  PROVE  /\ \A i \in 1 .. 6 : IsStack(P2pkhRun(k)[i])
         /\ \A n \in 0 .. 8 : \A t : CltvRun(n, k, t, s) => IsStack(s)
         /\ \A n \in 0 .. 19 : ClaimRun(n, k, s) => IsStack(s)
         /\ \A n \in 0 .. 19 : \A t : RefundRun(n, k, t, s) => IsStack(s)
<1> DEFINE g == Sig(k)
           p == Pub(k)
           h == Hash160(Pub(k))
           x == Sha256(Preimage)
<1>0. /\ IsStack(<<g, p>>) /\ IsStack(<<g, p, p>>) /\ IsStack(<<g, p, h>>)
      /\ IsStack(<<g, p, h, h>>) /\ IsStack(<<Num(1)>>) /\ IsStack(<<g, p, Preimage, Num(1)>>)
      /\ IsStack(<<g, p, Preimage>>) /\ IsStack(<<g, p, x>>) /\ IsStack(<<g, p, x, x>>)
      /\ IsStack(<<g, p, Empty>>) /\ \A t : IsStack(<<g, p, Num(t)>>)
  <2> DEFINE one == Num(1)
             pre == Preimage
             none == Empty
  <2> HIDE DEF g, p, h, x, one, pre, none
  <2>1. IsStack(<<g, p>>)  BY TupleFacts
  <2>2. IsStack(<<g, p, p>>)  BY TupleFacts
  <2>3. IsStack(<<g, p, h>>)  BY TupleFacts
  <2>4. IsStack(<<g, p, h, h>>)  BY TupleFacts
  <2>5. IsStack(<<one>>)  BY TupleFacts
  <2>6. IsStack(<<g, p, pre, one>>)  BY TupleFacts
  <2>7. IsStack(<<g, p, pre>>)  BY TupleFacts
  <2>8. IsStack(<<g, p, x>>)  BY TupleFacts
  <2>9. IsStack(<<g, p, x, x>>)  BY TupleFacts
  <2>10. IsStack(<<g, p, none>>)  BY TupleFacts
  <2>11. ASSUME NEW t PROVE IsStack(<<g, p, Num(t)>>)  BY TupleFacts
  <2> QED  BY <2>1, <2>2, <2>3, <2>4, <2>5, <2>6, <2>7, <2>8, <2>9, <2>10, <2>11 DEF one, pre, none
<1>1. ASSUME NEW i \in 1 .. 6 PROVE IsStack(P2pkhRun(k)[i])
  <2>1. i = 1 \/ i = 2 \/ i = 3 \/ i = 4 \/ i = 5 \/ i = 6
    OBVIOUS
  <2> QED  BY <1>0, <2>1, P2pkhRunFacts
<1>2. ASSUME NEW n \in 0 .. 8, NEW t, CltvRun(n, k, t, s) PROVE IsStack(s)
  <2>1. CASE n \in 3 .. 8
    <3>1. n - 3 \in 0 .. 5 /\ n = (n - 3) + 3 /\ (n - 3) + 1 \in 1 .. 6
      BY <2>1
    <3> QED  BY <1>1, <1>2, <3>1, CltvRunFacts
  <2>2. CASE n \notin 3 .. 8
    <3>1. n = 0 \/ n = 1 \/ n = 2
      BY <2>2
    <3> QED  BY <1>0, <1>2, <3>1, CltvRunFacts
  <2> QED  BY <2>1, <2>2
<1>3. ASSUME NEW n \in 0 .. 19, ClaimRun(n, k, s) PROVE IsStack(s)
  <2>1. CASE n \in 4 .. 9
    <3>1. n - 4 \in 0 .. 5 /\ n = (n - 4) + 4 /\ (n - 4) + 1 \in 1 .. 6
      BY <2>1
    <3> QED  BY <1>1, <1>3, <3>1, ClaimRunFacts
  <2>2. CASE n \in 10 .. 19
    BY <1>0, <1>3, <2>2, ClaimRunFacts
  <2>3. CASE n \in 0 .. 3
    <3>1. n = 0 \/ n = 1 \/ n = 2 \/ n = 3
      BY <2>3
    <3> QED  BY <1>0, <1>3, <3>1, ClaimRunFacts
  <2> QED  BY <2>1, <2>2, <2>3
<1>4. ASSUME NEW n \in 0 .. 19, NEW t, RefundRun(n, k, t, s) PROVE IsStack(s)
  <2>1. CASE n = 0 \/ n = 19
    BY <1>0, <1>4, <2>1, RefundRunFacts
  <2>2. CASE n \in 1 .. 9
    BY <1>0, <1>4, <2>2, RefundRunFacts
  <2>3. CASE n \in 10 .. 18
    <3>1. n - 10 \in 0 .. 8 /\ n = (n - 10) + 10
      BY <2>3
    <3> QED  BY <1>2, <1>4, <3>1, RefundRunFacts
  <2> QED  BY <2>1, <2>2, <2>3
<1> QED  BY <1>1, <1>2, <1>3, <1>4

\* The builders' scripts: a token of the lock leads to the next stack of the run.
LEMMA BuiltStep ==
  ASSUME NEW l \in Lock, NEW n \in Nat, n < Len(LockScript(l)), IsStack(stack), phase = "lock",
         height \in Nat, Execute(LockScript(l)[n + 1]), BuiltAt(n, l, stack, if_stack)
  PROVE  \E s, ifs : Continue(s, ifs) /\ IsStack(s) /\ BuiltAt(n + 1, l, s, ifs)
<1>1. IsLock(l) /\ l[4] \in Nat
  BY ScriptAssumption, KindFacts
<1>2. CASE l[1] = "p2pkh"
  <2> DEFINE k == l[2][1]
             s == P2pkhRun(k)[n + 2]
  <2>1. Len(LockScript(l)) = 5
    BY <1>1, <1>2, LockScriptStack
  <2>2. n \in 0 .. 4 /\ n + 2 \in 1 .. 6 /\ (n + 1) + 1 = n + 2
    BY <2>1
  <2>3. if_stack = << >> /\ stack = P2pkhRun(k)[n + 1]
    BY <1>2, BuiltAtFacts
  <2>4. Execute(p2pkh_script(k)[n + 1]) /\ executing
    BY <1>1, <1>2, <2>3, KindFacts, BranchFacts
  <2>5. Continue(s, if_stack)
    BY <2>2, <2>3, <2>4, P2pkhBuilt
  <2>6. IsStack(s)
    BY <2>2, RunStacks
  <2>7. BuiltAt(n + 1, l, s, if_stack)
    BY <1>2, <2>2, <2>3, BuiltAtFacts
  <2> QED  BY <2>5, <2>6, <2>7
<1>3. CASE l[1] = "cltv"
  <2> DEFINE k == l[2][1]
  <2>1. Len(LockScript(l)) = 8
    BY <1>1, <1>3, LockScriptStack
  <2>2. n \in 0 .. 7 /\ n + 1 \in 0 .. 8
    BY <2>1
  <2>3. if_stack = << >> /\ height >= l[4] /\ CltvRun(n, k, l[4], stack)
    BY <1>3, BuiltAtFacts
  <2>4. Execute(cltv_p2pkh_script(l[4], k)[n + 1]) /\ executing
    BY <1>1, <1>3, <2>3, KindFacts, BranchFacts
  <2>5. PICK s : Continue(s, if_stack) /\ CltvRun(n + 1, k, l[4], s)
    BY <1>1, <2>2, <2>3, <2>4, CltvBuilt
  <2>6. IsStack(s)
    BY <2>2, <2>5, RunStacks
  <2>7. BuiltAt(n + 1, l, s, if_stack)
    BY <1>3, <2>3, <2>5, BuiltAtFacts
  <2> QED  BY <2>5, <2>6, <2>7
<1>4. CASE l[1] = "htlc"
  <2> DEFINE r == l[2][1]
             q == l[2][2]
  <2>1. Len(LockScript(l)) = 19
    BY <1>1, <1>4, LockScriptStack
  <2>2. n \in 0 .. 18 /\ n + 1 \in 0 .. 19
    BY <2>1
  <2>3. Execute(htlc_script(r, q, l[4])[n + 1])
    BY <1>1, <1>4, KindFacts
  <2>4. CASE if_stack = ClaimIf(n) /\ ClaimRun(n, r, stack)
    <3>1. PICK s : Continue(s, ClaimIf(n + 1)) /\ ClaimRun(n + 1, r, s)
      BY <2>2, <2>3, <2>4, ClaimBuilt
    <3>2. IsStack(s)
      BY <2>2, <3>1, RunStacks
    <3>3. BuiltAt(n + 1, l, s, ClaimIf(n + 1))
      BY <1>4, <3>1, BuiltAtFacts
    <3> QED  BY <3>1, <3>2, <3>3
  <2>5. CASE if_stack = RefundIf(n) /\ height >= l[4] /\ RefundRun(n, q, l[4], stack)
    <3>1. PICK s : Continue(s, RefundIf(n + 1)) /\ RefundRun(n + 1, q, l[4], s)
      BY <1>1, <2>2, <2>3, <2>5, RefundBuilt
    <3>2. IsStack(s)
      BY <2>2, <3>1, RunStacks
    <3>3. BuiltAt(n + 1, l, s, RefundIf(n + 1))
      BY <1>4, <2>5, <3>1, BuiltAtFacts
    <3> QED  BY <3>1, <3>2, <3>3
  <2> QED  BY <1>4, <2>4, <2>5, BuiltAtFacts
<1>5. CASE IsMultisig(l)
  <2>1. n \in 0 .. Len(l[2]) + 2
    BY <1>1, <1>5, LockScriptStack, MultisigFacts
  <2>2. if_stack = << >> /\ MultisigRun(n, l, stack)
    BY <1>5, BuiltAtFacts
  <2>3. Execute(Redeem(l)[n + 1]) /\ executing
    BY <1>1, <1>5, <2>2, KindFacts, BranchFacts
  <2>4. PICK s : Continue(s, if_stack) /\ IsStack(s) /\ MultisigRun(n + 1, l, s)
    BY <1>5, <2>1, <2>2, <2>3, MultisigBuilt
  <2>5. BuiltAt(n + 1, l, s, if_stack)
    BY <1>5, <2>2, <2>4, BuiltAtFacts
  <2> QED  BY <2>4, <2>5
<1>6. CASE l[1] = "op_return"
  BY <1>6, BuiltAtFacts
<1> QED  BY <1>1, <1>2, <1>3, <1>4, <1>5, <1>6, KindFacts

-----------------------------------------------------------------------------
\* The first position and the last

LEMMA SafeStart ==
  ASSUME NEW l, IsLock(l), NEW s, IsStack(s)
  PROVE  SafeAt(0, l, s, << >>)
<1>1. CASE IsMultisig(l)
  <2>1. Len(s) \in Nat /\ Len(l[2]) \in Nat
    BY <1>1, StackFacts, MultisigFacts
  <2>2. Pushed(Redeem(l), 0, s)
    BY <2>1 DEF Pushed
  <2>3. MultisigAt(0, l, s)
    BY <2>1, <2>2 DEF MultisigAt
  <2> QED  BY <1>1, <2>3, SafeAtFacts
<1>2. CASE ~ IsMultisig(l)
  BY <1>2, KindFacts, SafeAtFacts, P2pkhAtFacts, CltvAtFacts, HtlcAtFacts
<1> QED  BY <1>1, <1>2

LEMMA SafeEnd ==
  ASSUME NEW l, IsLock(l), NEW s, NEW ifs, SafeAt(Len(LockScript(l)), l, s, ifs), Truthy(s)
  PROVE  Opens(l)
<1>1. CASE l[1] = "p2pkh"
  <2>1. P2pkhAt(5, l[2][1], s)
    BY <1>1, LockScriptStack, SafeAtFacts
  <2> QED  BY <1>1, <2>1, P2pkhAtFacts DEF Opens
<1>2. CASE l[1] = "cltv"
  <2>1. CltvAt(8, l[2][1], l[4], s)
    BY <1>2, LockScriptStack, SafeAtFacts
  <2>2. 5 \in 0 .. 5 /\ 8 = 5 + 3
    OBVIOUS
  <2>3. height >= l[4] /\ P2pkhAt(5, l[2][1], s)
    BY <2>1, <2>2, CltvAtFacts, Zenon
  <2> QED  BY <1>2, <2>3, P2pkhAtFacts DEF Opens
<1>3. CASE l[1] = "htlc"
  <2>1. HtlcAt(19, l, s, ifs)
    BY <1>3, LockScriptStack, SafeAtFacts
  <2> QED  BY <2>1, HtlcAtFacts
<1>4. CASE IsMultisig(l)
  <2>1. MultisigAt(Len(l[2]) + 3, l, s) /\ Len(l[2]) \in Nat
    BY <1>4, LockScriptStack, SafeAtFacts, MultisigFacts
  <2>2. ~ (Len(l[2]) + 3 <= Len(l[2]) + 2)
    BY <2>1
  <2> QED  BY <2>1, <2>2 DEF MultisigAt
<1>5. CASE l[1] = "op_return"
  <2>1. Len(LockScript(l)) = 2 /\ Len(LockScript(l)) = 0
    BY <1>5, LockScriptStack, SafeAtFacts
  <2> QED  BY <2>1
<1> QED  BY <1>1, <1>2, <1>3, <1>4, <1>5, KindFacts

LEMMA BuiltEnd ==
  ASSUME NEW l, IsLock(l), NEW s, NEW ifs, BuiltAt(Len(LockScript(l)), l, s, ifs)
  PROVE  Truthy(s)
<1> DEFINE one == <<Num(1)>>
<1>0. one = Append(<< >>, Num(1)) /\ IsStack(<< >>)
  BY TupleFacts
<1>1. /\ \A k : P2pkhRun(k)[6] = one
      /\ \A k, m : m \in 10 .. 19 => (ClaimRun(m, k, s) <=> s = one)
      /\ \A k, t : RefundRun(19, k, t, s) <=> s = one
      /\ \A m : ~ (m <= Len(l[2]) + 2) => (MultisigRun(m, l, s) <=> s = one)
  BY P2pkhRunFacts, ClaimRunFacts, RefundRunFacts, MultisigRunFacts
<1> HIDE DEF one
<1> SUFFICES s = one
  BY <1>0, TruthyAppend, ElementFacts
<1>2. CASE l[1] = "p2pkh"
  <2>1. Len(LockScript(l)) = 5 /\ 5 + 1 = 6
    BY <1>2, LockScriptStack
  <2>2. s = P2pkhRun(l[2][1])[5 + 1]
    BY <1>2, <2>1, BuiltAtFacts
  <2> QED  BY <1>1, <2>1, <2>2
<1>3. CASE l[1] = "cltv"
  <2>1. CltvRun(8, l[2][1], l[4], s)
    BY <1>3, LockScriptStack, BuiltAtFacts
  <2>2. 5 \in 0 .. 5 /\ 8 = 5 + 3 /\ 5 + 1 = 6
    OBVIOUS
  <2>3. s = P2pkhRun(l[2][1])[5 + 1]
    BY <2>1, <2>2, CltvRunFacts
  <2> QED  BY <1>1, <2>2, <2>3
<1>4. CASE l[1] = "htlc"
  <2>1. ClaimRun(19, l[2][1], s) \/ RefundRun(19, l[2][2], l[4], s)
    BY <1>4, LockScriptStack, BuiltAtFacts
  <2>2. 19 \in 10 .. 19
    OBVIOUS
  <2> QED  BY <1>1, <2>1, <2>2
<1>5. CASE IsMultisig(l)
  <2>1. MultisigRun(Len(l[2]) + 3, l, s) /\ Len(l[2]) \in Nat
    BY <1>5, LockScriptStack, BuiltAtFacts, MultisigFacts
  <2>2. ~ (Len(l[2]) + 3 <= Len(l[2]) + 2)
    BY <2>1
  <2> QED  BY <1>1, <2>1, <2>2
<1>6. CASE l[1] = "op_return"
  BY <1>6, BuiltAtFacts
<1> QED  BY <1>2, <1>3, <1>4, <1>5, <1>6, KindFacts

-----------------------------------------------------------------------------
\* The builders' scripts

LEMMA ConcatTuples ==
  ASSUME NEW a, NEW b, NEW c, NEW d
  PROVE  <<a, b>> \o <<c, d>> = <<a, b, c, d>> /\ <<a, b>> \o <<c>> = <<a, b, c>>
<1> DEFINE S == {a, b, c, d}
           s == <<a, b>>
           t == <<c, d>>
           u == <<c>>
           v == <<a, b, c, d>>
           w == <<a, b, c>>
<1>1. s \in Seq(S) /\ Len(s) = 2 /\ s[1] = a /\ s[2] = b
  OBVIOUS
<1>2. t \in Seq(S) /\ Len(t) = 2 /\ t[1] = c /\ t[2] = d
  OBVIOUS
<1>3. u \in Seq(S) /\ Len(u) = 1 /\ u[1] = c
  OBVIOUS
<1>4. v \in Seq(S) /\ Len(v) = 4 /\ v[1] = a /\ v[2] = b /\ v[3] = c /\ v[4] = d
  OBVIOUS
<1>5. w \in Seq(S) /\ Len(w) = 3 /\ w[1] = a /\ w[2] = b /\ w[3] = c
  OBVIOUS
<1> HIDE DEF S, s, t, u, v, w
<1>6. IsStack(s) /\ IsStack(t) /\ IsStack(u) /\ IsStack(v) /\ IsStack(w)
  BY <1>1, <1>2, <1>3, <1>4, <1>5, SeqIsStack
<1>7. s \o t = v
  <2> DEFINE x == s \o t
  <2>1. Joined(s, t, x)
    BY <1>6, ConcatStack
  <2> HIDE DEF x
  <2>2. /\ IsStack(x) /\ Len(x) = 4 /\ \A i \in 1 .. 2 : x[i] = s[i]
        /\ \A i \in 1 .. 2 : x[2 + i] = t[i]
    BY <1>1, <1>2, <2>1 DEF Joined
  <2>3. x[1] = a /\ x[2] = b /\ x[3] = c /\ x[4] = d
    BY <1>1, <1>2, <2>2
  <2>4. \A i \in 1 .. 4 : x[i] = v[i]
    BY <1>4, <2>3
  <2>5. x = v
    BY <1>4, <1>6, <2>2, <2>4, StackEqual
  <2> QED  BY <2>5 DEF x
<1>8. s \o u = w
  <2> DEFINE x == s \o u
  <2>1. Joined(s, u, x)
    BY <1>6, ConcatStack
  <2> HIDE DEF x
  <2>2. /\ IsStack(x) /\ Len(x) = 3 /\ \A i \in 1 .. 2 : x[i] = s[i]
        /\ \A i \in 1 .. 1 : x[2 + i] = u[i]
    BY <1>1, <1>3, <2>1 DEF Joined
  <2>3. x[1] = a /\ x[2] = b /\ x[3] = c
    BY <1>1, <1>3, <2>2
  <2>4. \A i \in 1 .. 3 : x[i] = w[i]
    BY <1>5, <2>3
  <2>5. x = w
    BY <1>5, <1>6, <2>2, <2>4, StackEqual
  <2> QED  BY <2>5 DEF x
<1> QED  BY <1>7, <1>8 DEF s, t, u, v, w

LEMMA ScriptSigFacts ==
  ASSUME NEW k
  PROVE  LET g == Push(Sig(k))
             p == Push(Pub(k))
         IN  /\ p2pkh_script_sig(k) = <<g, p>>
             /\ htlc_claim_script_sig(k) = <<g, p, Push(Preimage), Push(Num(1))>>
             /\ htlc_refund_script_sig(k) = <<g, p, Push(Empty)>>
<1> DEFINE g == Push(Sig(k))
           p == Push(Pub(k))
           c == Push(Preimage)
           d == Push(Num(1))
           e == Push(Empty)
<1>1. p2pkh_script_sig(k) = <<g, p>>
  BY DEF p2pkh_script_sig
<1>2. htlc_claim_script_sig(k) = <<g, p>> \o <<c, d>> /\ htlc_refund_script_sig(k) = <<g, p>> \o <<e>>
  BY <1>1 DEF htlc_claim_script_sig, htlc_refund_script_sig
<1> HIDE DEF g, p, c, d, e
<1>3. <<g, p>> \o <<c, d>> = <<g, p, c, d>> /\ <<g, p>> \o <<e>> = <<g, p, e>>
  BY ConcatTuples
<1> QED  BY <1>1, <1>2, <1>3 DEF g, p, c, d, e

\* A script of pushes for which the stack has room
PushOnly(script) ==
  /\ IsStack(script) /\ Len(script) <= MaxStackDepth
  /\ \A i \in 1 .. Len(script) : \E e : script[i] = Push(e)

LEMMA PushTuples ==
  ASSUME NEW a, NEW b, NEW c, NEW d
  PROVE  /\ PushOnly(<<Push(a), Push(b)>>) /\ PushOnly(<<Push(a), Push(b), Push(c)>>)
         /\ PushOnly(<<Push(a), Push(b), Push(c), Push(d)>>)
<1> DEFINE p == Push(a)
           q == Push(b)
           r == Push(c)
           s == Push(d)
<1>1. MaxStackDepth \in Nat /\ MaxStackDepth >= 4
  BY ScriptAssumption
<1>2. (\E e : p = Push(e)) /\ (\E e : q = Push(e)) /\ (\E e : r = Push(e)) /\ (\E e : s = Push(e))
  OBVIOUS
<1> HIDE DEF p, q, r, s
<1>3. PushOnly(<<p, q>>)
  <2>1. IsStack(<<p, q>>)  BY TupleFacts
  <2>2. \A i \in 1 .. 2 : \E e : <<p, q>>[i] = Push(e)
    <3> SUFFICES ASSUME NEW i \in 1 .. 2 PROVE <<p, q>>[i] = p \/ <<p, q>>[i] = q
      BY <1>2
    <3> QED  OBVIOUS
  <2> QED  BY <1>1, <2>1, <2>2 DEF PushOnly
<1>4. PushOnly(<<p, q, r>>)
  <2>1. IsStack(<<p, q, r>>)  BY TupleFacts
  <2>2. \A i \in 1 .. 3 : \E e : <<p, q, r>>[i] = Push(e)
    <3> SUFFICES ASSUME NEW i \in 1 .. 3
                 PROVE  <<p, q, r>>[i] = p \/ <<p, q, r>>[i] = q \/ <<p, q, r>>[i] = r
      BY <1>2
    <3> QED  OBVIOUS
  <2> QED  BY <1>1, <2>1, <2>2 DEF PushOnly
<1>5. PushOnly(<<p, q, r, s>>)
  <2>1. IsStack(<<p, q, r, s>>)  BY TupleFacts
  <2>2. \A i \in 1 .. 4 : \E e : <<p, q, r, s>>[i] = Push(e)
    <3> SUFFICES ASSUME NEW i \in 1 .. 4
                 PROVE  \/ <<p, q, r, s>>[i] = p \/ <<p, q, r, s>>[i] = q
                        \/ <<p, q, r, s>>[i] = r \/ <<p, q, r, s>>[i] = s
      BY <1>2
    <3> QED  OBVIOUS
  <2> QED  BY <1>1, <2>1, <2>2 DEF PushOnly
<1> QED  BY <1>3, <1>4, <1>5 DEF p, q, r, s

LEMMA MultisigSigFacts ==
  ASSUME NEW l, NEW f, l[3] \in Nat
  PROVE  LET s == multisig_script_sig(l, f)
         IN  /\ IsStack(s) /\ Len(s) = l[3]
             /\ \A i \in 1 .. l[3] : s[i] = Push(Sig(l[2][f[i]]))
<1> DEFINE s == multisig_script_sig(l, f)
           S == {Push(Sig(l[2][f[i]])) : i \in 1 .. l[3]}
<1>1. s \in [1 .. l[3] -> S] /\ \A i \in 1 .. l[3] : s[i] = Push(Sig(l[2][f[i]]))
  BY DEF multisig_script_sig
<1> HIDE DEF s, S
<1>2. s \in Seq(S) /\ Len(s) = l[3]
  BY <1>1
<1> QED  BY <1>1, <1>2, SeqIsStack DEF s

LEMMA BuildersFacts ==
  ASSUME NEW l, IsLock(l), NEW script \in Builders(l)
  PROVE  /\ l[1] \in {"p2pkh", "cltv"} => script = p2pkh_script_sig(l[2][1])
         /\ l[1] = "htlc" => \/ MayClaim(l) /\ script = htlc_claim_script_sig(l[2][1])
                             \/ MayRefund(l) /\ script = htlc_refund_script_sig(l[2][2])
         /\ l[1] = "multisig" => \E f \in Signers(l) : script = multisig_script_sig(l, f)
         /\ l[1] = "p2sh" =>
              \E f \in Signers(l) : script = Append(multisig_script_sig(l, f), Push(Serialized(l)))
         /\ l[1] # "op_return"
<1>1. l[1] \in {"p2pkh", "cltv"} => script = p2pkh_script_sig(l[2][1])
  BY DEF Builders
<1>2. l[1] = "htlc" => \/ MayClaim(l) /\ script = htlc_claim_script_sig(l[2][1])
                       \/ MayRefund(l) /\ script = htlc_refund_script_sig(l[2][2])
  BY DEF Builders
<1>3. l[1] = "multisig" => \E f \in Signers(l) : script = multisig_script_sig(l, f)
  BY DEF Builders
<1>4. l[1] = "p2sh" =>
        \E f \in Signers(l) : script = Append(multisig_script_sig(l, f), Push(Serialized(l)))
  <2>1. CASE Len(l[2]) <= 7
    BY <2>1 DEF Builders
  <2>2. CASE ~ Len(l[2]) <= 7
    BY <2>2 DEF Builders
  <2> QED  BY <2>1, <2>2
<1>5. l[1] # "op_return"
  BY DEF Builders
<1> QED  BY <1>1, <1>2, <1>3, <1>4, <1>5

LEMMA BuildersPush ==
  ASSUME NEW l \in Lock, NEW script \in Builders(l)
  PROVE  PushOnly(script)
<1>1. IsLock(l) /\ l[3] + Len(l[2]) + 2 <= MaxStackDepth /\ MaxStackDepth \in Nat
  BY ScriptAssumption
<1>2. CASE l[1] \in {"p2pkh", "cltv"}
  <2> DEFINE g == Sig(l[2][1])
             p == Pub(l[2][1])
  <2>1. script = <<Push(g), Push(p)>>
    BY <1>1, <1>2, BuildersFacts, ScriptSigFacts
  <2> HIDE DEF g, p
  <2> QED  BY <2>1, PushTuples
<1>3. CASE l[1] = "htlc"
  <2> DEFINE a == l[2][1]
             b == l[2][2]
  <2>1. script = htlc_claim_script_sig(a) \/ script = htlc_refund_script_sig(b)
    BY <1>1, <1>3, BuildersFacts
  <2>2. ASSUME NEW k PROVE PushOnly(htlc_claim_script_sig(k)) /\ PushOnly(htlc_refund_script_sig(k))
    <3> DEFINE g == Sig(k)
               p == Pub(k)
               c == Preimage
               d == Num(1)
               e == Empty
    <3>1. /\ htlc_claim_script_sig(k) = <<Push(g), Push(p), Push(c), Push(d)>>
          /\ htlc_refund_script_sig(k) = <<Push(g), Push(p), Push(e)>>
      BY ScriptSigFacts
    <3> HIDE DEF g, p, c, d, e
    <3>2. PushOnly(<<Push(g), Push(p), Push(c), Push(d)>>)
      BY PushTuples
    <3>3. PushOnly(<<Push(g), Push(p), Push(e)>>)
      BY PushTuples
    <3> QED  BY <3>1, <3>2, <3>3
  <2> QED  BY <2>1, <2>2
<1>4. CASE IsMultisig(l)
  <2>1. l[3] \in Nat /\ Len(l[2]) \in Nat
    BY <1>4, MultisigFacts
  <2>2. PICK f \in Signers(l) : \/ script = multisig_script_sig(l, f)
                                 \/ script = Append(multisig_script_sig(l, f), Push(Serialized(l)))
    BY <1>1, <1>4, BuildersFacts DEF IsMultisig
  <2> DEFINE s == multisig_script_sig(l, f)
             a == Append(s, Push(Serialized(l)))
  <2>3. IsStack(s) /\ Len(s) = l[3] /\ \A i \in 1 .. l[3] : s[i] = Push(Sig(l[2][f[i]]))
    BY <2>1, MultisigSigFacts
  <2> HIDE DEF s
  <2>4. /\ IsStack(a) /\ Len(a) = l[3] + 1 /\ a[l[3] + 1] = Push(Serialized(l))
        /\ \A i \in 1 .. l[3] : a[i] = s[i]
    BY <2>3, AppendStack
  <2> HIDE DEF a
  <2>5. PushOnly(s)
    BY <1>1, <2>1, <2>3 DEF PushOnly
  <2>6. \A i \in 1 .. l[3] + 1 : \E e : a[i] = Push(e)
    <3> SUFFICES ASSUME NEW i \in 1 .. l[3] + 1 PROVE \E e : a[i] = Push(e)
      OBVIOUS
    <3>1. CASE i = l[3] + 1  BY <2>4, <3>1
    <3>2. CASE i \in 1 .. l[3]  BY <2>3, <2>4, <3>2
    <3> QED  BY <2>1, <3>1, <3>2
  <2>7. PushOnly(a)
    BY <1>1, <2>1, <2>4, <2>6 DEF PushOnly
  <2> QED  BY <2>2, <2>5, <2>7 DEF s, a
<1> QED  BY <1>1, <1>2, <1>3, <1>4, BuildersFacts, KindFacts

\* A stack that holds exactly a script of pushes
LEMMA PushedAll ==
  ASSUME NEW script, NEW s, IsStack(script), IsStack(s), Len(s) = Len(script),
         Pushed(script, Len(script), s)
  PROVE  \A i \in 1 .. Len(script) : script[i] = Push(s[i])
<1>1. Len(s) \in Nat /\ \A i \in 1 .. Len(s) : Len(s) - Len(s) + i = i
  BY StackFacts
<1> QED  BY <1>1 DEF Pushed

\* What the builders' scripts leave for the lock
LEMMA BuiltStart ==
  ASSUME NEW l \in Lock, Opens(l), NEW script \in Builders(l), IsStack(stack),
         Len(stack) = Len(script), Pushed(script, Len(script), stack)
  PROVE  /\ l[1] # "p2sh" => BuiltAt(0, l, stack, << >>)
         /\ l[1] = "p2sh" => /\ stack # << >> /\ Top(0) = Serialized(l)
                             /\ IsStack(Pop(1)) /\ BuiltAt(0, l, Pop(1), << >>)
<1>1. IsLock(l)
  BY ScriptAssumption
<1>2. IsStack(script)
  BY BuildersPush DEF PushOnly
<1>3. \A i \in 1 .. Len(script) : script[i] = Push(stack[i])
  BY <1>2, PushedAll
<1>4. \A e, f : Push(e) = Push(f) => e = f
  BY ElementFacts
<1>5. ASSUME NEW a, NEW b, script = <<Push(a), Push(b)>> PROVE stack = <<a, b>>
  <2>1. Len(script) = 2 /\ script[1] = Push(a) /\ script[2] = Push(b)
    BY <1>5
  <2>2. IsStack(<<a, b>>) /\ Len(<<a, b>>) = 2
    BY TupleFacts
  <2>3. stack[1] = a /\ stack[2] = b
    BY <1>3, <1>4, <2>1
  <2>4. \A i \in 1 .. 2 : stack[i] = <<a, b>>[i]
    BY <2>3
  <2> QED  BY <2>1, <2>2, <2>4, StackEqual
<1>6. ASSUME NEW a, NEW b, NEW c, script = <<Push(a), Push(b), Push(c)>> PROVE stack = <<a, b, c>>
  <2>1. Len(script) = 3 /\ script[1] = Push(a) /\ script[2] = Push(b) /\ script[3] = Push(c)
    BY <1>6
  <2>2. IsStack(<<a, b, c>>) /\ Len(<<a, b, c>>) = 3
    BY TupleFacts
  <2>3. stack[1] = a /\ stack[2] = b /\ stack[3] = c
    BY <1>3, <1>4, <2>1
  <2>4. \A i \in 1 .. 3 : stack[i] = <<a, b, c>>[i]
    BY <2>3
  <2> QED  BY <2>1, <2>2, <2>4, StackEqual
<1>7. ASSUME NEW a, NEW b, NEW c, NEW d, script = <<Push(a), Push(b), Push(c), Push(d)>>
      PROVE  stack = <<a, b, c, d>>
  <2>1. /\ Len(script) = 4 /\ script[1] = Push(a) /\ script[2] = Push(b) /\ script[3] = Push(c)
        /\ script[4] = Push(d)
    BY <1>7
  <2>2. IsStack(<<a, b, c, d>>) /\ Len(<<a, b, c, d>>) = 4
    BY TupleFacts
  <2>3. stack[1] = a /\ stack[2] = b /\ stack[3] = c /\ stack[4] = d
    BY <1>3, <1>4, <2>1
  <2>4. \A i \in 1 .. 4 : stack[i] = <<a, b, c, d>>[i]
    BY <2>3
  <2> QED  BY <2>1, <2>2, <2>4, StackEqual
<1>8. CASE l[1] \in {"p2pkh", "cltv"}
  <2> DEFINE k == l[2][1]
  <2>1. script = <<Push(Sig(k)), Push(Pub(k))>>
    BY <1>1, <1>8, BuildersFacts, ScriptSigFacts
  <2>2. stack = <<Sig(k), Pub(k)>>
    BY <1>5, <2>1
  <2>3. stack = P2pkhRun(k)[0 + 1] /\ CltvRun(0, k, l[4], stack)
    BY <2>2, P2pkhRunFacts, CltvRunFacts
  <2>4. l[1] = "cltv" => height >= l[4]
    BY DEF Opens
  <2> QED  BY <1>8, <2>3, <2>4, BuiltAtFacts
<1>9. CASE l[1] = "htlc"
  <2>1. CASE MayClaim(l) /\ script = htlc_claim_script_sig(l[2][1])
    <3> DEFINE k == l[2][1]
    <3>1. script = <<Push(Sig(k)), Push(Pub(k)), Push(Preimage), Push(Num(1))>>
      BY <2>1, ScriptSigFacts
    <3>2. stack = <<Sig(k), Pub(k), Preimage, Num(1)>>
      BY <1>7, <3>1
    <3>3. ClaimRun(0, k, stack) /\ << >> = ClaimIf(0)
      BY <3>2, ClaimRunFacts, BranchAt
    <3> QED  BY <1>9, <3>3, BuiltAtFacts
  <2>2. CASE MayRefund(l) /\ script = htlc_refund_script_sig(l[2][2])
    <3> DEFINE k == l[2][2]
    <3>1. script = <<Push(Sig(k)), Push(Pub(k)), Push(Empty)>>
      BY <2>2, ScriptSigFacts
    <3>2. stack = <<Sig(k), Pub(k), Empty>>
      BY <1>6, <3>1
    <3>3. RefundRun(0, k, l[4], stack) /\ << >> = RefundIf(0) /\ height >= l[4]
      BY <2>2, <3>2, RefundRunFacts, BranchAt DEF MayRefund
    <3> QED  BY <1>9, <3>3, BuiltAtFacts
  <2> QED  BY <1>1, <1>9, <2>1, <2>2, BuildersFacts
<1>10. CASE IsMultisig(l)
  <2> DEFINE m == l[3]
  <2>1. m \in Nat /\ Len(l[2]) \in Nat /\ m >= 1
    BY <1>10, MultisigFacts
  <2>2. ASSUME NEW s, IsStack(s), Len(s) = m, SignedBy(l, s) PROVE BuiltAt(0, l, s, << >>)
    <3>1. Pushed(Redeem(l), 0, s)
      BY <2>1, <2>2 DEF Pushed
    <3>2. 0 <= Len(l[2]) + 2 /\ Len(s) = m + 0
      BY <2>1, <2>2
    <3>3. MultisigRun(0, l, s)
      BY <2>2, <3>1, <3>2, MultisigRunFacts
    <3> QED  BY <1>10, <3>3, BuiltAtFacts
  <2>3. CASE l[1] = "multisig"
    <3>1. PICK f \in Signers(l) : script = multisig_script_sig(l, f)
      BY <1>1, <2>3, BuildersFacts
    <3>2. Len(script) = m /\ \A i \in 1 .. m : script[i] = Push(Sig(l[2][f[i]]))
      BY <2>1, <3>1, MultisigSigFacts
    <3>3. \A i \in 1 .. m : stack[i] = Sig(l[2][f[i]])
      BY <1>3, <1>4, <3>2
    <3>4. SignedBy(l, stack)
      BY <3>3 DEF SignedBy
    <3> QED  BY <2>2, <2>3, <3>2, <3>4
  <2>4. CASE l[1] = "p2sh"
    <3>1. PICK f \in Signers(l) : script = Append(multisig_script_sig(l, f), Push(Serialized(l)))
      BY <1>1, <2>4, BuildersFacts
    <3> DEFINE s == multisig_script_sig(l, f)
    <3>2. IsStack(s) /\ Len(s) = m /\ \A i \in 1 .. m : s[i] = Push(Sig(l[2][f[i]]))
      BY <2>1, MultisigSigFacts
    <3> HIDE DEF s
    <3>3. /\ Len(script) = m + 1 /\ script[m + 1] = Push(Serialized(l))
          /\ \A i \in 1 .. m : script[i] = s[i]
      BY <3>1, <3>2, AppendStack DEF s
    <3>4. m + 1 \in 1 .. m + 1 /\ \A i \in 1 .. m : i \in 1 .. m + 1
      BY <2>1
    <3>5. \A i \in 1 .. m : stack[i] = Sig(l[2][f[i]])
      BY <1>3, <1>4, <3>2, <3>3, <3>4
    <3>6. stack[m + 1] = Serialized(l)
      BY <1>3, <1>4, <3>3, <3>4
    <3>7. Len(stack) = m + 1 /\ Len(stack) - 0 = m + 1 /\ Len(stack) - 1 = m
      BY <2>1, <3>3
    <3>8. stack # << >> /\ Top(0) = Serialized(l)
      BY <2>1, <3>6, <3>7, StackFacts DEF Top
    <3>9. 1 \in 0 .. Len(stack)
      BY <2>1, <3>7
    <3>10. IsStack(Pop(1)) /\ Len(Pop(1)) = m /\ \A i \in 1 .. m : Pop(1)[i] = stack[i]
      BY <3>7, <3>9, PopStack DEF Pop
    <3>11. SignedBy(l, Pop(1))
      BY <3>5, <3>10 DEF SignedBy
    <3> QED  BY <2>2, <2>4, <3>8, <3>10, <3>11
  <2> QED  BY <1>10, <2>3, <2>4 DEF IsMultisig
<1> QED  BY <1>1, <1>8, <1>9, <1>10, BuildersFacts, KindFacts

-----------------------------------------------------------------------------
\* What is known of a stack does not change while the spender and the height do not.

Same == spender' = spender /\ height' = height

LEMMA SameHolders ==
  ASSUME Same
  PROVE  /\ \A e : Owned(e)' <=> Owned(e)
         /\ Held(lock)' = Held(lock')
         /\ MayClaim(lock)' <=> MayClaim(lock')
         /\ MayRefund(lock)' <=> MayRefund(lock')
         /\ Opens(lock)' <=> Opens(lock')
<1>1. \A e : Owned(e)' <=> Owned(e)
  BY DEF Same, Owned
<1>2. Held(lock)' = Held(lock')
  BY DEF Same, Held
<1>3. MayClaim(lock)' <=> MayClaim(lock')
  BY DEF Same, MayClaim
<1>4. MayRefund(lock)' <=> MayRefund(lock')
  BY DEF Same, MayRefund
<1>5. Opens(lock)' <=> Opens(lock')
  BY <1>2, <1>3, <1>4, Zenon DEF Same, Opens
<1> QED  BY <1>1, <1>2, <1>3, <1>4, <1>5

LEMMA SameBuilt ==
  ASSUME Same, NEW n
  PROVE  BuiltAt(n, lock, stack, if_stack)' <=> BuiltAt(n, lock', stack', if_stack')
<1>1. Signers(lock)' = Signers(lock')
  BY SameHolders, Zenon DEF Signers
<1>2. MultisigRun(n, lock, stack)' <=> MultisigRun(n, lock', stack')
  BY <1>1, Zenon DEF MultisigRun
<1> QED  BY <1>2, Zenon DEF BuiltAt, Same

LEMMA SameBuilders ==
  ASSUME Same
  PROVE  Builders(lock)' = Builders(lock')
<1>1. Signers(lock)' = Signers(lock')
  BY SameHolders, Zenon DEF Signers
<1> QED  BY <1>1, SameHolders, Zenon DEF Builders

LEMMA SameSafe ==
  ASSUME Same, NEW n, IsLock(lock')
  PROVE  SafeAt(n, lock, stack, if_stack)' <=> SafeAt(n, lock', stack', if_stack')
<1>1. \A m, k : P2pkhAt(m, k, stack)' <=> P2pkhAt(m, k, stack')
  BY Zenon DEF P2pkhAt, Same
<1>2. \A m, k, h : CltvAt(m, k, h, stack)' <=> CltvAt(m, k, h, stack')
  BY <1>1, Zenon DEF CltvAt, Same
<1>3. \A m, k : ClaimAt(m, k, stack)' <=> ClaimAt(m, k, stack')
  BY <1>1, Zenon DEF ClaimAt, Same
<1>4. HtlcAt(n, lock, stack, if_stack)' <=> HtlcAt(n, lock', stack', if_stack')
  BY <1>2, <1>3, SameHolders, Zenon DEF HtlcAt
<1>5. MultisigAt(n, lock, stack)' <=> MultisigAt(n, lock', stack')
  BY SameHolders, Zenon DEF MultisigAt
<1>6. CASE lock'[1] = "p2pkh"
  BY <1>1, <1>6, Zenon DEF SafeAt
<1>7. CASE lock'[1] = "cltv"
  BY <1>2, <1>7, Zenon DEF SafeAt
<1>8. CASE lock'[1] = "htlc"
  BY <1>4, <1>8, Zenon DEF SafeAt
<1>9. CASE lock'[1] \in {"multisig", "p2sh"}
  BY <1>5, <1>9, Zenon DEF SafeAt
<1>10. CASE lock'[1] = "op_return"
  BY <1>10, Zenon DEF SafeAt
<1> QED  BY <1>6, <1>7, <1>8, <1>9, <1>10, Zenon DEF IsLock

LEMMA SameOwned ==
  ASSUME Same
  PROVE  AllOwned(stack)' <=> AllOwned(stack')
BY SameHolders, Zenon DEF AllOwned

-----------------------------------------------------------------------------
\* The invariant

LEMMA EmptyStack ==
  /\ IsStack(<< >>) /\ AllOwned(<< >>) /\ Len(<< >>) = 0
  /\ \A script : Pushed(script, 0, << >>)
  /\ \A script : IsStack(script) => Len(script) \in Nat /\ From(script, 0) = script
<1>0. << >> \in Seq({})
  OBVIOUS
<1>1. IsStack(<< >>) /\ Len(<< >>) = 0
  BY <1>0, SeqIsStack
<1>2. AllOwned(<< >>) /\ \A script : Pushed(script, 0, << >>)
  BY <1>1, StackFacts DEF AllOwned, Pushed
<1>3. ASSUME NEW script, IsStack(script) PROVE Len(script) \in Nat /\ From(script, 0) = script
  <2> DEFINE n == Len(script)
             p == SubSeq(script, 1, 1 + n - 1)
  <2>1. n \in Nat /\ 1 \in 1 .. n + 1 /\ 1 + n - 1 <= n /\ 1 + n - 1 = n /\ 0 + 1 = 1
    BY <1>3, StackFacts
  <2>2. IsStack(p) /\ Len(p) = n /\ \A i \in 1 .. n : p[i] = script[1 + i - 1]
    BY <1>3, <2>1, SliceStack
  <2>3. \A i \in 1 .. n : p[i] = script[i]
    BY <2>1, <2>2
  <2>4. p = script
    BY <1>3, <2>2, <2>3, StackEqual
  <2>5. From(script, 0) = p
    BY <2>1 DEF From
  <2> QED  BY <2>1, <2>4, <2>5
<1> QED  BY <1>1, <1>2, <1>3

LEMMA InitInv ==
  ASSUME Init
  PROVE  ScriptInv
<1>1. ScriptTypeOK
  BY EmptyStack DEF Init, ScriptTypeOK
<1>2. LockInv /\ DoneInv
  BY DEF Init, LockInv, DoneInv
<1>3. built => lock \in Lock /\ Opens(lock)
  BY DEF Init
<1>4. CASE built
  <2>1. rest \in Builders(lock) /\ lock \in Lock /\ stack = << >> /\ if_stack = << >>
    BY <1>4 DEF Init
  <2>2. IsStack(rest)
    BY <2>1, BuildersPush DEF PushOnly
  <2>3. Len(rest) \in Nat /\ rest = From(rest, 0)
    BY <2>2, EmptyStack
  <2>4. Len(stack) = 0 /\ Pushed(rest, 0, stack)
    BY <2>1, EmptyStack
  <2>5. 0 \in 0 .. Len(rest)
    BY <2>3
  <2>6. SigInv
    BY <1>4, <2>1, <2>3, <2>4, <2>5 DEF SigInv
  <2> QED  BY <1>1, <1>2, <1>3, <2>6 DEF ScriptInv
<1>5. CASE ~ built
  <2>1. SigInv
    BY <1>5, EmptyStack DEF Init, SigInv
  <2> QED  BY <1>1, <1>2, <1>5, <2>1 DEF ScriptInv
<1> QED  BY <1>4, <1>5

\* An error is a correct end for a script that the builders did not make.
LEMMA FailInv ==
  ASSUME ScriptInv, ~ built, Fail
  PROVE  ScriptInv'
<1>1. /\ spender' = spender /\ height' = height /\ lock' = lock /\ built' = built
      /\ phase' = "done" /\ result' = "error" /\ rest' = << >> /\ stack' = << >> /\ read' = 0
  BY DEF Fail, inputs
<1>2. IsStack(stack)'
  BY <1>1, EmptyStack DEF IsStack
<1>3. ScriptTypeOK'
  BY <1>1, <1>2 DEF ScriptInv, ScriptTypeOK
<1>4. SigInv' /\ LockInv'
  BY <1>1 DEF SigInv, LockInv
<1>5. DoneInv'
  BY <1>1 DEF DoneInv, OpensOnlyForOwner, OwnerOpens
<1> QED  BY <1>1, <1>3, <1>4, <1>5 DEF ScriptInv

\* What every step leaves alone that goes on
LEMMA ContinueFacts ==
  ASSUME ScriptInv, phase \in {"sig", "lock"}, NEW s, NEW ifs, Continue(s, ifs), IsStack(s)
  PROVE  /\ Same /\ lock' = lock /\ built' = built /\ phase' = phase
         /\ stack' = s /\ if_stack' = ifs /\ Consume
         /\ ScriptTypeOK' /\ DoneInv' /\ (built' => lock' \in Lock /\ Opens(lock)')
<1>1. /\ Same /\ lock' = lock /\ built' = built /\ phase' = phase
      /\ stack' = s /\ if_stack' = ifs /\ Consume /\ result' = result
      /\ spender' = spender /\ height' = height
  BY DEF Continue, inputs, Same
<1>2. read' \in Nat
  BY <1>1 DEF Consume, ScriptInv, ScriptTypeOK
<1>3. IsStack(stack)'
  BY <1>1 DEF IsStack
<1>4. ScriptTypeOK'
  BY <1>1, <1>2, <1>3 DEF ScriptInv, ScriptTypeOK
<1>5. DoneInv'
  BY <1>1 DEF ScriptInv, DoneInv
<1>6. built' => lock' \in Lock /\ Opens(lock)'
  BY <1>1, SameHolders DEF ScriptInv
<1> QED  BY <1>1, <1>4, <1>5, <1>6

\* A token of a lock
LEMMA LockTokenInv ==
  ASSUME ScriptInv, phase = "lock", NEW t \in Available, Execute(t)
  PROVE  ScriptInv'
<1> DEFINE script == LockScript(lock)
<1>1. /\ IsStack(stack) /\ lock \in Lock /\ height \in Nat
      /\ \E n \in 0 .. Len(script) :
           /\ rest = From(script, n)
           /\ IF built THEN BuiltAt(n, lock, stack, if_stack)
              ELSE AllOwned(stack) /\ SafeAt(n, lock, stack, if_stack)
  BY ScriptAssumption DEF ScriptInv, ScriptTypeOK, LockInv
<1>2. PICK n \in 0 .. Len(script) :
        /\ rest = From(script, n)
        /\ IF built THEN BuiltAt(n, lock, stack, if_stack)
           ELSE AllOwned(stack) /\ SafeAt(n, lock, stack, if_stack)
  BY <1>1
<1>3. IsLock(lock) /\ IsStack(script) /\ Len(script) \in Nat
  BY <1>1, ScriptAssumption, LockScriptStack
<1>4. rest # << >> /\ t = Head(rest)
  BY DEF Available
<1>5. n \in Nat /\ n < Len(script) /\ n + 1 \in 0 .. Len(script)
  BY <1>2, <1>3, <1>4, RestFacts
<1>6. t = script[n + 1] /\ Tail(rest) = From(script, n + 1)
  BY <1>2, <1>3, <1>4, <1>5, RestFacts
<1> HIDE DEF script
<1>7. ASSUME NEW s, NEW ifs, Continue(s, ifs), IsStack(s),
             IF built THEN BuiltAt(n + 1, lock, s, ifs)
             ELSE AllOwned(s) /\ SafeAt(n + 1, lock, s, ifs)
      PROVE  ScriptInv'
  <2>1. /\ Same /\ lock' = lock /\ built' = built /\ phase' = phase
        /\ stack' = s /\ if_stack' = ifs /\ Consume
        /\ ScriptTypeOK' /\ DoneInv' /\ (built' => lock' \in Lock /\ Opens(lock)')
    BY <1>7, ContinueFacts
  <2>2. rest' = From(script, n + 1)
    BY <1>4, <1>6, <2>1 DEF Consume
  <2>3. SigInv'
    BY <2>1 DEF SigInv
  <2>4. IF built' THEN BuiltAt(n + 1, lock, stack, if_stack)'
        ELSE AllOwned(stack)' /\ SafeAt(n + 1, lock, stack, if_stack)'
    <3>1. CASE built
      <4>1. BuiltAt(n + 1, lock', stack', if_stack')
        BY <1>7, <2>1, <3>1
      <4> QED  BY <2>1, <3>1, <4>1, SameBuilt
    <3>2. CASE ~ built
      <4>1. AllOwned(stack') /\ SafeAt(n + 1, lock', stack', if_stack') /\ IsLock(lock')
        BY <1>3, <1>7, <2>1, <3>2
      <4> QED  BY <2>1, <3>2, <4>1, SameSafe, SameOwned
    <3> QED  BY <3>1, <3>2
  <2>5. LockInv'
    <3>1. LockScript(lock)' = script
      BY <2>1 DEF script, LockScript, Redeem, Tokens
    <3> QED  BY <1>1, <1>5, <2>1, <2>2, <2>4, <3>1 DEF LockInv
  <2> QED  BY <2>1, <2>3, <2>5 DEF ScriptInv
<1>8. CASE built
  <2>1. \E s, ifs : Continue(s, ifs) /\ IsStack(s) /\ BuiltAt(n + 1, lock, s, ifs)
    BY <1>1, <1>2, <1>5, <1>6, <1>8, BuiltStep DEF script
  <2>2. PICK s, ifs : Continue(s, ifs) /\ IsStack(s) /\ BuiltAt(n + 1, lock, s, ifs)
    BY <2>1
  <2> QED  BY <1>7, <1>8, <2>2
<1>9. CASE ~ built
  <2>1. Fail \/ \E s, ifs : /\ Continue(s, ifs) /\ IsStack(s) /\ AllOwned(s)
                            /\ SafeAt(n + 1, lock, s, ifs)
    BY <1>1, <1>2, <1>3, <1>5, <1>6, <1>9, SafeStep DEF script
  <2>2. CASE Fail
    BY <1>9, <2>2, FailInv
  <2>3. CASE ~ Fail
    <3>1. PICK s, ifs : /\ Continue(s, ifs) /\ IsStack(s) /\ AllOwned(s)
                        /\ SafeAt(n + 1, lock, s, ifs)
      BY <2>1, <2>3
    <3> QED  BY <1>7, <1>9, <3>1
  <2> QED  BY <2>2, <2>3
<1> QED  BY <1>8, <1>9

\* What the spender can write is what the spender has.
LEMMA WritableOwned ==
  ASSUME NEW t \in Writable
  PROVE  t[1] = "push" => Owned(t[2])
<1> DEFINE W == {Empty, Num(1)} \cup {Pub(k) : k \in Key}
                  \cup {Sha256(Preimage)} \cup {Hash160(Pub(k)) : k \in Key}
                  \cup {OldSig(k) : k \in Key}
                  \cup {Sig(k) : k \in spender.keys}
                  \cup {e \in {Preimage} : spender.preimage}
                  \cup {Serialized(l) : l \in {l \in Lock : l[1] = "p2sh"}}
<1>1. ASSUME NEW e \in W PROVE Owned(e)
  <2>1. \A k \in spender.keys : Owned(Sig(k))
    BY DEF Owned, Sig
  <2>2. spender.preimage => Owned(Preimage)
    BY DEF Owned, Preimage
  <2> QED  BY <1>1, <2>1, <2>2, PublicFacts
<1>2. (\E name \in Opcodes : t = Op(name)) \/ (\E e \in W : t = Push(e))
  BY DEF Writable
<1> HIDE DEF W
<1>3. CASE \E name \in Opcodes : t = Op(name)
  BY <1>3 DEF Op
<1>4. CASE \E e \in W : t = Push(e)
  BY <1>1, <1>4, ElementFacts
<1> QED  BY <1>2, <1>3, <1>4

\* A token of an unlocking script that the builders did not make
LEMMA AnySigTokenInv ==
  ASSUME ScriptInv, phase = "sig", ~ built, NEW t \in Available, Execute(t)
  PROVE  ScriptInv'
<1>1. rest = << >> /\ AllOwned(stack) /\ IsStack(stack)
  BY DEF ScriptInv, ScriptTypeOK, SigInv
<1>2. t \in Writable
  BY <1>1 DEF Available
<1>3. t[1] = "push" => Owned(t[2])
  BY <1>2, WritableOwned
<1>4. Keeps
  BY <1>1, <1>3, OwnedStep
<1>5. CASE Fail
  BY <1>5, FailInv
<1>6. CASE ~ Fail
  <2>1. PICK s, ifs : Continue(s, ifs) /\ IsStack(s) /\ AllOwned(s)
    BY <1>4, <1>6 DEF Keeps
  <2>2. /\ Same /\ lock' = lock /\ built' = built /\ phase' = phase /\ stack' = s /\ Consume
        /\ ScriptTypeOK' /\ DoneInv' /\ (built' => lock' \in Lock /\ Opens(lock)')
    BY <2>1, ContinueFacts
  <2>3. rest' = << >>
    BY <1>1, <2>2 DEF Consume
  <2>4. AllOwned(stack)'
    BY <2>1, <2>2, SameOwned
  <2>5. SigInv' /\ LockInv'
    BY <2>2, <2>3, <2>4 DEF SigInv, LockInv
  <2> QED  BY <2>2, <2>5 DEF ScriptInv
<1> QED  BY <1>5, <1>6

\* A token of an unlocking script of the builders
LEMMA BuiltSigTokenInv ==
  ASSUME ScriptInv, phase = "sig", built, NEW t \in Available, Execute(t)
  PROVE  ScriptInv'
<1>1. /\ IsStack(stack) /\ lock \in Lock /\ if_stack = << >>
      /\ \E script \in Builders(lock) : \E n \in 0 .. Len(script) :
           rest = From(script, n) /\ Len(stack) = n /\ Pushed(script, n, stack)
  BY DEF ScriptInv, ScriptTypeOK, SigInv
<1>2. PICK script \in Builders(lock) : \E n \in 0 .. Len(script) :
        rest = From(script, n) /\ Len(stack) = n /\ Pushed(script, n, stack)
  BY <1>1
<1>3. PICK n \in 0 .. Len(script) :
        rest = From(script, n) /\ Len(stack) = n /\ Pushed(script, n, stack)
  BY <1>2
<1>4. /\ IsStack(script) /\ Len(script) \in Nat /\ Len(script) <= MaxStackDepth
      /\ \A i \in 1 .. Len(script) : \E e : script[i] = Push(e)
  BY <1>1, BuildersPush, StackFacts DEF PushOnly
<1>5. rest # << >> /\ t = Head(rest)
  BY DEF Available
<1>6. n \in Nat /\ n < Len(script) /\ n + 1 \in 1 .. Len(script)
  BY <1>3, <1>4, <1>5, RestFacts
<1>7. t = script[n + 1] /\ Tail(rest) = From(script, n + 1)
  BY <1>3, <1>4, <1>5, <1>6, RestFacts
<1>8. PICK e : script[n + 1] = Push(e)
  BY <1>4, <1>6
<1>9. Continue(Append(stack, e), if_stack)
  <2>1. t[1] = "push" /\ t[2] = e
    BY <1>7, <1>8, ElementFacts
  <2>2. PushData(t)
    BY <2>1, Dispatch
  <2>3. executing
    BY <1>1, BranchFacts
  <2>4. Room
    BY <1>3, <1>4, <1>6, ScriptAssumption DEF Room
  <2> QED  BY <2>1, <2>2, <2>3, <2>4 DEF PushData
<1>10. IsStack(Append(stack, e)) /\ Len(Append(stack, e)) = n + 1
  BY <1>1, <1>3, AppendStack
<1>11. Pushed(script, n + 1, Append(stack, e))
  BY <1>1, <1>3, <1>6, <1>8, PushedAppend
<1>12. /\ Same /\ lock' = lock /\ built' = built /\ phase' = phase
       /\ stack' = Append(stack, e) /\ if_stack' = if_stack /\ Consume
       /\ ScriptTypeOK' /\ DoneInv' /\ (built' => lock' \in Lock /\ Opens(lock)')
  BY <1>9, <1>10, ContinueFacts
<1>13. rest' = From(script, n + 1)
  BY <1>5, <1>7, <1>12 DEF Consume
<1>14. Len(stack') = n + 1 /\ Pushed(script, n + 1, stack') /\ n + 1 \in 0 .. Len(script)
  BY <1>6, <1>10, <1>11, <1>12
<1>15. Builders(lock)' = Builders(lock')
  BY <1>12, SameBuilders
<1>16. SigInv' /\ LockInv'
  BY <1>1, <1>12, <1>13, <1>14, <1>15 DEF SigInv, LockInv
<1> QED  BY <1>12, <1>16 DEF ScriptInv

\* The locking script starts on the stack that the unlocking script left.
LEMMA StartInv ==
  ASSUME ScriptInv, phase = "sig", EndOfSig, phase' = "lock", NEW s, IsStack(s),
         stack' = s, if_stack' = << >>, rest' = LockScript(lock'), result' = result,
         IF built THEN BuiltAt(0, lock', s, << >>) ELSE AllOwned(s)
  PROVE  ScriptInv'
<1>1. /\ spender' = spender /\ height' = height /\ built' = built /\ read' = 0 /\ Same
      /\ lock' \in IF built THEN {lock} ELSE Lock
  BY DEF EndOfSig, Same
<1>2. lock' \in Lock /\ IsLock(lock')
  BY <1>1, ScriptAssumption DEF ScriptInv
<1>3. ScriptTypeOK'
  <2>1. IsStack(stack)'
    BY DEF IsStack
  <2> QED  BY <1>1, <1>2, <2>1 DEF ScriptInv, ScriptTypeOK
<1>4. SigInv' /\ DoneInv'
  BY DEF ScriptInv, SigInv, DoneInv
<1>5. built' => lock' \in Lock /\ Opens(lock)'
  BY <1>1, <1>2, SameHolders DEF ScriptInv
<1>6. IF built' THEN BuiltAt(0, lock, stack, if_stack)'
      ELSE AllOwned(stack)' /\ SafeAt(0, lock, stack, if_stack)'
  <2>1. CASE built
    <3>1. BuiltAt(0, lock', stack', if_stack')
      BY <2>1
    <3> QED  BY <1>1, <2>1, <3>1, SameBuilt
  <2>2. CASE ~ built
    <3>1. AllOwned(stack') /\ SafeAt(0, lock', stack', if_stack')
      BY <1>2, <2>2, SafeStart
    <3> QED  BY <1>1, <1>2, <2>2, <3>1, SameSafe, SameOwned
  <2> QED  BY <2>1, <2>2
<1>7. LockInv'
  <2>1. IsStack(LockScript(lock'))
    BY <1>2, LockScriptStack
  <2>2. 0 \in 0 .. Len(LockScript(lock')) /\ rest' = From(LockScript(lock'), 0)
    BY <2>1, EmptyStack
  <2>3. LockScript(lock)' = LockScript(lock')
    BY DEF LockScript, Redeem, Tokens
  <2> QED  BY <1>2, <1>6, <2>2, <2>3 DEF LockInv
<1> QED  BY <1>3, <1>4, <1>5, <1>7 DEF ScriptInv

LEMMA EndOfSigInv ==
  ASSUME ScriptInv, EndOfSig
  PROVE  ScriptInv'
<1>1. /\ phase = "sig" /\ rest = << >> /\ IsStack(stack) /\ read' = 0
      /\ spender' = spender /\ height' = height /\ built' = built
      /\ lock' \in IF built THEN {lock} ELSE Lock
  BY DEF EndOfSig, ScriptInv, ScriptTypeOK
<1>2. built => /\ lock' \in Lock /\ Opens(lock')
               /\ lock'[1] # "p2sh" => BuiltAt(0, lock', stack, << >>)
               /\ lock'[1] = "p2sh" => /\ stack # << >> /\ Top(0) = Serialized(lock')
                                       /\ IsStack(Pop(1)) /\ BuiltAt(0, lock', Pop(1), << >>)
  <2> SUFFICES ASSUME built
               PROVE  /\ lock \in Lock /\ Opens(lock)
                      /\ lock[1] # "p2sh" => BuiltAt(0, lock, stack, << >>)
                      /\ lock[1] = "p2sh" => /\ stack # << >> /\ Top(0) = Serialized(lock)
                                             /\ IsStack(Pop(1)) /\ BuiltAt(0, lock, Pop(1), << >>)
    BY <1>1
  <2>1. /\ lock \in Lock /\ Opens(lock)
        /\ \E script \in Builders(lock) : \E n \in 0 .. Len(script) :
             rest = From(script, n) /\ Len(stack) = n /\ Pushed(script, n, stack)
    BY <1>1 DEF ScriptInv, SigInv
  <2>2. PICK script \in Builders(lock) : \E n \in 0 .. Len(script) :
          rest = From(script, n) /\ Len(stack) = n /\ Pushed(script, n, stack)
    BY <2>1
  <2>3. IsStack(script)
    BY <2>1, BuildersPush DEF PushOnly
  <2>4. Len(stack) = Len(script) /\ Pushed(script, Len(script), stack)
    BY <1>1, <2>2, <2>3, RestFacts
  <2> QED  BY <1>1, <2>1, <2>4, BuiltStart
<1>3. ~ built => AllOwned(stack)
  BY <1>1 DEF ScriptInv, SigInv
<1>4. lock' \in Lock
  BY <1>1, <1>2
<1>5. CASE lock'[1] # "p2sh"
  <2>1. /\ phase' = "lock" /\ rest' = Tokens(lock') /\ if_stack' = << >>
        /\ stack' = stack /\ result' = result
    BY <1>5 DEF EndOfSig
  <2>2. rest' = LockScript(lock')
    BY <1>5, <2>1 DEF LockScript
  <2> QED  BY <1>1, <1>2, <1>3, <1>5, <2>1, <2>2, StartInv
<1>6. CASE lock'[1] = "p2sh" /\ stack # << >> /\ Top(0) = Serialized(lock')
  <2>1. /\ phase' = "lock" /\ rest' = Redeem(lock') /\ if_stack' = << >>
        /\ stack' = Pop(1) /\ result' = result
    BY <1>6 DEF EndOfSig
  <2>2. rest' = LockScript(lock')
    BY <1>6, <2>1 DEF LockScript
  <2>3. 1 \in Nat /\ Len(stack) >= 1
    BY <1>1, <1>6, StackFacts
  <2>4. IsStack(Pop(1)) /\ (~ built => AllOwned(Pop(1)))
    BY <1>1, <1>3, <2>3, UnderPop, OwnedPop
  <2> QED  BY <1>1, <1>2, <1>6, <2>1, <2>2, <2>4, StartInv
<1>7. CASE lock'[1] = "p2sh" /\ ~ (stack # << >> /\ Top(0) = Serialized(lock'))
  <2>1. ~ built
    BY <1>2, <1>7
  <2>2. phase' = "done" /\ result' = "error" /\ rest' = << >> /\ stack' = << >>
    BY <1>7 DEF EndOfSig
  <2>3. IsStack(stack)'
    BY <2>2, EmptyStack DEF IsStack
  <2>4. ScriptTypeOK'
    BY <1>1, <1>4, <2>2, <2>3 DEF ScriptInv, ScriptTypeOK
  <2>5. SigInv' /\ LockInv'
    BY <2>2 DEF SigInv, LockInv
  <2>6. DoneInv'
    BY <1>1, <2>1, <2>2 DEF DoneInv, OpensOnlyForOwner, OwnerOpens
  <2> QED  BY <1>1, <2>1, <2>4, <2>5, <2>6 DEF ScriptInv
<1> QED  BY <1>5, <1>6, <1>7

LEMMA VerdictInv ==
  ASSUME ScriptInv, Verdict
  PROVE  ScriptInv'
<1> DEFINE script == LockScript(lock)
<1>1. /\ phase = "lock" /\ rest = << >> /\ phase' = "done" /\ Same
      /\ spender' = spender /\ height' = height /\ lock' = lock /\ built' = built
      /\ rest' = rest /\ stack' = stack /\ read' = read
      /\ result' = IF stack # << >> /\ is_truthy(Top(0)) THEN "true" ELSE "false"
  BY DEF Verdict, inputs, Same
<1>2. /\ IsStack(stack) /\ lock \in Lock
      /\ \E n \in 0 .. Len(script) :
           /\ rest = From(script, n)
           /\ IF built THEN BuiltAt(n, lock, stack, if_stack)
              ELSE AllOwned(stack) /\ SafeAt(n, lock, stack, if_stack)
  BY <1>1 DEF ScriptInv, ScriptTypeOK, LockInv
<1>3. IsLock(lock) /\ IsStack(script)
  BY <1>2, ScriptAssumption, LockScriptStack
<1>4. IF built THEN BuiltAt(Len(script), lock, stack, if_stack)
      ELSE SafeAt(Len(script), lock, stack, if_stack)
  BY <1>1, <1>2, <1>3, RestFacts
<1>5. result' = IF Truthy(stack) THEN "true" ELSE "false"
  BY <1>1 DEF Truthy, Top, Under
<1>6. built => Opens(lock) /\ Truthy(stack)
  BY <1>3, <1>4, BuiltEnd DEF ScriptInv
<1>7. ~ built /\ Truthy(stack) => Opens(lock)
  BY <1>3, <1>4, SafeEnd
<1>8. OpensOnlyForOwner'
  BY <1>1, <1>5, <1>6, <1>7, SameHolders DEF OpensOnlyForOwner
<1>9. OwnerOpens'
  BY <1>1, <1>5, <1>6 DEF OwnerOpens
<1>10. DoneInv'
  BY <1>1, <1>8, <1>9 DEF DoneInv
<1>11. ScriptTypeOK'
  <2>1. IsStack(stack)'
    BY <1>1, <1>2 DEF IsStack
  <2> QED  BY <1>1, <2>1 DEF ScriptInv, ScriptTypeOK
<1>12. SigInv' /\ LockInv'
  BY <1>1 DEF SigInv, LockInv
<1>13. built' => lock' \in Lock /\ Opens(lock)'
  BY <1>1, <1>2, <1>6, SameHolders
<1> QED  BY <1>10, <1>11, <1>12, <1>13 DEF ScriptInv

LEMMA StutterInv ==
  ASSUME ScriptInv, UNCHANGED vars
  PROVE  ScriptInv'
<1>1. /\ spender' = spender /\ height' = height /\ lock' = lock /\ built' = built
      /\ phase' = phase /\ rest' = rest /\ stack' = stack /\ if_stack' = if_stack
      /\ result' = result /\ read' = read /\ Same
  BY DEF vars, Same
<1>2. Opens(lock)' <=> Opens(lock)
  BY <1>1, SameHolders
<1>3. ScriptTypeOK'
  <2>1. IsStack(stack)'
    BY <1>1 DEF IsStack, ScriptInv, ScriptTypeOK
  <2> QED  BY <1>1, <2>1 DEF ScriptInv, ScriptTypeOK
<1>4. SigInv'
  <2>1. Builders(lock)' = Builders(lock) /\ (AllOwned(stack)' <=> AllOwned(stack))
    BY <1>1, SameBuilders, SameOwned
  <2> QED  BY <1>1, <2>1 DEF ScriptInv, SigInv
<1>5. LockInv'
  <2>1. (AllOwned(stack)' <=> AllOwned(stack)) /\ LockScript(lock)' = LockScript(lock)
    BY <1>1, SameOwned DEF LockScript, Redeem, Tokens
  <2>2. \A n : BuiltAt(n, lock, stack, if_stack)' <=> BuiltAt(n, lock, stack, if_stack)
    BY <1>1, SameBuilt
  <2>3. lock \in Lock =>
          \A n : SafeAt(n, lock, stack, if_stack)' <=> SafeAt(n, lock, stack, if_stack)
    BY <1>1, SameSafe, ScriptAssumption
  <2> QED  BY <1>1, <2>1, <2>2, <2>3 DEF ScriptInv, LockInv
<1>6. DoneInv'
  BY <1>1, <1>2 DEF ScriptInv, DoneInv, OpensOnlyForOwner, OwnerOpens
<1> QED  BY <1>1, <1>2, <1>3, <1>4, <1>5, <1>6 DEF ScriptInv

\* The inductive invariant holds: at every position of a standard lock the stack is what
\* the lock needs to know of it there (execute of script/vm.rs, script/standard.rs).
THEOREM ScriptInvariant == Spec => []ScriptInv
<1>1. Init => ScriptInv
  BY InitInv
<1>2. ScriptInv /\ [Next]_vars => ScriptInv'
  <2> SUFFICES ASSUME ScriptInv, [Next]_vars PROVE ScriptInv'
    OBVIOUS
  <2>1. CASE EndOfSig
    BY <2>1, EndOfSigInv
  <2>2. CASE Verdict
    BY <2>2, VerdictInv
  <2>3. ASSUME NEW t \in Available, Execute(t) PROVE ScriptInv'
    <3>1. phase \in {"sig", "lock"}
      BY DEF Available, ScriptInv, ScriptTypeOK, DoneInv
    <3> QED  BY <2>3, <3>1, LockTokenInv, AnySigTokenInv, BuiltSigTokenInv
  <2>4. CASE UNCHANGED vars
    BY <2>4, StutterInv
  <2> QED  BY <2>1, <2>2, <2>3, <2>4 DEF Next
<1> QED  BY <1>1, <1>2, PTL DEF Spec

\* For every set of keys, every set of well-formed locks, every height and every bound on
\* the unlocking script: a standard lock evaluates to true only for a spender whose keys,
\* preimage and height satisfy what the lock promises (execute; script/standard.rs).
THEOREM OnlyOwnersOpen == Spec => []OpensOnlyForOwner
<1>1. ScriptInv => OpensOnlyForOwner
  BY DEF ScriptInv, DoneInv, OpensOnlyForOwner
<1> QED  BY <1>1, ScriptInvariant, PTL

\* The unlocking scripts of the builders open every lock they are built for, whatever the
\* keys, the counts and the positions of the signers (execute; p2pkh_script_sig,
\* multisig_script_sig, p2sh_multisig_script_sig, htlc_*_script_sig).
THEOREM OwnersOpen == Spec => []OwnerOpens
<1>1. ScriptInv => OwnerOpens
  BY DEF ScriptInv, DoneInv, OwnerOpens
<1> QED  BY <1>1, ScriptInvariant, PTL
=============================================================================
