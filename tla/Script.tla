------------------------------- MODULE Script -------------------------------
(***************************************************************************)
(* The script interpreter and the standard locking scripts.  A behaviour   *)
(* is one call of execute: the unlocking script, then the locking script,  *)
(* token by token on one stack.  Ledger knows only the verdict.            *)
(*                                                                         *)
(* A token is an opcode or a push of one element.  An element is a tuple   *)
(* that says what it is: hashes are tagged elements, so that equal hashes  *)
(* are hashes of equal elements, and a signature names its key.            *)
(***************************************************************************)
EXTENDS Integers, Sequences, FiniteSets, SequencesExt

CONSTANTS
    Key,            \* key pairs
    Lock,           \* the locking scripts, see Tokens
    Heights,        \* block heights of the spending transaction
    MaxStackDepth,  \* MAX_STACK_DEPTH
    MaxSig          \* bound on the tokens of an unlocking script

\* A lock is <<kind, keys, m, locktime>>; one of kind "p2sh" is spent through the
\* multisig script with the same parameters, whose hash it is.
IsLock(l) ==
    /\ l[2] \in Seq(Key) /\ l[3] \in Nat /\ l[4] \in Nat
    /\ \/ l[1] \in {"p2pkh", "cltv"} /\ Len(l[2]) = 1
       \/ l[1] = "htlc" /\ Len(l[2]) = 2
       \/ l[1] \in {"multisig", "p2sh"} /\ l[3] \in 1 .. Len(l[2]) /\ Len(l[2]) <= 16
       \/ l[1] = "op_return"
NoLock == <<"none", << >>, 0, 0>>

\* The stack has room for what the standard scripts put on it.
ASSUME ScriptAssumption ==
    /\ Heights \subseteq Nat /\ MaxSig \in Nat /\ MaxStackDepth \in Nat /\ MaxStackDepth >= 4
    /\ \A l \in Lock : IsLock(l) /\ l[3] + Len(l[2]) + 2 <= MaxStackDepth

VARIABLES
    spender,   \* the keys a spender holds and whether it knows the preimage
    height,
    lock,      \* the locking script; NoLock while it does not matter
    built,     \* the unlocking script is the one the builders make
    phase, rest, stack, if_stack, result,
    read       \* number of tokens of the unlocking script, for the bound

vars == <<spender, height, lock, built, phase, rest, stack, if_stack, result, read>>
inputs == <<spender, height, lock, built>>

-----------------------------------------------------------------------------
\* Elements and tokens

Num(n) == <<"num", n>>
Empty == <<"empty">>
Pub(k) == <<"key", k>>
Sig(k) == <<"sig", k>>          \* by k for this transaction
OldSig(k) == <<"oldsig", k>>    \* by k for another one
Preimage == <<"preimage">>
Serialized(l) == <<"script", l>>
Sha256(e) == <<"sha256", e>>
Hash160(e) == <<"hash160", e>>

IsSig(e) == e[1] \in {"sig", "oldsig"}
Verifies(key, sig) == key[1] = "key" /\ sig[1] = "sig" /\ key[2] = sig[2]
is_truthy(e) == e # Empty /\ e # Num(0)

Push(e) == <<"push", e>>
Op(name) == <<"op", name>>

\* The locking scripts of script/standard.rs
p2pkh_script(k) ==
    <<Op("DUP"), Op("HASH160"), Push(Hash160(Pub(k))), Op("EQUALVERIFY"), Op("CHECKSIG")>>
multisig_script(m, keys) ==
    <<Push(Num(m))>> \o [i \in DOMAIN keys |-> Push(Pub(keys[i]))]
        \o <<Push(Num(Len(keys))), Op("CHECKMULTISIG")>>
cltv_p2pkh_script(locktime, k) ==
    <<Push(Num(locktime)), Op("CHECKLOCKTIMEVERIFY"), Op("DROP")>> \o p2pkh_script(k)
htlc_script(recipient, refund, locktime) ==
    <<Op("IF"), Op("SHA256"), Push(Sha256(Preimage)), Op("EQUALVERIFY")>>
        \o p2pkh_script(recipient) \o <<Op("ELSE")>>
        \o cltv_p2pkh_script(locktime, refund) \o <<Op("ENDIF")>>

Redeem(l) == multisig_script(l[3], l[2])
Tokens(l) ==
    CASE l[1] = "p2pkh" -> p2pkh_script(l[2][1])
      [] l[1] = "multisig" -> multisig_script(l[3], l[2])
      [] l[1] = "cltv" -> cltv_p2pkh_script(l[4], l[2][1])
      [] l[1] = "htlc" -> htlc_script(l[2][1], l[2][2], l[4])
      [] l[1] = "op_return" -> <<Op("RETURN"), Push(Num(1))>>

-----------------------------------------------------------------------------
\* Who may open a lock, and how the builders do it

Held(l) == {i \in DOMAIN l[2] : l[2][i] \in spender.keys}
MayClaim(l) == spender.preimage /\ l[2][1] \in spender.keys
MayRefund(l) == height >= l[4] /\ l[2][2] \in spender.keys

\* The reference: what a lock promises.  A key that a multisig lock names twice
\* counts twice.
Opens(l) ==
    CASE l[1] = "p2pkh" -> l[2][1] \in spender.keys
      [] l[1] \in {"multisig", "p2sh"} -> Cardinality(Held(l)) >= l[3]
      [] l[1] = "cltv" -> height >= l[4] /\ l[2][1] \in spender.keys
      [] l[1] = "htlc" -> MayClaim(l) \/ MayRefund(l)
      [] l[1] = "op_return" -> FALSE

p2pkh_script_sig(k) == <<Push(Sig(k)), Push(Pub(k))>>
\* Signatures by the keys at the positions f.
multisig_script_sig(l, f) == [i \in 1 .. l[3] |-> Push(Sig(l[2][f[i]]))]
htlc_claim_script_sig(k) == p2pkh_script_sig(k) \o <<Push(Preimage), Push(Num(1))>>
htlc_refund_script_sig(k) == p2pkh_script_sig(k) \o <<Push(Empty)>>

\* The keys to sign with, in the order of the lock.
Signers(l) ==
    {f \in [1 .. l[3] -> Held(l)] : \A i, j \in 1 .. l[3] : i < j => f[i] < f[j]}

\* A push has room for the script of seven keys.
Builders(l) ==
    CASE l[1] \in {"p2pkh", "cltv"} -> {p2pkh_script_sig(l[2][1])}
      [] l[1] = "multisig" -> {multisig_script_sig(l, f) : f \in Signers(l)}
      [] l[1] = "p2sh" /\ Len(l[2]) <= 7 ->
           {Append(multisig_script_sig(l, f), Push(Serialized(l))) : f \in Signers(l)}
      [] l[1] = "htlc" ->
           {s \in {htlc_claim_script_sig(l[2][1])} : MayClaim(l)}
             \cup {s \in {htlc_refund_script_sig(l[2][2])} : MayRefund(l)}
      [] OTHER -> {}

\* What anyone, and what the spender can write into an unlocking script; the digests in
\* the locking scripts are published, what they are digests of need not be.
Opcodes == {"DUP", "DROP", "2DROP", "SWAP", "SHA256", "HASH160", "CHECKSIG", "EQUAL",
            "EQUALVERIFY", "VERIFY", "CHECKMULTISIG", "CHECKMULTISIGVERIFY",
            "CHECKLOCKTIMEVERIFY", "IF", "ELSE", "ENDIF", "RETURN", "INVALID", "CUT"}
Writable ==
    {Op(name) : name \in Opcodes}
      \cup {Push(e) : e \in {Empty, Num(1)} \cup {Pub(k) : k \in Key}
                            \cup {Sha256(Preimage)} \cup {Hash160(Pub(k)) : k \in Key}
                            \cup {OldSig(k) : k \in Key}
                            \cup {Sig(k) : k \in spender.keys}
                            \cup {e \in {Preimage} : spender.preimage}
                            \cup {Serialized(l) : l \in {l \in Lock : l[1] = "p2sh"}}}

-----------------------------------------------------------------------------
Init ==
    /\ spender \in [keys : SUBSET Key, preimage : BOOLEAN] /\ height \in Heights
    /\ phase = "sig" /\ stack = << >> /\ if_stack = << >>
    /\ result = "none" /\ read = 0
    /\ \/ built = TRUE /\ lock \in {l \in Lock : Opens(l)} /\ rest \in Builders(lock)
       \/ built = FALSE /\ lock = NoLock /\ rest = << >>

\* The next token: the script's, or any while the unlocking script goes on.
Available ==
    IF rest # << >> THEN {Head(rest)}
    ELSE IF phase = "sig" /\ ~ built /\ read < MaxSig THEN Writable ELSE {}

Consume ==
    IF rest # << >> THEN rest' = Tail(rest) /\ UNCHANGED read
    ELSE read' = read + 1 /\ UNCHANGED rest

Fail ==
    /\ phase' = "done" /\ result' = "error"
    /\ rest' = << >> /\ stack' = << >> /\ if_stack' = << >> /\ read' = 0
    /\ UNCHANGED inputs

Continue(s, ifs) ==
    /\ stack' = s /\ if_stack' = ifs /\ Consume
    /\ UNCHANGED <<inputs, phase, result>>

executing == if_stack # << >> => Last(if_stack)

\* An opcode that is executed, needs depth elements and leaves the stack new.
Instruction(t, name, depth, ok, new) ==
    /\ t = Op(name) /\ executing
    /\ IF Len(stack) >= depth /\ ok THEN Continue(new, if_stack) ELSE Fail

\* The n topmost elements taken off; the element under the n topmost.
Pop(n) == SubSeq(stack, 1, Len(stack) - n)
Top(n) == stack[Len(stack) - n]
Bool(b) == IF b THEN Num(1) ELSE Empty

Room == Len(stack) < MaxStackDepth

PushData(t) ==
    /\ t[1] = "push"
    /\ IF ~ executing THEN Continue(stack, if_stack)
       ELSE IF Room THEN Continue(Append(stack, t[2]), if_stack) ELSE Fail

\* A push whose data is cut off fails also where it is not executed.
CutOff(t) == t = Op("CUT") /\ Fail

OpIf(t) ==
    /\ t = Op("IF")
    /\ IF ~ executing THEN Continue(stack, Append(if_stack, FALSE))
       ELSE IF stack = << >> THEN Fail
       ELSE Continue(Pop(1), Append(if_stack, is_truthy(Top(0))))

OpElse(t) ==
    /\ t = Op("ELSE")
    /\ Continue(stack, IF if_stack = << >> THEN if_stack
                       ELSE Append(Front(if_stack), ~ Last(if_stack)))

OpEndif(t) ==
    /\ t = Op("ENDIF")
    /\ Continue(stack, IF if_stack = << >> THEN if_stack ELSE Front(if_stack))

Skip(t) ==
    /\ t[1] = "op" /\ t[2] \notin {"IF", "ELSE", "ENDIF", "CUT"} /\ ~ executing
    /\ Continue(stack, if_stack)

OpReturn(t) == Instruction(t, "RETURN", 0, FALSE, stack)
OpInvalid(t) == Instruction(t, "INVALID", 0, FALSE, stack)
OpDup(t) == Instruction(t, "DUP", 1, Room, Append(stack, Top(0)))
OpDrop(t) == Instruction(t, "DROP", 1, TRUE, Pop(1))
Op2Drop(t) == Instruction(t, "2DROP", 2, TRUE, Pop(2))
OpSwap(t) == Instruction(t, "SWAP", 2, TRUE, Pop(2) \o <<Top(0), Top(1)>>)
OpSha256(t) == Instruction(t, "SHA256", 1, TRUE, Append(Pop(1), Sha256(Top(0))))
OpHash160(t) == Instruction(t, "HASH160", 1, TRUE, Append(Pop(1), Hash160(Top(0))))
OpEqual(t) == Instruction(t, "EQUAL", 2, TRUE, Append(Pop(2), Bool(Top(0) = Top(1))))
OpEqualVerify(t) == Instruction(t, "EQUALVERIFY", 2, Top(0) = Top(1), Pop(2))
OpVerify(t) == Instruction(t, "VERIFY", 1, is_truthy(Top(0)), Pop(1))

\* Signatures are checked in the locking script only.
allow_checksig == phase = "lock"
OpCheckSig(t) ==
    Instruction(t, "CHECKSIG", 2, allow_checksig /\ Top(0)[1] = "key" /\ IsSig(Top(1)),
                Append(Pop(2), Bool(Verifies(Top(0), Top(1)))))

\* Mutant: a key may serve twice.
AnyKey(keys, i, s) ==
    IF \E j \in DOMAIN keys : Verifies(keys[j], s) THEN i ELSE Len(keys) + 1
\* Every signature must verify under a key behind the last one used.
NextKey(keys, i, s) ==
    LET hits == {j \in i + 1 .. Len(keys) : Verifies(keys[j], s)} IN
    IF ~ IsSig(s) \/ hits = {} THEN Len(keys) + 1
    ELSE CHOOSE j \in hits : \A h \in hits : j <= h
UsedKeys(sigs, keys) ==
    LET used[n \in 0 .. Len(sigs)] == IF n = 0 THEN 0 ELSE NextKey(keys, used[n - 1], sigs[n])
    IN  used
all_matched(sigs, keys) == UsedKeys(sigs, keys)[Len(sigs)] <= Len(keys)

\* The elements between from and to under the top, the deepest first.
Slice(from, to) == SubSeq(stack, Len(stack) - to, Len(stack) - from)
n_keys == Top(0)[2]
m_item == Top(n_keys + 1)
CountsFit ==
    /\ allow_checksig /\ Top(0)[1] = "num" /\ n_keys <= 16 /\ Len(stack) >= n_keys + 2
    /\ m_item[1] = "num" /\ m_item[2] <= n_keys /\ Len(stack) >= n_keys + m_item[2] + 2
Signed == all_matched(Slice(n_keys + 2, n_keys + 1 + m_item[2]), Slice(1, n_keys))
Unsigned == Pop(n_keys + m_item[2] + 2)

OpCheckMultisig(t) ==
    Instruction(t, "CHECKMULTISIG", 1, CountsFit, Append(Unsigned, Bool(Signed)))
OpCheckMultisigVerify(t) ==
    Instruction(t, "CHECKMULTISIGVERIFY", 1, CountsFit /\ Signed, Unsigned)

\* Mutant: a block late.
ABlockLate(e) == e = Empty \/ (e[1] = "num" /\ height > e[2])
\* Elements other than numbers are longer than eight bytes.
LockTimeMet(e) == e = Empty \/ (e[1] = "num" /\ height >= e[2])
OpCheckLockTimeVerify(t) ==
    Instruction(t, "CHECKLOCKTIMEVERIFY", 1, LockTimeMet(Top(0)), stack)

-----------------------------------------------------------------------------
\* Between the scripts: open conditionals do not carry over, and under P2SH the
\* topmost element becomes the locking script if its hash is the lock's.
EndOfSig ==
    /\ phase = "sig" /\ rest = << >>
    /\ read' = 0 /\ UNCHANGED <<spender, height, built>>
    /\ lock' \in IF built THEN {lock} ELSE Lock
    /\ IF lock'[1] # "p2sh"
       THEN /\ phase' = "lock" /\ rest' = Tokens(lock') /\ if_stack' = << >>
            /\ UNCHANGED <<stack, result>>
       ELSE IF stack # << >> /\ Top(0) = Serialized(lock')
       THEN /\ phase' = "lock" /\ rest' = Redeem(lock') /\ if_stack' = << >>
            /\ stack' = Pop(1) /\ UNCHANGED result
       ELSE /\ phase' = "done" /\ result' = "error"
            /\ rest' = << >> /\ stack' = << >> /\ if_stack' = << >>

Verdict ==
    /\ phase = "lock" /\ rest = << >>
    /\ phase' = "done"
    /\ result' = IF stack # << >> /\ is_truthy(Top(0)) THEN "true" ELSE "false"
    /\ UNCHANGED <<inputs, rest, stack, if_stack, read>>

Execute(t) ==
    \/ PushData(t) \/ CutOff(t) \/ OpIf(t) \/ OpElse(t) \/ OpEndif(t) \/ Skip(t)
    \/ OpReturn(t) \/ OpInvalid(t) \/ OpDup(t) \/ OpDrop(t) \/ Op2Drop(t)
    \/ OpSwap(t) \/ OpSha256(t) \/ OpHash160(t) \/ OpEqual(t) \/ OpEqualVerify(t)
    \/ OpVerify(t) \/ OpCheckSig(t) \/ OpCheckMultisig(t)
    \/ OpCheckMultisigVerify(t) \/ OpCheckLockTimeVerify(t)

Next == EndOfSig \/ Verdict \/ \E t \in Available : Execute(t)

Spec == Init /\ [][Next]_vars

-----------------------------------------------------------------------------
\* Correctness

\* Whatever an unlocking script of MaxSig tokens does to the stack, a standard lock
\* evaluates to true only for a spender whose keys, preimage and height satisfy what
\* the lock promises (execute; script/standard.rs).
OpensOnlyForOwner == result = "true" => Opens(lock)

\* The unlocking scripts of the builders open the locks they are built for: order of
\* signatures, branch of the contract and lock height fit together (execute;
\* p2pkh_script_sig, multisig_script_sig, p2sh_multisig_script_sig, htlc_*_script_sig).
OwnerOpens == (built /\ phase = "done") => result = "true"

-----------------------------------------------------------------------------
\* The inductive invariant of the proofs.  It says for every position in a lock what
\* is known of the stack when the tokens before it are done: of any stack, and of the
\* stack that the builders' scripts lead to.

IsStack(s) == s \in Seq(ToSet(s))
Under(s, n) == s[Len(s) - n]
Truthy(s) == s # << >> /\ is_truthy(Under(s, 0))

\* What is on the stack is what the spender can write, or is made of it.
Owned(e) == /\ e[1] = "sig" => e[2] \in spender.keys
            /\ e[1] = "preimage" => spender.preimage
AllOwned(s) == \A i \in DOMAIN s : Owned(s[i])

\* The first n pushes of script are on top of the stack.
Pushed(script, n, s) ==
    Len(s) >= n /\ \A i \in 1 .. n : script[i] = Push(s[Len(s) - n + i])

P2pkhAt(n, k, s) ==
    CASE n = 0 -> TRUE
      [] n = 1 -> Len(s) >= 2 /\ Under(s, 0) = Under(s, 1)
      [] n = 2 -> Len(s) >= 2 /\ Under(s, 0) = Hash160(Under(s, 1))
      [] n = 3 -> /\ Len(s) >= 3 /\ Under(s, 0) = Hash160(Pub(k))
                  /\ Under(s, 1) = Hash160(Under(s, 2))
      [] n = 4 -> Len(s) >= 1 /\ Under(s, 0) = Pub(k)
      [] n = 5 -> Truthy(s) => k \in spender.keys
CltvAt(n, k, locktime, s) ==
    CASE n = 0 -> TRUE
      [] n = 1 -> Len(s) >= 1 /\ Under(s, 0) = Num(locktime)
      [] n = 2 -> height >= locktime
      [] n \in 3 .. 8 -> height >= locktime /\ P2pkhAt(n - 3, k, s)
ClaimAt(n, k, s) ==
    LET known(e) == e = Sha256(Preimage) => spender.preimage
    IN  CASE n = 0 -> TRUE
          [] n = 1 -> Len(s) >= 1 /\ known(Under(s, 0))
          [] n = 2 -> Len(s) >= 2 /\ Under(s, 0) = Sha256(Preimage) /\ known(Under(s, 1))
          [] n \in 3 .. 8 -> spender.preimage /\ P2pkhAt(n - 3, k, s)
HtlcAt(n, l, s, ifs) ==
    CASE n = 0 -> ifs = << >>
      [] n \in 1 .. 9 -> ifs = <<FALSE>> \/ (ifs = <<TRUE>> /\ ClaimAt(n - 1, l[2][1], s))
      [] n \in 10 .. 18 -> \/ ifs = <<FALSE>> /\ (Truthy(s) => MayClaim(l))
                           \/ ifs = <<TRUE>> /\ CltvAt(n - 10, l[2][2], l[4], s)
      [] n = 19 -> ifs = << >> /\ (Truthy(s) => Opens(l))
MultisigAt(n, l, s) ==
    IF n <= Len(l[2]) + 2 THEN Pushed(Redeem(l), n, s) ELSE Truthy(s) => Opens(l)

\* Any unlocking script
SafeAt(n, l, s, ifs) ==
    CASE l[1] = "p2pkh" -> ifs = << >> /\ P2pkhAt(n, l[2][1], s)
      [] l[1] = "cltv" -> ifs = << >> /\ CltvAt(n, l[2][1], l[4], s)
      [] l[1] = "htlc" -> HtlcAt(n, l, s, ifs)
      [] l[1] \in {"multisig", "p2sh"} -> ifs = << >> /\ MultisigAt(n, l, s)
      [] l[1] = "op_return" -> ifs = << >> /\ n = 0

\* The stacks of the builders' scripts, from position 0
P2pkhRun(k) ==
    LET g == Sig(k)
        p == Pub(k)
        h == Hash160(Pub(k))
    IN  <<<<g, p>>, <<g, p, p>>, <<g, p, h>>, <<g, p, h, h>>, <<g, p>>, <<Num(1)>>>>
CltvRun(n, k, locktime, s) ==
    IF n \in {1, 2} THEN s = <<Sig(k), Pub(k), Num(locktime)>>
    ELSE s = P2pkhRun(k)[IF n = 0 THEN 1 ELSE n - 2]
ClaimRun(n, k, s) ==
    LET x == Sha256(Preimage)
    IN  CASE n = 0 -> s = <<Sig(k), Pub(k), Preimage, Num(1)>>
          [] n = 1 -> s = <<Sig(k), Pub(k), Preimage>>
          [] n = 2 -> s = <<Sig(k), Pub(k), x>>
          [] n = 3 -> s = <<Sig(k), Pub(k), x, x>>
          [] n \in 4 .. 9 -> s = P2pkhRun(k)[n - 3]
          [] OTHER -> s = <<Num(1)>>
RefundRun(n, k, locktime, s) ==
    CASE n = 0 -> s = <<Sig(k), Pub(k), Empty>>
      [] n \in 1 .. 9 -> s = <<Sig(k), Pub(k)>>
      [] n \in 10 .. 18 -> CltvRun(n - 10, k, locktime, s)
      [] OTHER -> s = <<Num(1)>>
Branch(n, taken) == IF n \in {0, 19} THEN << >> ELSE <<IF n < 10 THEN taken ELSE ~ taken>>
MultisigRun(n, l, s) ==
    IF n <= Len(l[2]) + 2
    THEN /\ Len(s) = l[3] + n /\ Pushed(Redeem(l), n, s)
         /\ \E f \in Signers(l) : \A i \in 1 .. l[3] : s[i] = Sig(l[2][f[i]])
    ELSE s = <<Num(1)>>

BuiltAt(n, l, s, ifs) ==
    CASE l[1] = "p2pkh" -> ifs = << >> /\ s = P2pkhRun(l[2][1])[n + 1]
      [] l[1] = "cltv" -> ifs = << >> /\ height >= l[4] /\ CltvRun(n, l[2][1], l[4], s)
      [] l[1] = "htlc" -> \/ ifs = Branch(n, TRUE) /\ ClaimRun(n, l[2][1], s)
                          \/ /\ ifs = Branch(n, FALSE) /\ height >= l[4]
                             /\ RefundRun(n, l[2][2], l[4], s)
      [] l[1] \in {"multisig", "p2sh"} -> ifs = << >> /\ MultisigRun(n, l, s)
      [] OTHER -> FALSE

LockScript(l) == IF l[1] = "p2sh" THEN Redeem(l) ELSE Tokens(l)
From(script, n) == SubSeq(script, n + 1, Len(script))

ScriptTypeOK ==
    /\ spender \in [keys : SUBSET Key, preimage : BOOLEAN] /\ height \in Heights
    /\ built \in BOOLEAN /\ lock \in Lock \cup {NoLock} /\ phase \in {"sig", "lock", "done"}
    /\ IsStack(stack) /\ read \in Nat
SigInv ==
    phase = "sig" =>
      IF built
      THEN /\ if_stack = << >>
           /\ \E script \in Builders(lock) : \E n \in 0 .. Len(script) :
                rest = From(script, n) /\ Len(stack) = n /\ Pushed(script, n, stack)
      ELSE rest = << >> /\ AllOwned(stack)
LockInv ==
    phase = "lock" =>
      /\ lock \in Lock
      /\ \E n \in 0 .. Len(LockScript(lock)) :
           /\ rest = From(LockScript(lock), n)
           /\ IF built THEN BuiltAt(n, lock, stack, if_stack)
              ELSE AllOwned(stack) /\ SafeAt(n, lock, stack, if_stack)
DoneInv ==
    IF phase = "done" THEN rest = << >> /\ OpensOnlyForOwner /\ OwnerOpens
    ELSE result = "none"
ScriptInv ==
    /\ ScriptTypeOK /\ SigInv /\ LockInv /\ DoneInv
    /\ built => lock \in Lock /\ Opens(lock)
=============================================================================
