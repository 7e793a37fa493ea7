----------------------------- MODULE BestChain -----------------------------
(***************************************************************************)
(* What the chain state promises to everybody who uses it: one valid chain *)
(* at a time and the coins it leaves unspent, replaced as a whole and only *)
(* by a valid chain with more work.  There are no stores, indices, stamps, *)
(* caches, deltas, crashes and restarts here; ChainState, which has them,  *)
(* implements this.                                                        *)
(***************************************************************************)
EXTENDS Integers

CONSTANTS
    Chain, NoChain,
    Work(_),      \* the work of a chain
    Valid(_),     \* whether its blocks apply one after another
    Coins(_)      \* the outputs it leaves unspent

VARIABLES tip, coins

Init == tip = NoChain /\ coins = Coins(NoChain)

Adopt(c) ==
    /\ tip' = c /\ coins' = Coins(c)
    /\ Valid(c) /\ Work(c) > Work(tip)

Next == \E c \in Chain : Adopt(c)

Spec == Init /\ [][Next]_<<tip, coins>>
=============================================================================
