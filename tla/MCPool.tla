------------------------------- MODULE MCPool -------------------------------
(***************************************************************************)
(* An instance of Pool for TLC: two miners and two blocks with different     *)
(* rewards, which do not divide evenly.  The blocks compete for one        *)
(* height: the node accepts both, and the pool credits what it accepts.    *)
(***************************************************************************)
EXTENDS Pool

CONSTANTS h1, h2

MCHeightOf == [one |-> 1, two |-> 1]
MCGross == [one |-> 10, two |-> 7]
MCFound == DOMAIN MCGross

\* The run stops where what it checks says nothing of what follows: at a
\* block submitted twice, at overlapping payments, and, as to payouts, after a
\* crash, a lost answer or an intervention.
Orderly == ~ again /\ ~ conflicted /\ (disturbed => payer.pc = "sleep" /\ manual = 0)

Symmetry == Permutations({h1, h2})
=============================================================================
