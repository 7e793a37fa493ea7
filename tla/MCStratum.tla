------------------------------ MODULE MCStratum ------------------------------
(***************************************************************************)
(* Stratum over two tips: the node moves to a heavier chain that is one    *)
(* block shorter.                                                          *)
(***************************************************************************)
EXTENDS Stratum, TLC

MCTip == {"high", "low"}
MCHeight == "high" :> 2 @@ "low" :> 1
MCWork == "high" :> 1 @@ "low" :> 2
MCBits == "high" :> 1 @@ "low" :> 3

\* The same with two tips of one height.
EvenHeight == "high" :> 1 @@ "low" :> 1
=============================================================================
