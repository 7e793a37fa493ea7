----------------------------- MODULE MCAdapter -----------------------------
(***************************************************************************)
(* An instance of Adapter for TLC: a deposit that two branches confirm at  *)
(* different heights, others that only one of them has; the second branch  *)
(* wins with fewer blocks.                                                 *)
(***************************************************************************)
EXTENDS Adapter

Out(id, a) == [id |-> id, addr |-> a]
Bodies ==
    [gen |-> <<Out("g", "miner")>>, none |-> <<Out("n", "miner")>>,
     first |-> <<Out("d1", "a1"), Out("c1", "miner")>>,
     both |-> <<Out("d1", "a1"), Out("d2", "a2"), Out("c2", "miner")>>,
     second |-> <<Out("d3", "a2")>>]

Branch(p) == {SubSeq(p, 1, n) : n \in 1 .. Len(p)}
Main == <<"gen", "first", "second">>
Late == <<"gen", "none", "both">>     \* two blocks of it win over three
MCBlock == Branch(Main) \cup Branch(Late)
MCWork == [b \in MCBlock |-> IF b \in Branch(Late) \ Branch(Main) THEN 4 * Len(b)
                             ELSE 2 * Len(b)]
MCBody == DOMAIN Bodies
MCOutputsOf == Bodies
=============================================================================
