------------------------------ MODULE MCScript ------------------------------
(***************************************************************************)
(* Script with two keys and a lock of every standard kind.                 *)
(***************************************************************************)
EXTENDS Script

MCLock ==
    {<<"p2pkh", <<"a">>, 0, 0>>, <<"cltv", <<"a">>, 0, 2>>,
     <<"htlc", <<"a", "b">>, 0, 2>>, <<"multisig", <<"a", "b">>, 1, 0>>,
     <<"multisig", <<"a", "b">>, 2, 0>>, <<"p2sh", <<"a", "b">>, 2, 0>>,
     <<"op_return", << >>, 0, 0>>}
=============================================================================
