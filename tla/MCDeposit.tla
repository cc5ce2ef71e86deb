----------------------------- MODULE MCDeposit -----------------------------
(***************************************************************************)
(* Small instances of the deposits of one relayer.                         *)
(*   mixed:  a pays user u, b is a deposit of version 1                    *)
(*   stuck:  a pays user u twice; b is of a bad size and either in the     *)
(*           block of a or in no block, and then unknown to the node       *)
(***************************************************************************)
EXTENDS Deposit, TLC
CONSTANTS a, b, x, y, z, u

MixedOutputs == a :> <<u>> @@ b :> <<Group, Data>>
MixedChains == {<<<<x, y, a, z, b>>>>}

StuckOutputs == a :> <<u, u>> @@ b :> <<u>>
StuckChains == {<<<<x, a>>>>, <<<<a, b>>>>}
StuckExpiring == {<<b, 1>>}

=============================================================================
