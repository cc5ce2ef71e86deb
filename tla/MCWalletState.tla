---------------------------- MODULE MCWalletState ----------------------------
(***************************************************************************)
(* A small wallet for TLC: t1 pays the withdrawal w1 from u1 and leaves the *)
(* change u2; t2 is the timelock transaction of the task k1 and spends u2. *)
(***************************************************************************)
EXTENDS WalletState, TLC
CONSTANTS t1, t2, u1, u2, w1, k1

ChainIns == t1 :> {u1} @@ t2 :> {u2}
ChainOuts == t1 :> {u2} @@ t2 :> {}
ChainPays == t1 :> {w1} @@ t2 :> {}
ChainSecures == t1 :> {} @@ t2 :> {k1}
=============================================================================
