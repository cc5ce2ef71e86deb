--------------------------- MODULE MCWithdrawFlow ---------------------------
(***************************************************************************)
(* Small instances of one relayer between the two chains.                  *)
(*   rival:  t1 and t2 compete for u1 and pay w1, as a rebuilt order does  *)
(*   chain:  t1 pays w1 from u1 and leaves the change u2, which t2         *)
(*           consolidates                                                  *)
(***************************************************************************)
EXTENDS WithdrawFlow, TLC
CONSTANTS t1, t2, u1, u2, w1, w2

NoSecures == t1 :> {} @@ t2 :> {}
NoOuts == t1 :> {} @@ t2 :> {}

RivalIns == t1 :> {u1} @@ t2 :> {u1}
RivalPays == t1 :> {w1} @@ t2 :> {w1}
OneFunding == <<u1>>
RivalSymmetry == Permutations({t1, t2})   \* the rivals are interchangeable

ChainIns == t1 :> {u1} @@ t2 :> {u2}
ChainOuts == t1 :> {u2} @@ t2 :> {}
ChainPays == t1 :> {w1} @@ t2 :> {}

=============================================================================
