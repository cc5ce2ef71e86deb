----------------------------- MODULE MCSafeboxFlow -----------------------------
(***************************************************************************)
(* Small instances of SafeboxFlow.                                         *)
(*   group: two relayers, the funded task 1 and two timelock transactions  *)
(*   calls: one relayer whose loop serves task 1, from its creation, and   *)
(*          the funded task 2                                              *)
(***************************************************************************)
EXTENDS SafeboxFlow, TLC

MCTask == {1}
MCTasks == {1, 2}
MCSymmetry == Permutations(Relayer) \cup Permutations(Timelock)

\* bounds of the group's run: two messages on the way, and the users' funds
\* are not taken yet
FewMessages == Cardinality(net) + Cardinality(notices) <= 2
NotBurned == \A k \in Task : contract[k].status # "burned"
=============================================================================
