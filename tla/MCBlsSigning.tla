---------------------------- MODULE MCBlsSigning ----------------------------
(***************************************************************************)
(* Small instances of the signature rounds.                                *)
(***************************************************************************)
EXTENDS BlsSigning, TLC
CONSTANTS p, q, v, w

\* any of them may be the first proposer, so all are interchangeable
RelayerSymmetry == Permutations(Relayer)
=============================================================================
