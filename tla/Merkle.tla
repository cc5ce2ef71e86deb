------------------------------- MODULE Merkle -------------------------------
(***************************************************************************)
(* The merkle tree over the transactions of a bitcoin block and the SPV    *)
(* proof a deposit carries (internal/types: merkle.go, utils.go).          *)
(*                                                                         *)
(* A leaf is a transaction id, a parent the pair of its children: double   *)
(* SHA-256 keeps different pairs apart and so do tuples.  The code walks   *)
(* the levels with loops and tail calls; here level k and the position on  *)
(* it are functions of k.  Positions count from 0, as in the code.         *)
(***************************************************************************)
EXTENDS Naturals, Sequences

\* ComputeParentNode
Parent(left, right) == <<left, right>>

\* a level of odd length is padded with its last node
Padded(level) ==
  IF Len(level) % 2 = 1 /\ Len(level) > 1 THEN Append(level, level[Len(level)]) ELSE level

Above(level) ==
  LET p == Padded(level) IN
  [i \in 1 .. Len(p) \div 2 |-> Parent(p[2*i - 1], p[2*i])]

Levels(leaves) ==
  LET level[k \in Nat] == IF k = 0 THEN leaves ELSE Above(level[k - 1]) IN level

\* the levels below the root: the recursion ends where one node is left
Depth(leaves) ==
  CHOOSE k \in 0 .. Len(leaves) :
    Len(Levels(leaves)[k]) = 1 /\ \A j \in 0 .. k - 1 : Len(Levels(leaves)[j]) # 1

\* newIndex, txIndex >>= 1: where a leaf's ancestor is on level k
Position(index) ==
  LET at[k \in Nat] == IF k = 0 THEN index ELSE at[k - 1] \div 2 IN at

\* buildMerkleRoot, ComputeMerkleRoot
MerkleRoot(leaves) == Levels(leaves)[Depth(leaves)][1]

SiblingOf(at) == IF at % 2 = 0 THEN at + 1 ELSE at - 1

\* (bug) the last node of an odd level is no sibling of its own
SiblingsUnpadded(leaves, index) ==
  [k \in 1 .. Depth(leaves) |->
     LET level == Levels(leaves)[k - 1]
         sibling == SiblingOf(Position(index)[k - 1]) IN
     level[IF sibling < Len(level) THEN sibling + 1 ELSE 1]]

\* ComputeMerkleRootAndProof: the sibling on each level below the root
Siblings(leaves, index) ==
  [k \in 1 .. Depth(leaves) |->
     Padded(Levels(leaves)[k - 1])[SiblingOf(Position(index)[k - 1]) + 1]]

\* GenerateSPVProof, for a transaction of the block
SpvProof(txid, leaves) ==
  LET index == (CHOOSE i \in DOMAIN leaves : leaves[i] = txid) - 1 IN
  [root |-> MerkleRoot(leaves), path |-> Siblings(leaves, index), index |-> index]

\* VerifyProof, VerifyRawProof: an even position is a left child
Verifies(txid, root, index, path) ==
  LET node[k \in 0 .. Len(path)] ==
        IF k = 0 THEN txid
        ELSE IF Position(index)[k - 1] % 2 = 0 THEN Parent(node[k - 1], path[k])
             ELSE Parent(path[k], node[k - 1]) IN
  node[Len(path)] = root
=============================================================================
