------------------------------- MODULE LeanIMT -------------------------------
(***************************************************************************)
(* The lean incremental Merkle tree the pools share.  Hashes are           *)
(* injective: a leaf is <<id>>, a parent is the pair of its children.  A   *)
(* node without a right sibling moves up as it is.                         *)
(***************************************************************************)
EXTENDS Naturals, Sequences

(* The least d with 2^d >= n: the depth of a tree of n leaves. *)
CeilLog2(n) == CHOOSE d \in 0 .. n : 2 ^ d >= n /\ \A e \in 0 .. d - 1 : 2 ^ e < n

(* The bit of a position that says on which side of its parent a node is. *)
IsRightChild(index, level) == (index \div 2 ^ level) % 2 = 1

(* The reference: the rows of nodes above a sequence of leaves. *)
Rows(leaves) ==
  LET row[level \in Nat] ==
        IF level = 0 THEN [i \in DOMAIN leaves |-> <<leaves[i]>>]
        ELSE LET below == row[level - 1] IN
             [i \in 1 .. (Len(below) + 1) \div 2 |->
               IF 2 * i <= Len(below) THEN <<below[2 * i - 1], below[2 * i]>> ELSE below[2 * i - 1]]
  IN row
=============================================================================
