------------------------------ MODULE PoolState ------------------------------
(***************************************************************************)
(* The on-chain state of one privacy pool (contracts/State.sol): the       *)
(* append-only tree of note commitments, the circular buffer of recent     *)
(* tree roots, the spent nullifiers and the depositor of every label.      *)
(*                                                                         *)
(* Abstractions.  A commitment, Poseidon(value, label, precommitment), is  *)
(* the record of what it hashes.  A label, hash(SCOPE, nonce), is the      *)
(* nonce it was made from.  The tree only grows, so the root of the tree   *)
(* is the number of leaves under it: root k is the root of the first k     *)
(* leaves and 0 is the value of a slot never written.  A precommitment,    *)
(* Poseidon(nullifier, secret), is a model value whose nullifier hash is   *)
(* NullifierOf[precommitment]; two precommitments may share one nullifier. *)
(***************************************************************************)
EXTENDS Naturals, Sequences

CONSTANTS
  RootHistorySize,  \* ROOT_HISTORY_SIZE, 64 in the code
  TreeCapacity,     \* leaves of a tree of depth MAX_TREE_DEPTH, 2^32 in the code
  Precommitments,   \* the precommitments users may choose
  NullifierOf       \* the nullifier hash behind each precommitment

ASSUME RootHistoryAssumption == RootHistorySize \in Nat \ {0}
ASSUME TreeCapacityAssumption == TreeCapacity \in Nat
ASSUME NullifierAssumption == DOMAIN NullifierOf = Precommitments

VARIABLES
  nonce,             \* labels handed out so far
  dead,              \* deposits suspended for good
  roots,             \* the circular buffer of roots
  currentRootIndex,  \* the slot of the newest root
  leaves,            \* the commitments of _merkleTree, in insertion order
  nullifierHashes,   \* the spent nullifiers
  depositors         \* label -> depositor; the labels are 1..nonce

stateVars == <<nonce, dead, roots, currentRootIndex, leaves, nullifierHashes, depositors>>

Slot == 0 .. RootHistorySize - 1

Commitment == [value : Nat, label : Nat, pre : Precommitments]

Nullifier == {NullifierOf[p] : p \in Precommitments}

StateInit ==
  /\ nonce = 0
  /\ dead = FALSE
  /\ roots = [i \in Slot |-> 0]
  /\ currentRootIndex = 0
  /\ leaves = << >>
  /\ nullifierHashes = {}
  /\ depositors = << >>

IsInState(c) == \E i \in DOMAIN leaves : leaves[i] = c

(* Leaves are never removed, so the first k of them are what root k commits to. *)
IsUnderRoot(c, k) == \E i \in DOMAIN leaves : i <= k /\ leaves[i] = c

CurrentRoot == Len(leaves)

IsKnownRoot(root) == root # 0 /\ \E i \in Slot : roots[i] = root

(* Fault: the check of _spend dropped. *)
SpendUnchecked(nullifier) == nullifierHashes' = nullifierHashes \cup {nullifier}

Spend(nullifier) ==
  /\ nullifier \notin nullifierHashes
  /\ nullifierHashes' = nullifierHashes \cup {nullifier}

(* Fault: the buffer wraps one slot early. *)
NextSlotShort == IF currentRootIndex + 2 >= RootHistorySize THEN 0 ELSE currentRootIndex + 1

NextSlot == IF currentRootIndex + 1 = RootHistorySize THEN 0 ELSE currentRootIndex + 1

Insert(c) ==
  /\ ~IsInState(c)
  /\ Len(leaves) < TreeCapacity
  /\ leaves' = Append(leaves, c)
  /\ roots' = [roots EXCEPT ![NextSlot] = Len(leaves) + 1]
  /\ currentRootIndex' = NextSlot
=============================================================================
