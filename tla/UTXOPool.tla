------------------------------- MODULE UTXOPool -------------------------------
(***************************************************************************)
(* The variable-amount note pool (contracts/UTXOPool.sol): every spend     *)
(* consumes two notes and inserts two, in a LeanIMT kept on chain by its   *)
(* frontier alone (sideNodes), with a ring of recent roots.                *)
(*                                                                         *)
(* Abstractions.  A commitment is the note it hashes: [id, amount], where  *)
(* id stands for its npk and its secret.  Hashes are those of LeanIMT.     *)
(* The pool's only caller is the entrypoint, whose published association   *)
(* root is the set of labels under it; the shape of the association tree   *)
(* is left out.                                                            *)
(* A proof is anything the circuit note_spend.circom accepts.  It hashes   *)
(* neither the nullifier nor the label of a note into the commitment, so   *)
(* both are the prover's choice; that a note is spent under the nullifier  *)
(* its wallet keeps for it is up to the wallet.  A dummy input is a note   *)
(* of amount 0: the circuit asks the rest of it too.                       *)
(* Nothing is paid out by spend (the payout is parked), so a withdrawn     *)
(* amount only leaves the pool's notes.                                    *)
(***************************************************************************)
EXTENDS LeanIMT, FiniteSets

CONSTANTS
  STATE_ROOT_HISTORY,  \* slots of the ring, 64 in the code
  MAX_TREE_DEPTH,      \* 32 in the code
  Labels,              \* the labels of deposits
  Amounts,             \* what one deposit may be worth
  OtherNullifiers,     \* the nullifiers a prover may choose beside the wallet's own
  Approvals,           \* the sets of labels the entrypoint may publish a root for
  MaxNotes,            \* bound: commitments wallets ever make
  MaxDeposits,         \* bound: deposits made
  MaxProofs            \* bound: proofs made and not yet accepted

ASSUME RingAssumption == STATE_ROOT_HISTORY \in Nat \ {0}
ASSUME DepthAssumption == MAX_TREE_DEPTH \in Nat
ASSUME AmountsAssumption == Amounts \subseteq Nat
ASSUME NullifiersAssumption == OtherNullifiers \subseteq Nat
ASSUME ApprovalsAssumption == Approvals \subseteq SUBSET Labels

VARIABLES
  spentNullifierHashes,
  tree,         \* stateRoots, rootIndex, leafCount, currentRoot, treeDepth, sideNodes,
                \* and the LeafInserted events, which the pool itself never reads
  latestRoot,   \* the labels under the entrypoint's published association root
  made,         \* how many commitments wallets have made; they are numbered by id
  deposited,    \* the commitments made for a deposit
  proofs,       \* the proofs at hand
  astray        \* history: a settled proof chose another nullifier than its note's

vars == <<spentNullifierHashes, tree, latestRoot, made, deposited, proofs, astray>>

Note == [id : Nat \ {0}, amount : Nat]

(* The nullifier a wallet keeps with a note (createNote). *)
Nullifier(note) == note.id

NoRoot == << >>  \* the value 0 of a slot never written and of the empty tree

Slots == 0 .. STATE_ROOT_HISTORY - 1

Levels == 0 .. MAX_TREE_DEPTH

-----------------------------------------------------------------------------
(* The tree *)

(* The node a new leaf carries at each level of its climb to the root. *)
Climb(t, note) ==
  LET node[level \in Nat] ==
        IF level = 0 THEN <<note.id>>
        ELSE IF IsRightChild(t.leafCount, level - 1)
             THEN <<t.sideNodes[level - 1], node[level - 1]>>
             ELSE node[level - 1]
  IN node

NewDepth(t) == CeilLog2(t.leafCount + 1)

NewRoot(t, note) == Climb(t, note)[NewDepth(t)]

(* Fault: the root is not parked for the insert that grows the tree. *)
NewSideNodesBelowRoot(t, note) ==
  [level \in Levels |->
    IF level < NewDepth(t) /\ ~IsRightChild(t.leafCount, level)
    THEN Climb(t, note)[level] ELSE t.sideNodes[level]]

(* A left child waits at its level for a right sibling, and so does the root. *)
NewSideNodes(t, note) ==
  [level \in Levels |->
    IF level = NewDepth(t) \/ (level < NewDepth(t) /\ ~IsRightChild(t.leafCount, level))
    THEN Climb(t, note)[level] ELSE t.sideNodes[level]]

(* Fault: the ring wraps one slot early. *)
NextSlotShort(slot) == IF slot + 2 >= STATE_ROOT_HISTORY THEN 0 ELSE slot + 1

NextSlot(slot) == IF slot + 1 = STATE_ROOT_HISTORY THEN 0 ELSE slot + 1

(* _insertLeaf *)
InsertLeaf(t, note) ==
  [stateRoots  |-> [t.stateRoots EXCEPT ![t.rootIndex] = NewRoot(t, note)],
   rootIndex   |-> NextSlot(t.rootIndex),
   leafCount   |-> t.leafCount + 1,
   currentRoot |-> NewRoot(t, note),
   treeDepth   |-> NewDepth(t),
   sideNodes   |-> NewSideNodes(t, note),
   events      |-> Append(t.events, [leaf |-> note, root |-> NewRoot(t, note)])]

HasRoom(t, n) == CeilLog2(t.leafCount + n) <= MAX_TREE_DEPTH

(* Only the slots written so far are looked at. *)
IsKnownRoot(root) ==
  /\ root # NoRoot
  /\ tree.leafCount # 0
  /\ \E i \in Slots : i < tree.leafCount /\ tree.stateRoots[i] = root

LeafNotes == {tree.events[i].leaf : i \in DOMAIN tree.events}

-----------------------------------------------------------------------------
(* The circuit *)

(* The node above the leaf at this index has no right sibling at level in a *)
(* tree of size leaves: a LeanIMT moves it up as it is.                     *)
Promoted(index, level, size) ==
  /\ ~IsRightChild(index, level)
  /\ (index \div 2 ^ level + 1) * 2 ^ level >= size

(* How many siblings a leaf's inclusion proof has. *)
PathLength(index, size) ==
  Cardinality({level \in 0 .. CeilLog2(size) - 1 : ~Promoted(index, level, size)})

Proof ==
  [inputs : Note \X Note, nullifiers : Nat \X Nat, labels : Labels \X Labels, outputs : Note \X Note,
   stateRoot : {tree.events[i].root : i \in DOMAIN tree.events},
   aspRoot : SUBSET Labels, context : {"spend", "transfer"}]

(* The constraints of note_spend.circom for two leaves at i and j: one      *)
(* depth serves both inclusion proofs, so their paths must be equally long; *)
(* the labels named are approved, and the amounts add up.  The labels of    *)
(* the outputs, each one of these, are not seen again.                      *)
Satisfiable(i, j, labels, outputs, withdrawn) ==
  LET a == tree.events[i].leaf  b == tree.events[j].leaf
  IN /\ PathLength(i - 1, tree.leafCount) = PathLength(j - 1, tree.leafCount)
     /\ {labels[1], labels[2]} \subseteq latestRoot
     /\ a.amount + b.amount = outputs[1].amount + outputs[2].amount + withdrawn

(* A wallet proves against the tree and the association root it sees now.  *)
(* What a spend withdraws is not on chain; a transfer withdraws nothing.   *)
Prove(i, j) ==
  LET a == tree.events[i].leaf  b == tree.events[j].leaf
  IN /\ Cardinality(proofs) < MaxProofs
     /\ made + 2 <= MaxNotes
     /\ \E context \in {"spend", "transfer"}, withdrawn \in Amounts \cup {0},
           labels \in Labels \X Labels, amount0, amount1 \in 0 .. a.amount + b.amount,
           nullifier0 \in {Nullifier(a)} \cup OtherNullifiers,
           nullifier1 \in {Nullifier(b)} \cup OtherNullifiers :
          LET outputs == <<[id |-> made + 1, amount |-> amount0], [id |-> made + 2, amount |-> amount1]>>
          IN /\ (withdrawn = 0) = (context = "transfer")
             /\ Satisfiable(i, j, labels, outputs, withdrawn)
             /\ proofs' = proofs \cup
                  {[inputs |-> <<a, b>>, nullifiers |-> <<nullifier0, nullifier1>>, labels |-> labels,
                    outputs |-> outputs, stateRoot |-> tree.currentRoot, aspRoot |-> latestRoot,
                    context |-> context]}
     /\ made' = made + 2
     /\ UNCHANGED <<spentNullifierHashes, tree, latestRoot, deposited, astray>>

-----------------------------------------------------------------------------
(* The pool's transactions.  One that reverts changes nothing. *)

(* The entrypoint deposits a commitment, new or, again, an old one: deposit *)
(* does not look for it in the tree.                                        *)
Deposit(note) ==
  /\ HasRoom(tree, 1)
  /\ tree.leafCount < Cardinality(spentNullifierHashes) + MaxDeposits
  /\ tree' = InsertLeaf(tree, note)
  /\ deposited' = deposited \cup {note}
  /\ UNCHANGED <<spentNullifierHashes, latestRoot, proofs, astray>>

DepositNew ==
  /\ made < MaxNotes
  /\ made' = made + 1
  /\ \E amount \in Amounts : Deposit([id |-> made + 1, amount |-> amount])

DepositAgain ==
  /\ \E note \in deposited : Deposit(note)
  /\ UNCHANGED made

(* Fault: any association root ever published will do. *)
RootsAcceptedStale(proof) == IsKnownRoot(proof.stateRoot)

(* The roots part of _checkContextAndRoots and _checkTransferContextAndRoots. *)
RootsAccepted(proof) ==
  /\ IsKnownRoot(proof.stateRoot)
  /\ proof.aspRoot = latestRoot

(* Fault: the two nullifiers are not compared with one another. *)
ConsumeNullifiersApart(n0, n1) ==
  /\ {n0, n1} \cap spentNullifierHashes = {}
  /\ spentNullifierHashes' = spentNullifierHashes \cup {n0, n1}

ConsumeNullifiers(n0, n1) ==
  /\ n0 \notin spentNullifierHashes
  /\ n0 # n1
  /\ n1 \notin spentNullifierHashes
  /\ spentNullifierHashes' = spentNullifierHashes \cup {n0, n1}

Settle(proof) ==
  /\ RootsAccepted(proof)
  /\ ConsumeNullifiers(proof.nullifiers[1], proof.nullifiers[2])
  /\ HasRoom(tree, 2)
  /\ tree' = InsertLeaf(InsertLeaf(tree, proof.outputs[1]), proof.outputs[2])
  /\ astray' = (astray \/ proof.nullifiers # <<Nullifier(proof.inputs[1]), Nullifier(proof.inputs[2])>>)
  /\ UNCHANGED <<latestRoot, made, deposited, proofs>>

Spend(proof) ==
  /\ proof.context = "spend"
  /\ Settle(proof)

(* The relayer attaches a ciphertext to each output; aad names the output  *)
(* the sender sealed it for.                                               *)
Transfer(proof, aad) ==
  /\ proof.context = "transfer"
  /\ Settle(proof)
  /\ aad = <<proof.outputs[1].id, proof.outputs[2].id>>

(* The entrypoint publishes another association root. *)
UpdateRoot(labels) ==
  /\ latestRoot' = labels
  /\ UNCHANGED <<spentNullifierHashes, tree, made, deposited, proofs, astray>>

-----------------------------------------------------------------------------
Init ==
  /\ spentNullifierHashes = {}
  /\ tree = [stateRoots |-> [i \in Slots |-> NoRoot], rootIndex |-> 0, leafCount |-> 0,
             currentRoot |-> NoRoot, treeDepth |-> 0,
             sideNodes |-> [level \in Levels |-> NoRoot], events |-> << >>]
  /\ latestRoot = {}
  /\ made = 0
  /\ deposited = {}
  /\ proofs = {}
  /\ astray = FALSE

Next ==
  \/ DepositNew
  \/ DepositAgain
  \/ \E i, j \in DOMAIN tree.events : Prove(i, j)
  \/ \E proof \in proofs :
       \/ Spend(proof)
       \/ \E aad \in {<<proof.outputs[1].id, proof.outputs[2].id>>,
                       <<proof.outputs[2].id, proof.outputs[1].id>>} : Transfer(proof, aad)
  \/ \E labels \in Approvals : UpdateRoot(labels)

Spec == Init /\ [][Next]_vars

-----------------------------------------------------------------------------
(* Properties *)

(* Types: storage, events and proofs are of the shapes the code gives them, *)
(* and as many leaves are counted as were inserted.                         *)
TypeOK ==
  /\ spentNullifierHashes \subseteq (1 .. made) \cup OtherNullifiers
  /\ tree.rootIndex \in Slots
  /\ DOMAIN tree.stateRoots = Slots
  /\ DOMAIN tree.sideNodes = Levels
  /\ tree.treeDepth \in Levels
  /\ tree.leafCount = Len(tree.events)
  /\ LeafNotes \subseteq Note
  /\ latestRoot \subseteq Labels
  /\ made \in Nat
  /\ deposited \subseteq LeafNotes
  /\ proofs \subseteq Proof
  /\ astray \in BOOLEAN

(* The root computed from the frontier alone is the root of the LeanIMT of  *)
(* all leaves inserted so far, which is what wallets prove against.         *)
FrontierIsLeanIMT ==
  tree.leafCount > 0 =>
    <<tree.currentRoot>> = Rows([i \in DOMAIN tree.events |-> tree.events[i].leaf.id])[tree.treeDepth]

Newest(n) == {i \in DOMAIN tree.events : i + n > Len(tree.events)}

(* Exactly the roots of the last STATE_ROOT_HISTORY insertions are known:   *)
(* a proof is good until that many leaves came after the tree it was made   *)
(* for, and for no longer.                                                  *)
RootWindow ==
  \A i \in DOMAIN tree.events :
    IsKnownRoot(tree.events[i].root) <=> i \in Newest(STATE_ROOT_HISTORY)

(* Notes move by proofs that hold at that moment: nullifiers are consumed   *)
(* only for a proof whose labels the latest root approves, whose two inputs *)
(* are in the tree and worth its two outputs, which are then the leaves     *)
(* added, and by two nullifiers never used before.                          *)
SettledAsProved ==
  [][spentNullifierHashes' # spentNullifierHashes =>
       \E p \in proofs :
         /\ {p.labels[1], p.labels[2]} \subseteq latestRoot
         /\ {p.inputs[1], p.inputs[2]} \subseteq LeafNotes
         /\ p.outputs[1].amount + p.outputs[2].amount <= p.inputs[1].amount + p.inputs[2].amount
         /\ LeafNotes' = LeafNotes \cup {p.outputs[1], p.outputs[2]}
         /\ \E n0 \in spentNullifierHashes' \ spentNullifierHashes :
              \E n1 \in spentNullifierHashes' \ (spentNullifierHashes \cup {n0}) :
                spentNullifierHashes' = spentNullifierHashes \cup {n0, n1}]_vars

(* The pool implements UTXOLedger: a note is live from its insertion until  *)
(* its nullifier is consumed, as long as every settled proof uses the       *)
(* nullifiers the wallets keep for its notes.                               *)
Retired == {note \in LeafNotes : Nullifier(note) \in spentNullifierHashes}

Ledger == INSTANCE UTXOLedger WITH live <- LeafNotes \ Retired, retired <- Retired

LedgerSpec == Ledger!Spec
=============================================================================
