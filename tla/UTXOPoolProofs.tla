---------------------------- MODULE UTXOPoolProofs ----------------------------
(***************************************************************************)
(* The theorems about the note pool, for every size of its ring and tree,  *)
(* every set of labels, amounts, nullifiers and association roots and any  *)
(* number of notes and proofs: it settles only what was proved and what    *)
(* the latest association root approves, implements UTXOLedger as long as  *)
(* notes are spent as themselves, and remembers exactly the newest roots.  *)
(* None of them looks into the tree: what the roots are is left open here. *)
(***************************************************************************)
EXTENDS UTXOPool, SequenceTheorems, TLAPS

-----------------------------------------------------------------------------
(* The inductive invariant *)

LeavesOf(t) == {t.events[i].leaf : i \in DOMAIN t.events}

(* The slot that holds the root of insertion i of n while it is remembered, *)
(* when slot next is the one to write.                                      *)
SlotOf(next, n, i) ==
  IF next + i > n THEN next + i - n - 1 ELSE next + i + STATE_ROOT_HISTORY - n - 1

(* The events are a sequence. *)
EventsOK(s) == s \in Seq({s[i] : i \in DOMAIN s})

(* The ring: until it is full it is written from slot 0 up, and the newest *)
(* insertions each have a slot of their own.                               *)
TreeOK(t) ==
  /\ EventsOK(t.events)
  /\ t.leafCount = Len(t.events)
  /\ t.rootIndex \in Slots
  /\ DOMAIN t.stateRoots = Slots
  /\ t.leafCount < STATE_ROOT_HISTORY => t.rootIndex = t.leafCount
  /\ \A i \in DOMAIN t.events :
       i + STATE_ROOT_HISTORY > Len(t.events) => t.stateRoots[SlotOf(t.rootIndex, t.leafCount, i)] = t.events[i].root

(* Leaves were made by wallets, and an id names one note. *)
NotesOK ==
  /\ made \in Nat
  /\ LeafNotes \subseteq Note
  /\ \A a \in LeafNotes : a.id <= made
  /\ \A a, b \in LeafNotes : a.id = b.id => a = b
  /\ deposited \subseteq LeafNotes

(* Nullifiers are those of leaves, unless a note was spent as another. *)
SpentOK ==
  /\ astray \in BOOLEAN
  /\ ~astray => \A n \in spentNullifierHashes : \E a \in LeafNotes : a.id = n

(* What the circuit promised of a proof still holds, and its outputs are not *)
(* in the tree unless one of its nullifiers is used.                         *)
ProofOK(proof) ==
  LET a == proof.inputs[1]  b == proof.inputs[2]  c == proof.outputs[1]  d == proof.outputs[2]
  IN /\ {a, b} \subseteq LeafNotes
     /\ {c, d} \subseteq Note
     /\ c.id <= made
     /\ d.id <= made
     /\ c.id # d.id
     /\ c.amount + d.amount <= a.amount + b.amount
     /\ {proof.labels[1], proof.labels[2]} \subseteq proof.aspRoot
     /\ \/ proof.nullifiers[1] \in spentNullifierHashes
        \/ proof.nullifiers[2] \in spentNullifierHashes
        \/ \A leaf \in LeafNotes : leaf.id # c.id /\ leaf.id # d.id

(* No two proofs make the same note. *)
Apart(p, q) ==
  {p.outputs[1].id, p.outputs[2].id} \cap {q.outputs[1].id, q.outputs[2].id} = {}

IInv ==
  /\ TreeOK(tree)
  /\ NotesOK
  /\ SpentOK
  /\ \A p \in proofs : ProofOK(p)
  /\ \A p, q \in proofs : p # q => Apart(p, q)

-----------------------------------------------------------------------------
(* Inserting a leaf *)

(* An insertion adds one event, for its leaf and the new root. *)
LEMMA InsertAppends ==
  ASSUME NEW t, TreeOK(t), NEW note, NEW u, u = InsertLeaf(t, note)
  PROVE  /\ EventsOK(u.events)
         /\ Len(u.events) = Len(t.events) + 1
         /\ \A i \in 1 .. Len(t.events) : u.events[i] = t.events[i]
         /\ u.events[Len(t.events) + 1].leaf = note
         /\ u.events[Len(t.events) + 1].root = NewRoot(t, note)
         /\ Len(t.events) \in Nat
         /\ DOMAIN t.events = 1 .. Len(t.events)
         /\ DOMAIN u.events = 1 .. Len(t.events) + 1
<1> DEFINE e == [leaf |-> note, root |-> NewRoot(t, note)]
           S == {t.events[i] : i \in DOMAIN t.events} \cup {e}
<1>1. u.events = Append(t.events, e)
  BY DEF InsertLeaf
<1>2. e.leaf = note /\ e.root = NewRoot(t, note)
  OBVIOUS
<1>3. t.events \in Seq(S) /\ e \in S
  <2>1. t.events \in Seq({t.events[i] : i \in DOMAIN t.events})
    BY DEF TreeOK, EventsOK
  <2> QED
    BY <2>1, SeqMonotonic
<1> HIDE DEF e, S
<1>4. /\ u.events \in Seq(S)
      /\ Len(u.events) = Len(t.events) + 1
      /\ \A i \in 1 .. Len(t.events) : u.events[i] = t.events[i]
      /\ u.events[Len(t.events) + 1] = e
  BY <1>1, <1>3, AppendProperties
<1>5. /\ Len(t.events) \in Nat /\ DOMAIN t.events = 1 .. Len(t.events)
      /\ DOMAIN u.events = 1 .. Len(u.events) /\ u.events \in [1 .. Len(u.events) -> S]
  BY <1>3, <1>4, LenProperties
<1>6. EventsOK(u.events)
  <2> DEFINE R == {u.events[i] : i \in DOMAIN u.events}
  <2>1. u.events \in [1 .. Len(u.events) -> R] /\ Len(u.events) \in Nat
    BY <1>4, <1>5
  <2> QED
    BY <2>1 DEF EventsOK
<1> QED
  BY <1>2, <1>4, <1>5, <1>6

(* Its leaves are those of before and the new one. *)
LEMMA InsertLeaves ==
  ASSUME NEW t, TreeOK(t), NEW note, NEW u, u = InsertLeaf(t, note)
  PROVE  LeavesOf(u) = LeavesOf(t) \cup {note}
<1>1. /\ \A i \in DOMAIN t.events : u.events[i] = t.events[i]
      /\ u.events[Len(t.events) + 1].leaf = note
      /\ DOMAIN u.events = DOMAIN t.events \cup {Len(t.events) + 1}
  BY SMTT(20), InsertAppends
<1> QED
  BY <1>1 DEF LeavesOf

(* An insertion takes the slot of the oldest root: those that stay remembered *)
(* keep theirs.                                                               *)
LEMMA SlotsStay ==
  ASSUME NEW r \in Slots, NEW n \in Nat, NEW i \in 1 .. n, i + STATE_ROOT_HISTORY > n + 1
  PROVE  /\ SlotOf(NextSlot(r), n + 1, i) = SlotOf(r, n, i)
         /\ SlotOf(r, n, i) \in Slots \ {r}
<1>1. PICK h \in Nat \ {0} : h = STATE_ROOT_HISTORY
  BY RingAssumption
<1>2. r \in 0 .. h - 1 /\ i + h > n + 1
  BY <1>1 DEF Slots
<1>3. (IF r + i > n THEN r + i - n - 1 ELSE r + i + h - n - 1) \in (0 .. h - 1) \ {r}
  BY <1>2
<1>4. CASE r + 1 = h
  <2>1. (IF r + i > n THEN r + i - n - 1 ELSE r + i + h - n - 1) = i + h - (n + 1) - 1 /\ ~(0 + i > n + 1)
    BY <1>2, <1>4
  <2> QED
    BY <2>1, <1>1, <1>3, <1>4 DEF SlotOf, NextSlot, Slots
<1>5. CASE r + 1 # h
  <2>1. (IF r + i > n THEN r + i - n - 1 ELSE r + i + h - n - 1)
          = (IF r + 1 + i > n + 1 THEN r + 1 + i - (n + 1) - 1 ELSE r + 1 + i + h - (n + 1) - 1)
    BY <1>2
  <2> QED
    BY <2>1, <1>1, <1>3, <1>5 DEF SlotOf, NextSlot, Slots
<1> QED
  BY <1>4, <1>5

(* The newest root is in the slot written last. *)
LEMMA SlotOfNewest ==
  ASSUME NEW r \in Slots, NEW n \in Nat
  PROVE  SlotOf(NextSlot(r), n + 1, n + 1) = r
<1>1. PICK h \in Nat \ {0} : h = STATE_ROOT_HISTORY
  BY RingAssumption
<1>2. r \in 0 .. h - 1
  BY <1>1 DEF Slots
<1>3. CASE r + 1 = h
  <2>1. NextSlot(r) = 0 /\ ~(0 + (n + 1) > n + 1) /\ 0 + (n + 1) + h - (n + 1) - 1 = r
    BY <1>1, <1>2, <1>3 DEF NextSlot
  <2> QED
    BY <2>1, <1>1 DEF SlotOf
<1>4. CASE r + 1 # h
  <2>1. NextSlot(r) = r + 1 /\ r + 1 + (n + 1) > n + 1 /\ r + 1 + (n + 1) - (n + 1) - 1 = r
    BY <1>1, <1>2, <1>4 DEF NextSlot
  <2> QED
    BY <2>1, <1>1 DEF SlotOf
<1> QED
  BY <1>3, <1>4

(* The ring after an insertion. *)
LEMMA InsertKeepsTree ==
  ASSUME NEW t, TreeOK(t), NEW note, NEW u, u = InsertLeaf(t, note)
  PROVE  TreeOK(u)
<1>1. PICK n \in Nat, r \in Slots : n = Len(t.events) /\ r = t.rootIndex
  BY InsertAppends DEF TreeOK
<1>2. /\ EventsOK(u.events)
      /\ Len(u.events) = n + 1
      /\ \A i \in 1 .. n : u.events[i] = t.events[i]
      /\ u.events[n + 1].root = NewRoot(t, note)
      /\ DOMAIN t.events = 1 .. n /\ DOMAIN u.events = 1 .. n + 1
  BY <1>1, InsertAppends
<1>3. /\ u.stateRoots = [t.stateRoots EXCEPT ![r] = NewRoot(t, note)]
      /\ u.rootIndex = NextSlot(r)
      /\ u.leafCount = n + 1
  BY <1>1 DEF InsertLeaf, TreeOK
<1>4. /\ n < STATE_ROOT_HISTORY => r = n
      /\ DOMAIN t.stateRoots = Slots
      /\ \A i \in 1 .. n : i + STATE_ROOT_HISTORY > n => t.stateRoots[SlotOf(r, n, i)] = t.events[i].root
  BY <1>1, <1>2 DEF TreeOK
<1>5. /\ NextSlot(r) \in Slots
      /\ n + 1 < STATE_ROOT_HISTORY => NextSlot(r) = n + 1
  BY <1>4, RingAssumption DEF NextSlot, Slots
<1>6. DOMAIN u.stateRoots = Slots
  BY <1>3, <1>4
<1>7. ASSUME NEW i \in 1 .. n + 1, i + STATE_ROOT_HISTORY > n + 1
      PROVE  u.stateRoots[SlotOf(NextSlot(r), n + 1, i)] = u.events[i].root
  <2>1. CASE i = n + 1
    <3>1. SlotOf(NextSlot(r), n + 1, i) = r
      BY <2>1, SlotOfNewest
    <3> QED
      BY <3>1, <2>1, <1>2, <1>3, <1>4
  <2>2. CASE i # n + 1
    <3>1. i \in 1 .. n /\ i + STATE_ROOT_HISTORY > n
      BY <2>2, <1>7, RingAssumption
    <3>2. /\ SlotOf(NextSlot(r), n + 1, i) = SlotOf(r, n, i)
          /\ SlotOf(r, n, i) \in Slots \ {r}
      BY <3>1, <1>7, SlotsStay
    <3>3. t.stateRoots[SlotOf(r, n, i)] = t.events[i].root
      BY <3>1, <1>4
    <3> QED
      BY <3>1, <3>2, <3>3, <1>2, <1>3, <1>4
  <2> QED
    BY <2>1, <2>2
<1> QED
  BY <1>2, <1>3, <1>5, <1>6, <1>7 DEF TreeOK

-----------------------------------------------------------------------------
(* Invariance *)

LEMMA InitIInv == Init => IInv
<1> SUFFICES ASSUME Init PROVE IInv
  OBVIOUS
<1>1. /\ tree.events = << >> /\ tree.leafCount = 0 /\ tree.rootIndex = 0
      /\ DOMAIN tree.stateRoots = Slots /\ made = 0 /\ deposited = {}
      /\ spentNullifierHashes = {} /\ proofs = {} /\ astray = FALSE
  BY DEF Init
<1>2. DOMAIN tree.events = {} /\ Len(tree.events) = 0
  BY <1>1
<1>3. EventsOK(tree.events)
  BY <1>1 DEF EventsOK
<1>4. LeafNotes = {}
  BY <1>2 DEF LeafNotes
<1>5. TreeOK(tree)
  BY <1>1, <1>2, <1>3, RingAssumption DEF TreeOK, Slots
<1> QED
  BY <1>1, <1>4, <1>5 DEF IInv, NotesOK, SpentOK

(* A deposit of a note: a leaf, or a note with the id after all those made. *)
LEMMA DepositKeeps ==
  ASSUME IInv, NEW note \in Note, Deposit(note),
         \/ note \in LeafNotes /\ made' = made
         \/ note.id = made + 1 /\ made' = made + 1
  PROVE  IInv'
<1>1. /\ tree' = InsertLeaf(tree, note) /\ deposited' = deposited \cup {note}
      /\ spentNullifierHashes' = spentNullifierHashes /\ proofs' = proofs /\ astray' = astray
  BY DEF Deposit
<1>2. TreeOK(tree')
  BY <1>1, InsertKeepsTree DEF IInv
<1>3. LeafNotes' = LeafNotes \cup {note}
  <2>1. LeavesOf(tree') = LeavesOf(tree) \cup {note}
    BY <1>1, InsertLeaves DEF IInv
  <2> QED
    BY <2>1 DEF LeavesOf, LeafNotes
<1>4. made \in Nat /\ made' \in Nat /\ made' >= made /\ note.id <= made'
  BY DEF IInv, NotesOK
<1>5. NotesOK'
  <2>1. \A a \in LeafNotes : a.id \in Nat /\ a.id <= made
    BY DEF IInv, NotesOK, Note
  <2>2. note \notin LeafNotes => \A a \in LeafNotes : a.id # note.id
    BY <1>4, <2>1
  <2> QED
    BY <1>1, <1>3, <1>4, <2>1, <2>2 DEF IInv, NotesOK
<1>6. SpentOK'
  BY <1>1, <1>3 DEF IInv, SpentOK
<1>7. ASSUME NEW p \in proofs PROVE ProofOK(p)'
  <2>1. ProofOK(p)
    BY DEF IInv
  <2>2. p.outputs[1].id \in Nat /\ p.outputs[2].id \in Nat
    BY <2>1 DEF ProofOK, Note
  <2> QED
    BY <2>1, <2>2, <1>1, <1>3, <1>4 DEF ProofOK
<1> QED
  BY <1>1, <1>2, <1>5, <1>6, <1>7 DEF IInv, TreeOK, Apart

(* What a settlement does to the pool's notes. *)
LEMMA SettleMoves ==
  ASSUME IInv, NEW p \in proofs, Settle(p)
  PROVE  /\ TreeOK(tree')
         /\ LeafNotes' = LeafNotes \cup {p.outputs[1], p.outputs[2]}
         /\ \A leaf \in LeafNotes : leaf.id # p.outputs[1].id /\ leaf.id # p.outputs[2].id
         /\ {p.nullifiers[1], p.nullifiers[2]} \cap spentNullifierHashes = {}
         /\ p.nullifiers[1] # p.nullifiers[2]
         /\ spentNullifierHashes' = spentNullifierHashes \cup {p.nullifiers[1], p.nullifiers[2]}
<1>1. PICK t : t = InsertLeaf(tree, p.outputs[1]) /\ tree' = InsertLeaf(t, p.outputs[2])
  BY DEF Settle
<1>2. TreeOK(tree)
  BY DEF IInv
<1>3. TreeOK(t) /\ LeavesOf(t) = LeavesOf(tree) \cup {p.outputs[1]}
  BY <1>1, <1>2, InsertKeepsTree, InsertLeaves
<1>4. TreeOK(tree') /\ LeavesOf(tree') = LeavesOf(t) \cup {p.outputs[2]}
  BY <1>1, <1>3, InsertKeepsTree, InsertLeaves
<1>5. LeafNotes' = LeafNotes \cup {p.outputs[1], p.outputs[2]}
  BY <1>3, <1>4 DEF LeavesOf, LeafNotes
<1>6. /\ {p.nullifiers[1], p.nullifiers[2]} \cap spentNullifierHashes = {}
      /\ p.nullifiers[1] # p.nullifiers[2]
      /\ spentNullifierHashes' = spentNullifierHashes \cup {p.nullifiers[1], p.nullifiers[2]}
  BY DEF Settle, ConsumeNullifiers
<1>7. \A leaf \in LeafNotes : leaf.id # p.outputs[1].id /\ leaf.id # p.outputs[2].id
  BY <1>6 DEF IInv, ProofOK
<1> QED
  BY <1>4, <1>5, <1>6, <1>7

(* A settlement that leaves the pool in good order uses its notes' nullifiers. *)
LEMMA SettleInOrder ==
  ASSUME IInv, NEW p \in proofs, Settle(p), ~astray'
  PROVE  /\ astray = FALSE /\ astray' = FALSE
         /\ p.nullifiers[1] = p.inputs[1].id /\ p.nullifiers[2] = p.inputs[2].id
<1>1. /\ astray \in BOOLEAN
      /\ astray' = (astray \/ p.nullifiers # <<p.inputs[1].id, p.inputs[2].id>>)
  BY DEF IInv, SpentOK, Settle, Nullifier
<1>2. astray = FALSE /\ p.nullifiers = <<p.inputs[1].id, p.inputs[2].id>>
  BY <1>1
<1> QED
  BY <1>1, <1>2

(* The outputs of other proofs are other notes; this one's nullifiers are used. *)
LEMMA SettleKeeps ==
  ASSUME IInv, NEW p \in proofs, Settle(p)
  PROVE  IInv'
<1> DEFINE a == p.inputs[1]  b == p.inputs[2]  c == p.outputs[1]  d == p.outputs[2]
<1>1. /\ TreeOK(tree')
      /\ LeafNotes' = LeafNotes \cup {c, d}
      /\ \A leaf \in LeafNotes : leaf.id # c.id /\ leaf.id # d.id
      /\ spentNullifierHashes' = spentNullifierHashes \cup {p.nullifiers[1], p.nullifiers[2]}
  BY SettleMoves
<1>2. made' = made /\ deposited' = deposited /\ proofs' = proofs
  BY DEF Settle
<1>3. /\ {a, b} \subseteq LeafNotes /\ {c, d} \subseteq Note
      /\ c.id <= made /\ d.id <= made /\ c.id # d.id
  BY DEF IInv, ProofOK
<1>4. ASSUME NEW q \in proofs PROVE ProofOK(q)'
  <2>1. ProofOK(q)
    BY DEF IInv
  <2>2. CASE q = p
    BY <2>1, <2>2, <1>1, <1>2 DEF ProofOK
  <2>3. CASE q # p
    <3>1. /\ q.outputs[1].id # c.id /\ q.outputs[1].id # d.id
          /\ q.outputs[2].id # c.id /\ q.outputs[2].id # d.id
      BY <2>3 DEF IInv, Apart
    <3> QED
      BY <3>1, <2>1, <1>1, <1>2 DEF ProofOK
  <2> QED
    BY <2>2, <2>3
<1> HIDE DEF a, b, c, d
<1>5. NotesOK'
  BY <1>1, <1>2, <1>3 DEF IInv, NotesOK
<1>6. SpentOK'
  <2>1. astray' \in BOOLEAN
    BY DEF Settle, IInv, SpentOK
  <2>2. ASSUME ~astray' PROVE \A n \in spentNullifierHashes' : \E leaf \in LeafNotes' : leaf.id = n
    <3>1. astray = FALSE /\ p.nullifiers[1] = a.id /\ p.nullifiers[2] = b.id
      BY <2>2, SettleInOrder DEF a, b
    <3>2. \A n \in spentNullifierHashes : \E leaf \in LeafNotes : leaf.id = n
      BY <3>1 DEF IInv, SpentOK
    <3> QED
      BY <3>1, <3>2, <1>1, <1>3
  <2> QED
    BY <2>1, <2>2 DEF SpentOK
<1> QED
  BY <1>1, <1>2, <1>4, <1>5, <1>6 DEF IInv, TreeOK, Apart

(* A proof is made for two leaves, and for two notes with ids after all made. *)
LEMMA ProveKeeps ==
  ASSUME IInv, NEW i \in DOMAIN tree.events, NEW j \in DOMAIN tree.events, Prove(i, j)
  PROVE  IInv'
<1> DEFINE a == tree.events[i].leaf  b == tree.events[j].leaf
<1>1. PICK context \in {"spend", "transfer"}, withdrawn \in Amounts \cup {0},
           labels \in Labels \X Labels, amount0, amount1 \in 0 .. a.amount + b.amount,
           nullifier0 \in {Nullifier(a)} \cup OtherNullifiers,
           nullifier1 \in {Nullifier(b)} \cup OtherNullifiers :
        LET outputs == <<[id |-> made + 1, amount |-> amount0], [id |-> made + 2, amount |-> amount1]>>
        IN /\ (withdrawn = 0) = (context = "transfer")
           /\ Satisfiable(i, j, labels, outputs, withdrawn)
           /\ proofs' = proofs \cup
                {[inputs |-> <<a, b>>, nullifiers |-> <<nullifier0, nullifier1>>, labels |-> labels,
                  outputs |-> outputs, stateRoot |-> tree.currentRoot, aspRoot |-> latestRoot,
                  context |-> context]}
  BY Zenon DEF Prove
<1>2. PICK p :
        /\ p.inputs = <<a, b>> /\ p.aspRoot = latestRoot
        /\ p.outputs = <<[id |-> made + 1, amount |-> amount0], [id |-> made + 2, amount |-> amount1]>>
        /\ Satisfiable(i, j, p.labels, p.outputs, withdrawn)
        /\ proofs' = proofs \cup {p}
  <2> DEFINE outputs == <<[id |-> made + 1, amount |-> amount0], [id |-> made + 2, amount |-> amount1]>>
             q == [inputs |-> <<a, b>>, nullifiers |-> <<nullifier0, nullifier1>>, labels |-> labels,
                   outputs |-> outputs, stateRoot |-> tree.currentRoot, aspRoot |-> latestRoot,
                   context |-> context]
  <2>1. Satisfiable(i, j, labels, outputs, withdrawn) /\ proofs' = proofs \cup {q}
    BY <1>1
  <2>2. q.inputs = <<a, b>> /\ q.outputs = outputs /\ q.aspRoot = latestRoot /\ q.labels = labels
    OBVIOUS
  <2> HIDE DEF q
  <2> QED
    BY <2>1, <2>2
<1>3. /\ made' = made + 2 /\ tree' = tree /\ spentNullifierHashes' = spentNullifierHashes
      /\ deposited' = deposited /\ latestRoot' = latestRoot /\ astray' = astray
  BY DEF Prove
<1>4. LeafNotes' = LeafNotes
  BY <1>3 DEF LeafNotes
<1>5. {a, b} \subseteq LeafNotes
  BY DEF LeafNotes
<1>6. p.inputs[1] = a /\ p.inputs[2] = b /\ p.aspRoot = latestRoot
  BY <1>2
<1>7. /\ p.outputs[1] = [id |-> made + 1, amount |-> amount0]
      /\ p.outputs[2] = [id |-> made + 2, amount |-> amount1]
  BY <1>2
<1>8. /\ {p.labels[1], p.labels[2]} \subseteq latestRoot
      /\ a.amount + b.amount = p.outputs[1].amount + p.outputs[2].amount + withdrawn
  BY <1>2 DEF Satisfiable
<1>9. a \in Note /\ b \in Note /\ a.amount \in Nat /\ b.amount \in Nat /\ made \in Nat /\ withdrawn \in Nat
  BY <1>5, AmountsAssumption DEF IInv, NotesOK, Note
<1> HIDE DEF a, b
<1>10. /\ p.outputs[1] \in Note /\ p.outputs[2] \in Note
      /\ p.outputs[1].id = made + 1 /\ p.outputs[2].id = made + 2
      /\ p.outputs[1].amount \in Nat /\ p.outputs[2].amount \in Nat
  BY <1>7, <1>9 DEF Note
<1>11. \A leaf \in LeafNotes : leaf.id \in Nat /\ leaf.id <= made
  BY DEF IInv, NotesOK, Note
<1>12. ProofOK(p)'
  <2>1. p.outputs[1].amount + p.outputs[2].amount <= a.amount + b.amount
    BY <1>8, <1>9, <1>10
  <2>2. \A leaf \in LeafNotes : leaf.id # p.outputs[1].id /\ leaf.id # p.outputs[2].id
    BY <1>9, <1>10, <1>11
  <2> QED
    BY <2>1, <2>2, <1>3, <1>4, <1>5, <1>6, <1>8, <1>9, <1>10 DEF ProofOK
<1>13. ASSUME NEW q \in proofs PROVE ProofOK(q)' /\ Apart(p, q) /\ Apart(q, p)
  <2>1. ProofOK(q)
    BY DEF IInv
  <2>2. /\ q.outputs[1].id \in Nat /\ q.outputs[2].id \in Nat
        /\ q.outputs[1].id <= made /\ q.outputs[2].id <= made
    BY <2>1 DEF ProofOK, Note
  <2>3. Apart(p, q) /\ Apart(q, p)
    BY <2>2, <1>9, <1>10 DEF Apart
  <2>4. q.outputs[1].id <= made' /\ q.outputs[2].id <= made'
    BY <2>2, <1>3, <1>9
  <2>5. ProofOK(q)'
    BY <2>1, <2>4, <1>3, <1>4 DEF ProofOK
  <2> QED
    BY <2>3, <2>5
<1>14. NotesOK'
  BY <1>3, <1>4, <1>9, <1>11 DEF IInv, NotesOK
<1>15. SpentOK'
  BY <1>3, <1>4 DEF IInv, SpentOK
<1>16. TreeOK(tree')
  BY <1>3 DEF IInv
<1>17. \A q, r \in proofs' : q # r => Apart(q, r)
  BY <1>2, <1>13 DEF IInv
<1>18. \A q \in proofs' : ProofOK(q)'
  BY <1>2, <1>12, <1>13
<1> QED
  BY <1>14, <1>15, <1>16, <1>17, <1>18 DEF IInv, TreeOK, Apart

LEMMA NextIInv == IInv /\ [Next]_vars => IInv'
<1> SUFFICES ASSUME IInv, [Next]_vars PROVE IInv'
  OBVIOUS
<1>1. CASE DepositNew
  <2>1. PICK amount \in Amounts : Deposit([id |-> made + 1, amount |-> amount])
    BY <1>1 DEF DepositNew
  <2>2. [id |-> made + 1, amount |-> amount] \in Note
    BY AmountsAssumption DEF IInv, NotesOK, Note
  <2>3. made' = made + 1
    BY <1>1 DEF DepositNew
  <2> QED
    BY <2>1, <2>2, <2>3, DepositKeeps
<1>2. CASE DepositAgain
  <2>1. PICK note \in deposited : Deposit(note)
    BY <1>2 DEF DepositAgain
  <2>2. note \in LeafNotes /\ note \in Note /\ made' = made
    BY <1>2 DEF DepositAgain, IInv, NotesOK
  <2> QED
    BY <2>1, <2>2, DepositKeeps
<1>3. CASE \E i, j \in DOMAIN tree.events : Prove(i, j)
  BY <1>3, ProveKeeps
<1>4. CASE \E p \in proofs : Settle(p)
  BY <1>4, SettleKeeps
<1>5. CASE \E labels \in Approvals : UpdateRoot(labels)
  BY SMTT(20), <1>5 DEF UpdateRoot, IInv, TreeOK, NotesOK, SpentOK, ProofOK, Apart, LeafNotes
<1>6. CASE UNCHANGED vars
  BY SMTT(20), <1>6 DEF vars, IInv, TreeOK, NotesOK, SpentOK, ProofOK, Apart, LeafNotes
<1> QED
  BY <1>1, <1>2, <1>3, <1>4, <1>5, <1>6 DEF Next, Spend, Transfer

(* The inductive invariant holds of every history of deposits, proofs,       *)
(* settlements and association roots.                                        *)
THEOREM Invariance == Spec => []IInv
<1> QED
  BY InitIInv, NextIInv, PTL DEF Spec

-----------------------------------------------------------------------------
(* The ring *)

(* Every slot written so far holds the root of one of the newest insertions. *)
LEMMA WrittenIsNewest ==
  ASSUME TreeOK(tree), NEW s \in Slots, s < tree.leafCount
  PROVE  \E i \in Newest(STATE_ROOT_HISTORY) : tree.stateRoots[s] = tree.events[i].root
<1>1. PICK n \in Nat, r \in Slots, h \in Nat \ {0} :
        n = Len(tree.events) /\ r = tree.rootIndex /\ h = STATE_ROOT_HISTORY
  BY RingAssumption, InsertAppends DEF TreeOK
<1>2. /\ n < h => r = n
      /\ \A i \in 1 .. n : i + h > n => tree.stateRoots[SlotOf(r, n, i)] = tree.events[i].root
      /\ DOMAIN tree.events = 1 .. n /\ n = tree.leafCount
  BY <1>1, InsertAppends DEF TreeOK
<1>3. s \in 0 .. h - 1 /\ r \in 0 .. h - 1 /\ s < n
  BY <1>1, <1>2 DEF Slots
<1>4. PICK i \in Int : i = (IF s < r THEN n + 1 + s - r ELSE n + 1 + s - r - h)
  BY SMTT(20), <1>1, <1>3
<1>5. i \in 1 .. n /\ i + h > n
  BY SMTT(20), <1>2, <1>3, <1>4
<1>6. s = (IF r + i > n THEN r + i - n - 1 ELSE r + i + h - n - 1)
  BY <1>3, <1>4
<1>7. SlotOf(r, n, i) = s
  BY <1>1, <1>6 DEF SlotOf
<1> QED
  BY <1>1, <1>2, <1>5, <1>7 DEF Newest

(* Each of the newest insertions has a slot that was written. *)
LEMMA NewestIsWritten ==
  ASSUME TreeOK(tree), NEW i \in Newest(STATE_ROOT_HISTORY)
  PROVE  /\ tree.leafCount # 0
         /\ \E s \in Slots : s < tree.leafCount /\ tree.stateRoots[s] = tree.events[i].root
<1>1. PICK n \in Nat, r \in Slots, h \in Nat \ {0} :
        n = Len(tree.events) /\ r = tree.rootIndex /\ h = STATE_ROOT_HISTORY
  BY RingAssumption, InsertAppends DEF TreeOK
<1>2. /\ n < h => r = n
      /\ tree.stateRoots[SlotOf(r, n, i)] = tree.events[i].root
      /\ i \in 1 .. n /\ i + h > n /\ n = tree.leafCount
  BY <1>1, InsertAppends DEF TreeOK, Newest
<1>3. r \in 0 .. h - 1
  BY <1>1 DEF Slots
<1>4. PICK s \in Int : s = (IF r + i > n THEN r + i - n - 1 ELSE r + i + h - n - 1)
  BY <1>2, <1>3
<1>5. s \in 0 .. h - 1 /\ s < n /\ n # 0
  BY <1>2, <1>3, <1>4
<1>6. SlotOf(r, n, i) = s
  BY <1>1, <1>4 DEF SlotOf
<1> QED
  BY <1>1, <1>2, <1>5, <1>6 DEF Slots

(* The pool knows a root exactly if one of the newest STATE_ROOT_HISTORY      *)
(* insertions made it; the empty tree's is never known.                       *)
KnowsNewest(root) ==
  IsKnownRoot(root) <=>
    root # NoRoot /\ \E i \in Newest(STATE_ROOT_HISTORY) : tree.events[i].root = root

(* Whatever root a caller names, IsKnownRoot looks the newest ones up in the  *)
(* ring: none is overwritten early, none outlives its turn.                   *)
THEOREM RingKnowsNewest == Spec => \A root : []KnowsNewest(root)
<1>1. ASSUME NEW root PROVE IInv => KnowsNewest(root)
  <2> SUFFICES ASSUME IInv PROVE KnowsNewest(root)
    OBVIOUS
  <2>1. TreeOK(tree)
    BY DEF IInv
  <2>2. ASSUME IsKnownRoot(root)
        PROVE  root # NoRoot /\ \E i \in Newest(STATE_ROOT_HISTORY) : tree.events[i].root = root
    BY <2>1, <2>2, WrittenIsNewest DEF IsKnownRoot
  <2>3. ASSUME root # NoRoot, NEW i \in Newest(STATE_ROOT_HISTORY), tree.events[i].root = root
        PROVE  IsKnownRoot(root)
    BY <2>1, <2>3, NewestIsWritten DEF IsKnownRoot
  <2> QED
    BY <2>2, <2>3 DEF KnowsNewest
<1>2. ASSUME NEW root PROVE Spec => []KnowsNewest(root)
  BY <1>1, Invariance, PTL
<1> QED
  BY <1>2

(* No two insertions left the same root, and none that of the empty tree: what *)
(* a hash without collisions gives.                                            *)
RootsDiffer ==
  \A i \in DOMAIN tree.events :
    /\ tree.events[i].root # NoRoot
    /\ \A j \in DOMAIN tree.events : tree.events[i].root = tree.events[j].root => i = j

(* A proof is good for exactly as long as its tree is one of the newest        *)
(* STATE_ROOT_HISTORY, as long as the roots of different trees differ.         *)
THEOREM RootHistory == Spec => [](RootsDiffer => RootWindow)
<1>1. IInv => (RootsDiffer => RootWindow)
  <2> SUFFICES ASSUME IInv, RootsDiffer, NEW i \in DOMAIN tree.events
               PROVE  IsKnownRoot(tree.events[i].root) <=> i \in Newest(STATE_ROOT_HISTORY)
    BY DEF RootWindow
  <2>1. TreeOK(tree)
    BY DEF IInv
  <2>2. i \in Newest(STATE_ROOT_HISTORY) => IsKnownRoot(tree.events[i].root)
    BY <2>1, NewestIsWritten DEF RootsDiffer, IsKnownRoot
  <2>3. ASSUME IsKnownRoot(tree.events[i].root) PROVE i \in Newest(STATE_ROOT_HISTORY)
    <3>1. PICK j \in Newest(STATE_ROOT_HISTORY) : tree.events[j].root = tree.events[i].root
      BY <2>1, <2>3, WrittenIsNewest DEF IsKnownRoot
    <3> QED
      BY <3>1 DEF RootsDiffer, Newest
  <2> QED
    BY <2>2, <2>3
<1> QED
  BY <1>1, Invariance, PTL

-----------------------------------------------------------------------------
(* The ledger *)

LEMMA LedgerInit == Init => Ledger!Init
<1> SUFFICES ASSUME Init PROVE Ledger!Init
  OBVIOUS
<1>1. DOMAIN tree.events = {}
  BY DEF Init
<1>2. LeafNotes = {} /\ astray = FALSE
  BY <1>1 DEF LeafNotes, Init
<1> QED
  BY <1>2 DEF Ledger!Init, Retired

(* A new deposit mints its note; that of an old note changes nothing.         *)
LEMMA DepositMints ==
  ASSUME IInv, ~astray, NEW note \in Note, Deposit(note),
         \/ note \in LeafNotes /\ made' = made
         \/ note.id = made + 1 /\ made' = made + 1
  PROVE  [Ledger!Next]_(Ledger!ledgerVars)
<1>1. LeafNotes' = LeafNotes \cup {note}
  <2>1. LeavesOf(tree') = LeavesOf(tree) \cup {note}
    BY InsertLeaves DEF IInv, Deposit
  <2> QED
    BY <2>1 DEF LeavesOf, LeafNotes
<1>2. spentNullifierHashes' = spentNullifierHashes /\ astray' = astray
  BY DEF Deposit
<1>3. CASE note \in LeafNotes
  <2>1. LeafNotes' = LeafNotes /\ Retired' = Retired
    BY <1>1, <1>2, <1>3 DEF Retired, Nullifier
  <2> QED
    BY <2>1, <1>2 DEF Ledger!ledgerVars
<1>4. CASE note \notin LeafNotes
  <2>1. \A leaf \in LeafNotes : leaf.id \in Nat /\ leaf.id <= made
    BY DEF IInv, NotesOK, Note
  <2>2. made \in Nat /\ note.id = made + 1
    BY <1>4 DEF IInv, NotesOK
  <2>3. note.id \notin spentNullifierHashes
    BY <2>1, <2>2 DEF IInv, SpentOK
  <2>4. Retired' = Retired
    BY <1>1, <1>2, <2>3 DEF Retired, Nullifier
  <2>5. LeafNotes' \ Retired' = (LeafNotes \ Retired) \cup {note} /\ note \in LeafNotes' \ Retired'
    BY <1>1, <1>4, <2>4 DEF Retired
  <2>6. note \notin (LeafNotes \ Retired) \cup Retired
    BY <1>4 DEF Retired
  <2>7. Ledger!Mint(note)
    BY <2>4, <2>5, <2>6, <1>2 DEF Ledger!Mint, Ledger!Fresh
  <2> QED
    BY <2>5, <2>7 DEF Ledger!Next
<1> QED
  BY <1>3, <1>4

(* A settlement exchanges the two inputs for the two outputs.                 *)
LEMMA SettleExchanges ==
  ASSUME IInv, NEW p \in proofs, Settle(p), ~astray'
  PROVE  Ledger!Next
<1>1. PICK a, b, c, d :
        a = p.inputs[1] /\ b = p.inputs[2] /\ c = p.outputs[1] /\ d = p.outputs[2]
  OBVIOUS
<1>2. /\ LeafNotes' = LeafNotes \cup {c, d}
      /\ \A leaf \in LeafNotes : leaf.id # c.id /\ leaf.id # d.id
      /\ {a.id, b.id} \cap spentNullifierHashes = {}
      /\ a.id # b.id
      /\ spentNullifierHashes' = spentNullifierHashes \cup {a.id, b.id}
      /\ astray = FALSE /\ astray' = FALSE
  BY <1>1, SettleMoves, SettleInOrder
<1>3. /\ {a, b} \subseteq LeafNotes /\ {c, d} \subseteq Note /\ c.id # d.id
      /\ c.amount + d.amount <= a.amount + b.amount
  BY <1>1 DEF IInv, ProofOK
<1>4. /\ \A x, y \in LeafNotes : x.id = y.id => x = y
      /\ \A n \in spentNullifierHashes : \E x \in LeafNotes : x.id = n
  BY <1>2 DEF IInv, NotesOK, SpentOK
<1>5. {c, d} \cap LeafNotes = {} /\ {c.id, d.id} \cap spentNullifierHashes' = {}
  BY <1>2, <1>3, <1>4
<1>6. Retired' = Retired \cup {a, b}
  BY <1>2, <1>3, <1>4, <1>5 DEF Retired, Nullifier
<1>7. {a, b} \cap Retired = {}
  BY <1>2 DEF Retired, Nullifier
<1>8. LeafNotes' \ Retired' = ((LeafNotes \ Retired) \ {a, b}) \cup {c, d}
  BY <1>2, <1>3, <1>5, <1>6 DEF Retired
<1>9. {a, b} \subseteq LeafNotes \ Retired
  BY <1>3, <1>7
<1>10. Ledger!Exchange(a, b, c, d)
  <2>1. {c, d} \cap ((LeafNotes \ Retired) \cup Retired) = {}
    BY <1>5 DEF Retired
  <2> QED
    BY <2>1, <1>2, <1>3, <1>6, <1>8, <1>9 DEF Ledger!Exchange, Ledger!Fresh
<1> QED
  BY <1>8, <1>9, <1>10 DEF Ledger!Next

LEMMA LedgerStep == IInv /\ [Next]_vars => [Ledger!Next \/ astray']_(Ledger!ledgerVars)
<1> SUFFICES ASSUME IInv, [Next]_vars, ~astray' PROVE [Ledger!Next]_(Ledger!ledgerVars)
  OBVIOUS
<1>0. ~astray
  BY DEF Next, Spend, Transfer, Settle, DepositNew, DepositAgain, Deposit, Prove, UpdateRoot, vars, IInv, SpentOK
<1>1. CASE DepositNew
  <2>1. PICK amount \in Amounts : Deposit([id |-> made + 1, amount |-> amount])
    BY <1>1 DEF DepositNew
  <2>2. [id |-> made + 1, amount |-> amount] \in Note
    BY AmountsAssumption DEF IInv, NotesOK, Note
  <2>3. made' = made + 1
    BY <1>1 DEF DepositNew
  <2> QED
    BY <1>0, <2>1, <2>2, <2>3, DepositMints
<1>2. CASE DepositAgain
  <2>1. PICK note \in deposited : Deposit(note)
    BY <1>2 DEF DepositAgain
  <2>2. note \in LeafNotes /\ note \in Note /\ made' = made
    BY <1>2 DEF DepositAgain, IInv, NotesOK
  <2> QED
    BY <1>0, <2>1, <2>2, DepositMints
<1>3. CASE \E p \in proofs : Settle(p)
  BY <1>3, SettleExchanges
<1>4. CASE UNCHANGED <<tree, spentNullifierHashes, astray>>
  BY <1>4 DEF Ledger!ledgerVars, Retired, LeafNotes
<1> QED
  BY <1>1, <1>2, <1>3, <1>4 DEF Next, Spend, Transfer, Prove, UpdateRoot, vars

(* The pool implements UTXOLedger: a note is minted once and exchanged at most *)
(* once, for two new notes worth no more, whatever deposits are repeated and   *)
(* proofs settled late, twice or out of order, until a proof settles that      *)
(* spends a note under a nullifier its wallet did not keep for it.             *)
THEOREM ImplementsLedger == Spec => LedgerSpec
<1>1. Init => Ledger!Init
  BY LedgerInit
<1>2. IInv /\ [Next]_vars => [Ledger!Next \/ astray']_(Ledger!ledgerVars)
  BY LedgerStep
<1> QED
  BY <1>1, <1>2, Invariance, PTL DEF Spec, LedgerSpec, Ledger!Spec

-----------------------------------------------------------------------------
(* What a settlement rests on *)

(* Every settlement is of a proof that holds now: approved by the latest root, *)
(* for leaves worth its outputs, with two nullifiers never used, whatever      *)
(* roots were published and leaves added since the proof was made, and         *)
(* whatever nullifiers and labels the prover chose.                            *)
THEOREM Settlements == Spec => SettledAsProved
<1> DEFINE Proved(p) ==
      /\ {p.labels[1], p.labels[2]} \subseteq latestRoot
      /\ {p.inputs[1], p.inputs[2]} \subseteq LeafNotes
      /\ p.outputs[1].amount + p.outputs[2].amount <= p.inputs[1].amount + p.inputs[2].amount
      /\ LeafNotes' = LeafNotes \cup {p.outputs[1], p.outputs[2]}
      /\ \E n0 \in spentNullifierHashes' \ spentNullifierHashes :
           \E n1 \in spentNullifierHashes' \ (spentNullifierHashes \cup {n0}) :
             spentNullifierHashes' = spentNullifierHashes \cup {n0, n1}
<1>1. ASSUME IInv, [Next]_vars, spentNullifierHashes' # spentNullifierHashes
      PROVE  \E p \in proofs : Proved(p)
  <2>1. PICK p \in proofs : Settle(p)
    BY <1>1 DEF Next, Spend, Transfer, DepositNew, DepositAgain, Deposit, Prove, UpdateRoot, vars
  <2>2. /\ {p.inputs[1], p.inputs[2]} \subseteq LeafNotes
        /\ p.outputs[1].amount + p.outputs[2].amount <= p.inputs[1].amount + p.inputs[2].amount
        /\ {p.labels[1], p.labels[2]} \subseteq latestRoot
    BY <2>1, <1>1 DEF IInv, ProofOK, Settle, RootsAccepted
  <2>3. /\ LeafNotes' = LeafNotes \cup {p.outputs[1], p.outputs[2]}
        /\ {p.nullifiers[1], p.nullifiers[2]} \cap spentNullifierHashes = {}
        /\ p.nullifiers[1] # p.nullifiers[2]
        /\ spentNullifierHashes' = spentNullifierHashes \cup {p.nullifiers[1], p.nullifiers[2]}
    BY <2>1, <1>1, SettleMoves
  <2>4. Proved(p)
    BY <2>2, <2>3
  <2> QED
    BY <2>4
<1>2. IInv /\ [Next]_vars =>
        (spentNullifierHashes' # spentNullifierHashes => \E p \in proofs : Proved(p))
  BY <1>1
<1> QED
  BY <1>2, Invariance, PTL DEF Spec, SettledAsProved
=============================================================================
