--------------------------- MODULE EntrypointProofs ---------------------------
(***************************************************************************)
(* The theorems about the Entrypoint and its pool, for every instance of   *)
(* the constants: every window size, tree capacity, fee, withdrawal and    *)
(* number of users, proofs and ASP roots.  First comes what each call of a *)
(* pool preserves, for every size of the root buffer, every tree capacity  *)
(* and every choice of secrets; then the Entrypoint's own steps, the       *)
(* ledger they implement, and what the unspent notes add up to.            *)
(***************************************************************************)
EXTENDS Entrypoint, FiniteSetTheorems, SequenceTheorems, WellFoundedInduction, TLAPS

(* How many roots ago slot i was written, if it was. *)
Age(i) == IF i <= currentRootIndex THEN currentRootIndex - i
          ELSE currentRootIndex + RootHistorySize - i

(* Slot i holds the root of Age(i) leaves ago: the strengthening of RootWindow. *)
RootSlots ==
  \A i \in Slot : roots[i] = IF Age(i) <= Len(leaves) THEN Len(leaves) - Age(i) ELSE 0

(* Labels are handed out in order, and no leaf carries a label not handed out. *)
LabelShape ==
  /\ Len(depositors) = nonce
  /\ Len(funded) = nonce
  /\ Len(paid) = nonce
  /\ \A i \in DOMAIN leaves : leaves[i].label \in 1 .. nonce

LeavesDistinct == \A i, j \in DOMAIN leaves : leaves[i] = leaves[j] => i = j

PoolInv ==
  /\ PoolTypeOK
  /\ LabelShape
  /\ LeavesDistinct
  /\ SpentExactly
  /\ OneLiveNotePerLabel
  /\ LabelConservation
  /\ RootSlots

-----------------------------------------------------------------------------
(* The root buffer *)

(* The strengthening implies the property: a root is in the buffer exactly     *)
(* when one of the last RootHistorySize insertions made it.                    *)
LEMMA WindowOfSlots ==
  ASSUME PoolTypeOK, RootSlots
  PROVE  RootWindow
<1> USE RootHistoryAssumption
<1>1. Len(leaves) \in Nat
  BY DEF PoolTypeOK
<1>2. \A i \in Slot : Age(i) \in 0 .. RootHistorySize - 1
  BY DEF Age, Slot, PoolTypeOK
<1>3. SUFFICES ASSUME NEW k \in 1 .. Len(leaves)
               PROVE  IsKnownRoot(k) <=> k + RootHistorySize > Len(leaves)
  BY DEF RootWindow, CurrentRoot
<1>4. ASSUME IsKnownRoot(k) PROVE k + RootHistorySize > Len(leaves)
  <2>1. PICK i \in Slot : roots[i] = k
    BY <1>4 DEF IsKnownRoot
  <2>2. Age(i) <= Len(leaves) /\ k = Len(leaves) - Age(i)
    BY <2>1, <1>1, <1>2, <1>3 DEF RootSlots
  <2> QED
    BY <2>2, <1>1, <1>2
<1>5. ASSUME k + RootHistorySize > Len(leaves) PROVE IsKnownRoot(k)
  <2> DEFINE age == Len(leaves) - k
             slot == IF age <= currentRootIndex THEN currentRootIndex - age
                     ELSE currentRootIndex + RootHistorySize - age
  <2>1. age \in 0 .. RootHistorySize - 1 /\ age <= Len(leaves)
    BY <1>1, <1>3, <1>5
  <2>2. slot \in Slot /\ Age(slot) = age
    BY <2>1 DEF Age, Slot, PoolTypeOK
  <2>3. roots[slot] = Len(leaves) - age
    BY <2>1, <2>2 DEF RootSlots
  <2>4. Len(leaves) - age = k /\ k # 0
    BY <1>1, <1>3
  <2> QED
    BY <2>2, <2>3, <2>4 DEF IsKnownRoot
<1> QED
  BY <1>4, <1>5

(* _insert shifts the age of every other slot by one and keeps the rule. *)
LEMMA InsertRoots ==
  ASSUME NEW c \in Commitment, PoolTypeOK, RootSlots, Insert(c)
  PROVE  RootSlots' /\ roots' \in [Slot -> Nat] /\ currentRootIndex' \in Slot
<1> USE RootHistoryAssumption
<1>1. Len(leaves) \in Nat /\ Len(leaves') = Len(leaves) + 1
  BY DEF Insert, PoolTypeOK
<1>2. NextSlot \in Slot /\ currentRootIndex' = NextSlot
  BY DEF NextSlot, Slot, PoolTypeOK, Insert
<1>3. roots' = [roots EXCEPT ![NextSlot] = Len(leaves) + 1] /\ roots \in [Slot -> Nat]
  BY DEF Insert, PoolTypeOK
<1>4. ASSUME NEW i \in Slot
      PROVE  Age(i)' = IF i = NextSlot THEN 0 ELSE Age(i) + 1
  BY <1>2, <1>4 DEF Age, NextSlot, Slot, PoolTypeOK
<1>5. \A i \in Slot : Age(i) \in Nat
  BY DEF Age, Slot, PoolTypeOK
<1>6. ASSUME NEW i \in Slot
      PROVE  roots'[i] = IF Age(i)' <= Len(leaves') THEN Len(leaves') - Age(i)' ELSE 0
  <2>1. CASE i = NextSlot
    BY <2>1, <1>1, <1>3, <1>4
  <2>2. CASE i # NextSlot
    <3>1. roots'[i] = roots[i]
      BY <2>2, <1>3
    <3>2. roots[i] = IF Age(i) <= Len(leaves) THEN Len(leaves) - Age(i) ELSE 0
      BY DEF RootSlots
    <3> QED
      BY <2>2, <3>1, <3>2, <1>1, <1>4, <1>5
  <2> QED
    BY <2>1, <2>2
<1>7. RootSlots'
  BY <1>6 DEF RootSlots, Slot
<1> QED
  BY <1>1, <1>2, <1>3, <1>7

-----------------------------------------------------------------------------
(* The tree and the nullifiers *)

(* _insert appends: the old leaves stay where they are. *)
LEMMA InsertAppends ==
  ASSUME NEW c \in Commitment, leaves \in Seq(Commitment), Insert(c)
  PROVE  /\ leaves' \in Seq(Commitment)
         /\ Len(leaves) \in Nat
         /\ Len(leaves') = Len(leaves) + 1
         /\ DOMAIN leaves = 1 .. Len(leaves)
         /\ DOMAIN leaves' = 1 .. Len(leaves) + 1
         /\ \A i \in DOMAIN leaves : leaves'[i] = leaves[i]
         /\ leaves'[Len(leaves) + 1] = c
         /\ \A i \in DOMAIN leaves : leaves[i] # c
BY DEF Insert, IsInState

(* The new leaf differs from all before it. *)
LEMMA InsertDistinct ==
  ASSUME NEW c \in Commitment, leaves \in Seq(Commitment), Insert(c), LeavesDistinct
  PROVE  LeavesDistinct'
<1>1. SUFFICES ASSUME NEW i \in 1 .. Len(leaves) + 1, NEW j \in 1 .. Len(leaves) + 1,
                      leaves'[i] = leaves'[j]
               PROVE  i = j
  BY InsertAppends DEF LeavesDistinct
<1>2. CASE i \in DOMAIN leaves /\ j \in DOMAIN leaves
  BY <1>1, <1>2, InsertAppends DEF LeavesDistinct
<1>3. CASE ~(i \in DOMAIN leaves /\ j \in DOMAIN leaves)
  BY <1>1, <1>3, InsertAppends
<1> QED
  BY <1>2, <1>3

LEMMA NullifierType ==
  ASSUME NEW c \in Commitment
  PROVE  NullifierHash(c) \in Nullifier
BY DEF NullifierHash, Nullifier, Commitment

(* Spending a note of the tree keeps the nullifier set exact; in particular    *)
(* the note was not spent before.                                              *)
LEMMA SpendExact ==
  ASSUME NEW c \in Commitment, PoolTypeOK, SpentExactly, IsInState(c),
         Spend(NullifierHash(c)), consumed' = consumed \cup {c},
         \A d : IsInState(d) => IsInState(d)'
  PROVE  /\ c \notin consumed
         /\ SpentExactly'
         /\ nullifierHashes' \subseteq Nullifier
         /\ consumed' \subseteq Commitment
<1>1. NullifierHash(c) \notin nullifierHashes
      /\ nullifierHashes' = nullifierHashes \cup {NullifierHash(c)}
  BY DEF Spend
<1>2. c \notin consumed
  BY <1>1 DEF SpentExactly
<1>3. \A d \in consumed' : IsInState(d)'
  BY DEF SpentExactly
<1>4. nullifierHashes' = {NullifierHash(d) : d \in consumed'}
  BY <1>1 DEF SpentExactly
<1>5. \A d, e \in consumed' : NullifierHash(d) = NullifierHash(e) => d = e
  BY <1>1 DEF SpentExactly
<1>6. nullifierHashes' \subseteq Nullifier /\ consumed' \subseteq Commitment
  BY <1>1, NullifierType DEF PoolTypeOK
<1> QED
  BY <1>2, <1>3, <1>4, <1>5, <1>6 DEF SpentExactly, NullifierHash

(* Leaves already in the tree stay in it. *)
LEMMA InsertKeeps ==
  ASSUME NEW c \in Commitment, leaves \in Seq(Commitment), Insert(c)
  PROVE  \A d : IsInState(d) => IsInState(d)'
BY InsertAppends DEF IsInState

(* Labels index the depositors and the accounts of labels. *)
LEMMA LabelDomains ==
  ASSUME PoolTypeOK, LabelShape
  PROVE  /\ nonce \in Nat
         /\ DOMAIN depositors = 1 .. nonce
         /\ DOMAIN funded = 1 .. nonce
         /\ DOMAIN paid = 1 .. nonce
         /\ \A l \in 1 .. nonce : depositors[l] \in User /\ funded[l] \in Nat /\ paid[l] \in Nat
<1>1. nonce \in Nat /\ depositors \in Seq(User) /\ funded \in Seq(Nat) /\ paid \in Seq(Nat)
  BY DEF PoolTypeOK
<1>2. Len(depositors) = nonce /\ Len(funded) = nonce /\ Len(paid) = nonce
  BY DEF LabelShape
<1>3. DOMAIN depositors = 1 .. nonce /\ DOMAIN funded = 1 .. nonce /\ DOMAIN paid = 1 .. nonce
  BY <1>1, <1>2
<1> QED
  BY <1>1, <1>3

-----------------------------------------------------------------------------
(* The token ledger *)

LEMMA MovedType ==
  ASSUME NEW b \in [Address -> Nat], NEW from \in Address, NEW to \in Address,
         NEW amount \in Nat, b[from] >= amount
  PROVE  /\ Moved(b, from, to, amount) \in [Address -> Nat]
         /\ from # to => /\ Moved(b, from, to, amount)[from] = b[from] - amount
                        /\ Moved(b, from, to, amount)[to] = b[to] + amount
         /\ from = to => Moved(b, from, to, amount)[to] = b[to]
         /\ \A a \in Address \ {from, to} : Moved(b, from, to, amount)[a] = b[a]
<1> DEFINE debited == [b EXCEPT ![from] = b[from] - amount]
<1>1. Moved(b, from, to, amount) = [debited EXCEPT ![to] = debited[to] + amount]
  BY DEF Moved
<1>2. debited \in [Address -> Nat]
  OBVIOUS
<1>3. debited[from] = b[from] - amount /\ \A a \in Address \ {from} : debited[a] = b[a]
  OBVIOUS
<1> HIDE DEF debited
<1> QED
  BY <1>1, <1>2, <1>3

-----------------------------------------------------------------------------
(* The operations.  Each lemma takes the new balances as typed: who pays whom  *)
(* is decided by the caller.                                                   *)

(* deposit opens a label whose single live note is worth all it was funded     *)
(* with.                                                                       *)
LEMMA DepositKeeps ==
  ASSUME NEW user \in User, NEW value \in Nat, NEW pre \in Precommitments,
         PoolInv, PoolDeposit(user, value, pre), balance' \in [Address -> Nat]
  PROVE  PoolInv'
<1> DEFINE c == [value |-> value, label |-> nonce + 1, pre |-> pre]
           n == Len(leaves) + 1
<1>1. c \in Commitment /\ leaves \in Seq(Commitment) /\ Insert(c)
  BY DEF PoolInv, PoolTypeOK, PoolDeposit, Commitment
<1>2. /\ leaves' \in Seq(Commitment)
      /\ DOMAIN leaves = 1 .. Len(leaves) /\ Len(leaves) \in Nat
      /\ DOMAIN leaves' = 1 .. n
      /\ \A i \in DOMAIN leaves : leaves'[i] = leaves[i] /\ leaves[i] # c
      /\ leaves'[n] = c
  BY <1>1, InsertAppends
<1>3. /\ nonce' = nonce + 1
      /\ depositors' = Append(depositors, user)
      /\ funded' = Append(funded, value)
      /\ paid' = Append(paid, 0)
      /\ dead' = dead /\ nullifierHashes' = nullifierHashes /\ consumed' = consumed
  BY DEF PoolDeposit
<1>4. RootSlots' /\ roots' \in [Slot -> Nat] /\ currentRootIndex' \in Slot
  BY <1>1, InsertRoots DEF PoolInv
<1>5. LeavesDistinct'
  BY <1>1, InsertDistinct DEF PoolInv
<1>6. PoolTypeOK'
  BY <1>2, <1>3, <1>4 DEF PoolInv, PoolTypeOK
<1>7. LabelShape'
  <2>1. Len(depositors') = nonce' /\ Len(funded') = nonce' /\ Len(paid') = nonce'
    BY <1>3 DEF PoolInv, PoolTypeOK, LabelShape
  <2>2. ASSUME NEW i \in DOMAIN leaves' PROVE leaves'[i].label \in 1 .. nonce'
    <3>1. nonce \in Nat /\ nonce' = nonce + 1
      BY <1>3 DEF PoolInv, PoolTypeOK
    <3>2. CASE i \in DOMAIN leaves
      BY <3>1, <3>2, <1>2 DEF PoolInv, LabelShape
    <3>3. CASE i = n
      BY <3>1, <3>3, <1>2
    <3> QED
      BY <3>2, <3>3, <1>2
  <2> QED
    BY <2>1, <2>2 DEF LabelShape
<1>8. SpentExactly'
  BY <1>1, <1>3, InsertKeeps DEF PoolInv, SpentExactly, NullifierHash
<1>9. Live' \subseteq Live \cup {n}
  BY <1>2, <1>3 DEF Live
<1>10. OneLiveNotePerLabel'
  <2>1. \A i \in Live : leaves'[i].label \in 1 .. nonce /\ leaves'[i].label = leaves[i].label
    BY <1>2 DEF Live, PoolInv, LabelShape
  <2>2. leaves'[n].label = nonce + 1
    BY <1>2
  <2>3. SUFFICES ASSUME NEW i \in Live', NEW j \in Live', leaves'[i].label = leaves'[j].label
                 PROVE  i = j
    BY DEF OneLiveNotePerLabel
  <2>4. nonce \in Nat /\ nonce + 1 \notin 1 .. nonce
    BY DEF PoolInv, PoolTypeOK
  <2>5. CASE i \in Live /\ j \in Live
    BY <2>1, <2>3, <2>5 DEF PoolInv, OneLiveNotePerLabel
  <2> QED
    BY <1>9, <2>1, <2>2, <2>3, <2>4, <2>5
<1>11. LabelConservation'
  <2>1. /\ DOMAIN funded = 1 .. nonce /\ nonce \in Nat
        /\ \A l \in 1 .. nonce : funded[l] \in Nat /\ paid[l] \in Nat
    BY LabelDomains DEF PoolInv
  <2>0. DOMAIN funded' = 1 .. nonce + 1
    BY <1>3, <2>1 DEF PoolInv, PoolTypeOK, LabelShape
  <2>2. \A l \in 1 .. nonce : funded'[l] = funded[l] /\ paid'[l] = paid[l]
    BY <1>3 DEF PoolInv, PoolTypeOK, LabelShape
  <2>3. funded'[nonce + 1] = value /\ paid'[nonce + 1] = 0
    BY <1>3 DEF PoolInv, PoolTypeOK, LabelShape
  <2>4. ASSUME NEW l \in DOMAIN funded' PROVE paid'[l] <= funded'[l]
    <3>1. CASE l = nonce + 1
      BY <3>1, <2>3
    <3>2. CASE l \in DOMAIN funded
      BY <3>2, <2>1, <2>2 DEF PoolInv, LabelConservation
    <3> QED
      BY <3>1, <3>2, <2>0, <2>1
  <2>5. ASSUME NEW i \in Live'
        PROVE  paid'[leaves'[i].label] + leaves'[i].value = funded'[leaves'[i].label]
    <3>1. CASE i = n
      BY <3>1, <1>2, <2>3
    <3>2. CASE i \in Live
      <4>1. leaves'[i] = leaves[i] /\ leaves[i].label \in 1 .. nonce
        BY <3>2, <1>2 DEF Live, PoolInv, LabelShape
      <4> QED
        BY <3>2, <4>1, <2>2 DEF PoolInv, LabelConservation
    <3> QED
      BY <3>1, <3>2, <1>9
  <2> QED
    BY <2>4, <2>5 DEF LabelConservation
<1> QED
  BY <1>4, <1>5, <1>6, <1>7, <1>8, <1>10, <1>11 DEF PoolInv

(* withdraw moves the value of the live note of a label into the amount paid   *)
(* and at most one new live note.                                              *)
LEMMA WithdrawKeeps ==
  ASSUME NEW sender, NEW withdrawal, NEW aspRoot, NEW proof \in Proof,
         PoolInv, IsInState(proof.note), proof.withdrawnValue <= proof.note.value,
         PoolWithdraw(sender, withdrawal, proof, aspRoot), balance' \in [Address -> Nat]
  PROVE  PoolInv' /\ proof.note \notin consumed
<1> DEFINE c == proof.note
           w == proof.withdrawnValue
           d == NewCommitment(proof)
           n == Len(leaves) + 1
<1>1. /\ c \in Commitment /\ w \in Nat /\ w <= c.value /\ c.value \in Nat
      /\ d \in Commitment /\ d.label = c.label /\ d.value = c.value - w
  BY DEF Proof, Commitment, NewCommitment
<1>2. leaves \in Seq(Commitment) /\ Insert(d)
  BY DEF PoolInv, PoolTypeOK, PoolWithdraw
<1>3. /\ leaves' \in Seq(Commitment)
      /\ DOMAIN leaves = 1 .. Len(leaves) /\ Len(leaves) \in Nat
      /\ DOMAIN leaves' = 1 .. n
      /\ \A i \in DOMAIN leaves : leaves'[i] = leaves[i] /\ leaves[i] # d
      /\ leaves'[n] = d
  BY <1>1, <1>2, InsertAppends
<1>4. /\ consumed' = consumed \cup {c}
      /\ paid' = [paid EXCEPT ![c.label] = paid[c.label] + w]
      /\ funded' = funded /\ nonce' = nonce /\ dead' = dead /\ depositors' = depositors
      /\ Spend(NullifierHash(c))
  BY DEF PoolWithdraw, Consume
<1>5. RootSlots' /\ roots' \in [Slot -> Nat] /\ currentRootIndex' \in Slot
  BY <1>1, <1>2, InsertRoots DEF PoolInv
<1>6. LeavesDistinct'
  BY <1>1, <1>2, InsertDistinct DEF PoolInv
<1>7. /\ c \notin consumed
      /\ SpentExactly'
      /\ nullifierHashes' \subseteq Nullifier /\ consumed' \subseteq Commitment
  BY <1>1, <1>2, <1>4, InsertKeeps, SpendExact DEF PoolInv
<1>8. PICK k \in Live : leaves[k] = c
  BY <1>7 DEF IsInState, Live
<1>9. /\ nonce \in Nat /\ c.label \in 1 .. nonce
      /\ DOMAIN funded = 1 .. nonce /\ DOMAIN paid = 1 .. nonce
      /\ \A l \in 1 .. nonce : funded[l] \in Nat /\ paid[l] \in Nat /\ paid[l] <= funded[l]
      /\ paid[c.label] + c.value = funded[c.label]
  BY <1>8, LabelDomains DEF PoolInv, LabelShape, LabelConservation, Live
<1>10. paid' \in Seq(Nat) /\ Len(paid') = Len(paid)
  <2>1. paid \in Seq(Nat) /\ c.label \in 1 .. Len(paid)
    BY <1>9 DEF PoolInv, PoolTypeOK, LabelShape
  <2>2. paid[c.label] + w \in Nat
    BY <1>1, <1>9
  <2> QED
    BY <1>4, <2>1, <2>2, ExceptSeq
<1>11. PoolTypeOK'
  BY <1>3, <1>4, <1>5, <1>7, <1>10 DEF PoolInv, PoolTypeOK
<1>12. LabelShape'
  <2>1. ASSUME NEW i \in DOMAIN leaves' PROVE leaves'[i].label \in 1 .. nonce'
    <3>1. CASE i \in DOMAIN leaves
      BY <3>1, <1>3, <1>4 DEF PoolInv, LabelShape
    <3>2. CASE i = n
      BY <3>2, <1>1, <1>3, <1>4, <1>9
    <3> QED
      BY <3>1, <3>2, <1>3
  <2> QED
    BY <2>1, <1>4, <1>10 DEF PoolInv, LabelShape
<1>13. Live' \subseteq (Live \ {k}) \cup {n} /\ n \notin Live
  BY <1>3, <1>4, <1>8 DEF Live
<1>14. \A i \in Live \ {k} : leaves'[i] = leaves[i] /\ leaves[i].label # c.label
  BY <1>3, <1>8 DEF PoolInv, OneLiveNotePerLabel, Live
<1>15. OneLiveNotePerLabel'
  <2>1. SUFFICES ASSUME NEW i \in Live', NEW j \in Live', leaves'[i].label = leaves'[j].label
                 PROVE  i = j
    BY DEF OneLiveNotePerLabel
  <2>2. CASE i \in Live \ {k} /\ j \in Live \ {k}
    BY <1>14, <2>1, <2>2 DEF PoolInv, OneLiveNotePerLabel
  <2>3. leaves'[n].label = c.label
    BY <1>1, <1>3
  <2> QED
    BY <1>13, <1>14, <2>1, <2>2, <2>3
<1>16. LabelConservation'
  <2>1. /\ paid'[c.label] = paid[c.label] + w
        /\ \A l \in 1 .. nonce : l # c.label => paid'[l] = paid[l]
    BY <1>4, <1>9
  <2>2. ASSUME NEW l \in DOMAIN funded' PROVE paid'[l] <= funded'[l]
    <3>1. l \in 1 .. nonce /\ funded'[l] = funded[l]
      BY <1>4, <1>9
    <3>2. CASE l = c.label
      <4>1. paid[l] \in Nat /\ funded[l] \in Nat /\ paid[l] + c.value = funded[l]
        BY <3>2, <1>9
      <4>2. paid'[l] = paid[l] + w
        BY <3>2, <2>1
      <4> HIDE DEF c, w
      <4> QED
        BY <3>1, <4>1, <4>2, <1>1
    <3>3. CASE l # c.label
      BY <3>1, <3>3, <2>1, <1>9
    <3> QED
      BY <3>2, <3>3
  <2>3. ASSUME NEW i \in Live'
        PROVE  paid'[leaves'[i].label] + leaves'[i].value = funded'[leaves'[i].label]
    <3>1. CASE i = n
      <4>1. leaves'[i].label = c.label /\ leaves'[i].value = c.value - w
        BY <3>1, <1>1, <1>3
      <4>2. /\ paid[c.label] \in Nat /\ paid'[c.label] = paid[c.label] + w
            /\ paid[c.label] + c.value = funded[c.label] /\ funded' = funded
        BY <1>4, <1>9, <2>1
      <4>3. c.value \in Nat /\ w \in Nat
        BY <1>1
      <4> HIDE DEF c, w
      <4> QED
        BY <4>1, <4>2, <4>3
    <3>2. CASE i \in Live \ {k}
      <4>1. leaves'[i] = leaves[i] /\ leaves[i].label \in 1 .. nonce
            /\ leaves[i].label # c.label
        BY <3>2, <1>14 DEF PoolInv, LabelShape, Live
      <4> QED
        BY <3>2, <4>1, <2>1, <1>4 DEF PoolInv, LabelConservation
    <3> QED
      BY <3>1, <3>2, <1>13
  <2> QED
    BY <2>2, <2>3 DEF LabelConservation
<1> QED
  BY <1>5, <1>6, <1>7, <1>11, <1>12, <1>15, <1>16 DEF PoolInv

(* ragequit closes a label: its live note is spent and all of it is paid. *)
LEMMA RagequitKeeps ==
  ASSUME NEW sender \in User, NEW c \in Commitment, PoolInv, Ragequit(sender, c)
  PROVE  /\ PoolInv'
         /\ c \notin consumed /\ c.label \in 1 .. nonce
         /\ paid'[c.label] = funded[c.label] /\ paid[c.label] + c.value = funded[c.label]
<1>1. /\ consumed' = consumed \cup {c}
      /\ paid' = [paid EXCEPT ![c.label] = paid[c.label] + c.value]
      /\ funded' = funded /\ nonce' = nonce /\ dead' = dead /\ depositors' = depositors
      /\ leaves' = leaves /\ roots' = roots /\ currentRootIndex' = currentRootIndex
      /\ Spend(NullifierHash(c)) /\ IsInState(c)
  BY DEF Ragequit, Consume
<1>2. balance' \in [Address -> Nat]
  <2>1. /\ balance \in [Address -> Nat] /\ PoolAddr \in Address /\ sender \in Address
        /\ c.value \in Nat
    BY DEF PoolInv, PoolTypeOK, Address, Commitment
  <2>2. balance[PoolAddr] >= c.value /\ balance' = Moved(balance, PoolAddr, sender, c.value)
    BY DEF Ragequit
  <2> QED
    BY <2>1, <2>2, MovedType
<1>3. /\ c \notin consumed
      /\ SpentExactly'
      /\ nullifierHashes' \subseteq Nullifier /\ consumed' \subseteq Commitment
  <2>1. \A d : IsInState(d) => IsInState(d)'
    BY <1>1 DEF IsInState
  <2> QED
    BY <1>1, <2>1, SpendExact DEF PoolInv
<1>4. PICK k \in Live : leaves[k] = c
  BY <1>1, <1>3 DEF IsInState, Live
<1>5. /\ nonce \in Nat /\ c.label \in 1 .. nonce /\ c.value \in Nat
      /\ DOMAIN funded = 1 .. nonce /\ DOMAIN paid = 1 .. nonce
      /\ \A l \in 1 .. nonce : funded[l] \in Nat /\ paid[l] \in Nat /\ paid[l] <= funded[l]
      /\ paid[c.label] + c.value = funded[c.label]
  BY <1>4, LabelDomains DEF PoolInv, LabelShape, LabelConservation, Live, Commitment
<1>6. /\ paid' \in Seq(Nat) /\ Len(paid') = Len(paid)
      /\ paid'[c.label] = funded[c.label]
      /\ \A l \in 1 .. nonce : l # c.label => paid'[l] = paid[l]
  <2>1. paid \in Seq(Nat) /\ c.label \in 1 .. Len(paid) /\ Len(paid) = nonce
    BY <1>5 DEF PoolInv, PoolTypeOK, LabelShape
  <2>2. paid[c.label] + c.value \in Nat
    BY <1>5
  <2> QED
    BY <1>1, <1>5, <2>1, <2>2, ExceptSeq
<1>7. PoolTypeOK'
  BY <1>1, <1>2, <1>3, <1>6 DEF PoolInv, PoolTypeOK
<1>8. LabelShape' /\ LeavesDistinct'
  BY <1>1, <1>6 DEF PoolInv, LabelShape, LeavesDistinct
<1>9. RootSlots'
  BY <1>1 DEF PoolInv, RootSlots, Age
<1>10. Live' \subseteq Live \ {k}
  BY <1>1, <1>4 DEF Live
<1>11. OneLiveNotePerLabel'
  BY <1>1, <1>10 DEF PoolInv, OneLiveNotePerLabel
<1>12. LabelConservation'
  <2>1. ASSUME NEW l \in DOMAIN funded' PROVE paid'[l] <= funded'[l]
    <3>1. l \in 1 .. nonce /\ funded'[l] = funded[l] /\ funded[l] \in Nat
      BY <1>1, <1>5
    <3>2. CASE l = c.label
      BY <3>1, <3>2, <1>6
    <3>3. CASE l # c.label
      BY <3>1, <3>3, <1>5, <1>6
    <3> QED
      BY <3>2, <3>3
  <2>2. ASSUME NEW i \in Live'
        PROVE  paid'[leaves'[i].label] + leaves'[i].value = funded'[leaves'[i].label]
    <3>1. /\ i \in Live /\ leaves[i].label \in 1 .. nonce
          /\ leaves[i].label # c.label
      BY <1>4, <1>10 DEF PoolInv, LabelShape, OneLiveNotePerLabel, Live
    <3> QED
      BY <3>1, <1>1, <1>6 DEF PoolInv, LabelConservation
  <2> QED
    BY <2>1, <2>2 DEF LabelConservation
<1> QED
  BY <1>3, <1>5, <1>6, <1>7, <1>8, <1>9, <1>11, <1>12 DEF PoolInv

(* Everything else a transaction may do to a pool: move tokens around it, or   *)
(* wind it down.                                                               *)
LEMMA IdleKeeps ==
  ASSUME PoolInv, dead' \in BOOLEAN, balance' \in [Address -> Nat],
         UNCHANGED <<nonce, roots, currentRootIndex, leaves, nullifierHashes, depositors,
                     consumed, funded, paid>>
  PROVE  PoolInv'
BY DEF PoolInv, PoolTypeOK, LabelShape, LeavesDistinct, SpentExactly, OneLiveNotePerLabel,
       LabelConservation, RootSlots, Age, IsInState, Live, Slot, Nullifier, NullifierHash

(* A pool as the constructor leaves it. *)
LEMMA InitKeeps ==
  ASSUME PoolInit, balance \in [Address -> Nat]
  PROVE  PoolInv
<1> USE RootHistoryAssumption
<1>1. /\ nonce = 0 /\ dead = FALSE /\ roots = [i \in Slot |-> 0] /\ currentRootIndex = 0
      /\ leaves = << >> /\ nullifierHashes = {} /\ depositors = << >>
      /\ consumed = {} /\ funded = << >> /\ paid = << >>
  BY DEF PoolInit, StateInit
<1>2. PoolTypeOK
  BY <1>1 DEF PoolTypeOK, Slot
<1>3. RootSlots
  BY <1>1 DEF RootSlots, Age, Slot
<1>4. LabelShape /\ LeavesDistinct /\ SpentExactly /\ OneLiveNotePerLabel /\ LabelConservation
  BY <1>1 DEF LabelShape, LeavesDistinct, SpentExactly, OneLiveNotePerLabel, LabelConservation, Live
<1> QED
  BY <1>2, <1>3, <1>4 DEF PoolInv

-----------------------------------------------------------------------------
(* The Entrypoint *)

(* What a proof in flight guarantees at any later time: its note is a leaf, it *)
(* withdraws no more than the note is worth, and its ASP root holds its label. *)
ProofsSound ==
  \A proof \in proofs :
    /\ IsInState(proof.note)
    /\ proof.withdrawnValue <= proof.note.value
    /\ proof.note.label \in proof.ASPRoot

(* The inductive invariant. *)
IInv == TypeOK /\ PoolInv /\ ProofsSound

-----------------------------------------------------------------------------
(* Fees *)

(* A fee below 100% never takes more than the amount (_deductFee). *)
LEMMA DeductFeeBound ==
  ASSUME NEW amount \in Nat, NEW feeBPS \in Nat, feeBPS <= FeeBasis
  PROVE  DeductFee(amount, feeBPS) \in 0 .. amount
<1> DEFINE fee == (amount * feeBPS) \div FeeBasis
<1>1. amount * feeBPS \in Nat /\ amount * feeBPS <= amount * FeeBasis
  <2>1. FeeBasis - feeBPS \in Nat /\ FeeBasis = feeBPS + (FeeBasis - feeBPS)
    BY DEF FeeBasis
  <2>2. PICK rest \in Nat : FeeBasis = feeBPS + rest
    BY <2>1
  <2>3. amount * FeeBasis = amount * feeBPS + amount * rest /\ amount * rest \in Nat
    BY <2>2
  <2> QED
    BY <2>3
<1>2. fee \in Nat /\ fee <= amount
  BY <1>1 DEF FeeBasis
<1> QED
  BY <1>2 DEF DeductFee

-----------------------------------------------------------------------------
(* Where the tokens of a call go *)

(* deposit: the user pays the amount, the pool gets it less the vetting fee.   *)
LEMMA DepositBalances ==
  ASSUME IInv, NEW user \in User, NEW value \in DepositValue, NEW pre \in Precommitments,
         Deposit(user, value, pre)
  PROVE  /\ DeductFee(value, assetConfig.vettingFeeBPS) \in 0 .. value
         /\ value \in Nat /\ value <= balance[user]
         /\ balance' \in [Address -> Nat]
         /\ balance'[PoolAddr] = balance[PoolAddr] + DeductFee(value, assetConfig.vettingFeeBPS)
         /\ balance'[user] = balance[user] - value
<1> DEFINE afterFees == DeductFee(value, assetConfig.vettingFeeBPS)
           collected == Moved(balance, user, EntrypointAddr, value)
<1>1. value \in Nat /\ balance[user] >= value
  BY InputAssumption DEF Deposit
<1>2. afterFees \in 0 .. value
  <2>1. assetConfig.vettingFeeBPS \in Nat /\ assetConfig.vettingFeeBPS <= FeeBasis
    BY DEF IInv, TypeOK, AssetConfig, ValidConfig, FeeBasis
  <2> QED
    BY <1>1, <2>1, DeductFeeBound
<1>3. /\ user \in Address /\ EntrypointAddr \in Address /\ PoolAddr \in Address
      /\ user # EntrypointAddr /\ user # PoolAddr /\ EntrypointAddr # PoolAddr
      /\ balance \in [Address -> Nat]
  BY AddressAssumption DEF Address, IInv, PoolInv, PoolTypeOK
<1>4. /\ collected \in [Address -> Nat]
      /\ collected[EntrypointAddr] = balance[EntrypointAddr] + value
      /\ collected[user] = balance[user] - value
      /\ collected[PoolAddr] = balance[PoolAddr]
  BY <1>1, <1>3, MovedType
<1>5. afterFees \in Nat /\ collected[EntrypointAddr] >= afterFees
  BY <1>1, <1>2, <1>3, <1>4
<1>6. balance' = Moved(collected, EntrypointAddr, PoolAddr, afterFees)
  BY DEF Deposit
<1> HIDE DEF afterFees, collected
<1>7. /\ balance' \in [Address -> Nat]
      /\ balance'[PoolAddr] = collected[PoolAddr] + afterFees
      /\ balance'[user] = collected[user]
  BY <1>3, <1>4, <1>5, <1>6, MovedType
<1> QED
  BY <1>1, <1>2, <1>4, <1>7 DEF afterFees

(* A transfer out of the Entrypoint never takes tokens from the pool. *)
LEMMA EntrypointPays ==
  ASSUME NEW b \in [Address -> Nat], NEW to \in Address, NEW amount \in Nat,
         b[EntrypointAddr] >= amount
  PROVE  /\ Moved(b, EntrypointAddr, to, amount) \in [Address -> Nat]
         /\ Moved(b, EntrypointAddr, to, amount)[EntrypointAddr] >= b[EntrypointAddr] - amount
         /\ Moved(b, EntrypointAddr, to, amount)[PoolAddr] >= b[PoolAddr]
<1> DEFINE after == Moved(b, EntrypointAddr, to, amount)
<1>1. /\ EntrypointAddr \in Address /\ PoolAddr \in Address /\ EntrypointAddr # PoolAddr
      /\ b[EntrypointAddr] \in Nat /\ b[PoolAddr] \in Nat
  BY AddressAssumption DEF Address
<1>2. /\ after \in [Address -> Nat]
      /\ EntrypointAddr # to => /\ after[EntrypointAddr] = b[EntrypointAddr] - amount
                               /\ after[to] = b[to] + amount
      /\ EntrypointAddr = to => after[to] = b[to]
      /\ PoolAddr \notin {EntrypointAddr, to} => after[PoolAddr] = b[PoolAddr]
  BY <1>1, MovedType
<1> HIDE DEF after
<1>3. after[EntrypointAddr] >= b[EntrypointAddr] - amount
  BY <1>1, <1>2
<1>4. after[PoolAddr] >= b[PoolAddr]
  BY <1>1, <1>2
<1> QED
  BY <1>2, <1>3, <1>4 DEF after

(* relay: the pool pays the withdrawn amount, and gets some of it back only    *)
(* when it is itself the recipient.                                            *)
LEMMA RelayBalances ==
  ASSUME IInv, NEW withdrawal \in WithdrawalData, NEW proof \in proofs, Relay(withdrawal, proof)
  PROVE  /\ balance' \in [Address -> Nat]
         /\ balance'[PoolAddr] >= balance[PoolAddr] - proof.withdrawnValue
<1> DEFINE amount    == proof.withdrawnValue
           afterFees == DeductFee(amount, withdrawal.relayFeeBPS)
           pushed    == Moved(balance, PoolAddr, EntrypointAddr, amount)
           delivered == Moved(pushed, EntrypointAddr, withdrawal.recipient, afterFees)
           to        == withdrawal.recipient
           feeTo     == withdrawal.feeRecipient
<1>1. amount \in Nat /\ balance[PoolAddr] >= amount
  BY DEF IInv, TypeOK, Proof, Relay, PoolWithdraw
<1>2. withdrawal.relayFeeBPS \in Nat /\ to \in Address /\ feeTo \in Address
  BY InputAssumption DEF Withdrawal
<1>3. afterFees \in 0 .. amount
  <2>1. withdrawal.relayFeeBPS <= FeeBasis
    <3>1. withdrawal.relayFeeBPS <= assetConfig.maxRelayFeeBPS
      BY DEF Relay
    <3>2. assetConfig.maxRelayFeeBPS \in Nat /\ assetConfig.maxRelayFeeBPS < FeeBasis
      BY DEF IInv, TypeOK, AssetConfig, ValidConfig
    <3> QED
      BY <1>2, <3>1, <3>2 DEF FeeBasis
  <2> QED
    BY <1>1, <1>2, <2>1, DeductFeeBound
<1>4. /\ EntrypointAddr \in Address /\ PoolAddr \in Address /\ EntrypointAddr # PoolAddr
      /\ balance \in [Address -> Nat]
  BY AddressAssumption DEF Address, IInv, PoolInv, PoolTypeOK
<1>5. balance' = Moved(delivered, EntrypointAddr, feeTo, amount - afterFees)
  BY DEF Relay
<1>6. /\ pushed \in [Address -> Nat]
      /\ pushed[EntrypointAddr] = balance[EntrypointAddr] + amount
      /\ pushed[PoolAddr] = balance[PoolAddr] - amount
  BY <1>1, <1>4, MovedType
<1> HIDE DEF pushed, amount, to, feeTo
<1>7. afterFees \in Nat /\ pushed[EntrypointAddr] >= afterFees
  BY <1>1, <1>3, <1>4, <1>6
<1>8. /\ delivered \in [Address -> Nat]
      /\ delivered[EntrypointAddr] >= pushed[EntrypointAddr] - afterFees
      /\ delivered[PoolAddr] >= pushed[PoolAddr]
  <2>1. delivered = Moved(pushed, EntrypointAddr, to, afterFees)
    BY DEF to
  <2> QED
    BY <2>1, <1>2, <1>6, <1>7, EntrypointPays
<1> HIDE DEF delivered
<1>9. amount - afterFees \in Nat /\ delivered[EntrypointAddr] >= amount - afterFees
  BY <1>1, <1>3, <1>4, <1>6, <1>7, <1>8
<1> HIDE DEF afterFees
<1>10. balance' \in [Address -> Nat] /\ balance'[PoolAddr] >= delivered[PoolAddr]
  BY <1>2, <1>5, <1>8, <1>9, EntrypointPays
<1> QED
  BY <1>1, <1>4, <1>6, <1>8, <1>10 DEF amount

-----------------------------------------------------------------------------
(* The inductive invariant *)

(* A constructed pool and a fresh Entrypoint satisfy the invariant. *)
LEMMA InitIInv == Init => IInv
<1> SUFFICES ASSUME Init PROVE IInv
  OBVIOUS
<1>1. balance \in [Address -> Nat]
  BY InputAssumption DEF Init, Address
<1>2. PoolInv
  BY <1>1, InitKeeps DEF Init
<1>3. TypeOK
  <2>1. registered = FALSE /\ assetConfig = NoConfig /\ associationSets = << >>
        /\ usedPrecommitments = {} /\ proofs = {}
    BY DEF Init
  <2>2. assetConfig \in AssetConfig /\ ValidConfig(assetConfig)
    BY <2>1 DEF NoConfig, AssetConfig, ValidConfig, FeeBasis
  <2>3. registered \in BOOLEAN /\ usedPrecommitments \subseteq Precommitments /\ proofs \subseteq Proof
    BY <2>1
  <2>4. associationSets \in Seq(SUBSET Nat)
    <3>1. << >> \in Seq(SUBSET Nat)
      OBVIOUS
    <3> QED
      BY <3>1, <2>1
  <2> QED
    BY <1>2, <2>2, <2>3, <2>4 DEF PoolInv, TypeOK
<1> QED
  BY <1>2, <1>3 DEF IInv, ProofsSound, Init

(* Leaves are never removed, so what a proof in flight was built on stays true. *)
LEMMA ProofsStaySound ==
  ASSUME ProofsSound, proofs' = proofs, \A c : IsInState(c) => IsInState(c)'
  PROVE  ProofsSound'
BY DEF ProofsSound

(* Every transaction and every proof built off chain keeps the invariant. *)
LEMMA NextIInv ==
  ASSUME IInv, [Next]_vars
  PROVE  IInv'
<1> USE DEF IInv
<1>1. ASSUME NEW approved \in SUBSET (1 .. nonce), UpdateRoot(approved) PROVE IInv'
  <2>1. PoolInv'
    BY <1>1, IdleKeeps DEF UpdateRoot, poolVars, stateVars, PoolInv, PoolTypeOK
  <2>2. ProofsSound'
    BY <1>1 DEF UpdateRoot, poolVars, stateVars, ProofsSound, IsInState
  <2>3. associationSets' \in Seq(SUBSET Nat)
    <3>1. approved \in SUBSET Nat /\ associationSets \in Seq(SUBSET Nat)
      BY DEF TypeOK, PoolTypeOK
    <3> QED
      BY <1>1, <3>1 DEF UpdateRoot
  <2> QED
    BY <1>1, <2>1, <2>2, <2>3 DEF UpdateRoot, TypeOK, PoolInv, Proof
<1>2. ASSUME NEW user \in User, NEW value \in DepositValue, NEW pre \in Precommitments,
             Deposit(user, value, pre)
      PROVE  IInv'
  <2> DEFINE afterFees == DeductFee(value, assetConfig.vettingFeeBPS)
  <2>1. /\ afterFees \in Nat /\ PoolDeposit(user, afterFees, pre)
        /\ balance' \in [Address -> Nat]
    BY <1>2, DepositBalances DEF Deposit
  <2> HIDE DEF afterFees
  <2>2. PoolInv'
    BY <2>1, DepositKeeps
  <2>3. /\ leaves \in Seq(Commitment)
        /\ Insert([value |-> afterFees, label |-> nonce + 1, pre |-> pre])
        /\ [value |-> afterFees, label |-> nonce + 1, pre |-> pre] \in Commitment
    BY <2>1 DEF PoolDeposit, PoolInv, PoolTypeOK, Commitment
  <2>4. ProofsSound'
    <3>1. proofs' = proofs
      BY <1>2 DEF Deposit
    <3> QED
      BY <2>3, <3>1, InsertKeeps, ProofsStaySound
  <2> QED
    BY <1>2, <2>2, <2>4 DEF Deposit, TypeOK, PoolInv
<1>3. ASSUME NEW i \in DOMAIN leaves, NEW newPre \in Precommitments, NEW w \in WithdrawalData,
             NEW value \in 0 .. leaves[i].value, Prove(leaves[i], value, newPre, w)
      PROVE  IInv'
  <2> DEFINE new == [note |-> leaves[i], newPre |-> newPre, withdrawnValue |-> value,
                     stateRoot |-> CurrentRoot, ASPRoot |-> LatestRoot, context |-> w]
  <2>1. UNCHANGED <<poolVars, entrypointVars>> /\ proofs' = proofs \cup {new} /\ HasRoot
    BY <1>3 DEF Prove
  <2>2. PoolInv'
    BY <2>1, IdleKeeps DEF poolVars, stateVars, PoolInv, PoolTypeOK
  <2>3. leaves[i] \in Commitment /\ value \in Nat /\ value <= leaves[i].value
    <3>1. leaves[i] \in Commitment
      BY DEF PoolInv, PoolTypeOK
    <3>2. leaves[i].value \in Nat
      BY <3>1 DEF Commitment
    <3> QED
      BY <3>1, <3>2
  <2>4. CurrentRoot \in Nat /\ LatestRoot \in SUBSET Nat /\ w \in Withdrawal
    BY <2>1, InputAssumption DEF CurrentRoot, LatestRoot, HasRoot, TypeOK, PoolTypeOK
  <2>5. new \in Proof
    BY <2>3, <2>4 DEF Proof
  <2>6. ProofsSound'
    <3>1. IsInState(leaves[i])
      BY DEF IsInState
    <3>2. leaves[i].label \in LatestRoot
      BY <1>3 DEF Prove
    <3>3. leaves' = leaves
      BY <2>1 DEF poolVars, stateVars
    <3> QED
      BY <2>1, <2>3, <3>1, <3>2, <3>3 DEF ProofsSound, IsInState
  <2> QED
    BY <2>1, <2>2, <2>5, <2>6 DEF TypeOK, PoolInv, entrypointVars
<1>4. ASSUME NEW proof \in proofs, NEW w \in WithdrawalData, Relay(w, proof) PROVE IInv'
  <2>1. balance' \in [Address -> Nat]
    BY <1>4, RelayBalances
  <2>2. /\ proof \in Proof /\ IsInState(proof.note) /\ proof.withdrawnValue <= proof.note.value
        /\ PoolWithdraw(EntrypointAddr, w, proof, LatestRoot)
    BY <1>4 DEF TypeOK, ProofsSound, Relay
  <2>3. PoolInv'
    BY <2>1, <2>2, WithdrawKeeps
  <2>4. leaves \in Seq(Commitment) /\ Insert(NewCommitment(proof)) /\ NewCommitment(proof) \in Commitment
    BY <2>2 DEF PoolWithdraw, PoolInv, PoolTypeOK, NewCommitment, Commitment, Proof
  <2>5. ProofsSound'
    <3>1. proofs' = proofs
      BY <1>4 DEF Relay
    <3> QED
      BY <2>4, <3>1, InsertKeeps, ProofsStaySound
  <2> QED
    BY <1>4, <2>3, <2>5 DEF Relay, TypeOK, PoolInv, entrypointVars
<1>5. ASSUME NEW sender \in User, NEW proof \in proofs, NEW w \in WithdrawalData,
             Withdraw(sender, w, proof)
      PROVE  IInv'
  <2>1. /\ proof \in Proof /\ IsInState(proof.note) /\ proof.withdrawnValue <= proof.note.value
        /\ PoolWithdraw(sender, w, proof, LatestRoot)
    BY <1>5 DEF TypeOK, ProofsSound, Withdraw
  <2>2. balance' \in [Address -> Nat]
    <3>1. /\ balance \in [Address -> Nat] /\ PoolAddr \in Address /\ sender \in Address
          /\ proof.withdrawnValue \in Nat /\ balance[PoolAddr] >= proof.withdrawnValue
      BY <2>1 DEF PoolInv, PoolTypeOK, Address, Proof, PoolWithdraw
    <3> QED
      BY <1>5, <3>1, MovedType DEF Withdraw
  <2>3. PoolInv'
    BY <2>1, <2>2, WithdrawKeeps
  <2>4. leaves \in Seq(Commitment) /\ Insert(NewCommitment(proof)) /\ NewCommitment(proof) \in Commitment
    BY <2>1 DEF PoolWithdraw, PoolInv, PoolTypeOK, NewCommitment, Commitment, Proof
  <2>5. ProofsSound'
    <3>1. proofs' = proofs
      BY <1>5 DEF Withdraw
    <3> QED
      BY <2>4, <3>1, InsertKeeps, ProofsStaySound
  <2> QED
    BY <1>5, <2>3, <2>5 DEF Withdraw, TypeOK, PoolInv, entrypointVars
<1>6. ASSUME NEW user \in User, NEW i \in DOMAIN leaves, Exit(user, leaves[i]) PROVE IInv'
  <2>1. leaves[i] \in Commitment /\ Ragequit(user, leaves[i])
    BY <1>6 DEF Exit, PoolInv, PoolTypeOK
  <2>2. PoolInv'
    BY <2>1, RagequitKeeps
  <2>3. ProofsSound'
    BY <1>6 DEF Exit, Ragequit, ProofsSound, IsInState
  <2> QED
    BY <1>6, <2>2, <2>3 DEF Exit, TypeOK, PoolInv, entrypointVars
<1>7. ASSUME NEW config \in PoolConfig, RegisterPool(config) \/ UpdatePoolConfiguration(config)
      PROVE  IInv'
  <2>1. PoolInv'
    BY <1>7, IdleKeeps DEF RegisterPool, UpdatePoolConfiguration, poolVars, stateVars, PoolInv, PoolTypeOK
  <2>2. ProofsSound'
    BY <1>7 DEF RegisterPool, UpdatePoolConfiguration, poolVars, stateVars, ProofsSound, IsInState
  <2> QED
    BY <1>7, <2>1, <2>2, InputAssumption DEF RegisterPool, UpdatePoolConfiguration, TypeOK, PoolInv, ValidConfig
<1>8. ASSUME RemovePool PROVE IInv'
  <2>1. PoolInv'
    BY <1>8, IdleKeeps DEF RemovePool, poolVars, stateVars, PoolInv, PoolTypeOK
  <2>2. ProofsSound'
    BY <1>8 DEF RemovePool, poolVars, stateVars, ProofsSound, IsInState
  <2>3. assetConfig' \in AssetConfig /\ ValidConfig(assetConfig)'
    BY <1>8 DEF RemovePool, NoConfig, AssetConfig, ValidConfig, FeeBasis
  <2> QED
    BY <1>8, <2>1, <2>2, <2>3 DEF RemovePool, TypeOK, PoolInv
<1>9. ASSUME WindDownPool PROVE IInv'
  <2>1. PoolInv'
    BY <1>9, IdleKeeps DEF WindDownPool, PoolWindDown, PoolInv, PoolTypeOK
  <2>2. ProofsSound'
    BY <1>9 DEF WindDownPool, PoolWindDown, ProofsSound, IsInState
  <2> QED
    BY <1>9, <2>1, <2>2 DEF WindDownPool, TypeOK, PoolInv, entrypointVars
<1>10. ASSUME NEW recipient \in User, WithdrawFees(recipient) PROVE IInv'
  <2>1. balance' \in [Address -> Nat]
    <3>1. /\ balance \in [Address -> Nat] /\ EntrypointAddr \in Address /\ recipient \in Address
          /\ balance[EntrypointAddr] \in Nat
      BY DEF PoolInv, PoolTypeOK, Address
    <3> QED
      BY <1>10, <3>1, MovedType DEF WithdrawFees
  <2>2. PoolInv'
    BY <1>10, <2>1, IdleKeeps DEF WithdrawFees, stateVars, PoolInv, PoolTypeOK
  <2>3. ProofsSound'
    BY <1>10 DEF WithdrawFees, stateVars, ProofsSound, IsInState
  <2> QED
    BY <1>10, <2>2, <2>3 DEF WithdrawFees, TypeOK, PoolInv, entrypointVars
<1>11. ASSUME UNCHANGED vars PROVE IInv'
  <2>1. PoolInv'
    BY <1>11, IdleKeeps DEF vars, poolVars, stateVars, PoolInv, PoolTypeOK
  <2> QED
    BY <1>11, <2>1 DEF vars, poolVars, stateVars, entrypointVars, TypeOK, PoolInv, ProofsSound, IsInState
<1> QED
  BY <1>1, <1>2, <1>3, <1>4, <1>5, <1>6, <1>7, <1>8, <1>9, <1>10, <1>11 DEF Next

(* The inductive invariant holds throughout. *)
THEOREM Invariance == Spec => []IInv
<1>1. Init => IInv
  BY InitIInv
<1>2. IInv /\ [Next]_vars => IInv'
  BY NextIInv
<1> QED
  BY <1>1, <1>2, PTL DEF Spec

(* Every variable keeps its type. *)
THEOREM TypeSafety == Spec => []TypeOK
BY Invariance, PTL DEF IInv

(* The nullifier set records exactly the spent notes: no note is spent twice   *)
(* and no two spent notes share a nullifier.                                   *)
THEOREM NoDoubleSpend == Spec => []SpentExactly
<1>1. IInv => SpentExactly
  BY DEF IInv, PoolInv
<1> QED
  BY Invariance, <1>1, PTL

(* A deposit never lives in two unspent notes at once. *)
THEOREM OneLiveNote == Spec => []OneLiveNotePerLabel
<1>1. IInv => OneLiveNotePerLabel
  BY DEF IInv, PoolInv
<1> QED
  BY Invariance, <1>1, PTL

(* No label pays out more than was deposited under it. *)
THEOREM Conservation == Spec => []LabelConservation
<1>1. IInv => LabelConservation
  BY DEF IInv, PoolInv
<1> QED
  BY Invariance, <1>1, PTL

(* The known roots are exactly the newest RootHistorySize ones. *)
THEOREM RootHistory == Spec => []RootWindow
<1>1. IInv => RootWindow
  BY WindowOfSlots DEF IInv, PoolInv
<1> QED
  BY Invariance, <1>1, PTL

-----------------------------------------------------------------------------
(* The pool implements the ledger *)

Credit == [l \in DOMAIN funded |-> funded[l] - paid[l]]

Approved == IF HasRoot THEN LatestRoot ELSE {}

(* No credit appears or disappears while funded and paid stay as they are. *)
LEMMA LedgerInit ==
  ASSUME Init PROVE Ledger!Init
<1>1. depositors = << >> /\ funded = << >> /\ associationSets = << >>
      /\ balance = [a \in Address |-> IF a \in User THEN InitialBalance[a] ELSE 0]
  BY DEF Init, PoolInit, StateInit
<1>2. balance[PoolAddr] = 0
  BY <1>1, AddressAssumption DEF Address
<1>3. Credit = << >>
  BY <1>1 DEF Credit
<1>4. Approved = {}
  BY <1>1 DEF Approved, HasRoot
<1> QED
  BY <1>1, <1>2, <1>3, <1>4 DEF Ledger!Init, Credit, Approved

(* What is needed of the invariant about credit. *)
LEMMA CreditShape ==
  ASSUME IInv
  PROVE  /\ nonce \in Nat
         /\ DOMAIN depositors = 1 .. nonce /\ DOMAIN funded = 1 .. nonce
         /\ DOMAIN Credit = 1 .. nonce
         /\ \A l \in 1 .. nonce : /\ depositors[l] \in User
                                  /\ Credit[l] = funded[l] - paid[l] /\ Credit[l] \in Nat
                                  /\ paid[l] \in Nat /\ funded[l] \in Nat
<1>1. /\ nonce \in Nat
      /\ DOMAIN depositors = 1 .. nonce /\ DOMAIN funded = 1 .. nonce
      /\ \A l \in 1 .. nonce : depositors[l] \in User /\ paid[l] \in Nat /\ funded[l] \in Nat
      /\ \A l \in 1 .. nonce : paid[l] <= funded[l]
  BY LabelDomains DEF IInv, PoolInv, LabelConservation
<1>2. \A l \in 1 .. nonce : funded[l] - paid[l] \in Nat
  BY <1>1
<1> QED
  BY <1>1, <1>2 DEF Credit

(* A deposit opens a line of credit. *)
LEMMA DepositOpens ==
  ASSUME IInv, NEW user \in User, NEW value \in DepositValue, NEW pre \in Precommitments,
         Deposit(user, value, pre)
  PROVE  Ledger!Open
<1> DEFINE afterFees == DeductFee(value, assetConfig.vettingFeeBPS)
<1>1. /\ afterFees \in 0 .. value /\ value \in Nat /\ value <= balance[user]
      /\ balance \in [Address -> Nat] /\ balance' \in [Address -> Nat]
      /\ balance'[PoolAddr] = balance[PoolAddr] + afterFees
      /\ balance'[user] = balance[user] - value
  BY DepositBalances DEF IInv, PoolInv, PoolTypeOK
<1>2. /\ depositors' = Append(depositors, user)
      /\ funded' = Append(funded, afterFees) /\ paid' = Append(paid, 0)
      /\ associationSets' = associationSets
  BY DEF Deposit, PoolDeposit
<1> HIDE DEF afterFees
<1>3. user \in DOMAIN balance \ {PoolAddr}
  BY <1>1, AddressAssumption DEF Address
<1>4. afterFees \in 0 .. balance[user] /\ balance'[user] <= balance[user] - afterFees
  BY <1>1, <1>3
<1>5. Credit' = Append(Credit, afterFees)
  <2>1. /\ funded \in Seq(Nat) /\ paid \in Seq(Nat) /\ Len(funded) = nonce /\ Len(paid) = nonce
        /\ nonce \in Nat /\ afterFees \in Nat
    BY <1>1 DEF IInv, PoolInv, PoolTypeOK, LabelShape
  <2>2. /\ DOMAIN funded' = 1 .. nonce + 1
        /\ \A l \in 1 .. nonce : funded'[l] = funded[l] /\ paid'[l] = paid[l]
        /\ funded'[nonce + 1] = afterFees /\ paid'[nonce + 1] = 0
    BY <1>2, <2>1
  <2>3. Credit' = [l \in 1 .. nonce + 1 |-> funded'[l] - paid'[l]]
    BY <2>2 DEF Credit
  <2>4. Credit \in Seq(Nat) /\ Len(Credit) = nonce
    <3>1. Credit = [l \in 1 .. nonce |-> Credit[l]] /\ \A l \in 1 .. nonce : Credit[l] \in Nat
      BY CreditShape DEF Credit
    <3>2. Credit \in [1 .. nonce -> Nat]
      BY <3>1
    <3> QED
      BY <2>1, <3>2
  <2>5. \A l \in 1 .. nonce : Append(Credit, afterFees)[l] = funded[l] - paid[l]
    BY <2>1, <2>4, CreditShape
  <2>6. Append(Credit, afterFees)[nonce + 1] = afterFees
    BY <2>1, <2>4
  <2>7. Append(Credit, afterFees) = [l \in 1 .. nonce + 1 |-> Append(Credit, afterFees)[l]]
    <3> DEFINE longer == Append(Credit, afterFees)
    <3>1. longer \in Seq(Nat) /\ Len(longer) = nonce + 1
      BY <2>1, <2>4, AppendProperties
    <3> HIDE DEF longer
    <3>2. longer = [l \in 1 .. nonce + 1 |-> longer[l]]
      BY <3>1, LenProperties
    <3> QED
      BY <3>2 DEF longer
  <2>8. ASSUME NEW l \in 1 .. nonce + 1
        PROVE  funded'[l] - paid'[l] = Append(Credit, afterFees)[l]
    <3>1. CASE l \in 1 .. nonce
      BY <3>1, <2>2, <2>5
    <3>2. CASE l = nonce + 1
      <4>1. funded'[l] = afterFees /\ paid'[l] = 0 /\ afterFees - 0 = afterFees
        BY <3>2, <2>1, <2>2
      <4> QED
        BY <3>2, <4>1, <2>6
    <3>3. l \in 1 .. nonce \/ l = nonce + 1
      BY <2>1
    <3> QED
      BY <3>1, <3>2, <3>3, Zenon
  <2> QED
    BY <2>3, <2>7, <2>8
<1>6. Approved' = Approved
  BY <1>2 DEF Approved, HasRoot, LatestRoot
<1> QED
  BY <1>1, <1>2, <1>3, <1>4, <1>5, <1>6 DEF Ledger!Open, Credit, Approved

(* A withdrawal draws on the credit of an approved label, whoever submits it   *)
(* and however old its proof is.                                               *)
LEMMA WithdrawDraws ==
  ASSUME IInv, NEW sender, NEW w, NEW proof \in proofs,
         PoolWithdraw(sender, w, proof, LatestRoot), HasRoot,
         associationSets' = associationSets,
         balance'[PoolAddr] >= balance[PoolAddr] - proof.withdrawnValue,
         balance' \in [Address -> Nat]
  PROVE  \E label \in DOMAIN Credit : Ledger!Draw(label)
<1> DEFINE c == proof.note
           amount == proof.withdrawnValue
<1>1. /\ proof \in Proof /\ c \in Commitment /\ amount \in Nat /\ c.value \in Nat /\ amount <= c.value
      /\ IsInState(c) /\ c.label \in proof.ASPRoot
  BY DEF IInv, TypeOK, ProofsSound, Proof, Commitment
<1>2. c.label \in Approved
  BY <1>1 DEF Approved, PoolWithdraw, ValidWithdrawal
<1>3. c \notin consumed
  BY <1>1, WithdrawKeeps DEF IInv
<1>4. PICK k \in Live : leaves[k] = c
  BY <1>1, <1>3 DEF IsInState, Live
<1>5. c.label \in 1 .. nonce /\ paid[c.label] + c.value = funded[c.label]
  BY <1>4 DEF IInv, PoolInv, LabelShape, LabelConservation, Live
<1>6. /\ nonce \in Nat /\ DOMAIN funded = 1 .. nonce /\ DOMAIN Credit = 1 .. nonce
      /\ \A l \in 1 .. nonce : paid[l] \in Nat /\ funded[l] \in Nat /\ Credit[l] = funded[l] - paid[l]
  BY CreditShape
<1>7. /\ funded' = funded /\ depositors' = depositors
      /\ paid' = [paid EXCEPT ![c.label] = paid[c.label] + amount]
  BY DEF PoolWithdraw, Consume
<1> HIDE DEF c, amount
<1>8. amount \in 0 .. Credit[c.label]
  BY <1>1, <1>5, <1>6
<1>9. Credit' = [Credit EXCEPT ![c.label] = Credit[c.label] - amount]
  <2>1. DOMAIN paid = 1 .. nonce
    BY LabelDomains DEF IInv, PoolInv
  <2>2. paid'[c.label] = paid[c.label] + amount /\ \A l \in 1 .. nonce : l # c.label => paid'[l] = paid[l]
    BY <1>5, <1>7, <2>1
  <2>3. Credit' = [l \in 1 .. nonce |-> funded[l] - paid'[l]]
    BY <1>6, <1>7 DEF Credit
  <2>4. ASSUME NEW l \in 1 .. nonce
        PROVE  funded[l] - paid'[l] = IF l = c.label THEN Credit[c.label] - amount ELSE Credit[l]
    <3>1. CASE l = c.label
      BY <3>1, <2>2, <1>1, <1>5, <1>6
    <3>2. CASE l # c.label
      BY <3>2, <2>2, <1>6
    <3> QED
      BY <3>1, <3>2
  <2>5. Credit = [l \in 1 .. nonce |-> Credit[l]]
    BY <1>6 DEF Credit
  <2>6. [Credit EXCEPT ![c.label] = Credit[c.label] - amount]
          = [l \in 1 .. nonce |-> IF l = c.label THEN Credit[c.label] - amount ELSE Credit[l]]
    BY <1>5, <1>6, <2>5
  <2> QED
    BY <2>3, <2>4, <2>6
<1>10. Approved' = Approved
  BY DEF Approved, HasRoot, LatestRoot
<1>11. Ledger!Draw(c.label)
  BY <1>2, <1>7, <1>8, <1>9, <1>10 DEF Ledger!Draw, Credit, Approved, amount
<1> QED
  BY <1>5, <1>6, <1>11

(* An exit pays all the credit of a label to its depositor and closes it. *)
LEMMA ExitCloses ==
  ASSUME IInv, NEW user \in User, NEW i \in DOMAIN leaves, Exit(user, leaves[i])
  PROVE  \E label \in DOMAIN Credit : Ledger!Close(label)
<1> DEFINE c == leaves[i]
<1>1. c \in Commitment /\ c.value \in Nat /\ Ragequit(user, c) /\ PoolInv
  <2>1. c \in Commitment
    BY DEF IInv, PoolInv, PoolTypeOK
  <2> QED
    BY <2>1 DEF IInv, Exit, Commitment
<1>2. /\ c.label \in 1 .. nonce
      /\ paid'[c.label] = funded[c.label] /\ paid[c.label] + c.value = funded[c.label]
  BY <1>1, RagequitKeeps
<1>3. /\ nonce \in Nat /\ DOMAIN funded = 1 .. nonce /\ DOMAIN Credit = 1 .. nonce
      /\ \A l \in 1 .. nonce : /\ paid[l] \in Nat /\ funded[l] \in Nat
                               /\ Credit[l] = funded[l] - paid[l]
  BY CreditShape
<1>4. /\ funded' = funded /\ depositors' = depositors /\ associationSets' = associationSets
      /\ paid' = [paid EXCEPT ![c.label] = paid[c.label] + c.value]
      /\ depositors[c.label] = user
      /\ balance' = Moved(balance, PoolAddr, user, c.value) /\ balance[PoolAddr] >= c.value
  BY DEF Exit, Ragequit, Consume, entrypointVars
<1> HIDE DEF c
<1>5. Credit[c.label] = c.value
  BY <1>1, <1>2, <1>3
<1>6. Credit' = [Credit EXCEPT ![c.label] = 0]
  <2>1. DOMAIN paid = 1 .. nonce
    BY <1>1, LabelDomains DEF PoolInv
  <2>2. \A l \in 1 .. nonce : l # c.label => paid'[l] = paid[l]
    BY <1>2, <1>4, <2>1
  <2>3. Credit' = [l \in 1 .. nonce |-> funded[l] - paid'[l]]
    BY <1>3, <1>4 DEF Credit
  <2>4. ASSUME NEW l \in 1 .. nonce
        PROVE  funded[l] - paid'[l] = IF l = c.label THEN 0 ELSE Credit[l]
    <3>1. CASE l = c.label
      BY <3>1, <1>2, <1>3
    <3>2. CASE l # c.label
      BY <3>2, <2>2, <1>3
    <3> QED
      BY <3>1, <3>2
  <2>5. Credit = [l \in 1 .. nonce |-> Credit[l]]
    BY <1>3 DEF Credit
  <2>6. [Credit EXCEPT ![c.label] = 0] = [l \in 1 .. nonce |-> IF l = c.label THEN 0 ELSE Credit[l]]
    BY <1>2, <1>3, <2>5
  <2> QED
    BY <2>3, <2>4, <2>6
<1>7. balance' = [balance EXCEPT ![PoolAddr] = balance[PoolAddr] - c.value,
                                 ![user] = balance[user] + c.value]
  <2>1. /\ balance \in [Address -> Nat] /\ PoolAddr \in Address /\ user \in Address /\ user # PoolAddr
    BY <1>1, AddressAssumption DEF PoolInv, PoolTypeOK, Address
  <2> QED
    BY <1>4, <2>1 DEF Moved
<1>8. Approved' = Approved
  BY <1>4 DEF Approved, HasRoot, LatestRoot
<1>9. PICK label \in DOMAIN Credit : label = c.label
  BY <1>2, <1>3
<1>10. Ledger!Close(label)
  BY <1>4, <1>5, <1>6, <1>7, <1>8, <1>9 DEF Ledger!Close, Credit, Approved
<1> QED
  BY <1>10

(* Every step of the Entrypoint and its pool is a step of the ledger. *)
LEMMA LedgerStep ==
  ASSUME IInv, [Next]_vars
  PROVE  [Ledger!Next]_(Ledger!ledgerVars)
<1>1. ASSUME NEW approved \in SUBSET (1 .. nonce), UpdateRoot(approved) PROVE Ledger!Approve
  <2>1. associationSets' = Append(associationSets, approved) /\ associationSets \in Seq(SUBSET Nat)
    BY <1>1 DEF UpdateRoot, IInv, TypeOK
  <2>2. Len(associationSets') = Len(associationSets) + 1 /\ associationSets'[Len(associationSets')] = approved
    BY <2>1, approved \in SUBSET Nat DEF IInv, PoolInv, PoolTypeOK
  <2>3. HasRoot' /\ LatestRoot' = approved
    BY <2>1, <2>2 DEF HasRoot, LatestRoot
  <2>4. Approved' = approved /\ DOMAIN depositors = 1 .. nonce
    BY <2>3, CreditShape DEF Approved
  <2>5. UNCHANGED <<depositors, balance, Credit>>
    BY <1>1 DEF UpdateRoot, poolVars, stateVars, Credit
  <2> QED
    BY <2>4, <2>5 DEF Ledger!Approve, Credit, Approved
<1>2. ASSUME NEW user \in User, NEW value \in DepositValue, NEW pre \in Precommitments,
             Deposit(user, value, pre)
      PROVE  Ledger!Open
  BY <1>2, DepositOpens
<1>3. ASSUME UNCHANGED <<depositors, funded, paid, associationSets, balance>>
      PROVE  UNCHANGED Ledger!ledgerVars
  BY <1>3 DEF Ledger!ledgerVars, HasRoot, LatestRoot
<1>4. ASSUME NEW proof \in proofs, NEW w \in WithdrawalData, Relay(w, proof)
      PROVE  \E label \in DOMAIN Credit : Ledger!Draw(label)
  <2>1. /\ PoolWithdraw(EntrypointAddr, w, proof, LatestRoot) /\ HasRoot
        /\ associationSets' = associationSets
    BY <1>4 DEF Relay, entrypointVars
  <2> QED
    BY <1>4, <2>1, RelayBalances, WithdrawDraws
<1>5. ASSUME NEW sender \in User, NEW proof \in proofs, NEW w \in WithdrawalData,
             Withdraw(sender, w, proof)
      PROVE  \E label \in DOMAIN Credit : Ledger!Draw(label)
  <2>1. /\ PoolWithdraw(sender, w, proof, LatestRoot) /\ HasRoot
        /\ associationSets' = associationSets
        /\ balance' = Moved(balance, PoolAddr, sender, proof.withdrawnValue)
    BY <1>5 DEF Withdraw, entrypointVars
  <2>2. /\ balance \in [Address -> Nat] /\ PoolAddr \in Address /\ sender \in Address /\ sender # PoolAddr
        /\ proof.withdrawnValue \in Nat /\ balance[PoolAddr] >= proof.withdrawnValue
    BY <2>1, AddressAssumption DEF IInv, TypeOK, PoolInv, PoolTypeOK, Address, Proof, PoolWithdraw
  <2>3. /\ balance' \in [Address -> Nat]
        /\ balance'[PoolAddr] = balance[PoolAddr] - proof.withdrawnValue
    BY <2>1, <2>2, MovedType
  <2>4. balance'[PoolAddr] >= balance[PoolAddr] - proof.withdrawnValue
    BY <2>2, <2>3
  <2> QED
    BY <2>1, <2>3, <2>4, WithdrawDraws
<1>6. ASSUME NEW user \in User, NEW i \in DOMAIN leaves, Exit(user, leaves[i])
      PROVE  \E label \in DOMAIN Credit : Ledger!Close(label)
  BY <1>6, ExitCloses
<1>7. ASSUME NEW recipient \in User, WithdrawFees(recipient) PROVE Ledger!Elsewhere
  <2>1. /\ balance \in [Address -> Nat] /\ EntrypointAddr \in Address /\ recipient \in Address
        /\ PoolAddr \in Address \ {EntrypointAddr, recipient} /\ balance[EntrypointAddr] \in Nat
    BY AddressAssumption DEF IInv, PoolInv, PoolTypeOK, Address
  <2>2. balance'[PoolAddr] = balance[PoolAddr]
    BY <1>7, <2>1, MovedType DEF WithdrawFees
  <2>3. UNCHANGED <<depositors, Credit, Approved>>
    BY <1>7 DEF WithdrawFees, stateVars, entrypointVars, Credit, Approved, HasRoot, LatestRoot
  <2> QED
    BY <2>2, <2>3 DEF Ledger!Elsewhere, Credit, Approved
<1>8. ASSUME \/ \E i \in DOMAIN leaves, newPre \in Precommitments, w \in WithdrawalData :
                  \E value \in 0 .. leaves[i].value : Prove(leaves[i], value, newPre, w)
             \/ \E config \in PoolConfig : RegisterPool(config)
             \/ RemovePool
             \/ \E config \in PoolConfig : UpdatePoolConfiguration(config)
             \/ WindDownPool
             \/ UNCHANGED vars
      PROVE  UNCHANGED Ledger!ledgerVars
  <2>1. UNCHANGED <<depositors, funded, paid, associationSets, balance>>
    BY <1>8 DEF Prove, RegisterPool, RemovePool, UpdatePoolConfiguration, WindDownPool,
                PoolWindDown, vars, poolVars, stateVars, entrypointVars
  <2> QED
    BY <2>1, <1>3
<1> QED
  BY <1>1, <1>2, <1>4, <1>5, <1>6, <1>7, <1>8 DEF Next, Ledger!Next, Credit

(* The Entrypoint and its pool implement the ledger of notes. *)
THEOREM ImplementsLedger == Spec => LedgerSpec
<1>1. Init => Ledger!Init
  BY LedgerInit
<1>2. IInv /\ [Next]_vars => [Ledger!Next]_(Ledger!ledgerVars)
  BY LedgerStep
<1> QED
  BY <1>1, <1>2, Invariance, PTL DEF Spec, LedgerSpec, Ledger!Spec

-----------------------------------------------------------------------------
(* What the unspent notes add up to *)

(* g gives every part of s what the notes ls are worth at its positions. *)
Additive(g, ls, s) ==
  /\ g \in [SUBSET s -> Nat]
  /\ g[{}] = 0
  /\ \A u \in SUBSET s : \A i \in u : g[u] = ls[i].value + g[u \ {i}]

Total(ls, s) == (CHOOSE g : Additive(g, ls, s))[s]

Worthy(ls, s) == IsFiniteSet(s) /\ \A i \in s : ls[i].value \in Nat

LEMMA LeastNumber ==
  ASSUME NEW T \in SUBSET Nat, T # {}
  PROVE  \E n \in T : \A m \in T : n <= m
<1>1. PICK n \in T : \A m \in T : ~(<<m, n>> \in OpToRel(<, Nat))
  BY NatLessThanWellFounded, WFMin
<1>2. \A m \in T : <<m, n>> \in OpToRel(<, Nat) <=> m < n
  BY Zenon DEF OpToRel
<1>3. \A m \in T : ~(m < n)
  BY <1>1, <1>2, Zenon
<1>4. \A m \in T : m \in Nat
  OBVIOUS
<1> QED
  BY <1>3, <1>4

(* Induction over the parts of a finite set: what is to be shown of them is    *)
(* named by the set of those that have it.                                     *)
LEMMA PartsInduction ==
  ASSUME NEW s, IsFiniteSet(s), NEW C, {} \in C,
         \A u \in SUBSET s : u # {} => \E i \in u : u \ {i} \in C => u \in C
  PROVE  \A u \in SUBSET s : u \in C
<1> SUFFICES ASSUME NEW w \in SUBSET s, w \notin C PROVE FALSE
  OBVIOUS
<1> DEFINE T == {Cardinality(u) : u \in (SUBSET s) \ C}
<1>1. \A u \in SUBSET s : IsFiniteSet(u) /\ Cardinality(u) \in Nat
  BY FS_Subset, FS_CardinalityType
<1>2. T \in SUBSET Nat /\ T # {}
  BY <1>1
<1>3. PICK n \in T : \A m \in T : n <= m
  BY <1>2, LeastNumber
<1>4. PICK u \in (SUBSET s) \ C : Cardinality(u) = n
  BY <1>3
<1>5. PICK i \in u : u \ {i} \in C => u \in C
  <2>1. u \in SUBSET s /\ u \notin C
    OBVIOUS
  <2>2. ASSUME u = {} PROVE FALSE
    <3>1. {} \notin C
      BY <2>1, <2>2
    <3> QED
      BY <3>1
  <2>3. u # {}
    BY <2>2
  <2> QED
    BY <2>1, <2>3, Zenon
<1>6. Cardinality(u \ {i}) = Cardinality(u) - 1 /\ Cardinality(u) \in Nat
  BY <1>1, <1>4, <1>5, FS_RemoveElement
<1>7. u \ {i} \in (SUBSET s) \ C
  BY <1>4, <1>5
<1>8. Cardinality(u \ {i}) \in T
  BY <1>7
<1>9. Cardinality(u) <= Cardinality(u \ {i})
  <2> HIDE DEF T
  <2> QED
    BY <1>3, <1>4, <1>8
<1> QED
  BY <1>6, <1>9

(* One position more. *)
LEMMA AdditiveGrows ==
  ASSUME NEW ls, NEW s, NEW r, r \notin s, ls[r].value \in Nat,
         \A i \in s : ls[i].value \in Nat, NEW g, Additive(g, ls, s)
  PROVE  \E h : Additive(h, ls, s \cup {r})
<1> DEFINE h == [u \in SUBSET (s \cup {r}) |-> IF r \in u THEN ls[r].value + g[u \ {r}] ELSE g[u]]
<1>1. \A u \in SUBSET (s \cup {r}) :
        /\ r \in u => u \ {r} \in SUBSET s
        /\ r \notin u => u \in SUBSET s
  OBVIOUS
<1>2. g \in [SUBSET s -> Nat]
  BY DEF Additive
<1>3. h \in [SUBSET (s \cup {r}) -> Nat]
  BY <1>1, <1>2
<1>4. h[{}] = 0
  BY DEF Additive
<1>5. ASSUME NEW u \in SUBSET (s \cup {r}), NEW i \in u
      PROVE  h[u] = ls[i].value + h[u \ {i}]
  <2>1. u \ {i} \in SUBSET (s \cup {r})
    OBVIOUS
  <2>2. CASE i = r
    BY <2>1, <2>2
  <2>3. CASE i # r /\ r \notin u
    <3>1. g[u] = ls[i].value + g[u \ {i}]
      BY <2>3, <1>1, <1>5 DEF Additive
    <3> QED
      BY <3>1, <2>1, <2>3
  <2>4. CASE i # r /\ r \in u
    <3>1. u \ {r} \in SUBSET s /\ i \in u \ {r} /\ i \in s
      BY <2>4, <1>1, <1>5
    <3>2. g[u \ {r}] = ls[i].value + g[(u \ {r}) \ {i}]
      BY <3>1 DEF Additive
    <3>3. h[u] = ls[r].value + g[u \ {r}] /\ h[u \ {i}] = ls[r].value + g[(u \ {i}) \ {r}]
      BY <2>1, <2>4
    <3>4. (u \ {i}) \ {r} = (u \ {r}) \ {i} /\ (u \ {r}) \ {i} \in SUBSET s
      BY <3>1
    <3>5. PICK k \in Nat, a \in Nat, b \in Nat :
            k = g[(u \ {r}) \ {i}] /\ a = ls[r].value /\ b = ls[i].value
      BY <1>2, <3>1, <3>4
    <3>6. h[u] = a + (b + k) /\ h[u \ {i}] = a + k
      BY <3>2, <3>3, <3>4, <3>5
    <3> HIDE DEF h
    <3> QED
      BY <3>5, <3>6
  <2> QED
    BY <2>2, <2>3, <2>4
<1> HIDE DEF h
<1>6. Additive(h, ls, s \cup {r})
  BY <1>3, <1>4, <1>5 DEF Additive
<1> QED
  BY <1>6

LEMMA AdditiveExists ==
  ASSUME NEW ls, NEW s, Worthy(ls, s)
  PROVE  \E g : Additive(g, ls, s)
<1> DEFINE C == {u \in SUBSET s : \E g : Additive(g, ls, u)}
<1>1. {} \in C
  <2> DEFINE g == [u \in SUBSET {} |-> 0]
  <2>1. Additive(g, ls, {})
    BY DEF Additive
  <2> HIDE DEF g
  <2> QED
    BY <2>1
<1>2. ASSUME NEW u \in SUBSET s, u # {}
      PROVE  \E i \in u : u \ {i} \in C => u \in C
  <2>1. PICK r : r \in u
    BY <1>2
  <2> SUFFICES ASSUME u \ {r} \in C PROVE u \in C
    BY <2>1
  <2>2. PICK g : Additive(g, ls, u \ {r})
    OBVIOUS
  <2>3. ls[r].value \in Nat /\ \A i \in u \ {r} : ls[i].value \in Nat
    BY <2>1 DEF Worthy
  <2>4. \E h : Additive(h, ls, (u \ {r}) \cup {r})
    BY <2>2, <2>3, AdditiveGrows
  <2>5. (u \ {r}) \cup {r} = u
    BY <2>1
  <2> QED
    BY <2>4, <2>5
<1>3. \A u \in SUBSET s : u \in C
  <2> HIDE DEF C
  <2> QED
    BY <1>1, <1>2, PartsInduction DEF Worthy
<1> QED
  BY <1>3

(* g gives every part of s a sum, adding one position after the other.         *)
AddsUp(g, ls, s) ==
  /\ g[{}] = 0
  /\ \A u \in SUBSET s : u # {} => \E i \in u : g[u] = ls[i].value + g[u \ {i}]

(* Whatever adds up notes of the same worth, in whatever order, gives the same. *)
LEMMA AdditiveUnique ==
  ASSUME NEW ls, NEW ms, NEW s, IsFiniteSet(s), \A i \in s : ls[i].value = ms[i].value,
         NEW g, AddsUp(g, ls, s), NEW h, Additive(h, ms, s)
  PROVE  g[s] = h[s]
<1> DEFINE C == {u \in SUBSET s : g[u] = h[u]}
<1>1. {} \in C
  BY DEF Additive, AddsUp
<1>2. ASSUME NEW u \in SUBSET s, u # {}
      PROVE  \E i \in u : u \ {i} \in C => u \in C
  <2>1. PICK i \in u : g[u] = ls[i].value + g[u \ {i}]
    BY <1>2 DEF AddsUp
  <2>2. h[u] = ms[i].value + h[u \ {i}] /\ ls[i].value = ms[i].value
    BY <2>1 DEF Additive
  <2>3. g[u \ {i}] = h[u \ {i}] => g[u] = h[u]
    BY <2>1, <2>2
  <2> QED
    BY <2>1, <2>3
<1>3. \A u \in SUBSET s : u \in C
  <2> HIDE DEF C
  <2> QED
    BY <1>1, <1>2, PartsInduction
<1> QED
  BY <1>3

LEMMA TotalIs ==
  ASSUME NEW ls, NEW ms, NEW s, Worthy(ls, s), \A i \in s : ls[i].value = ms[i].value,
         NEW g, Additive(g, ms, s)
  PROVE  Total(ls, s) = g[s] /\ Total(ls, s) \in Nat
<1>1. PICK h : h = CHOOSE f : Additive(f, ls, s)
  OBVIOUS
<1>2. Additive(h, ls, s) /\ Total(ls, s) = h[s]
  BY <1>1, AdditiveExists DEF Total
<1>3. AddsUp(h, ls, s)
  BY <1>2 DEF Additive, AddsUp
<1>4. h[s] = g[s]
  BY <1>3, AdditiveUnique DEF Worthy
<1>5. h[s] \in Nat
  BY <1>2 DEF Additive
<1> QED
  BY <1>2, <1>4, <1>5

LEMMA TotalSame ==
  ASSUME NEW ls, NEW ms, NEW s, Worthy(ls, s), \A i \in s : ls[i].value = ms[i].value
  PROVE  Total(ls, s) = Total(ms, s) /\ Total(ls, s) \in Nat
<1>1. Worthy(ms, s)
  BY DEF Worthy
<1>2. PICK g : Additive(g, ms, s)
  BY <1>1, AdditiveExists
<1>3. Total(ls, s) = g[s] /\ Total(ls, s) \in Nat
  BY <1>2, TotalIs
<1>4. Total(ms, s) = g[s]
  BY <1>1, <1>2, TotalIs
<1> QED
  BY <1>3, <1>4

LEMMA TotalAdds ==
  ASSUME NEW ls, NEW s, NEW r, r \notin s, Worthy(ls, s \cup {r})
  PROVE  Total(ls, s \cup {r}) = ls[r].value + Total(ls, s) /\ Total(ls, s) \in Nat
<1>1. PICK h : Additive(h, ls, s \cup {r})
  BY AdditiveExists
<1>2. Worthy(ls, s)
  BY FS_Subset DEF Worthy
<1> DEFINE g == [u \in SUBSET s |-> h[u]]
<1>3. Additive(g, ls, s)
  <2>1. SUBSET s \subseteq SUBSET (s \cup {r}) /\ \A u \in SUBSET s : \A i \in u : u \ {i} \in SUBSET s
    OBVIOUS
  <2>2. g \in [SUBSET s -> Nat] /\ g[{}] = 0
    BY <1>1, <2>1 DEF Additive
  <2>3. ASSUME NEW u \in SUBSET s, NEW i \in u PROVE g[u] = ls[i].value + g[u \ {i}]
    BY <1>1, <2>1 DEF Additive
  <2> HIDE DEF g
  <2> QED
    BY <2>2, <2>3 DEF Additive
<1>4. g[s] = h[s]
  OBVIOUS
<1> HIDE DEF g
<1>5. Total(ls, s) = h[s] /\ Total(ls, s) \in Nat
  BY <1>2, <1>3, <1>4, TotalIs
<1>6. Total(ls, s \cup {r}) = h[s \cup {r}]
  BY <1>1, TotalIs
<1>7. h[s \cup {r}] = ls[r].value + h[s]
  <2>1. (s \cup {r}) \ {r} = s /\ r \in s \cup {r} /\ s \cup {r} \in SUBSET (s \cup {r})
    OBVIOUS
  <2>2. h[s \cup {r}] = ls[r].value + h[(s \cup {r}) \ {r}]
    BY <1>1, <2>1 DEF Additive
  <2> QED
    BY <2>1, <2>2
<1> QED
  BY <1>5, <1>6, <1>7

(* The fold in Solvency takes the positions in an order of its choice.         *)
LEMMA FoldIsTotal ==
  ASSUME NEW ls, NEW s, Worthy(ls, s)
  PROVE  MapThenSumSet(LAMBDA i : ls[i].value, s) = Total(ls, s)
<1> DEFINE Any(u) == CHOOSE i \in u : TRUE
           Step(g) == [u \in SUBSET s |-> IF u = {} THEN 0 ELSE ls[Any(u)].value + g[u \ {Any(u)}]]
<1>1. MapThenSumSet(LAMBDA i : ls[i].value, s) = (CHOOSE g : g = Step(g))[s]
  BY DEF MapThenSumSet, MapThenFoldSet
<1>2. \A u : u # {} => Any(u) \in u
  OBVIOUS
<1>3. PICK h : Additive(h, ls, s)
  BY AdditiveExists
<1>4. h = Step(h)
  <2>1. \A u \in SUBSET s : u # {} => h[u] = ls[Any(u)].value + h[u \ {Any(u)}]
    BY <1>2, <1>3 DEF Additive
  <2>2. h \in [SUBSET s -> Nat] /\ h[{}] = 0
    BY <1>3 DEF Additive
  <2> HIDE DEF Any
  <2> QED
    BY <2>1, <2>2
<1>5. PICK f : f = CHOOSE g : g = Step(g)
  OBVIOUS
<1>6. f = Step(f)
  <2> HIDE DEF Step
  <2> QED
    BY <1>4, <1>5
<1>7. AddsUp(f, ls, s)
  <2>1. \A u \in SUBSET s : f[u] = IF u = {} THEN 0 ELSE ls[Any(u)].value + f[u \ {Any(u)}]
    <3> HIDE DEF Any
    <3> QED
      BY <1>6
  <2> HIDE DEF Any
  <2> QED
    BY <1>2, <2>1 DEF AddsUp
<1>8. f[s] = h[s]
  BY <1>3, <1>7, AdditiveUnique DEF Worthy
<1>9. Total(ls, s) = h[s]
  BY <1>3, TotalIs
<1>10. MapThenSumSet(LAMBDA i : ls[i].value, s) = f[s]
  BY <1>1, <1>5
<1> QED
  BY <1>8, <1>9, <1>10

(* The sum with a note more, while the others are worth what they were.        *)
Gains(ls, ms, s, n) ==
  Total(ms, s \cup {n}) = ms[n].value + Total(ls, s) /\ Total(ls, s) \in Nat

LEMMA TotalGains ==
  ASSUME NEW ls, NEW ms, NEW s, NEW n, n \notin s, Worthy(ls, s),
         \A i \in s : ls[i].value = ms[i].value, ms[n].value \in Nat
  PROVE  Gains(ls, ms, s, n)
<1>1. Total(ls, s) = Total(ms, s) /\ Total(ls, s) \in Nat
  BY TotalSame
<1>2. Worthy(ms, s \cup {n})
  BY FS_AddElement DEF Worthy
<1>3. Total(ms, s \cup {n}) = ms[n].value + Total(ms, s)
  BY <1>2, TotalAdds
<1> QED
  BY <1>1, <1>3 DEF Gains

(* The sum with a note less. *)
Loses(ls, s, k) ==
  /\ Worthy(ls, s \ {k})
  /\ Total(ls, s) = ls[k].value + Total(ls, s \ {k}) /\ Total(ls, s \ {k}) \in Nat

LEMMA TotalLoses ==
  ASSUME NEW ls, NEW s, NEW k \in s, Worthy(ls, s)
  PROVE  Loses(ls, s, k)
<1>1. Worthy(ls, s \ {k})
  BY FS_Subset DEF Worthy
<1>2. (s \ {k}) \cup {k} = s /\ k \notin s \ {k}
  OBVIOUS
<1>3. Total(ls, s) = ls[k].value + Total(ls, s \ {k}) /\ Total(ls, s \ {k}) \in Nat
  BY <1>2, TotalAdds
<1> QED
  BY <1>1, <1>3 DEF Loses

-----------------------------------------------------------------------------
(* The pool is solvent *)

(* Solvency, as a sum the provers can reason about. *)
Backed == balance[PoolAddr] >= Total(leaves, Live)

LEMMA BackedNext ==
  Backed' <=> balance'[PoolAddr] >= Total(leaves', Live')
BY DEF Backed, Total, Additive, Live

LEMMA LiveWorthy ==
  ASSUME PoolInv
  PROVE  Worthy(leaves, Live) /\ Total(leaves, Live) \in Nat
<1>1. DOMAIN leaves = 1 .. Len(leaves) /\ Len(leaves) \in Nat
  BY DEF PoolInv, PoolTypeOK
<1>2. IsFiniteSet(Live)
  <2>1. IsFiniteSet(1 .. Len(leaves))
    BY <1>1, FS_Interval
  <2> QED
    BY <1>1, <2>1, FS_Subset DEF Live
<1>3. ASSUME NEW i \in Live PROVE leaves[i].value \in Nat
  <2>1. leaves[i] \in Commitment
    BY DEF Live, PoolInv, PoolTypeOK
  <2> QED
    BY <2>1 DEF Commitment
<1>4. Worthy(leaves, Live)
  BY <1>2, <1>3 DEF Worthy
<1> QED
  BY <1>4, TotalSame

(* A deposit pays the pool what its note is worth, after the vetting fee. *)
LEMMA DepositBacked ==
  ASSUME IInv, Backed, NEW user \in User, NEW value \in DepositValue, NEW pre \in Precommitments,
         Deposit(user, value, pre)
  PROVE  Backed'
<1> DEFINE afterFees == DeductFee(value, assetConfig.vettingFeeBPS)
           c == [value |-> afterFees, label |-> nonce + 1, pre |-> pre]
           n == Len(leaves) + 1
<1>1. afterFees \in Nat /\ balance'[PoolAddr] = balance[PoolAddr] + afterFees
  BY DepositBalances
<1>2. balance[PoolAddr] \in Nat
  BY DEF IInv, PoolInv, PoolTypeOK, Address
<1>3. Insert(c) /\ consumed' = consumed
  BY DEF Deposit, PoolDeposit
<1> HIDE DEF afterFees
<1>4. c \in Commitment /\ leaves \in Seq(Commitment) /\ c.value = afterFees
  BY <1>1 DEF IInv, PoolInv, PoolTypeOK, Commitment
<1> HIDE DEF c
<1>5. /\ DOMAIN leaves = 1 .. Len(leaves) /\ Len(leaves) \in Nat
      /\ DOMAIN leaves' = 1 .. n
      /\ \A i \in DOMAIN leaves : leaves'[i] = leaves[i] /\ leaves[i] # c
      /\ leaves'[n] = c
  BY <1>3, <1>4, InsertAppends
<1>6. c \notin consumed
  BY <1>5 DEF IInv, PoolInv, SpentExactly, IsInState
<1>7. Live' = Live \cup {n} /\ n \notin Live
  BY <1>3, <1>5, <1>6 DEF Live
<1>8. \A i \in Live : leaves[i].value = leaves'[i].value
  BY <1>5 DEF Live
<1>9. Worthy(leaves, Live)
  BY LiveWorthy DEF IInv
<1>10. Total(leaves', Live \cup {n}) = leaves'[n].value + Total(leaves, Live) /\ Total(leaves, Live) \in Nat
  <2> HIDE DEF n
  <2>1. Gains(leaves, leaves', Live, n)
    BY <1>1, <1>4, <1>5, <1>7, <1>8, <1>9, TotalGains
  <2> QED
    BY <2>1 DEF Gains
<1>11. balance'[PoolAddr] >= Total(leaves', Live')
  <2>1. PICK a \in Nat, b \in Nat, t \in Nat :
          a = afterFees /\ b = balance[PoolAddr] /\ t = Total(leaves, Live)
    BY <1>1, <1>2, <1>10
  <2>2. b >= t
    BY <2>1 DEF Backed
  <2>3. Total(leaves', Live') = a + t
    BY <2>1, <1>4, <1>5, <1>7, <1>10
  <2> QED
    BY <2>1, <2>2, <2>3, <1>1
<1> QED
  BY <1>11, BackedNext

(* A withdrawal takes from its note at least what it takes from the pool. *)
LEMMA WithdrawBacked ==
  ASSUME IInv, Backed, NEW sender, NEW w, NEW aspRoot, NEW proof \in proofs,
         PoolWithdraw(sender, w, proof, aspRoot), balance' \in [Address -> Nat],
         balance'[PoolAddr] >= balance[PoolAddr] - proof.withdrawnValue
  PROVE  Backed'
<1> DEFINE c == proof.note
           amount == proof.withdrawnValue
           d == NewCommitment(proof)
           n == Len(leaves) + 1
<1>1. /\ proof \in Proof /\ IsInState(c) /\ amount <= c.value
      /\ PoolInv /\ leaves \in Seq(Commitment)
  BY DEF IInv, TypeOK, ProofsSound, PoolInv, PoolTypeOK
<1>2. /\ c \in Commitment /\ amount \in Nat /\ c.value \in Nat
      /\ d \in Commitment /\ d.value = c.value - amount
  BY <1>1 DEF Proof, Commitment, NewCommitment
<1>3. Insert(d) /\ consumed' = consumed \cup {c}
  BY DEF PoolWithdraw, Consume
<1>4. c \notin consumed
  BY <1>1, WithdrawKeeps
<1> HIDE DEF c, d, amount
<1>5. /\ DOMAIN leaves = 1 .. Len(leaves) /\ Len(leaves) \in Nat
      /\ DOMAIN leaves' = 1 .. n
      /\ \A i \in DOMAIN leaves : leaves'[i] = leaves[i] /\ leaves[i] # d
      /\ leaves'[n] = d
  BY <1>1, <1>2, <1>3, InsertAppends
<1>6. PICK k \in Live : leaves[k] = c
  BY <1>1, <1>4 DEF IsInState, Live
<1>7. d \notin consumed /\ d # c
  BY <1>1, <1>5 DEF PoolInv, SpentExactly, IsInState
<1>8. Live' = (Live \ {k}) \cup {n} /\ n \notin Live \ {k}
  <2>1. \A i \in DOMAIN leaves : leaves[i] = c <=> i = k
    BY <1>1, <1>6 DEF PoolInv, LeavesDistinct, Live
  <2> QED
    BY <2>1, <1>3, <1>5, <1>6, <1>7 DEF Live
<1>9. /\ Worthy(leaves, Live \ {k}) /\ Total(leaves, Live \ {k}) \in Nat
      /\ Total(leaves, Live) = c.value + Total(leaves, Live \ {k})
  <2>1. Worthy(leaves, Live)
    BY <1>1, LiveWorthy
  <2>2. /\ Worthy(leaves, Live \ {k}) /\ Total(leaves, Live \ {k}) \in Nat
        /\ Total(leaves, Live) = leaves[k].value + Total(leaves, Live \ {k})
    <3>1. Loses(leaves, Live, k)
      BY <1>6, <2>1, TotalLoses
    <3> QED
      BY <3>1 DEF Loses
  <2> QED
    BY <2>2, <1>6
<1> DEFINE others == Live \ {k}
<1>10. Total(leaves', others \cup {n}) = d.value + Total(leaves, others)
  <2>1. \A i \in others : leaves[i].value = leaves'[i].value
    BY <1>5 DEF Live
  <2>2. leaves'[n].value \in Nat
    BY <1>2, <1>5 DEF Commitment
  <2>3. leaves'[n] = d
    BY <1>5
  <2>4. n \notin others /\ Worthy(leaves, others)
    BY <1>8, <1>9
  <2> HIDE DEF n, others
  <2>5. Total(leaves', others \cup {n}) = leaves'[n].value + Total(leaves, others)
    <3>1. Gains(leaves, leaves', others, n)
      BY <2>1, <2>2, <2>4, TotalGains
    <3> QED
      BY <3>1 DEF Gains
  <2> QED
    BY <2>3, <2>5
<1>11. balance'[PoolAddr] >= Total(leaves', Live')
  <2>1. PICK v \in Nat, a \in Nat, b \in Nat, e \in Nat, t \in Nat :
          /\ v = c.value /\ a = amount /\ b = balance[PoolAddr] /\ e = balance'[PoolAddr]
          /\ t = Total(leaves, Live \ {k})
    BY <1>1, <1>2, <1>9 DEF PoolInv, PoolTypeOK, Address
  <2>2. b >= v + t /\ e >= b - a /\ a <= v
    BY <2>1, <1>1, <1>9 DEF Backed, amount
  <2>3. Total(leaves', Live') = (v - a) + t
    BY <2>1, <1>2, <1>8, <1>10
  <2>4. e >= (v - a) + t
    BY <2>2
  <2> QED
    BY <2>1, <2>3, <2>4
<1> QED
  BY <1>11, BackedNext

(* An exit pays its note and nothing more. *)
LEMMA ExitBacked ==
  ASSUME IInv, Backed, NEW user \in User, NEW i \in DOMAIN leaves, Exit(user, leaves[i])
  PROVE  Backed'
<1> DEFINE c == leaves[i]
<1>1. PoolInv /\ c \in Commitment /\ c.value \in Nat
  <2>1. PoolInv /\ c \in Commitment
    BY DEF IInv, PoolInv, PoolTypeOK
  <2> QED
    BY <2>1 DEF Commitment
<1>2. /\ Ragequit(user, c) /\ consumed' = consumed \cup {c} /\ leaves' = leaves
      /\ balance[PoolAddr] >= c.value /\ balance' = Moved(balance, PoolAddr, user, c.value)
  BY DEF Exit, Ragequit, Consume
<1>3. i \in Live /\ Live' = Live \ {i}
  <2>1. c \notin consumed
    BY <1>1, <1>2, RagequitKeeps
  <2>2. \A j \in DOMAIN leaves : leaves[j] = c <=> j = i
    BY <1>1 DEF PoolInv, LeavesDistinct
  <2> QED
    BY <2>1, <2>2, <1>2 DEF Live
<1> HIDE DEF c
<1>4. balance'[PoolAddr] = balance[PoolAddr] - c.value /\ balance[PoolAddr] \in Nat
  <2>1. /\ balance \in [Address -> Nat] /\ PoolAddr \in Address /\ user \in Address /\ user # PoolAddr
    BY <1>1, AddressAssumption DEF PoolInv, PoolTypeOK, Address
  <2> QED
    BY <2>1, <1>1, <1>2, MovedType
<1>5. /\ Total(leaves, Live) = c.value + Total(leaves, Live \ {i})
      /\ Total(leaves, Live \ {i}) \in Nat
  <2>1. Loses(leaves, Live, i)
    BY <1>1, <1>3, LiveWorthy, TotalLoses
  <2> QED
    BY <2>1 DEF Loses, c
<1>6. balance'[PoolAddr] >= Total(leaves', Live')
  <2>1. PICK v \in Nat, b \in Nat, t \in Nat :
          v = c.value /\ b = balance[PoolAddr] /\ t = Total(leaves, Live \ {i})
    BY <1>1, <1>4, <1>5
  <2>2. b >= v + t
    BY <2>1, <1>5 DEF Backed
  <2>3. b - v >= t
    BY <2>2
  <2> QED
    BY <2>1, <2>3, <1>2, <1>3, <1>4
<1> QED
  BY <1>6, BackedNext

(* No step takes from the pool more than it takes from its unspent notes. *)
LEMMA NextBacked ==
  ASSUME IInv, Backed, [Next]_vars
  PROVE  Backed'
<1>1. ASSUME UNCHANGED <<leaves, consumed>>, balance'[PoolAddr] = balance[PoolAddr]
      PROVE  Backed'
  BY <1>1, BackedNext DEF Backed, Live
<1>2. ASSUME NEW user \in User, NEW value \in DepositValue, NEW pre \in Precommitments,
             Deposit(user, value, pre)
      PROVE  Backed'
  BY <1>2, DepositBacked
<1>3. ASSUME NEW proof \in proofs, NEW w \in WithdrawalData, Relay(w, proof) PROVE Backed'
  <2>1. PoolWithdraw(EntrypointAddr, w, proof, LatestRoot)
    BY <1>3 DEF Relay
  <2> QED
    BY <1>3, <2>1, RelayBalances, WithdrawBacked
<1>4. ASSUME NEW sender \in User, NEW proof \in proofs, NEW w \in WithdrawalData,
             Withdraw(sender, w, proof)
      PROVE  Backed'
  <2>1. /\ PoolWithdraw(sender, w, proof, LatestRoot)
        /\ balance' = Moved(balance, PoolAddr, sender, proof.withdrawnValue)
    BY <1>4 DEF Withdraw
  <2>2. /\ balance \in [Address -> Nat] /\ PoolAddr \in Address /\ sender \in Address /\ sender # PoolAddr
        /\ proof.withdrawnValue \in Nat /\ balance[PoolAddr] >= proof.withdrawnValue
    BY <2>1, AddressAssumption DEF IInv, TypeOK, PoolInv, PoolTypeOK, Address, Proof, PoolWithdraw
  <2>3. /\ balance' \in [Address -> Nat]
        /\ balance'[PoolAddr] = balance[PoolAddr] - proof.withdrawnValue
    BY <2>1, <2>2, MovedType
  <2>4. balance'[PoolAddr] >= balance[PoolAddr] - proof.withdrawnValue
    BY <2>2, <2>3
  <2> QED
    BY <2>1, <2>3, <2>4, WithdrawBacked
<1>5. ASSUME NEW user \in User, NEW i \in DOMAIN leaves, Exit(user, leaves[i]) PROVE Backed'
  BY <1>5, ExitBacked
<1>6. ASSUME NEW recipient \in User, WithdrawFees(recipient) PROVE Backed'
  <2>1. /\ balance \in [Address -> Nat] /\ EntrypointAddr \in Address /\ recipient \in Address
        /\ PoolAddr \in Address \ {EntrypointAddr, recipient} /\ balance[EntrypointAddr] \in Nat
    BY AddressAssumption DEF IInv, PoolInv, PoolTypeOK, Address
  <2>2. balance'[PoolAddr] = balance[PoolAddr]
    BY <1>6, <2>1, MovedType DEF WithdrawFees
  <2> QED
    BY <1>6, <2>2, <1>1 DEF WithdrawFees, stateVars
<1>7. ASSUME \/ \E approved \in SUBSET (1 .. nonce) : UpdateRoot(approved)
             \/ \E i \in DOMAIN leaves, newPre \in Precommitments, w \in WithdrawalData :
                  \E value \in 0 .. leaves[i].value : Prove(leaves[i], value, newPre, w)
             \/ \E config \in PoolConfig : RegisterPool(config)
             \/ RemovePool
             \/ \E config \in PoolConfig : UpdatePoolConfiguration(config)
             \/ WindDownPool
             \/ UNCHANGED vars
      PROVE  Backed'
  <2>1. UNCHANGED <<leaves, consumed, balance>>
    BY <1>7 DEF UpdateRoot, Prove, RegisterPool, RemovePool, UpdatePoolConfiguration, WindDownPool,
                PoolWindDown, vars, poolVars, stateVars
  <2> QED
    BY <2>1, <1>1
<1> QED
  BY <1>2, <1>3, <1>4, <1>5, <1>6, <1>7 DEF Next

(* The pool always holds what its unspent notes add up to: deposits bring what *)
(* their notes are worth, and neither a withdrawal, a relay that pays its fee, *)
(* an exit nor the owner takes what another note needs.                        *)
THEOREM Solvent == Spec => []Solvency
<1>1. Init => Backed
  <2> SUFFICES ASSUME Init PROVE Backed
    OBVIOUS
  <2>1. leaves = << >> /\ balance \in [Address -> Nat]
    BY InitIInv DEF Init, PoolInit, StateInit, IInv, PoolInv, PoolTypeOK
  <2>2. Live = {} /\ balance[PoolAddr] \in Nat
    BY <2>1 DEF Live, Address
  <2>3. Total(leaves, {}) = 0
    <3>1. Worthy(leaves, {})
      BY FS_EmptySet DEF Worthy
    <3>2. PICK g : Additive(g, leaves, {})
      BY <3>1, AdditiveExists
    <3>3. Total(leaves, {}) = g[{}]
      BY <3>1, <3>2, TotalIs
    <3> QED
      BY <3>2, <3>3 DEF Additive
  <2> QED
    BY <2>2, <2>3 DEF Backed
<1>2. Init => IInv
  BY InitIInv
<1>3. IInv /\ [Next]_vars => IInv'
  BY NextIInv
<1>4. IInv /\ Backed /\ [Next]_vars => Backed'
  BY NextBacked
<1>5. IInv /\ Backed => Solvency
  <2> SUFFICES ASSUME PoolInv, Backed PROVE Solvency
    BY DEF IInv
  <2>1. Worthy(leaves, Live)
    BY LiveWorthy
  <2>2. MapThenSumSet(LAMBDA i : leaves[i].value, Live) = Total(leaves, Live)
    BY <2>1, FoldIsTotal
  <2> QED
    BY <2>2 DEF Solvency, Backed
<1> QED
  BY <1>1, <1>2, <1>3, <1>4, <1>5, PTL DEF Spec
=============================================================================
