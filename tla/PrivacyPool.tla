----------------------------- MODULE PrivacyPool -----------------------------
(***************************************************************************)
(* The operations of one ERC-20 pool (contracts/PrivacyPool.sol with       *)
(* implementations/PrivacyPoolComplex.sol) as the Entrypoint or a user     *)
(* calls them.  Each operator is one external call: all of it happens or,  *)
(* when a check fails, none of it does.                                    *)
(*                                                                         *)
(* The ledger of the token is the function `balance`.  `consumed`,         *)
(* `funded` and `paid` are history: what was spent, what each label was    *)
(* opened with and what left the pool under it.  No guard reads them.      *)
(***************************************************************************)
EXTENDS PoolState

CONSTANTS
  User,            \* the externally owned accounts
  PoolAddr,        \* the pool's address
  EntrypointAddr,  \* the Entrypoint's address
  Uint128Max       \* type(uint128).max: deposits stay below it

ASSUME AddressAssumption ==
  /\ PoolAddr \notin User
  /\ EntrypointAddr \notin User
  /\ PoolAddr # EntrypointAddr

VARIABLES
  balance,  \* token balance of every address
  consumed, \* history: the commitments spent so far
  funded,   \* history: label -> value of the note the deposit created
  paid      \* history: label -> value that left the pool under the label

poolVars == <<stateVars, balance, consumed, funded, paid>>

Address == User \cup {PoolAddr, EntrypointAddr}

Withdrawal == [processooor : Address, recipient : Address, feeRecipient : Address,
               relayFeeBPS : Nat]

(* A proof's public signals, with the note it spends in place of its nullifier *)
(* hash and with the withdrawal its context signal hashes.                     *)
Proof == [note : Commitment, newPre : Precommitments, withdrawnValue : Nat,
          stateRoot : Nat, ASPRoot : SUBSET Nat, context : Withdrawal]

NullifierHash(c) == NullifierOf[c.pre]

(* Fault: the change note keeps the whole value. *)
NewCommitmentGross(proof) ==
  [value |-> proof.note.value, label |-> proof.note.label, pre |-> proof.newPre]

NewCommitment(proof) ==
  [value |-> proof.note.value - proof.withdrawnValue,
   label |-> proof.note.label,
   pre   |-> proof.newPre]

PoolInit ==
  /\ StateInit
  /\ consumed = {}
  /\ funded = << >>
  /\ paid = << >>

(* ERC-20 transfer of an amount the sender holds; from and to may coincide. *)
Moved(b, from, to, amount) ==
  LET debited == [b EXCEPT ![from] = @ - amount]
  IN [debited EXCEPT ![to] = @ + amount]

Consume(c, value) ==
  /\ consumed' = consumed \cup {c}
  /\ paid' = [paid EXCEPT ![c.label] = @ + value]
  /\ UNCHANGED funded

(* deposit, called by the Entrypoint; the caller moves the tokens (_pull). *)
PoolDeposit(depositor, value, pre) ==
  /\ ~dead
  /\ value < Uint128Max
  /\ nonce' = nonce + 1
  /\ depositors' = Append(depositors, depositor)
  /\ Insert([value |-> value, label |-> nonce + 1, pre |-> pre])
  /\ funded' = Append(funded, value)
  /\ paid' = Append(paid, 0)
  /\ UNCHANGED <<dead, nullifierHashes, consumed>>

(* The modifier validWithdrawal: aspRoot is the root the ASP posted last. *)
ValidWithdrawal(sender, withdrawal, proof, aspRoot) ==
  /\ sender = withdrawal.processooor
  /\ proof.context = withdrawal
  /\ IsKnownRoot(proof.stateRoot)
  /\ proof.ASPRoot = aspRoot

(* withdraw; the tokens it pushes to the processooor are in the caller's *)
(* balance update.                                                       *)
PoolWithdraw(sender, withdrawal, proof, aspRoot) ==
  /\ ValidWithdrawal(sender, withdrawal, proof, aspRoot)
  /\ Spend(NullifierHash(proof.note))
  /\ Insert(NewCommitment(proof))
  /\ balance[PoolAddr] >= proof.withdrawnValue
  /\ Consume(proof.note, proof.withdrawnValue)
  /\ UNCHANGED <<nonce, dead, depositors>>

(* Fault: ragequit refused once the pool is wound down. *)
RagequitWhileAlive(sender, c) ==
  /\ ~dead
  /\ c.label \in DOMAIN depositors
  /\ depositors[c.label] = sender
  /\ IsInState(c)
  /\ Spend(NullifierHash(c))
  /\ balance[PoolAddr] >= c.value
  /\ balance' = Moved(balance, PoolAddr, sender, c.value)
  /\ Consume(c, c.value)
  /\ UNCHANGED <<nonce, dead, depositors, leaves, roots, currentRootIndex>>

(* Fault: anybody who knows a note's secrets may ragequit it. *)
RagequitByAnyone(sender, c) ==
  /\ c.label \in DOMAIN depositors
  /\ IsInState(c)
  /\ Spend(NullifierHash(c))
  /\ balance[PoolAddr] >= c.value
  /\ balance' = Moved(balance, PoolAddr, sender, c.value)
  /\ Consume(c, c.value)
  /\ UNCHANGED <<nonce, dead, depositors, leaves, roots, currentRootIndex>>

(* ragequit by `sender`, who proves knowledge of the secrets of note c. *)
Ragequit(sender, c) ==
  /\ c.label \in DOMAIN depositors
  /\ depositors[c.label] = sender
  /\ IsInState(c)
  /\ Spend(NullifierHash(c))
  /\ balance[PoolAddr] >= c.value
  /\ balance' = Moved(balance, PoolAddr, sender, c.value)
  /\ Consume(c, c.value)
  /\ UNCHANGED <<nonce, dead, depositors, leaves, roots, currentRootIndex>>

PoolWindDown ==
  /\ ~dead
  /\ dead' = TRUE
  /\ UNCHANGED <<nonce, roots, currentRootIndex, leaves, nullifierHashes, depositors,
                 balance, consumed, funded, paid>>

-----------------------------------------------------------------------------
(* Properties of the pool *)

Live == {i \in DOMAIN leaves : leaves[i] \notin consumed}

(* The part of the type invariant that is about the pool. *)
PoolTypeOK ==
  /\ nonce \in Nat
  /\ dead \in BOOLEAN
  /\ roots \in [Slot -> Nat]
  /\ currentRootIndex \in Slot
  /\ leaves \in Seq(Commitment)
  /\ nullifierHashes \subseteq Nullifier
  /\ depositors \in Seq(User)
  /\ balance \in [Address -> Nat]
  /\ consumed \subseteq Commitment
  /\ funded \in Seq(Nat)
  /\ paid \in Seq(Nat)

(* The nullifier set is exactly what was spent: no nullifier is recorded for   *)
(* a note nobody spent, two spent notes never shared one (State._spend), and   *)
(* nothing outside the tree was ever spent.                                    *)
SpentExactly ==
  /\ \A c \in consumed : IsInState(c)
  /\ nullifierHashes = {NullifierHash(c) : c \in consumed}
  /\ \A c, d \in consumed : NullifierHash(c) = NullifierHash(d) => c = d

(* A deposit is represented by at most one unspent leaf, however often it is   *)
(* split by withdrawals, replayed, or exited (withdraw and ragequit).          *)
OneLiveNotePerLabel ==
  \A i, j \in Live : leaves[i].label = leaves[j].label => i = j

(* No label ever pays out more than its deposit put in, and what it has not    *)
(* paid is exactly the value of its unspent note (withdraw, ragequit).         *)
LabelConservation ==
  /\ \A l \in DOMAIN funded : paid[l] <= funded[l]
  /\ \A i \in Live : paid[leaves[i].label] + leaves[i].value = funded[leaves[i].label]

(* The circular buffer knows exactly the newest RootHistorySize roots of the   *)
(* tree, whatever its index has wrapped to (State._insert, _isKnownRoot).      *)
RootWindow ==
  \A k \in 1 .. CurrentRoot : IsKnownRoot(k) <=> k + RootHistorySize > CurrentRoot
=============================================================================
