------------------------------ MODULE NoteLedger ------------------------------
(***************************************************************************)
(* What a privacy pool promises, with no tree, roots, nullifiers or        *)
(* proofs: every deposit opens a line of credit that belongs to its        *)
(* depositor.  Credit is paid out piecemeal while the line is approved,    *)
(* or, approved or not, all at once to the depositor.  Nothing else takes  *)
(* tokens out of the vault.                                                *)
(***************************************************************************)
EXTENDS Naturals, Sequences

CONSTANT Vault  \* the account that backs the credit

VARIABLES
  owner,    \* label -> who opened it
  credit,   \* label -> what it may still draw
  approved, \* the labels that may draw piecemeal
  cash      \* account -> its tokens

ledgerVars == <<owner, credit, approved, cash>>

Init ==
  /\ owner = << >>
  /\ credit = << >>
  /\ approved = {}
  /\ cash[Vault] = 0

Open ==
  \E user \in DOMAIN cash \ {Vault} : \E value \in 0 .. cash[user] :
    /\ owner' = Append(owner, user)
    /\ credit' = Append(credit, value)
    /\ cash'[Vault] = cash[Vault] + value
    /\ cash'[user] <= cash[user] - value
    /\ UNCHANGED approved

Draw(label) ==
  /\ label \in approved
  /\ \E value \in 0 .. credit[label] :
       /\ credit' = [credit EXCEPT ![label] = @ - value]
       /\ cash'[Vault] >= cash[Vault] - value
  /\ UNCHANGED <<owner, approved>>

Close(label) ==
  /\ credit' = [credit EXCEPT ![label] = 0]
  /\ cash' = [cash EXCEPT ![Vault] = @ - credit[label], ![owner[label]] = @ + credit[label]]
  /\ UNCHANGED <<owner, approved>>

Approve ==
  /\ approved' \subseteq DOMAIN owner
  /\ UNCHANGED <<owner, credit, cash>>

(* Movements that do not touch the vault. *)
Elsewhere ==
  /\ cash'[Vault] = cash[Vault]
  /\ UNCHANGED <<owner, credit, approved>>

Next ==
  \/ Open
  \/ \E label \in DOMAIN credit : Draw(label) \/ Close(label)
  \/ Approve
  \/ Elsewhere

Spec == Init /\ [][Next]_ledgerVars
=============================================================================
