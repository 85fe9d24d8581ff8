------------------------------ MODULE Entrypoint ------------------------------
(***************************************************************************)
(* The Entrypoint (contracts/Entrypoint.sol) in front of one USDC pool:    *)
(* deposits, relayed withdrawals, the list of ASP roots and the owner's    *)
(* administration, composed with the pool of module PrivacyPool.           *)
(*                                                                         *)
(* Transactions are atomic and totally ordered, so one action is one       *)
(* transaction.  What interleaves is everything a client computed before   *)
(* its transaction landed: Prove builds a withdrawal proof against the     *)
(* roots of that moment, and the proof stays in `proofs`, where it may be  *)
(* submitted late, twice, by anybody, or never.                            *)
(***************************************************************************)
EXTENDS PrivacyPool, FiniteSetsExt

CONSTANTS
  InitialBalance,  \* the tokens every user starts with
  DepositValue,    \* the amounts users deposit
  WithdrawalData,  \* the withdrawals users ask for
  PoolConfig,      \* the configurations the owner may set
  MaxProofs,       \* bound: proofs built
  MaxRootUpdates   \* bound: ASP roots posted

AssetConfig == [minimumDepositAmount : Nat, vettingFeeBPS : Nat, maxRelayFeeBPS : Nat]

ASSUME InputAssumption ==
  /\ InitialBalance \in [User -> Nat]
  /\ DepositValue \subseteq Nat
  /\ WithdrawalData \subseteq Withdrawal
  /\ PoolConfig \subseteq AssetConfig

VARIABLES
  registered,         \* scopeToPool and assetConfig name the pool
  assetConfig,        \* the pool's AssetConfig
  associationSets,    \* the ASP roots posted so far; a root is its set of labels
  usedPrecommitments, \* the precommitments ever deposited
  proofs              \* off chain: the withdrawal proofs built so far

entrypointVars == <<registered, assetConfig, associationSets, usedPrecommitments>>

vars == <<poolVars, entrypointVars, proofs>>

FeeBasis == 10000

NoConfig == [minimumDepositAmount |-> 0, vettingFeeBPS |-> 0, maxRelayFeeBPS |-> 0]

ValidConfig(config) ==
  /\ config.vettingFeeBPS < FeeBasis
  /\ config.maxRelayFeeBPS < FeeBasis

DeductFee(amount, feeBPS) == amount - ((amount * feeBPS) \div FeeBasis)

HasRoot == associationSets # << >>

LatestRoot == associationSets[Len(associationSets)]

Init ==
  /\ PoolInit
  /\ balance = [a \in Address |-> IF a \in User THEN InitialBalance[a] ELSE 0]
  /\ registered = FALSE
  /\ assetConfig = NoConfig
  /\ associationSets = << >>
  /\ usedPrecommitments = {}
  /\ proofs = {}

-----------------------------------------------------------------------------
(* The ASP postman *)

UpdateRoot(approved) ==
  /\ Len(associationSets) < MaxRootUpdates
  /\ approved # {}
  /\ associationSets' = Append(associationSets, approved)
  /\ UNCHANGED <<poolVars, registered, assetConfig, usedPrecommitments, proofs>>

-----------------------------------------------------------------------------
(* Users *)

(* Fault: the note is worth the deposit before the vetting fee. *)
DepositGross(user, value, pre) ==
  LET afterFees == DeductFee(value, assetConfig.vettingFeeBPS)
      collected == Moved(balance, user, EntrypointAddr, value)
  IN /\ registered
     /\ balance[user] >= value
     /\ pre \notin usedPrecommitments
     /\ usedPrecommitments' = usedPrecommitments \cup {pre}
     /\ value >= assetConfig.minimumDepositAmount
     /\ PoolDeposit(user, value, pre)
     /\ balance' = Moved(collected, EntrypointAddr, PoolAddr, afterFees)
     /\ UNCHANGED <<registered, assetConfig, associationSets, proofs>>

Deposit(user, value, pre) ==
  LET afterFees == DeductFee(value, assetConfig.vettingFeeBPS)
      collected == Moved(balance, user, EntrypointAddr, value)
  IN /\ registered
     /\ balance[user] >= value
     /\ pre \notin usedPrecommitments
     /\ usedPrecommitments' = usedPrecommitments \cup {pre}
     /\ value >= assetConfig.minimumDepositAmount
     /\ PoolDeposit(user, afterFees, pre)
     /\ balance' = Moved(collected, EntrypointAddr, PoolAddr, afterFees)
     /\ UNCHANGED <<registered, assetConfig, associationSets, proofs>>

(* A client proves a withdrawal of `value` from note c against the newest state *)
(* root and ASP root.  The conjuncts on c, value and newPre are the constraints *)
(* of the withdrawal circuit.                                                   *)
Prove(c, value, newPre, withdrawal) ==
  /\ Cardinality(proofs) < MaxProofs
  /\ HasRoot
  /\ IsUnderRoot(c, CurrentRoot)
  /\ c.label \in LatestRoot
  /\ value <= c.value
  /\ NullifierOf[newPre] # NullifierHash(c)
  /\ proofs' = proofs \cup
       {[note |-> c, newPre |-> newPre, withdrawnValue |-> value, stateRoot |-> CurrentRoot,
         ASPRoot |-> LatestRoot, context |-> withdrawal]}
  /\ UNCHANGED <<poolVars, entrypointVars>>

(* relay: the pool pays the Entrypoint, which pays the recipient and the fee. *)
Relay(withdrawal, proof) ==
  LET amount    == proof.withdrawnValue
      afterFees == DeductFee(amount, withdrawal.relayFeeBPS)
      pushed    == Moved(balance, PoolAddr, EntrypointAddr, amount)
      delivered == Moved(pushed, EntrypointAddr, withdrawal.recipient, afterFees)
      settled   == Moved(delivered, EntrypointAddr, withdrawal.feeRecipient, amount - afterFees)
  IN /\ amount # 0
     /\ withdrawal.processooor = EntrypointAddr
     /\ registered
     /\ HasRoot
     /\ PoolWithdraw(EntrypointAddr, withdrawal, proof, LatestRoot)
     /\ withdrawal.relayFeeBPS <= assetConfig.maxRelayFeeBPS
     /\ settled[EntrypointAddr] >= balance[EntrypointAddr]
     /\ balance' = settled
     /\ UNCHANGED <<entrypointVars, proofs>>

(* A processooor other than the Entrypoint calls the pool itself. *)
Withdraw(sender, withdrawal, proof) ==
  /\ HasRoot
  /\ PoolWithdraw(sender, withdrawal, proof, LatestRoot)
  /\ balance' = Moved(balance, PoolAddr, sender, proof.withdrawnValue)
  /\ UNCHANGED <<entrypointVars, proofs>>

Exit(user, c) ==
  /\ Ragequit(user, c)
  /\ UNCHANGED <<entrypointVars, proofs>>

-----------------------------------------------------------------------------
(* The owner *)

RegisterPool(config) ==
  /\ ~registered
  /\ ~dead
  /\ ValidConfig(config)
  /\ registered' = TRUE
  /\ assetConfig' = config
  /\ UNCHANGED <<poolVars, associationSets, usedPrecommitments, proofs>>

RemovePool ==
  /\ registered
  /\ registered' = FALSE
  /\ assetConfig' = NoConfig
  /\ UNCHANGED <<poolVars, associationSets, usedPrecommitments, proofs>>

UpdatePoolConfiguration(config) ==
  /\ registered
  /\ ValidConfig(config)
  /\ assetConfig' = config
  /\ UNCHANGED <<poolVars, registered, associationSets, usedPrecommitments, proofs>>

WindDownPool ==
  /\ PoolWindDown
  /\ UNCHANGED <<entrypointVars, proofs>>

WithdrawFees(recipient) ==
  /\ balance' = Moved(balance, EntrypointAddr, recipient, balance[EntrypointAddr])
  /\ UNCHANGED <<stateVars, consumed, funded, paid, entrypointVars, proofs>>

-----------------------------------------------------------------------------
Next ==
  \/ \E approved \in SUBSET (1 .. nonce) : UpdateRoot(approved)
  \/ \E user \in User, value \in DepositValue, pre \in Precommitments : Deposit(user, value, pre)
  \/ \E i \in DOMAIN leaves, newPre \in Precommitments, w \in WithdrawalData :
       \E value \in 0 .. leaves[i].value : Prove(leaves[i], value, newPre, w)
  \/ \E proof \in proofs, w \in WithdrawalData : Relay(w, proof)
  \/ \E sender \in User, proof \in proofs, w \in WithdrawalData : Withdraw(sender, w, proof)
  \/ \E user \in User, i \in DOMAIN leaves : Exit(user, leaves[i])
  \/ \E config \in PoolConfig : RegisterPool(config)
  \/ RemovePool
  \/ \E config \in PoolConfig : UpdatePoolConfiguration(config)
  \/ WindDownPool
  \/ \E recipient \in User : WithdrawFees(recipient)

Spec == Init /\ [][Next]_vars

-----------------------------------------------------------------------------
(* Properties *)

(* Every variable keeps the type its Solidity declaration gives it. *)
TypeOK ==
  /\ PoolTypeOK
  /\ registered \in BOOLEAN
  /\ assetConfig \in AssetConfig /\ ValidConfig(assetConfig)
  /\ associationSets \in Seq(SUBSET Nat)
  /\ usedPrecommitments \subseteq Precommitments
  /\ proofs \subseteq Proof

(* The depositor of an unspent note whose nullifier is unspent can always exit *)
(* with ragequit: no root window, ASP list, registration, dead flag, full tree *)
(* or shortfall of the pool can stop it.                                       *)
ExitAlwaysPossible ==
  \A i \in Live :
    NullifierHash(leaves[i]) \notin nullifierHashes =>
      ENABLED Exit(depositors[leaves[i].label], leaves[i])

(* The pool always holds what its unspent notes add up to.                     *)
Solvency == balance[PoolAddr] >= MapThenSumSet(LAMBDA i : leaves[i].value, Live)

(* The pool implements the ledger: credit is what a label has not paid, and    *)
(* the approved labels are those of the ASP root in force when it is drawn.    *)
Ledger == INSTANCE NoteLedger WITH
  Vault <- PoolAddr,
  owner <- depositors,
  credit <- [l \in DOMAIN funded |-> funded[l] - paid[l]],
  approved <- IF HasRoot THEN LatestRoot ELSE {},
  cash <- balance

LedgerSpec == Ledger!Spec
=============================================================================
