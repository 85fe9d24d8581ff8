------------------------------- MODULE SvmPool -------------------------------
(***************************************************************************)
(* The Solana programs: the privacy pool (zx402-privacy-pool) and the      *)
(* receiver that marks an order fulfilled in the instruction that pays it  *)
(* (zx402-native-receiver).  An action is an instruction that succeeds;    *)
(* any error aborts the whole transaction.                                 *)
(*                                                                         *)
(* Abstractions.  A commitment is the note it hashes, [id, label, value],  *)
(* where id stands for its secrets and is its nullifier; a label is the    *)
(* number of its deposit.  A payment is what a withdrawal proof binds: the *)
(* proof's public signals and, through its context, recipient, fee and     *)
(* relayer, of which there is one.  An association root is the set of the  *)
(* labels under it.  A token account is its owner.                         *)
(***************************************************************************)
EXTENDS LeanIMT

CONSTANTS
  HISTORICAL_ROOTS,   \* slots of the ring of state roots, 32 in the code
  MAX_TREE_DEPTH,     \* 32 in the code
  VETTING_FEE_BPS,
  MAX_RELAY_FEE_BPS,
  MINIMUM_DEPOSIT,
  Users,              \* depositors
  Shops,              \* recipients of x402 payments
  Orders,             \* recipients that are the authority of an order of the receiver
  Vault,
  Relayer

ASSUME RootsAssumption == HISTORICAL_ROOTS \in Nat \ {0} /\ MAX_TREE_DEPTH \in Nat
ASSUME FeesAssumption ==
  VETTING_FEE_BPS \in Nat /\ MAX_RELAY_FEE_BPS \in Nat /\ MINIMUM_DEPOSIT \in Nat
ASSUME AccountsAssumption ==
  /\ Users \cap (Shops \cup Orders) = {} /\ Shops \cap Orders = {}
  /\ {Vault, Relayer} \cap (Users \cup Shops \cup Orders) = {} /\ Vault # Relayer

Accounts == Users \cup Shops \cup Orders \cup {Vault, Relayer}

VARIABLES
  pool,              \* PoolState
  depositRecords,    \* the depositor of each DepositRecord
  nullifierRecords,  \* the nullifiers with a NullifierRecord
  intents,           \* the PaymentIntent of each order
  tokens,            \* the balance of each account
  events,            \* DepositEvent and WithdrawalEvent, in order
  retained           \* history: the vetting fees left in the vault

poolVars == <<pool, depositRecords, nullifierRecords, intents, tokens, events, retained>>

Slots == 0 .. HISTORICAL_ROOTS - 1

Levels == 0 .. MAX_TREE_DEPTH - 1

Zero == << >>

Fee(value, bps) == (value * bps) \div 10000

-----------------------------------------------------------------------------
(* LeanImtFrontier *)

(* The lowest level at which the next leaf is a left child. *)
ParkLevel(f) ==
  CHOOSE level \in Levels :
    /\ ~IsRightChild(f.size, level)
    /\ \A below \in 0 .. level - 1 : IsRightChild(f.size, below)

(* The leaf climbs as a right child to the level where it parks. *)
Insert(f, leaf) ==
  LET park == ParkLevel(f)
      node[level \in 0 .. park] ==
        IF level = 0 THEN <<leaf>> ELSE <<f.sideNodes[level - 1], node[level - 1]>>
  IN [sideNodes    |-> [level \in Levels |-> IF level < park THEN Zero
                                             ELSE IF level = park THEN node[park]
                                             ELSE f.sideNodes[level]],
      size         |-> f.size + 1,
      currentDepth |-> CeilLog2(f.size + 1)]

(* The leaf that would fill the tree has no level to park at. *)
HasRoom(f) == f.size + 1 < 2 ^ MAX_TREE_DEPTH

Poseidon2OrZero(left, right) ==
  IF left = Zero THEN right ELSE IF right = Zero THEN left ELSE <<left, right>>

(* Fault: the node of a lower level is taken for the left one. *)
RootMirrored(f) ==
  LET node[level \in 0 .. f.currentDepth] ==
        LET below == IF level = 0 THEN Zero ELSE node[level - 1]
        IN IF IsRightChild(f.size, level) THEN Poseidon2OrZero(below, f.sideNodes[level]) ELSE below
  IN node[f.currentDepth]

Root(f) ==
  LET node[level \in 0 .. f.currentDepth] ==
        LET below == IF level = 0 THEN Zero ELSE node[level - 1]
        IN IF IsRightChild(f.size, level) THEN Poseidon2OrZero(f.sideNodes[level], below) ELSE below
  IN node[f.currentDepth]

-----------------------------------------------------------------------------
(* zx402_privacy_pool *)

(* What both instructions that insert a leaf do with it. *)
InsertLeaf(note, event) ==
  /\ HasRoom(pool.frontier)
  /\ LET f == Insert(pool.frontier, note.id)
     IN pool' = [pool EXCEPT !.frontier = f,
                             !.treeRoot = Root(f),
                             !.knownStateRoots[pool.knownStateRootsIdx] = Root(f),
                             !.knownStateRootsIdx = (@ + 1) % HISTORICAL_ROOTS]
  /\ events' = Append(events, event)

Deposit(user, amount, id) ==
  LET label == Len(depositRecords) + 1
      fee == Fee(amount, VETTING_FEE_BPS)
      note == [id |-> id, label |-> label, value |-> amount - fee]
  IN /\ ~pool.paused
     /\ amount >= MINIMUM_DEPOSIT
     /\ fee <= amount
     /\ tokens[user] >= amount
     /\ tokens' = [tokens EXCEPT ![user] = @ - amount, ![Vault] = @ + amount]
     /\ InsertLeaf(note, [leaf |-> note, nullifier |-> 0, recipient |-> Vault, value |-> note.value])
     /\ depositRecords' = Append(depositRecords, user)
     /\ retained' = retained + fee
     /\ UNCHANGED <<nullifierRecords, intents>>

KnownStateRoot(root) == \E i \in Slots : pool.knownStateRoots[i] = root

(* Fault: a nullifier record that exists is no obstacle. *)
RelayableAgain(payment) ==
  /\ ~pool.paused
  /\ payment.relayFeeBps <= MAX_RELAY_FEE_BPS
  /\ KnownStateRoot(payment.stateRoot)
  /\ payment.aspRoot = pool.aspRoot

Relayable(payment) ==
  /\ ~pool.paused
  /\ payment.relayFeeBps <= MAX_RELAY_FEE_BPS
  /\ payment.nullifier \notin nullifierRecords
  /\ KnownStateRoot(payment.stateRoot)
  /\ payment.aspRoot = pool.aspRoot

RelayFee(payment) == Fee(payment.amount, payment.relayFeeBps)

(* What reaches the recipient. *)
Payout(payment) == payment.amount - RelayFee(payment)

RelayWithdrawal(payment) ==
  /\ Relayable(payment)
  /\ nullifierRecords' = nullifierRecords \cup {payment.nullifier}
  /\ RelayFee(payment) <= payment.amount
  /\ tokens[Vault] >= payment.amount
  /\ tokens' = [tokens EXCEPT ![Vault] = @ - payment.amount,
                              ![payment.recipient] = @ + Payout(payment),
                              ![Relayer] = @ + RelayFee(payment)]
  /\ InsertLeaf(payment.change, [leaf |-> payment.change, nullifier |-> payment.nullifier,
                                 recipient |-> payment.recipient, value |-> Payout(payment)])
  /\ UNCHANGED <<depositRecords, retained>>

UpdateAspRoot(labels) ==
  /\ pool' = [pool EXCEPT !.aspRoot = labels]
  /\ UNCHANGED <<depositRecords, nullifierRecords, intents, tokens, events, retained>>

SetPaused(paused) ==
  /\ pool' = [pool EXCEPT !.paused = paused]
  /\ UNCHANGED <<depositRecords, nullifierRecords, intents, tokens, events, retained>>

-----------------------------------------------------------------------------
(* zx402_native_receiver *)

NoIntent == [expectedAmount |-> 0, fulfilled |-> FALSE, nullifier |-> 0]

CreatePaymentIntent(order, amount) ==
  /\ intents[order] = NoIntent
  /\ amount > 0
  /\ intents' = [intents EXCEPT ![order].expectedAmount = amount]
  /\ UNCHANGED <<pool, depositRecords, nullifierRecords, tokens, events, retained>>

FulfillPrivatePayment(order, payment) ==
  /\ intents[order] # NoIntent
  /\ ~intents[order].fulfilled
  /\ payment.recipient = order
  /\ RelayWithdrawal(payment)
  /\ tokens'[order] - tokens[order] = intents[order].expectedAmount
  /\ intents' = [intents EXCEPT ![order].fulfilled = TRUE, ![order].nullifier = payment.nullifier]

-----------------------------------------------------------------------------
(* initialize, with the tokens of the users *)
PoolInit(funds) ==
  /\ pool = [paused |-> FALSE, aspRoot |-> {}, treeRoot |-> Zero,
             frontier |-> [sideNodes |-> [level \in Levels |-> Zero], size |-> 0, currentDepth |-> 0],
             knownStateRoots |-> [i \in Slots |-> Zero], knownStateRootsIdx |-> 0]
  /\ depositRecords = << >>
  /\ nullifierRecords = {}
  /\ intents = [order \in Orders |-> NoIntent]
  /\ tokens = [account \in Accounts |-> IF account \in Users THEN funds ELSE 0]
  /\ events = << >>
  /\ retained = 0

Leaves == {events[i].leaf : i \in DOMAIN events}

(* A note that can still be withdrawn from. *)
Live(note) == note \in Leaves /\ note.id \notin nullifierRecords
=============================================================================
