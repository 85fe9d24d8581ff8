----------------------------- MODULE SvmPayment -----------------------------
(***************************************************************************)
(* x402 payments from the Solana pool: a buyer with the client scheme and  *)
(* the books of notes its hooks keep, the facilitator, the transactions it *)
(* has sent, and beside them another depositor, who hands prepared         *)
(* payments for orders to a relayer, the postman and the pool's owner.     *)
(*                                                                         *)
(* Abstractions.  The resource server is external: it asks /verify, then   *)
(* /settle, and answers with a settle response whenever it came so far, or *)
(* with an error.  The application keeps its books as the scheme's         *)
(* comments ask: a note is locked while it is being spent and its change   *)
(* is pending.  A request carries one payment, and goes on when the client *)
(* has stopped waiting.                                                    *)
(***************************************************************************)
EXTENDS SvmPool, FiniteSets

CONSTANTS
  Buyer, Other,   \* the users
  Funds,          \* the tokens of each
  DepositAmount,
  Amounts,        \* what a payment or an order may be worth
  RelayFees,      \* relay fees, in basis points, Other may agree to; the SDK's is 0
  Approvals,      \* the sets of labels the postman may publish a root for
  PoolKeyByte,    \* the first byte of the pool's address
  MaxNotes,       \* bound: notes made
  MaxRequests,    \* bound: requests made
  MaxHanded,      \* bound: payments Other prepares
  MaxFaults       \* bound: lost answers, failed stores, timeouts, crashes

ASSUME AmountsAssumption ==
  /\ Funds \in Nat /\ DepositAmount \in Nat
  /\ Amounts \subseteq Nat \ {0} /\ RelayFees \subseteq Nat
ASSUME MaxAssumption ==
  MaxNotes \in Nat /\ MaxRequests \in Nat /\ MaxHanded \in Nat /\ MaxFaults \in Nat
ASSUME UsersAssumption == Users = {Buyer, Other} /\ Buyer # Other
ASSUME ByteAssumption == PoolKeyByte \in 0 .. 255

VARIABLES
  books,                \* the status of each note the buyer's application holds
  preparedByNullifier,  \* the client scheme's map
  drafts,               \* payments prepared and not yet in the map
  requests,
  settlementsInFlight,  \* the facilitator's set
  handed,               \* the payments Other has handed to a relayer
  made,                 \* notes made so far; they are numbered by id
  faults

clientVars == <<books, preparedByNullifier, drafts>>
svmVars == <<poolVars, clientVars, requests, settlementsInFlight, handed, made, faults>>

(* The function f, and value at key. *)
With(f, key, value) == [k \in DOMAIN f \cup {key} |-> IF k = key THEN value ELSE f[k]]

Fault == faults < MaxFaults /\ faults' = faults + 1

-----------------------------------------------------------------------------
(* Deposits.  A deposit that overtakes another takes its record's address,  *)
(* and the overtaken transaction fails: a landed one has the expected label *)

NewNote == events'[Len(events')].leaf

(* The secrets reach the caller once the transaction is confirmed. *)
BuyerDeposit ==
  /\ made < MaxNotes
  /\ Deposit(Buyer, DepositAmount, made + 1)
  /\ made' = made + 1
  /\ books' = With(books, NewNote, "spendable")
  /\ UNCHANGED <<preparedByNullifier, drafts, requests, settlementsInFlight, handed, faults>>

(* The confirmation throws, and the secrets are gone with the call. *)
BuyerDepositLost ==
  /\ Fault
  /\ made < MaxNotes
  /\ Deposit(Buyer, DepositAmount, made + 1)
  /\ made' = made + 1
  /\ UNCHANGED <<clientVars, requests, settlementsInFlight, handed>>

OtherDeposit ==
  /\ made < MaxNotes
  /\ Deposit(Other, DepositAmount, made + 1)
  /\ made' = made + 1
  /\ UNCHANGED <<clientVars, requests, settlementsInFlight, handed, faults>>

-----------------------------------------------------------------------------
(* prepareWithdrawal: the tree is rebuilt from the events and must have the *)
(* root the pool has; the association tree is the note's own label.         *)

Preparable(note, amount) ==
  /\ made < MaxNotes
  /\ note \in Leaves
  /\ pool.aspRoot = {note.label}
  /\ amount \in 1 .. note.value

Prepared(note, recipient, amount, relayFeeBps) ==
  [nullifier |-> note.id, recipient |-> recipient, amount |-> amount, relayFeeBps |-> relayFeeBps,
   stateRoot |-> pool.treeRoot, aspRoot |-> pool.aspRoot,
   change |-> [id |-> made + 1, label |-> note.label, value |-> note.value - amount]]

(* Other prepares a payment for an order and hands it to a relayer. *)
Hand(note, order, amount, relayFeeBps) ==
  /\ Cardinality(handed) < MaxHanded
  /\ depositRecords[note.label] = Other
  /\ Preparable(note, amount)
  /\ handed' = handed \cup {Prepared(note, order, amount, relayFeeBps)}
  /\ made' = made + 1
  /\ UNCHANGED <<poolVars, clientVars, requests, settlementsInFlight, faults>>

(* createPaymentPayload up to the end of the proof. *)
Draft(note, recipient, amount) ==
  /\ books[note] = "spendable"
  /\ Preparable(note, amount)
  /\ drafts' = drafts \cup {[note |-> note, payment |-> Prepared(note, recipient, amount, 0)]}
  /\ made' = made + 1
  /\ UNCHANGED <<poolVars, books, preparedByNullifier, requests, settlementsInFlight, handed, faults>>

-----------------------------------------------------------------------------
(* The application's books, as the hooks update them *)

NewRequest(payment) == [payment |-> payment, pc |-> "verify", tx |-> "none", waiting |-> TRUE]

WithChange(b, payment, status) ==
  IF payment.change.value = 0 THEN b ELSE With(b, payment.change, status)

OnPrepared(draft) ==
  WithChange([books EXCEPT ![draft.note] = IF @ = "spendable" THEN "locked" ELSE @],
             draft.payment, "pending")

(* Also onReconciled. *)
OnSettled(draft) ==
  WithChange([books EXCEPT ![draft.note] = "spent"], draft.payment, "spendable")

OnRejected(draft) ==
  WithChange([books EXCEPT ![draft.note] = IF @ = "locked" THEN "spendable" ELSE @],
             draft.payment, "discarded")

Entry(payment) == preparedByNullifier[payment.nullifier]

Forget(nullifier) ==
  [n \in DOMAIN preparedByNullifier \ {nullifier} |-> preparedByNullifier[n]]

-----------------------------------------------------------------------------
(* The client scheme *)

(* Fault: a second payment of a note takes the place of the first. *)
RegisterAnyway(draft) ==
  /\ Len(requests) < MaxRequests
  /\ preparedByNullifier' = With(preparedByNullifier, draft.payment.nullifier,
                                 [draft |-> draft, status |-> "prepared"])
  /\ books' = OnPrepared(draft)
  /\ drafts' = drafts \ {draft}
  /\ requests' = Append(requests, NewRequest(draft.payment))
  /\ UNCHANGED <<poolVars, settlementsInFlight, handed, made, faults>>

(* The rest of createPaymentPayload, and the request is sent. *)
Register(draft) ==
  /\ draft.payment.nullifier \notin DOMAIN preparedByNullifier
  /\ Len(requests) < MaxRequests
  /\ preparedByNullifier' = With(preparedByNullifier, draft.payment.nullifier,
                                 [draft |-> draft, status |-> "prepared"])
  /\ books' = OnPrepared(draft)
  /\ drafts' = drafts \ {draft}
  /\ requests' = Append(requests, NewRequest(draft.payment))
  /\ UNCHANGED <<poolVars, settlementsInFlight, handed, made, faults>>

(* The note is already being spent, or the application's store fails. *)
RefuseDraft(draft) ==
  /\ \/ draft.payment.nullifier \in DOMAIN preparedByNullifier /\ UNCHANGED faults
     \/ draft.payment.nullifier \notin DOMAIN preparedByNullifier /\ Fault
  /\ drafts' = drafts \ {draft}
  /\ UNCHANGED <<poolVars, books, preparedByNullifier, requests, settlementsInFlight, handed, made>>

(* The request is made once more with a payment whose outcome is in doubt. *)
Resend(i) ==
  /\ Len(requests) < MaxRequests
  /\ \A j \in DOMAIN requests : requests[j].payment = requests[i].payment => ~requests[j].waiting
  /\ requests[i].payment.nullifier \in DOMAIN preparedByNullifier
  /\ Entry(requests[i].payment).draft.payment = requests[i].payment
  /\ requests' = Append(requests, NewRequest(requests[i].payment))
  /\ UNCHANGED <<poolVars, clientVars, settlementsInFlight, handed, made, faults>>

Promote(draft) ==
  /\ books' = OnSettled(draft)
  /\ preparedByNullifier' = Forget(draft.payment.nullifier)

(* Fault: a later 402 takes an attempt in doubt for a rejected one. *)
OnPaymentResponseForgetful(payment, outcome) ==
  CASE outcome = "settled"  -> Promote(Entry(payment).draft)
    [] outcome = "rejected" -> /\ books' = OnRejected(Entry(payment).draft)
                               /\ preparedByNullifier' = Forget(payment.nullifier)
    [] OTHER -> /\ preparedByNullifier' = [preparedByNullifier EXCEPT
                                             ![payment.nullifier].status = "indeterminate"]
                /\ UNCHANGED books

(* The hook of an entry, for an answer with a successful settle response    *)
(* (settled), a 402 with none (rejected), or any other or an error (failed).*)
OnPaymentResponse(payment, outcome) ==
  CASE outcome = "settled" -> Promote(Entry(payment).draft)
    [] outcome = "rejected" /\ Entry(payment).status = "prepared" ->
         /\ books' = OnRejected(Entry(payment).draft)
         /\ preparedByNullifier' = Forget(payment.nullifier)
    [] OTHER -> /\ preparedByNullifier' = [preparedByNullifier EXCEPT
                                             ![payment.nullifier].status = "indeterminate"]
                /\ UNCHANGED books

Hear(i, outcome) ==
  /\ requests' = [requests EXCEPT ![i].waiting = FALSE]
  /\ IF requests[i].payment.nullifier \in DOMAIN preparedByNullifier
     THEN OnPaymentResponse(requests[i].payment, outcome)
     ELSE UNCHANGED <<books, preparedByNullifier>>
  /\ UNCHANGED <<poolVars, drafts, settlementsInFlight, handed, made>>

ReceiveReply(i) ==
  /\ requests[i].waiting
  /\ requests[i].pc \in {"settled", "failed", "rejected"}
  /\ Hear(i, requests[i].pc)
  /\ UNCHANGED faults

LoseReply(i) ==
  /\ requests[i].waiting
  /\ Fault
  /\ Hear(i, "failed")

(* onSettled throws after the status was set, or onRejected throws. *)
StoreFails(i) ==
  /\ requests[i].waiting
  /\ requests[i].payment.nullifier \in DOMAIN preparedByNullifier
  /\ Fault
  /\ \/ /\ requests[i].pc = "settled"
        /\ preparedByNullifier' = [preparedByNullifier EXCEPT
                                     ![requests[i].payment.nullifier].status = "indeterminate"]
     \/ /\ requests[i].pc = "rejected"
        /\ UNCHANGED preparedByNullifier
  /\ requests' = [requests EXCEPT ![i].waiting = FALSE]
  /\ UNCHANGED <<poolVars, books, drafts, settlementsInFlight, handed, made>>

(* isPreparedWithdrawalSpent takes the byte after the discriminator for the *)
(* record's spent flag; it is the first of the pool's address.              *)
ReconcilePayment(nullifier) ==
  /\ preparedByNullifier[nullifier].status = "indeterminate"
  /\ nullifier \in nullifierRecords
  /\ PoolKeyByte = 1
  /\ Promote(preparedByNullifier[nullifier].draft)
  /\ UNCHANGED <<poolVars, drafts, requests, settlementsInFlight, handed, made, faults>>

(* The map is in memory; what the application stored is not. *)
ClientRestart ==
  /\ Fault
  /\ preparedByNullifier' = << >>
  /\ drafts' = {}
  /\ requests' = [i \in DOMAIN requests |-> [requests[i] EXCEPT !.waiting = FALSE]]
  /\ UNCHANGED <<poolVars, books, settlementsInFlight, handed, made>>

-----------------------------------------------------------------------------
(* The facilitator, and the chain under its transactions *)

Reply(i, pc) == requests' = [requests EXCEPT ![i].pc = pc]

(* A simulation that fails for an outside reason is an invalid payment. *)
Verify(i) ==
  /\ requests[i].pc = "verify"
  /\ \/ Relayable(requests[i].payment) /\ Reply(i, "verified") /\ UNCHANGED faults
     \/ ~Relayable(requests[i].payment) /\ Reply(i, "rejected") /\ UNCHANGED faults
     \/ Relayable(requests[i].payment) /\ Reply(i, "rejected") /\ Fault
  /\ UNCHANGED <<poolVars, clientVars, settlementsInFlight, handed, made>>

(* settle up to the transaction that is sent: the set of settlements in     *)
(* flight, the second simulation, and the answers they give.                *)
Settle(i) ==
  /\ requests[i].pc = "verified"
  /\ IF requests[i].payment.nullifier \notin settlementsInFlight /\ Relayable(requests[i].payment)
     THEN /\ requests' = [requests EXCEPT ![i].pc = "relaying", ![i].tx = "sent"]
          /\ settlementsInFlight' = settlementsInFlight \cup {requests[i].payment.nullifier}
     ELSE /\ Reply(i, "failed")
          /\ UNCHANGED settlementsInFlight
  /\ UNCHANGED <<poolVars, clientVars, handed, made, faults>>

Land(i) ==
  /\ requests[i].tx = "sent"
  /\ RelayWithdrawal(requests[i].payment)
  /\ requests' = [requests EXCEPT ![i].tx = "landed"]
  /\ UNCHANGED <<intents, clientVars, settlementsInFlight, handed, made, faults>>

(* It fails on chain, or its blockhash expires. *)
Expire(i) ==
  /\ requests[i].tx = "sent"
  /\ requests' = [requests EXCEPT ![i].tx = "gone"]
  /\ UNCHANGED <<poolVars, clientVars, settlementsInFlight, handed, made, faults>>

(* Fault: what was sent is taken for what has landed. *)
ConfirmSent(i) ==
  /\ requests[i].pc = "relaying"
  /\ Reply(i, "settled")
  /\ settlementsInFlight' = settlementsInFlight \ {requests[i].payment.nullifier}
  /\ UNCHANGED <<poolVars, clientVars, handed, made, faults>>

Confirm(i) ==
  /\ requests[i].pc = "relaying"
  /\ requests[i].tx = "landed"
  /\ Reply(i, "settled")
  /\ settlementsInFlight' = settlementsInFlight \ {requests[i].payment.nullifier}
  /\ UNCHANGED <<poolVars, clientVars, handed, made, faults>>

(* rpc() throws: the transaction is gone, or the wait for it has timed out. *)
RelayThrows(i) ==
  /\ requests[i].pc = "relaying"
  /\ \/ requests[i].tx = "gone" /\ UNCHANGED faults
     \/ requests[i].tx # "gone" /\ Fault
  /\ Reply(i, "failed")
  /\ settlementsInFlight' = settlementsInFlight \ {requests[i].payment.nullifier}
  /\ UNCHANGED <<poolVars, clientVars, handed, made>>

FacilitatorCrash ==
  /\ Fault
  /\ settlementsInFlight' = {}
  /\ requests' = [i \in DOMAIN requests |->
                 IF requests[i].pc \in {"verify", "verified", "relaying"}
                 THEN [requests[i] EXCEPT !.pc = "failed"] ELSE requests[i]]
  /\ UNCHANGED <<poolVars, clientVars, handed, made>>

-----------------------------------------------------------------------------
(* A relayer with a payment handed to it: through the receiver, or not *)

FulfillHanded(order, payment) ==
  /\ FulfillPrivatePayment(order, payment)
  /\ UNCHANGED <<clientVars, requests, settlementsInFlight, handed, made, faults>>

RelayHanded(payment) ==
  /\ RelayWithdrawal(payment)
  /\ UNCHANGED <<intents, clientVars, requests, settlementsInFlight, handed, made, faults>>

(* The postman, the owner and the merchants *)
Govern ==
  /\ \/ \E labels \in Approvals : labels \subseteq DOMAIN depositRecords /\ UpdateAspRoot(labels)
     \/ SetPaused(~pool.paused)
     \/ \E order \in Orders, amount \in Amounts : CreatePaymentIntent(order, amount)
  /\ UNCHANGED <<clientVars, requests, settlementsInFlight, handed, made, faults>>

SvmInit ==
  /\ PoolInit(Funds)
  /\ books = << >>
  /\ preparedByNullifier = << >>
  /\ drafts = {}
  /\ requests = << >>
  /\ settlementsInFlight = {}
  /\ handed = {}
  /\ made = 0
  /\ faults = 0

SvmNext ==
  \/ BuyerDeposit \/ BuyerDepositLost \/ OtherDeposit
  \/ \E note \in DOMAIN books, recipient \in Shops, amount \in Amounts :
       Draft(note, recipient, amount)
  \/ \E draft \in drafts : Register(draft) \/ RefuseDraft(draft)
  \/ \E i \in DOMAIN requests :
       \/ Resend(i) \/ ReceiveReply(i) \/ LoseReply(i) \/ StoreFails(i)
       \/ Verify(i) \/ Settle(i) \/ Land(i) \/ Expire(i) \/ Confirm(i) \/ RelayThrows(i)
  \/ \E nullifier \in DOMAIN preparedByNullifier : ReconcilePayment(nullifier)
  \/ ClientRestart
  \/ FacilitatorCrash
  \/ \E note \in Leaves, order \in Orders, amount \in Amounts, bps \in RelayFees :
       Hand(note, order, amount, bps)
  \/ \E payment \in handed :
       RelayHanded(payment) \/ \E order \in Orders : FulfillHanded(order, payment)
  \/ Govern

SvmSpec == SvmInit /\ [][SvmNext]_svmVars

-----------------------------------------------------------------------------
(* Properties *)

(* Types.  The state root in a payment is a nest of pairs, of no set.       *)
Status == {"spendable", "locked", "pending", "spent", "discarded"}

Note == [id : 1 .. MaxNotes, label : Nat, value : Nat]

Event == [leaf : Note, nullifier : 0 .. MaxNotes, recipient : Accounts, value : Nat]

Request ==
  [payment : {requests[i].payment : i \in DOMAIN requests},
   pc : {"verify", "verified", "relaying", "settled", "failed", "rejected"},
   tx : {"none", "sent", "landed", "gone"}, waiting : BOOLEAN]

PoolTypeOK ==
  /\ DOMAIN pool = {"paused", "aspRoot", "treeRoot", "frontier", "knownStateRoots", "knownStateRootsIdx"}
  /\ pool.paused \in BOOLEAN /\ pool.aspRoot \subseteq DOMAIN depositRecords
  /\ pool.frontier.size = Len(events) /\ DOMAIN pool.frontier.sideNodes = Levels
  /\ pool.knownStateRootsIdx \in Slots
  /\ depositRecords \in Seq(Users)
  /\ nullifierRecords \subseteq 1 .. made
  /\ intents \in [Orders -> [expectedAmount : Nat, fulfilled : BOOLEAN, nullifier : 0 .. MaxNotes]]
  /\ tokens \in [Accounts -> Nat]
  /\ events \in Seq(Event)
  /\ retained \in Nat

SvmTypeOK ==
  /\ PoolTypeOK
  /\ books \in [DOMAIN books -> Status]
  /\ \A n \in DOMAIN preparedByNullifier :
       preparedByNullifier[n] \in [draft : {preparedByNullifier[n].draft},
                                  status : {"prepared", "indeterminate"}]
  /\ requests \in Seq(Request) /\ Len(requests) <= MaxRequests
  /\ settlementsInFlight \subseteq 1 .. made
  /\ IsFiniteSet(handed) /\ Cardinality(handed) <= MaxHanded
  /\ made \in 0 .. MaxNotes
  /\ faults \in 0 .. MaxFaults

(* The root folded from the frontier is that of the LeanIMT over all leaves *)
(* ever inserted, which the SDK rebuilds from the events to prove against.  *)
FrontierIsLeanIMT ==
  events # << >> =>
    <<pool.treeRoot>> = Rows([i \in DOMAIN events |-> events[i].leaf.id])[pool.frontier.currentDepth]

(* No money is lost in doubt: of every deposit whose secrets the buyer has, *)
(* the note that is live now is in its books as one it can spend, or one it *)
(* keeps until the doubt is resolved.                                       *)
NothingLost ==
  \A note \in Leaves :
    /\ Live(note)
    /\ note.value > 0
    /\ \E known \in DOMAIN books : known.label = note.label
    => note \in DOMAIN books /\ books[note] \in {"spendable", "locked", "pending"}

(* A request may yet spend the note it names, and there is one for this     *)
(* nullifier.                                                               *)
Alive(request) == request.pc \in {"verify", "verified"} \/ request.tx = "sent"

InDoubt(nullifier) ==
  \E i \in DOMAIN requests :
    requests[i].payment.nullifier = nullifier /\ Alive(requests[i])

(* A note the books call spendable is unspent, and no earlier attempt to    *)
(* spend it is still on its way.                                            *)
SpendableIsSafe ==
  \A note \in DOMAIN books :
    books[note] = "spendable" => note.id \notin nullifierRecords /\ ~InDoubt(note.id)

(* What the books call spendable is in the pool.                            *)
SpendableIsInPool == \A note \in DOMAIN books : books[note] = "spendable" => note \in Leaves

(* A shop that is told its payment has settled has been paid by it, and an  *)
(* order that is fulfilled has its price, from a note no other order has.   *)
DeliveredIsPaid ==
  /\ \A i \in DOMAIN requests : requests[i].pc = "settled" =>
       \E j \in DOMAIN events :
         /\ events[j].leaf = requests[i].payment.change
         /\ events[j].recipient = requests[i].payment.recipient
         /\ events[j].value = requests[i].payment.amount
  /\ \A order \in Orders : intents[order].fulfilled =>
       /\ tokens[order] >= intents[order].expectedAmount
       /\ \E j \in DOMAIN events :
            /\ events[j].nullifier = intents[order].nullifier
            /\ events[j].recipient = order
            /\ events[j].value = intents[order].expectedAmount
  /\ \A order, other \in Orders :
       intents[order].fulfilled /\ intents[other].fulfilled /\ order # other
       => intents[order].nullifier # intents[other].nullifier

(* The pool implements NoteLedger: a deposit's credit is what its live note *)
(* is worth; the vetting fees stay in the vault and back nothing.           *)
LiveNotes(label) == {note \in Leaves : note.label = label /\ Live(note)}

Worth(notes) == IF notes = {} THEN 0 ELSE (CHOOSE note \in notes : TRUE).value

Credit == [label \in DOMAIN depositRecords |-> Worth(LiveNotes(label))]

Cash == [tokens EXCEPT ![Vault] = @ - retained]

Ledger == INSTANCE NoteLedger WITH
  owner <- depositRecords, credit <- Credit, approved <- pool.aspRoot, cash <- Cash

LedgerSpec == Ledger!Spec

(* A doubt is resolved: a payment in doubt whose note is spent leaves the   *)
(* map, and its change becomes spendable.                                   *)
DoubtEnds ==
  \A n \in 1 .. MaxNotes :
    n \in DOMAIN preparedByNullifier /\ n \in nullifierRecords ~> n \notin DOMAIN preparedByNullifier

Fairness ==
  /\ \A i \in 1 .. MaxRequests :
       WF_svmVars(i \in DOMAIN requests /\ (ReceiveReply(i) \/ Verify(i) \/ Settle(i) \/ Land(i) \/ Confirm(i) \/ RelayThrows(i)))
  /\ \A n \in 1 .. MaxNotes : WF_svmVars(n \in DOMAIN preparedByNullifier /\ ReconcilePayment(n))

FairSpec == SvmSpec /\ Fairness
=============================================================================
