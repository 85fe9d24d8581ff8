----------------------------- MODULE PrivateFetch -----------------------------
(***************************************************************************)
(* A buyer who pays private sellers one purchase after another: the        *)
(* client's createPrivateFetch and the second half of payAndFetch, which   *)
(* presents the payment header it was settled with; the sellers' wrapper   *)
(* withPrivateX402, which verifies, runs the handler and settles; and the  *)
(* facilitator routes x402/verify and x402/settle, which broadcast the     *)
(* transferWithAuthorization the header carries.                           *)
(*                                                                         *)
(* The first half, the private settlement of a note, is here by what       *)
(* SettleX402 shows of it: a settled answer hands out the header of the    *)
(* withdrawal that spent the note, a record replays it whichever seller is *)
(* asked for, any other answer says nothing.  A header is named by its     *)
(* note, as only one withdrawal of a note lands.  The change note of note  *)
(* n is n + 1.  Reads of a balance lag in either direction.                *)
(***************************************************************************)
EXTENDS Naturals, Sequences

CONSTANTS
  Seller,
  Sends,      \* requests with a header per purchase, 3 in the code
  MaxBuys,    \* bound: purchases
  Overlaps    \* whether a purchase may begin while another is under way

ASSUME SendsAssumption == Sends \in Nat \ {0}
ASSUME BuysAssumption == MaxBuys \in Nat /\ Overlaps \subseteq BOOLEAN

Note == 1 .. MaxBuys + 1

VARIABLES
  overlap,    \* the buyer's program calls again before it has the answer
  current,    \* the buyer's note for the next purchase
  buys,       \* the purchases, in the order they began
  asked,      \* purchases whose withdrawal may still land
  fundedBy,   \* per note, the purchase whose withdrawal spent it, or 0
  recorded,   \* notes with a settled record in the store
  expired,    \* notes whose header is past its validBefore
  runs,       \* requests with a header, at their seller
  relays,     \* runs whose transfer was broadcast and is neither mined nor dropped
  usedBy      \* per note, the run whose transfer used the authorization, or 0

settlementVars == <<asked, fundedBy, recorded>>
sellerVars == <<runs, relays, usedBy>>
vars == <<overlap, current, buys, settlementVars, expired, sellerVars>>

(* Where a purchase is: it asks for the settlement; it is about to send the    *)
(* header; it waits for the seller; it has returned.  "unpaid" is an uncertain *)
(* settlement or a throw.                                                      *)
Purchase == [note : Note, seller : Seller, pc : {"settling", "send", "waiting", "done"},
             sends : 0 .. Sends, run : Nat,
             outcome : {"none", "unpaid", "delivered", "settled_not_delivered"}]

(* Where a run is: it has arrived; the payment is verified; the handler has    *)
(* succeeded; the transfer is broadcast; it has answered.                      *)
Run == [note : Note, seller : Seller, pc : {"arrived", "verified", "handled", "relayed", "ended"},
        served : BOOLEAN, receipt : {"none", "success", "reverted"},
        answer : {"none", "ok", "402", "error", "lost"}]

TypeOK ==
  /\ overlap \in Overlaps
  /\ current \in Note
  /\ buys \in Seq(Purchase) /\ Len(buys) <= MaxBuys
  /\ asked \subseteq DOMAIN buys
  /\ fundedBy \in [Note -> 0 .. Len(buys)]
  /\ recorded \subseteq Note /\ expired \subseteq Note
  /\ runs \in Seq(Run)
  /\ relays \subseteq DOMAIN runs
  /\ usedBy \in [Note -> 0 .. Len(runs)]

Init ==
  /\ overlap \in Overlaps
  /\ current = 1
  /\ buys = << >>
  /\ asked = {} /\ fundedBy = [n \in Note |-> 0] /\ recorded = {}
  /\ expired = {}
  /\ runs = << >> /\ relays = {} /\ usedBy = [n \in Note |-> 0]

-----------------------------------------------------------------------------
(* The private settlement *)

(* A purchase reads the note before anything is awaited.  A free answer, a     *)
(* price too high and a probe that fails return before and change nothing.     *)
Buy(seller) ==
  /\ Len(buys) < MaxBuys
  /\ overlap \/ \A b \in DOMAIN buys : buys[b].pc = "done"
  /\ buys' = Append(buys, [note |-> current, seller |-> seller, pc |-> "settling", sends |-> 0,
                           run |-> 0, outcome |-> "none"])
  /\ UNCHANGED <<overlap, current, settlementVars, expired, sellerVars>>

(* The route finds no record and the note unspent, and asks for a withdrawal   *)
(* to the payer account of this note and seller.                               *)
Dispatch(b) ==
  /\ buys[b].pc = "settling" /\ b \notin asked
  /\ buys[b].note \notin recorded /\ fundedBy[buys[b].note] = 0
  /\ asked' = asked \cup {b}
  /\ UNCHANGED <<overlap, current, buys, fundedBy, recorded, expired, sellerVars>>

(* The pool accepts the first withdrawal of a note, whoever still waits for it.*)
Land(b) ==
  /\ b \in asked
  /\ asked' = asked \ {b}
  /\ fundedBy' = IF fundedBy[buys[b].note] = 0 THEN [fundedBy EXCEPT ![buys[b].note] = b] ELSE fundedBy
  /\ UNCHANGED <<overlap, current, buys, recorded, expired, sellerVars>>

LandNot(b) ==
  /\ b \in asked
  /\ asked' = asked \ {b}
  /\ UNCHANGED <<overlap, current, buys, fundedBy, recorded, expired, sellerVars>>

Finalize(n) ==
  /\ fundedBy[n] # 0
  /\ recorded' = recorded \cup {n}
  /\ UNCHANGED <<overlap, current, buys, asked, fundedBy, expired, sellerVars>>

(* settled:true, replayed from the record or from the post that withdrew. *)
Settled(b) ==
  /\ buys[b].pc = "settling"
  /\ buys[b].note \in recorded \/ fundedBy[buys[b].note] = b
  /\ buys' = [buys EXCEPT ![b].pc = "send"]
  /\ UNCHANGED <<overlap, current, settlementVars, expired, sellerVars>>

(* Fault: an uncertain answer rotates the note too. *)
NotSettledRotates(b) ==
  /\ buys[b].pc = "settling"
  /\ buys' = [buys EXCEPT ![b].pc = "done", ![b].outcome = "unpaid"]
  /\ current' = buys[b].note + 1
  /\ UNCHANGED <<overlap, settlementVars, expired, sellerVars>>

(* Uncertain, or a throw: the note stays the one to pay with. *)
NotSettled(b) ==
  /\ buys[b].pc = "settling"
  /\ buys' = [buys EXCEPT ![b].pc = "done", ![b].outcome = "unpaid"]
  /\ UNCHANGED <<overlap, current, settlementVars, expired, sellerVars>>

(* The header was signed before the withdrawal, for maxTimeoutSeconds. *)
Expire(n) ==
  /\ fundedBy[n] # 0
  /\ expired' = expired \cup {n}
  /\ UNCHANGED <<overlap, current, buys, settlementVars, sellerVars>>

-----------------------------------------------------------------------------
(* The header is presented *)

(* sendPaid *)
Send(b) ==
  /\ buys[b].pc = "send"
  /\ runs' = Append(runs, [note |-> buys[b].note, seller |-> buys[b].seller, pc |-> "arrived",
                           served |-> FALSE, receipt |-> "none", answer |-> "none"])
  /\ buys' = [buys EXCEPT ![b].pc = "waiting", ![b].sends = @ + 1, ![b].run = Len(runs) + 1]
  /\ UNCHANGED <<overlap, current, settlementVars, expired, relays, usedBy>>

(* Nothing is thrown after a settlement: the purchase returns paid:true and    *)
(* the change note becomes current.                                            *)
Return(b, outcome) ==
  /\ buys' = [buys EXCEPT ![b].pc = "done", ![b].outcome = outcome]
  /\ current' = buys[b].note + 1

(* A 402 is retried, as the seller's node may not have seen the payer funded.  *)
Receive(b) ==
  /\ buys[b].pc = "waiting"
  /\ LET answer == runs[buys[b].run].answer
     IN \/ answer = "ok" /\ Return(b, "delivered")
        \/ answer = "402" /\ buys[b].sends < Sends
           /\ buys' = [buys EXCEPT ![b].pc = "send"] /\ UNCHANGED current
        \/ answer = "402" /\ buys[b].sends = Sends /\ Return(b, "settled_not_delivered")
        \/ answer \in {"error", "lost"} /\ Return(b, "settled_not_delivered")
  /\ UNCHANGED <<overlap, settlementVars, expired, sellerVars>>

(* The request fails, the seller's run goes on. *)
LoseResponse(b) ==
  /\ buys[b].pc = "waiting"
  /\ Return(b, "settled_not_delivered")
  /\ UNCHANGED <<overlap, settlementVars, expired, sellerVars>>

-----------------------------------------------------------------------------
(* The seller and the facilitator *)

Payee(n) == buys[fundedBy[n]].seller

Answered(r, answer) == runs' = [runs EXCEPT ![r].pc = "ended", ![r].answer = answer]

(* verifyExactPaymentLocal: the header pays this seller and is in its window.  *)
(* The balance of the payer is looked at as well, on a node that may lag.      *)
Verifies(r) == Payee(runs[r].note) = runs[r].seller /\ runs[r].note \notin expired

(* requirePrivateX402 *)
Verify(r) ==
  /\ runs[r].pc = "arrived"
  /\ \/ Verifies(r) /\ runs' = [runs EXCEPT ![r].pc = "verified"]
     \/ Answered(r, "402")
  /\ UNCHANGED <<overlap, current, buys, settlementVars, expired, relays, usedBy>>

(* Fault: a handler's error is settled like its success. *)
HandleAll(r) ==
  /\ runs[r].pc = "verified"
  /\ \E ok \in BOOLEAN : runs' = [runs EXCEPT ![r].pc = "handled", ![r].served = ok]
  /\ UNCHANGED <<overlap, current, buys, settlementVars, expired, relays, usedBy>>

(* The handler runs before the money moves; its own error is the answer. *)
Handle(r) ==
  /\ runs[r].pc = "verified"
  /\ \/ runs' = [runs EXCEPT ![r].pc = "handled", ![r].served = TRUE]
     \/ Answered(r, "error")
  /\ UNCHANGED <<overlap, current, buys, settlementVars, expired, relays, usedBy>>

(* x402/settle verifies again and broadcasts; an error on the way is a 402. *)
Settle(r) ==
  /\ runs[r].pc = "handled"
  /\ \/ Verifies(r) /\ runs' = [runs EXCEPT ![r].pc = "relayed"] /\ relays' = relays \cup {r}
     \/ Answered(r, "402") /\ UNCHANGED relays
  /\ UNCHANGED <<overlap, current, buys, settlementVars, expired, usedBy>>

(* The token takes an authorization once, in its window. *)
Mine(r) ==
  LET n == runs[r].note
      lands == usedBy[n] = 0 /\ n \notin expired
  IN /\ r \in relays
     /\ relays' = relays \ {r}
     /\ usedBy' = IF lands THEN [usedBy EXCEPT ![n] = r] ELSE usedBy
     /\ runs' = [runs EXCEPT ![r].receipt = IF lands THEN "success" ELSE "reverted"]
     /\ UNCHANGED <<overlap, current, buys, settlementVars, expired>>

MineNot(r) ==
  /\ r \in relays
  /\ relays' = relays \ {r}
  /\ UNCHANGED <<overlap, current, buys, settlementVars, expired, runs, usedBy>>

(* Fault: a transaction that is mined counts as one that succeeded. *)
ReceiptUnread(r) ==
  /\ runs[r].pc = "relayed"
  /\ \/ runs[r].receipt # "none" /\ Answered(r, "ok")
     \/ Answered(r, "402")
  /\ UNCHANGED <<overlap, current, buys, settlementVars, expired, relays, usedBy>>

(* sendPostmanTx waits for the receipt and looks at its status; the wait may   *)
(* time out and the facilitator's answer may be lost.                          *)
Receipt(r) ==
  /\ runs[r].pc = "relayed"
  /\ \/ runs[r].receipt = "success" /\ Answered(r, "ok")
     \/ Answered(r, "402")
  /\ UNCHANGED <<overlap, current, buys, settlementVars, expired, relays, usedBy>>

(* The seller's process ends. *)
Crash(r) ==
  /\ runs[r].pc # "ended"
  /\ Answered(r, "lost")
  /\ UNCHANGED <<overlap, current, buys, settlementVars, expired, relays, usedBy>>

-----------------------------------------------------------------------------
BuyerStep(b) ==
  \/ Dispatch(b) \/ Land(b) \/ LandNot(b) \/ Settled(b) \/ NotSettled(b)
  \/ Send(b) \/ Receive(b) \/ LoseResponse(b)

SellerStep(r) ==
  \/ Verify(r) \/ Handle(r) \/ Settle(r) \/ Mine(r) \/ MineNot(r) \/ Receipt(r) \/ Crash(r)

Next ==
  \/ \E seller \in Seller : Buy(seller)
  \/ \E b \in DOMAIN buys : BuyerStep(b)
  \/ \E n \in Note : Finalize(n) \/ Expire(n)
  \/ \E r \in DOMAIN runs : SellerStep(r)

Spec == Init /\ [][Next]_vars

-----------------------------------------------------------------------------
(* Properties *)

(* A purchase reported delivered was paid by the very transfer of the request  *)
(* that was answered, and to the seller who answered: though headers are       *)
(* replayed for another seller, transfers land after their request has been    *)
(* refused, and retries and overlapping purchases present one header twice     *)
(* (payAndFetch, withPrivateX402, x402/settle).                                *)
DeliveredIsPaid ==
  \A b \in DOMAIN buys : buys[b].outcome = "delivered" =>
    /\ usedBy[buys[b].note] = buys[b].run
    /\ Payee(buys[b].note) = buys[b].seller

(* A buyer who waits for every answer pays with the first note that is not     *)
(* behind it: the notes before are spent, those beyond are not.  Rotation      *)
(* neither skips a note nor goes back, whatever was lost (createPrivateFetch). *)
PointerIsFrontier ==
  ~overlap => \A n \in Note :
    /\ n < current => fundedBy[n] # 0
    /\ n > current => fundedBy[n] = 0

(* Money moves for a request whose handler succeeded, "so buyers aren't        *)
(* charged for errors" (withPrivateX402), also by a transfer that lands after  *)
(* the request it was broadcast for has ended.                                 *)
NotChargedForErrors == \A n \in Note : usedBy[n] # 0 => runs[usedBy[n]].served

(* The same for a 402 as the last answer: a purchase that was not delivered    *)
(* has not paid.                                                               *)
UndeliveredIsUnpaid ==
  \A b \in DOMAIN buys : buys[b].outcome = "settled_not_delivered" => usedBy[buys[b].note] = 0

(* The handler runs once per purchase: retries are made on a 402 only, "to     *)
(* avoid repeating a non-idempotent provider POST" (payAndFetch).              *)
ServedOnce ==
  \A r, q \in DOMAIN runs : runs[r].served /\ runs[q].served /\ runs[r].note = runs[q].note => r = q

(* The note of the next purchase never goes back (createPrivateFetch), which   *)
(* overlapping purchases of one note break.                                    *)
PointerAdvances == [][current' >= current]_vars

(* A settlement that reached the payer account can be had again: "re-run the   *)
(* settle, re-derive the same key, re-sign" (deriveX402PayerKey).              *)
NeverStranded ==
  \A b \in DOMAIN buys :
    buys[b].pc = "settling" /\ fundedBy[buys[b].note] # 0 /\ Payee(buys[b].note) = buys[b].seller
    => ENABLED Settled(b)

(* A settled purchase holds a header for its own seller. *)
HeaderIsForTheSeller ==
  \A b \in DOMAIN buys : buys[b].pc = "send" => Payee(buys[b].note) = buys[b].seller
=============================================================================
