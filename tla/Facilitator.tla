------------------------------ MODULE Facilitator ------------------------------
(***************************************************************************)
(* The x402 facilitator: access bought with a payment to the treasury      *)
(* (/facilitator/authorize), premium bought the same way (/user/upgrade),  *)
(* and settlements charged by tier and limited per agent                   *)
(* (/facilitator/settle), over one Redis store (facilitator-authz.ts) and  *)
(* the agents kept in the memory of the server.                            *)
(*                                                                         *)
(* Abstractions.  A request is in one of a few slots and interleaves with  *)
(* the others at its awaits.  Reading a receipt changes nothing, so the    *)
(* checks of a payment are one step.  A settlement's withdrawal is one     *)
(* call that lands or does not.  Time is the lapse of a key and the end of *)
(* a day.  A settlement that names no agent has no limit and counts        *)
(* nothing: it is left out.                                                *)
(***************************************************************************)
EXTENDS Naturals, FiniteSets

CONSTANTS
  Requests,          \* slots for requests in flight
  Payments,          \* transactions that pay the treasury
  Nullifiers,
  Agents,
  Payees,            \* registered providers among them have a tier
  Payer, Worth,      \* of each payment
  SignsFor,          \* the nullifiers a payment's payer signs it over to
  Contracts,         \* nullifiers with an enterprise contract
  AccessFee,         \* per tier that can be bought
  PremiumFee,
  TakeBps, Floor,    \* per tier
  ProviderTier,      \* per payee, what it registered for, or "none"
  MaxPerTx, MaxPerDay, \* an agent's limits
  Allowed,           \* the payees an agent may pay: all when its list is empty
  Amounts,           \* of settlements
  FEE_REQUIRED, OwnershipRequired,
  MaxForwarded,      \* bound: what an agent pays a day through the UTXO branch
  MaxLapses,         \* bound: keys that lapse
  MaxFaults          \* bound: requests that die, and restarts

Sold == {"standard", "compliance"}

Tiers == {"none", "enterprise"} \cup Sold

Purposes == {"authz", "premium"}

Users == {Payer[p] : p \in Payments}

ASSUME RequestsAssumption == IsFiniteSet(Requests) /\ Requests # {}
ASSUME PaymentsAssumption == DOMAIN Payer = Payments /\ Worth \in [Payments -> Nat]
ASSUME NullifiersAssumption == /\ SignsFor \in [Payments -> SUBSET Nullifiers]
                               /\ Contracts \subseteq Nullifiers
ASSUME FeesAssumption ==
  /\ AccessFee \in [Sold -> Nat] /\ PremiumFee \in Nat
  /\ TakeBps \in [Tiers -> Nat] /\ Floor \in [Sold -> Nat]
  /\ TakeBps["none"] = 0 /\ TakeBps["enterprise"] = 0
  /\ \A t \in Sold : TakeBps[t] > 0
ASSUME ProviderAssumption == ProviderTier \in [Payees -> Sold \cup {"none"}]
ASSUME AmountsAssumption == Amounts \subseteq Nat \ {0} /\ MaxPerTx \in Nat /\ MaxPerDay \in Nat
ASSUME AllowedAssumption == Allowed \in [Agents -> SUBSET Payees]
ASSUME FlagsAssumption == FEE_REQUIRED \in BOOLEAN /\ OwnershipRequired \in BOOLEAN
ASSUME BoundsAssumption == MaxForwarded \in Nat /\ MaxLapses \in Nat /\ MaxFaults \in Nat

VARIABLES
  mined,     \* payments with a successful receipt
  consumed,  \* Redis: zbase:consumed-tx:<purpose>:<payment>
  tier,      \* Redis: zbase:authz:<nullifier>
  premium,   \* Redis: zbase:premium:<user>
  agent,     \* the agent registry
  req,       \* the requests in flight
  bought,    \* history: how often each payment was used for each purpose
  grants,    \* history: what was recorded for a payment
  lapses,    \* history: how often each consumed key lapsed
  lapsed, faults

store == <<mined, consumed, tier, premium>>
history == <<bought, grants, lapses>>
vars == <<store, agent, req, history, lapsed, faults>>

Idle == [pc |-> "idle"]

(* dailySpent is the registry's; spent, of it lost to a dead request, and of it *)
(* forwarded to the UTXO pool are history, of the same day.                    *)
NoAgent ==
  [registered |-> FALSE, dailySpent |-> 0, dayOver |-> FALSE, spent |-> 0, lost |-> 0, forwarded |-> 0]

NewAgent == [NoAgent EXCEPT !.registered = TRUE]

-----------------------------------------------------------------------------
(* A payment buys access or premium *)

(* PaymentMined is the payer's own transaction. *)
PaymentMined(p) ==
  /\ p \notin mined
  /\ mined' = mined \cup {p}
  /\ UNCHANGED <<consumed, tier, premium, agent, req, history, lapsed, faults>>

(* Fault: the fee of the standard tier will do for any. *)
PaysForStandard(p, t) == p \in mined /\ Worth[p] >= AccessFee["standard"]

PaysFor(p, t) == p \in mined /\ Worth[p] >= AccessFee[t]

(* authorize up to tryConsumeTxHash: the receipt, the fee of the tier, and  *)
(* the signature of whoever paid over this payment and this nullifier.      *)
(* Whose the nullifier is nobody asks.                                      *)
Authorize(r, p, n, t) ==
  /\ req[r].pc = "idle"
  /\ PaysFor(p, t)
  /\ OwnershipRequired => n \in SignsFor[p]
  /\ req' = [req EXCEPT ![r] =
               [pc |-> "consume", purpose |-> "authz", payment |-> p, holder |-> n, tier |-> t]]
  /\ UNCHANGED <<store, agent, history, lapsed, faults>>

(* upgrade: premium is granted to the payer, and for nothing while fees are *)
(* not required.                                                            *)
Upgrade(r, p) ==
  /\ req[r].pc = "idle"
  /\ FEE_REQUIRED => p \in mined /\ Worth[p] >= PremiumFee
  /\ req' = [req EXCEPT ![r] =
               [pc |-> IF FEE_REQUIRED THEN "consume" ELSE "record", purpose |-> "premium",
                payment |-> p, holder |-> Payer[p], tier |-> "none"]]
  /\ UNCHANGED <<store, agent, history, lapsed, faults>>

(* Fault: the purposes are not told apart. *)
KeyShared(r) == req[r].payment

Key(r) == <<req[r].purpose, req[r].payment>>

(* Fault: the key is set whether or not it was there. *)
FreshAlways(key) == TRUE

Fresh(key) == key \notin consumed

(* tryConsumeTxHash: SET NX decides.  authorize then reads the tier on      *)
(* record, upgrade records at once.                                         *)
Consume(r) ==
  /\ req[r].pc = "consume"
  /\ IF Fresh(Key(r))
     THEN /\ consumed' = consumed \cup {Key(r)}
          /\ req' = [req EXCEPT ![r].pc = IF req[r].purpose = "authz" THEN "read" ELSE "record"]
     ELSE UNCHANGED consumed /\ req' = [req EXCEPT ![r] = Idle]
  /\ UNCHANGED <<mined, tier, premium, agent, history, lapsed, faults>>

Rank == [none |-> 0, standard |-> 1, compliance |-> 2, enterprise |-> 3]

(* The read half of recordAuthorization. *)
Read(r) ==
  /\ req[r].pc = "read"
  /\ req' = [req EXCEPT ![r] =
               [pc |-> "record", purpose |-> "authz", payment |-> req[r].payment,
                holder |-> req[r].holder, tier |-> req[r].tier, existing |-> tier[req[r].holder]]]
  /\ UNCHANGED <<store, agent, history, lapsed, faults>>

(* The write half of recordAuthorization, and recordUserPremium.  A tier    *)
(* that was as high already is only kept alive.                             *)
Record(r) ==
  /\ req[r].pc = "record"
  /\ IF req[r].purpose = "premium"
     THEN premium' = premium \cup {req[r].holder} /\ UNCHANGED tier
     ELSE /\ UNCHANGED premium
          /\ tier' = IF Rank[req[r].existing] >= Rank[req[r].tier] THEN tier
                     ELSE [tier EXCEPT ![req[r].holder] = req[r].tier]
  /\ bought' = [bought EXCEPT ![<<req[r].purpose, req[r].payment>>] = @ + 1]
  /\ grants' = grants \cup {[payment |-> req[r].payment, holder |-> req[r].holder, tier |-> req[r].tier]}
  /\ req' = [req EXCEPT ![r] = Idle]
  /\ UNCHANGED <<mined, consumed, agent, lapses, lapsed, faults>>

(* The TTLs: 7 days for a consumed payment, 30 for what it bought. *)
LapseConsumed(key) ==
  /\ key \in consumed
  /\ consumed' = consumed \ {key}
  /\ lapses' = [lapses EXCEPT ![key] = @ + 1]
  /\ UNCHANGED <<mined, tier, premium, agent, req, bought, grants, faults>>

LapseTier(n) ==
  /\ tier[n] # "none"
  /\ tier' = [tier EXCEPT ![n] = "none"]
  /\ UNCHANGED <<mined, consumed, premium, agent, req, history, faults>>

LapsePremium(user) ==
  /\ user \in premium
  /\ premium' = premium \ {user}
  /\ UNCHANGED <<mined, consumed, tier, agent, req, history, faults>>

Lapse ==
  /\ lapsed < MaxLapses
  /\ lapsed' = lapsed + 1
  /\ \/ \E key \in consumed : LapseConsumed(key)
     \/ \E n \in Nullifiers : LapseTier(n)
     \/ \E user \in Users : LapsePremium(user)

-----------------------------------------------------------------------------
(* Settlements *)

(* resolveEffectiveFeeTier: the tier with the higher take. *)
EffectiveTier(providerTier, nullifierTier) ==
  IF providerTier = "none" THEN nullifierTier
  ELSE IF nullifierTier = "none" \/ TakeBps[providerTier] >= TakeBps[nullifierTier] THEN providerTier
  ELSE nullifierTier

(* minimumSettleAtomic: the least amount whose take reaches the floor. *)
MinimumSettle(t) ==
  IF t \in Sold THEN (Floor[t] * 10000 + TakeBps[t] - 1) \div TakeBps[t] ELSE 0

(* A window that has run 24 hours starts again at the next look. *)
Rolled(record) ==
  IF record.dayOver THEN NewAgent ELSE record

(* Fault: the payment itself is left out of the sum. *)
WithinLimitsBefore(record, amount) == amount <= MaxPerTx /\ record.dailySpent <= MaxPerDay

WithinLimits(record, amount) == amount <= MaxPerTx /\ record.dailySpent + amount <= MaxPerDay

(* settle up to the call of /api/withdraw: the fee gates, the agent's       *)
(* limits and the list of those it may pay.                                 *)
Settle(r, n, payee, a, amount) ==
  LET quoted == EffectiveTier(ProviderTier[payee], tier[n])
      record == Rolled(agent[a])
  IN /\ req[r].pc = "idle"
     /\ FEE_REQUIRED => quoted # "none"
     /\ amount >= MinimumSettle(quoted)
     /\ record.registered
     /\ WithinLimits(record, amount)
     /\ payee \in Allowed[a]
     /\ agent' = [agent EXCEPT ![a] = record]
     /\ req' = [req EXCEPT ![r] = [pc |-> "withdraw", nullifier |-> n, agent |-> a,
                                   amount |-> amount, quoted |-> quoted]]
     /\ UNCHANGED <<store, history, lapsed, faults>>

(* The UTXO branch: the fee gates by the nullifier's tier alone, and of the *)
(* agent's limits only the one per payment.                                 *)
SettleUtxo(r, n, a, amount) ==
  /\ req[r].pc = "idle"
  /\ FEE_REQUIRED => tier[n] # "none"
  /\ amount >= MinimumSettle(tier[n])
  /\ agent[a].registered
  /\ amount <= MaxPerTx
  /\ agent[a].forwarded < MaxForwarded
  /\ req' = [req EXCEPT ![r] = [pc |-> "forward", agent |-> a, amount |-> amount]]
  /\ UNCHANGED <<store, agent, history, lapsed, faults>>

(* What a payment through that branch adds: nothing the registry counts.    *)
Forwarding(record, amount) == [record EXCEPT !.spent = @ + amount, !.forwarded = @ + amount]

(* The UTXO withdrawal lands and the receipt is sent. *)
Forward(r) ==
  /\ req[r].pc = "forward"
  /\ agent' = [agent EXCEPT ![req[r].agent] = Forwarding(@, req[r].amount)]
  /\ req' = [req EXCEPT ![r] = Idle]
  /\ UNCHANGED <<store, history, lapsed, faults>>

(* A settlement that is refused, or /facilitator/verify: the window rolls. *)
Look(a) ==
  /\ agent[a].registered
  /\ agent[a].dayOver
  /\ agent' = [agent EXCEPT ![a] = Rolled(@)]
  /\ UNCHANGED <<store, req, history, lapsed, faults>>

(* /api/withdraw resolves the fee again, from the recipient it is given: a  *)
(* registered provider is paid at a fresh stealth address, which is no      *)
(* provider's.                                                              *)
ChargedTier(r) == EffectiveTier("none", tier[req[r].nullifier])

Withdraw(r) ==
  /\ req[r].pc = "withdraw"
  /\ agent' = [agent EXCEPT ![req[r].agent].spent = @ + req[r].amount]
  /\ req' = [req EXCEPT ![r] = [pc |-> "answer", agent |-> req[r].agent, amount |-> req[r].amount,
                                quoted |-> req[r].quoted, charged |-> ChargedTier(r)]]
  /\ UNCHANGED <<store, history, lapsed, faults>>

WithdrawRefused(r) ==
  /\ req[r].pc \in {"withdraw", "forward"}
  /\ req' = [req EXCEPT ![r] = Idle]
  /\ UNCHANGED <<store, agent, history, lapsed, faults>>

(* The counters are raised and the receipt is sent. *)
Answer(r) ==
  /\ req[r].pc = "answer"
  /\ agent' = [agent EXCEPT ![req[r].agent].dailySpent = @ + req[r].amount]
  /\ req' = [req EXCEPT ![r] = Idle]
  /\ UNCHANGED <<store, history, lapsed, faults>>

DayOver(a) ==
  /\ agent[a].registered
  /\ ~agent[a].dayOver
  /\ agent' = [agent EXCEPT ![a].dayOver = TRUE]
  /\ UNCHANGED <<store, req, history, lapsed, faults>>

RegisterAgent(a) ==
  /\ ~agent[a].registered
  /\ agent' = [agent EXCEPT ![a] = NewAgent]
  /\ UNCHANGED <<store, req, history, lapsed, faults>>

-----------------------------------------------------------------------------
(* Faults *)

(* A request dies: the store or the connection fails, or its time is up.    *)
(* The withdrawal it called for may land all the same.                      *)
Die(r) ==
  /\ req[r].pc # "idle"
  /\ faults < MaxFaults
  /\ faults' = faults + 1
  /\ req' = [req EXCEPT ![r] = Idle]
  /\ \/ req[r].pc # "answer" /\ UNCHANGED agent
     \/ /\ req[r].pc = "withdraw"
        /\ agent' = [agent EXCEPT ![req[r].agent].spent = @ + req[r].amount,
                                  ![req[r].agent].lost = @ + req[r].amount]
     \/ /\ req[r].pc = "forward"
        /\ agent' = [agent EXCEPT ![req[r].agent] = Forwarding(@, req[r].amount)]
     \/ /\ req[r].pc = "answer"
        /\ agent' = [agent EXCEPT ![req[r].agent].lost = @ + req[r].amount]
  /\ UNCHANGED <<store, history, lapsed>>

(* The server restarts: requests and agents are gone. *)
Restart ==
  /\ faults < MaxFaults
  /\ faults' = faults + 1
  /\ req' = [r \in Requests |-> Idle]
  /\ agent' = [a \in Agents |-> NoAgent]
  /\ UNCHANGED <<store, history, lapsed>>

-----------------------------------------------------------------------------
Init ==
  /\ mined = {}
  /\ consumed = {}
  /\ tier = [n \in Nullifiers |-> IF n \in Contracts THEN "enterprise" ELSE "none"]
  /\ premium = {}
  /\ agent = [a \in Agents |-> NoAgent]
  /\ req = [r \in Requests |-> Idle]
  /\ bought = [key \in Purposes \X Payments |-> 0]
  /\ lapses = [key \in Purposes \X Payments |-> 0]
  /\ grants = {}
  /\ lapsed = 0
  /\ faults = 0

Buying(r) ==
  \/ \E p \in Payments, n \in Nullifiers, t \in Sold : Authorize(r, p, n, t)
  \/ \E p \in Payments : Upgrade(r, p)
  \/ Consume(r)
  \/ Read(r)
  \/ Record(r)

Settling(r) ==
  \/ \E n \in Nullifiers, payee \in Payees, a \in Agents, amount \in Amounts :
       Settle(r, n, payee, a, amount)
  \/ \E n \in Nullifiers, a \in Agents, amount \in Amounts : SettleUtxo(r, n, a, amount)
  \/ Withdraw(r)
  \/ Forward(r)
  \/ WithdrawRefused(r)
  \/ Answer(r)

Next ==
  \/ \E p \in Payments : PaymentMined(p)
  \/ \E r \in Requests : Buying(r) \/ Settling(r) \/ Die(r)
  \/ \E a \in Agents : RegisterAgent(a) \/ Look(a) \/ DayOver(a)
  \/ Lapse
  \/ Restart

Spec == Init /\ [][Next]_vars

-----------------------------------------------------------------------------
(* Properties *)

(* Types: what the store holds, and what a request in flight carries.       *)
TypeOK ==
  /\ mined \subseteq Payments
  /\ consumed \subseteq Purposes \X Payments
  /\ tier \in [Nullifiers -> Tiers]
  /\ premium \subseteq Users
  /\ agent \in [Agents -> [registered : BOOLEAN, dailySpent : Nat, dayOver : BOOLEAN,
                           spent : Nat, lost : Nat, forwarded : Nat]]
  /\ \A r \in Requests :
       req[r].pc \in {"consume", "read", "record"} => req[r].payment \in Payments
  /\ lapsed \in 0 .. MaxLapses
  /\ faults \in 0 .. MaxFaults

(* A payment buys one authorisation and one premium, over retries, requests *)
(* in parallel and several instances; once more only for every time that    *)
(* the key which says it was consumed lapsed.                               *)
PaymentBuysOnce ==
  \A key \in Purposes \X Payments : FEE_REQUIRED \/ key[1] = "authz" => bought[key] <= 1 + lapses[key]

(* Whoever holds a tier without a contract, or premium, has it from a       *)
(* payment of at least that tier's price, one whose payer signed it over to *)
(* this very nullifier where the signature is asked for; a payment signed   *)
(* over to several pays for one at a time (PaymentBuysOnce).                *)
TierWasPaid ==
  /\ \A n \in Nullifiers :
       tier[n] \in Sold =>
         \E g \in grants :
           /\ g.holder = n /\ g.tier = tier[n]
           /\ Worth[g.payment] >= AccessFee[tier[n]]
           /\ OwnershipRequired => n \in SignsFor[g.payment]
  /\ \A user \in premium : FEE_REQUIRED => \E p \in mined : Payer[p] = user /\ Worth[p] >= PremiumFee

(* An agent spends more than its daily limit only by what was in flight at  *)
(* once and by settlements whose answer was lost, the limit being looked at *)
(* before the withdrawal and counted after it; and by what it pays through  *)
(* the UTXO branch, which no daily limit holds (settle's comment: a         *)
(* "Daily-cap mutation intentionally omitted"), however much that is.       *)
DailyLimitUpToFlight ==
  \A a \in Agents :
    agent[a].spent <= MaxPerDay + (Cardinality(Requests) - 1) * MaxPerTx
                        + agent[a].lost + agent[a].forwarded

(* "Upgrade-only semantics": a tier on record is never replaced by a lower. *)
UpgradeOnly ==
  [][\A n \in Nullifiers : tier'[n] # "none" => Rank[tier'[n]] >= Rank[tier[n]]]_vars

(* The receipt's "per-settle fee is ON-CHAIN": the tier a receipt quotes is *)
(* the tier the withdrawal charged.                                         *)
ReceiptTellsTheFee ==
  \A r \in Requests : req[r].pc = "answer" => TakeBps[req[r].charged] = TakeBps[req[r].quoted]
=============================================================================
